---------------------------- MODULE AdminAccess ----------------------------
(***************************************************************************)
(* Who a request of the admin API is taken for (internal/api/server.go):   *)
(* the cookies of one browser, which sends its requests in parallel and    *)
(* applies each answer's Set-Cookie when it arrives, the middleware that   *)
(* names a visitor, the signed session behind the password, and the tokens *)
(* that are bound to the visitor. The limiter of LoginLimiter stands       *)
(* before the password; other peers only try to log in.                    *)
(***************************************************************************)
EXTENDS LoginLimiter

CONSTANTS
  Browser,      \* the peer that the browser is
  VisitorTTL,   \* auth.visitor_ttl
  SessMaxAge,   \* sessMaxAge
  MaxVid        \* bound: visitor ids ever drawn

ASSUME AccessAssumption ==
  /\ Browser \in Peers /\ MaxVid \in Nat
  /\ VisitorTTL \in Nat \ {0} /\ SessMaxAge \in Nat \ {0}

VARIABLES
  gated,     \* authRequired: a password is configured
  jar,       \* cookie -> [value, until], for the cookies that the browser has
  call,      \* per slot: the browser's request: [pc, ...]
  lastVid,   \* newVisitorID: every id drawn is new
  told,      \* history: [vid, until] of the tokens that the browser was told of
  raced,     \* history: two requests were out at once without that cookie
  right      \* history: the browser gave the right password, sessMaxAge ago at most

accVars == <<gated, jar, call, lastVid, told, raced, right>>
allVars == <<limVars, accVars>>

None == -1
NoCall == [pc |-> "none"]
NoCookie == [value |-> None, until |-> 0]

AccessInit ==
  /\ LimiterInit
  /\ gated \in BOOLEAN
  /\ jar = [c \in {"oast_vid", "oast_sess"} |-> NoCookie]
  /\ call = [r \in Slots |-> NoCall]
  /\ lastVid = 0 /\ told = {} /\ raced = FALSE /\ right = None

\* What the browser sends of a cookie.
Cookie(c) == jar[c].value

\* A request leaves the browser with the cookies of that moment.
Send(r, kind) ==
  /\ call[r] = NoCall /\ login[r] = NoPeer
  /\ Cookie("oast_vid") = None => lastVid + Cardinality({s \in Slots : call[s].pc = "sent"}) < MaxVid
  /\ call' = [call EXCEPT ![r] = [pc |-> "sent", kind |-> kind,
                                  vid |-> Cookie("oast_vid"), until |-> jar["oast_vid"].until,
                                  sess |-> Cookie("oast_sess")]]
  /\ raced' = (raced \/ (Cookie("oast_vid") = None
                           /\ \E s \in Slots : call[s] # NoCall /\ call[s].vid = None))
  /\ UNCHANGED <<limVars, gated, jar, lastVid, told, right>>

\* Fault: the handler is given what the cookie said.
VisitorFromCookie(r) == [id |-> call[r].vid, set |-> IF call[r].vid = None THEN lastVid + 1 ELSE None]

\* visitorMiddleware: who the request is taken for, and the cookie it sets.
Visitor(r) ==
  IF call[r].vid # None THEN [id |-> call[r].vid, set |-> None]
  ELSE [id |-> lastVid + 1, set |-> lastVid + 1]

\* The answer of the request in r: the session cookie it sets, and what it tells.
Answer(r, sess, tells) ==
  /\ lastVid' = IF Visitor(r).set = None THEN lastVid ELSE Visitor(r).set
  /\ call' = [call EXCEPT ![r] = [pc |-> "answered", vid |-> call[r].vid, until |-> call[r].until,
                                  set |-> Visitor(r).set, sess |-> sess, tells |-> tells]]

\* Fault: a session does not age.
ValidSessionForever(ts) == ts # None

\* validSession: signed at ts, and not too old. (The signature is taken as good.)
ValidSession(ts) == ts # None /\ now - ts <= SessMaxAge

\* authMiddleware and handleCreateToken.
Create(r) ==
  /\ call[r].pc = "sent" /\ call[r].kind = "create"
  /\ IF ~gated \/ ValidSession(call[r].sess)
     THEN Answer(r, <<>>, {Visitor(r).id})
     ELSE Answer(r, <<>>, {})
  /\ UNCHANGED <<limVars, gated, jar, told, raced, right>>

\* handleLogout sends a cookie that has ended.
Logout(r) ==
  /\ call[r].pc = "sent" /\ call[r].kind = "logout"
  /\ Answer(r, <<NoCookie>>, {})
  /\ UNCHANGED <<limVars, gated, jar, told, raced, right>>

\* handleLogin of the browser, up to the comparison; without a password, and
\* when the limiter says no, that is all.
LoginBegins(r) ==
  /\ call[r].pc = "sent" /\ call[r].kind = "login"
  /\ IF gated
     THEN /\ Allow(r, Browser)
          /\ IF login'[r] = Browser THEN UNCHANGED <<call, lastVid>> ELSE Answer(r, <<>>, {})
     ELSE Answer(r, <<>>, {}) /\ UNCHANGED limVars
  /\ UNCHANGED <<gated, jar, told, raced, right>>

LoginFails(r) ==
  /\ login[r] = Browser
  /\ Fail(r)
  /\ Answer(r, <<>>, {})
  /\ UNCHANGED <<gated, jar, told, raced, right>>

LoginSucceeds(r) ==
  /\ login[r] = Browser
  /\ LoggedIn(r)
  /\ Answer(r, <<[value |-> now, until |-> now + SessMaxAge]>>, {})
  /\ right' = now
  /\ UNCHANGED <<gated, jar, told, raced>>

\* Another peer's login, which this browser's cookies have no part in.
OthersLogin(r) ==
  /\ call[r] = NoCall
  /\ \/ gated /\ \E ip \in Peers \ {Browser} : Allow(r, ip)
     \/ Fail(r) \/ LoggedIn(r)
  /\ UNCHANGED accVars

\* The answer arrives: its cookies replace the browser's.
Arrives(r) ==
  /\ call[r].pc = "answered"
  /\ LET set == call[r].set
         ends == IF set = None THEN call[r].until ELSE now + VisitorTTL
     IN  /\ jar' = [jar EXCEPT
                      !["oast_vid"] = IF set = None THEN @ ELSE [value |-> set, until |-> ends],
                      !["oast_sess"] = IF call[r].sess = <<>> THEN @ ELSE call[r].sess[1]]
         /\ told' = told \cup {[vid |-> v, until |-> ends] : v \in {u \in call[r].tells : now < ends}}
  /\ call' = [call EXCEPT ![r] = NoCall]
  /\ UNCHANGED <<limVars, gated, lastVid, raced, right>>

\* The browser drops the cookies that have ended.
TimePasses ==
  /\ Tick
  /\ jar' = [c \in DOMAIN jar |-> IF now' < jar[c].until THEN jar[c] ELSE NoCookie]
  /\ told' = {tk \in told : now' < tk.until}
  /\ right' = IF right # None /\ now' - right <= SessMaxAge THEN right ELSE None
  /\ UNCHANGED <<gated, call, lastVid, raced>>

AccessNext ==
  \/ \E r \in Slots :
       \/ \E kind \in {"login", "logout", "create"} : Send(r, kind)
       \/ Create(r) \/ Logout(r)
       \/ LoginBegins(r) \/ LoginFails(r) \/ LoginSucceeds(r) \/ OthersLogin(r)
       \/ Arrives(r)
  \/ TimePasses

AccessSpec == AccessInit /\ [][AccessNext]_allVars

-----------------------------------------------------------------------------
(* Properties.                                                             *)

\* A token that the browser was told of stays in its list as long as the cookie
\* of its first request lasts, counted from that request and not from the last,
\* however long the token itself lives; unless two first requests were out at
\* once, of which the later answer takes the place of the other.
ToldTokenVisible ==
  raced \/ \A tk \in told : Cookie("oast_vid") = tk.vid

\* Nobody gets past the gate but a browser that gave the right password no
\* longer than sessMaxAge before the request was handled, in whatever order the
\* answers to its logins and logouts arrive.
GateNeedsLogin ==
  [][\A r \in Slots :
       gated /\ call[r].pc = "sent" /\ call'[r].pc = "answered" /\ call'[r].tells # {} =>
         right # None]_allVars
=============================================================================
