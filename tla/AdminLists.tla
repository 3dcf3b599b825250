----------------------------- MODULE AdminLists -----------------------------
(***************************************************************************)
(* A list of callbacks over AdminTokens: handleListInteractions of         *)
(* internal/api/server.go asks for the visitor's tokens, then for the      *)
(* interactions of their values, while tokens and callbacks come and go.   *)
(***************************************************************************)
EXTENDS AdminTokens

VARIABLES
  list,    \* the list in progress: [pc, by, scope], or none
  heard    \* history: interaction id -> who had its value when it came

listVars == <<list, heard>>

ListsInit == AdminInit /\ list = Idle /\ heard = <<>>

\* A callback is heard by the owner of a token with its value, if there is one.
Hear ==
  heard' = [i \in 1..lastIv' |->
              IF i <= lastIv THEN heard[i]
              ELSE {tokens[id].owner : id \in WithValue(ivs'[i])}]

ValuesOf(v) == {tokens[id].value : id \in TokensOf(v)}

\* ListTokensByUser.
ListTokens(v) ==
  /\ list.pc = "idle"
  /\ list' = [pc |-> "list", by |-> v, scope |-> ValuesOf(v)]
  /\ UNCHANGED <<adminVars, heard>>

\* The interactions a scope selects; an empty scope selects none.
Scoped(scope) == {i \in DOMAIN ivs : ivs[i] \in scope}

\* ListInteractions, the answer 200; or 500, as when the first call fails.
ListInteractions ==
  /\ list.pc = "list"
  /\ list' = Idle
  /\ UNCHANGED <<adminVars, heard>>

\* A list, like any other request, is not in progress for hours.
ListsNext ==
  \/ AdminNext /\ Hear /\ (now' # now => list.pc = "idle") /\ UNCHANGED list
  \/ \E v \in Visitors : ListTokens(v)
  \/ ListInteractions

ListsSpec == ListsInit /\ [][ListsNext]_<<adminVars, listVars>>

\* "Different browsers can never see each other's data" (visitorMiddleware): a
\* list shows no callback that came while another browser had its value. (Not
\* so: a callback is kept by value, and outlives its token; who is given the
\* value after that finds the callback in its list.)
NeverOthersData ==
  [][list.pc = "list" /\ list'.pc = "idle" =>
       \A i \in Scoped(list.scope) : heard[i] \subseteq {list.by}]_<<adminVars, listVars>>
=============================================================================
