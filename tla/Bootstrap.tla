----------------------------- MODULE Bootstrap -----------------------------
(***************************************************************************)
(* The zones that the process serves: config.Load reads the file that the  *)
(* operator edits between two starts, bootstrapDomains (cmd/oast/main.go)  *)
(* enters its domains into the store and into the trie of Resolution, and  *)
(* the admin API hands out tokens for the domains of the store. In SQLite  *)
(* the rows of an earlier start are still there; nothing deletes a domain. *)
(***************************************************************************)
EXTENDS Resolution

CONSTANTS
  Configs,     \* what the operator may write under "domains": <<[name, ip], ...>>
  MaxStarts    \* bound: starts of the process

ASSUME BootAssumption ==
  /\ \A c \in Configs : c \in Seq(Range(c)) /\ \A i \in DOMAIN c : c[i].name \in Seq(Range(c[i].name))
  /\ MaxStarts \in Nat

VARIABLES
  mode,        \* storage.mode: "memory" or "sqlite"
  starts,
  cfg,         \* the domains of the running process, <<>> when it is down
  at,          \* the domain that bootstrapDomains is at
  skipped,     \* history: the domains it had to leave out
  domains,     \* the rows of the store: id -> [id, name, ip]
  told         \* history: the last token, as its browser was told, or NoToken

bootVars == <<resVars, mode, starts, cfg, at, skipped, domains, told>>

NoToken == [value |-> "", domain |-> 0, name |-> <<>>]
NoName == <<>>

BootInit ==
  /\ ResInit
  /\ mode \in {"memory", "sqlite"}
  /\ starts = 0 /\ cfg = <<>> /\ at = 1 /\ skipped = {}
  /\ domains = <<>> /\ told = NoToken

-----------------------------------------------------------------------------
(* Start and stop.                                                         *)

\* validate: some domain, each with a name and an address, and no two names that
\* differ in case only. (A final dot is not looked at.)
Valid(c) ==
  /\ c # <<>>
  /\ \A i \in DOMAIN c : c[i].name # NoName /\ c[i].ip # ""
  /\ \A i, j \in DOMAIN c : i # j => Lower(c[i].name) # Lower(c[j].name)

\* A file that is not valid ends the process before it has done anything.
Start(c) ==
  /\ cfg = <<>> /\ starts < MaxStarts
  /\ Valid(c)
  /\ starts' = starts + 1
  /\ cfg' = c /\ at' = 1 /\ skipped' = {}
  /\ UNCHANGED <<resVars, mode, domains, told>>

\* The queries of both stores; a name has at most one row.
GetDomain(id) == domains[id]
GetDomainByName(name) == {d \in Range(domains) : d.name = name}
ListDomains == domains

\* CreateDomain's row for the domain that the bootstrap is at.
NewRow == [id |-> Len(domains) + 1, name |-> cfg[at].name, ip |-> cfg[at].ip]

Registering ==
  /\ ~serving /\ at \in DOMAIN cfg
  /\ at' = at + 1
  /\ UNCHANGED <<serving, tokens, req, steady, mode, starts, cfg, told>>

\* Fault: what is served is the file's domain, not the row.
RegisterAsConfigured ==
  /\ Registering
  /\ IF GetDomainByName(cfg[at].name) = {}
     THEN Add(NewRow) /\ domains' = Append(domains, NewRow)
     ELSE Add([NewRow EXCEPT !.id = 0]) /\ UNCHANGED domains
  /\ UNCHANGED skipped

\* Fault: a domain that the store has is left out.
RegisterNewOnly ==
  /\ Registering
  /\ IF GetDomainByName(cfg[at].name) = {}
     THEN Add(NewRow) /\ domains' = Append(domains, NewRow)
     ELSE UNCHANGED <<trieVars, domains>>
  /\ UNCHANGED skipped

\* One domain: CreateDomain, or the row of that name when there is one already.
Register ==
  /\ Registering
  /\ IF GetDomainByName(cfg[at].name) = {}
     THEN Add(NewRow) /\ domains' = Append(domains, NewRow)
     ELSE (\E d \in GetDomainByName(cfg[at].name) : Add(d)) /\ UNCHANGED domains
  /\ UNCHANGED skipped

\* CreateDomain fails and so does the lookup: the domain is not served. The
\* memory store has no such error.
RegisterFails ==
  /\ mode = "sqlite"
  /\ Registering
  /\ skipped' = skipped \cup {at}
  /\ UNCHANGED <<trieVars, domains>>

\* The bootstrap is through and the collectors start.
Serve ==
  /\ cfg # <<>> /\ ~serving /\ at > Len(cfg)
  /\ serving' = TRUE
  /\ UNCHANGED <<trieVars, tokens, req, steady, mode, starts, cfg, at, skipped, domains, told>>

\* The process ends, whether in order or not, at any point. What it had in
\* memory is gone.
Down ==
  /\ cfg # <<>>
  /\ cfg' = <<>> /\ at' = 1 /\ skipped' = {}
  /\ IF mode = "memory"
     THEN ResDown({}) /\ domains' = <<>> /\ told' = NoToken
     ELSE ResDown(tokens) /\ UNCHANGED <<domains, told>>
  /\ UNCHANGED <<mode, starts>>

-----------------------------------------------------------------------------
(* The running process.                                                    *)

\* The domain of a new token: the one asked for, else the first row. A name
\* without a row is refused.
Chosen(name) == IF name = NoName THEN {ListDomains[1]} ELSE GetDomainByName(name)

\* handleCreateToken; module AdminTokens has what else it does.
CreateToken(t, name) ==
  /\ ListDomains # <<>>
  /\ \E d \in Chosen(name) : told' = [value |-> t, domain |-> d.id, name |-> d.name]
  /\ TokenStored(t)
  /\ UNCHANGED <<mode, starts, cfg, at, skipped, domains>>

\* What the list of tokens shows as the domain of one.
ShownDomain(tk) == GetDomain(tk.domain).name

\* The owner deletes a token, or the sweeper does.
DropToken(t) ==
  /\ serving
  /\ told' = IF told.value = t THEN NoToken ELSE told
  /\ TokenGone(t)
  /\ UNCHANGED <<mode, starts, cfg, at, skipped, domains>>

\* A request, from its name to its token. No lookup of the memory store fails.
Collector ==
  /\ \/ \E host \in Hosts : Begin(host)
     \/ Lookup
     \/ mode = "sqlite" /\ LookupFails
  /\ UNCHANGED <<mode, starts, cfg, at, skipped, domains, told>>

BootNext ==
  \/ \E c \in Configs : Start(c)
  \/ Register \/ RegisterFails \/ Serve \/ Down
  \/ \E t \in Labels : (\E d \in Range(domains) : CreateToken(t, d.name))
                         \/ CreateToken(t, NoName) \/ DropToken(t)
  \/ Collector

BootSpec == BootInit /\ [][BootNext]_bootVars

-----------------------------------------------------------------------------
(* Properties.                                                             *)

\* The trie stays in sync with the store and the file, as the comment in
\* bootstrapDomains wants it: every zone served is a row of the store, under its
\* id, and one that the file names, whatever an earlier start has left behind.
\* Its address is the file's in memory only: a row of SQLite keeps its first one.
TrieInSync ==
  \A p \in DOMAIN terminal :
    LET d == terminal[p]
    IN  /\ d.id \in DOMAIN domains /\ domains[d.id] = d
        /\ p = PathOf(d.name)
        /\ \E i \in DOMAIN cfg :
             /\ cfg[i].name = d.name
             /\ mode = "memory" => cfg[i].ip = d.ip

\* A domain that the file has, in any spelling, and that was not left out.
Configured(name) ==
  \E i \in DOMAIN cfg \ skipped : Norm(cfg[i].name) = Norm(name)

\* A token can be called back under the name it was given: the token list shows
\* the domain its browser was told, and the collectors find the token before it,
\* also after any number of restarts with other files. In memory this always
\* holds. The rows of SQLite outlive the file, so there it takes that the file
\* still has the domain: a token may be given out for a zone nobody serves. (And
\* so it may in either store for the domain ".", which validate lets pass, and for
\* a token that is spelled as the label of a zone inside its domain.)
TokenIsServed ==
  serving /\ told # NoToken =>
    /\ ShownDomain(told) = told.name
    /\ Norm(told.name) # <<>> /\ <<told.value>> \o Norm(told.name) \notin added
         /\ (mode = "memory" \/ Configured(told.name)) =>
         LET r == Resolve(<<told.value>> \o told.name)
         IN  r.ok /\ r.prefix = <<told.value>>
=============================================================================
