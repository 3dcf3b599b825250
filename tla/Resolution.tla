----------------------------- MODULE Resolution -----------------------------
(***************************************************************************)
(* From the name of a request to the token it is recorded under:           *)
(* internal/domain/manager.go keeps the zones in a trie over their labels, *)
(* last label first, and internal/token/token.go looks for the token among *)
(* the labels before the zone. Tokens come and go while a request looks    *)
(* them up one by one. Module Bootstrap says where the zones come from.    *)
(*                                                                         *)
(* A name is the sequence of its labels; a final dot makes an empty one.   *)
(* No white space surrounds it: what TrimSpace takes away is not modelled. *)
(***************************************************************************)
EXTENDS Integers, Sequences, FiniteSets, SequencesExt

CONSTANTS
  Hosts,     \* names that requests are for, as they are spelled
  Folded,    \* label -> its lower case, for the labels that have one
  Labels     \* the labels that a token may have, all in lower case

ASSUME NameAssumption == \A name \in Hosts : name \in Seq(Range(name))
ASSUME LabelAssumption == Labels \cap DOMAIN Folded = {}

VARIABLES
  nodes,      \* the paths of the trie's nodes, <<>> for the root
  terminal,   \* path -> the domain that ends there
  added,      \* history: the zones that were added, as Norm makes them
  serving,    \* the collectors answer
  tokens,     \* values of the stored tokens
  req,        \* the request: [pc, prefix, at, failed, ...]
  steady      \* history: tokens stored ever since the request began

trieVars == <<nodes, terminal, added>>
resVars == <<trieVars, serving, tokens, req, steady>>

Lower(name) ==
  [i \in DOMAIN name |-> IF name[i] \in DOMAIN Folded THEN Folded[name[i]] ELSE name[i]]

\* normalize and splitLabels: lower case, and one final dot goes.
Norm(name) ==
  IF name # <<>> /\ Last(name) = "" THEN Front(Lower(name)) ELSE Lower(name)

-----------------------------------------------------------------------------
(* The trie.                                                               *)

PathOf(name) == Reverse(Norm(name))
FirstOf(path, n) == SubSeq(path, 1, n)

\* NewManager: the root alone, and no request.
ResInit ==
  /\ nodes = {<<>>} /\ terminal = <<>> /\ added = {}
  /\ serving = FALSE /\ tokens = {}
  /\ req = [pc |-> "none"] /\ steady = {}

\* The process ends, with the tokens that the store keeps.
ResDown(kept) ==
  /\ nodes' = {<<>>} /\ terminal' = <<>> /\ added' = {}
  /\ serving' = FALSE /\ tokens' = kept
  /\ req' = [pc |-> "none"] /\ steady' = {}

\* insert: every node on the way, and the last one ends the zone; a domain that
\* ends there already is replaced.
Insert(d, path) ==
  /\ nodes' = nodes \cup {FirstOf(path, n) : n \in 0..Len(path)}
  /\ terminal' = [p \in DOMAIN terminal \cup {path} |->
                    IF p = path THEN d ELSE terminal[p]]
  /\ added' = added \cup {Norm(d.name)}

Add(d) == Insert(d, PathOf(d.name))

\* How far the walk goes: to the last node that is there.
Depth(path) ==
  CHOOSE n \in 0..Len(path) :
    /\ FirstOf(path, n) \in nodes
    /\ n = Len(path) \/ FirstOf(path, n + 1) \notin nodes

Ends(path) == {n \in 1..Depth(path) : FirstOf(path, n) \in DOMAIN terminal}

\* Fault: the walk ends at the first zone it meets.
ResolveShortest(host) ==
  LET path == PathOf(host)
  IN  IF Ends(path) = {} THEN [ok |-> FALSE]
      ELSE LET n == Min(Ends(path))
           IN  [ok |-> TRUE, domain |-> terminal[FirstOf(path, n)],
                prefix |-> FirstOf(Norm(host), Len(path) - n)]

\* Resolve: the last zone on the walk, and the labels before it.
Resolve(host) ==
  LET path == PathOf(host)
  IN  IF Ends(path) = {} THEN [ok |-> FALSE]
      ELSE LET n == Max(Ends(path))
           IN  [ok |-> TRUE, domain |-> terminal[FirstOf(path, n)],
                prefix |-> FirstOf(Norm(host), Len(path) - n)]

-----------------------------------------------------------------------------
(* A request. MatchToken looks at the labels from the zone on, one         *)
(* GetTokenByValue each.                                                   *)

Matched(i, how, failed) ==
  [pc |-> "matched", prefix |-> req.prefix, at |-> i, how |-> how, failed |-> failed]

\* handle(): a host outside the zones is answered and forgotten. A prefix of
\* one label is the token, registered or not; of none, there is no token.
Begin(host) ==
  /\ serving
  /\ req.pc \in {"none", "matched"}
  /\ Resolve(host).ok
  /\ LET prefix == Resolve(host).prefix
     IN  req' = IF Len(prefix) <= 1
                THEN [pc |-> "matched", prefix |-> prefix, at |-> Len(prefix), how |-> "only",
                      failed |-> {}]
                ELSE [pc |-> "scan", prefix |-> prefix, at |-> Len(prefix), failed |-> {}]
  /\ steady' = tokens
  /\ UNCHANGED <<trieVars, serving, tokens>>

\* Fault: after a miss the scan goes on from the other end.
LookupSkips ==
  /\ req.pc = "scan"
  /\ req' = IF req.prefix[req.at] \in tokens THEN Matched(req.at, "found", req.failed)
            ELSE IF req.at > 2 THEN [req EXCEPT !.at = req.at - 2]
            ELSE Matched(Len(req.prefix), "fallback", req.failed)
  /\ UNCHANGED <<trieVars, serving, tokens, steady>>

\* A label that is a token wins; when none is, the label next to the zone.
Lookup ==
  /\ req.pc = "scan"
  /\ req' = IF req.prefix[req.at] \in tokens THEN Matched(req.at, "found", req.failed)
            ELSE IF req.at > 1 THEN [req EXCEPT !.at = req.at - 1]
            ELSE Matched(Len(req.prefix), "fallback", req.failed)
  /\ UNCHANGED <<trieVars, serving, tokens, steady>>

\* GetTokenByValue returns another error: the database's, or that the context of
\* the request is cancelled. MatchToken takes it for a miss; failed is history.
LookupFails ==
  /\ req.pc = "scan"
  /\ LET failed == req.failed \cup {req.at}
     IN  req' = IF req.at > 1 THEN [req EXCEPT !.at = req.at - 1, !.failed = failed]
                ELSE Matched(Len(req.prefix), "fallback", failed)
  /\ UNCHANGED <<trieVars, serving, tokens, steady>>

TokenStored(t) ==
  /\ serving
  /\ t \notin tokens
  /\ tokens' = tokens \cup {t}
  /\ UNCHANGED <<trieVars, serving, req, steady>>

TokenGone(t) ==
  /\ t \in tokens
  /\ tokens' = tokens \ {t}
  /\ steady' = steady \ {t}
  /\ UNCHANGED <<trieVars, serving, req>>

-----------------------------------------------------------------------------
(* Properties.                                                             *)

\* The zones that a name lies in, by their definition. (The walk does not look at
\* the root: a domain "." serves nothing.)
ZonesOf(name) == {z \in added : z # <<>> /\ IsSuffix(z, Norm(name))}

\* The trie finds the longest configured zone that the name lies in, however
\* the zones nest and in whatever order they were added, and the prefix is what
\* the name has before it; a name in no zone has no match.
LongestZoneWins ==
  \A host \in Hosts :
    LET r == Resolve(host)
    IN  /\ r.ok = (ZonesOf(host) # {})
        /\ r.ok => LET zone == Norm(r.domain.name)
                   IN  /\ r.prefix \o zone = Norm(host)
                       /\ zone \in added
                       /\ \A z \in ZonesOf(host) : Len(z) <= Len(zone)

\* When a label is a token all through the scan, and its lookup does not fail, the
\* request is recorded under that token or one nearer the zone, although tokens
\* are created and purged between the lookups, and other lookups fail. (A token
\* whose own lookup fails may be passed over: MatchToken takes any error for "not
\* registered".)
ScanFindsSteadyToken ==
  req.pc = "matched" /\ Len(req.prefix) > 1 =>
    \A i \in DOMAIN req.prefix \ req.failed :
      req.prefix[i] \in steady => req.how = "found" /\ i <= req.at
=============================================================================
