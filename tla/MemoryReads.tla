---------------------------- MODULE MemoryReads ----------------------------
(***************************************************************************)
(* The queries of internal/storage/memory.go over the indexes of           *)
(* MemoryStore, each taking the path the code takes, compared with what    *)
(* they should return of the primary map.                                  *)
(*                                                                         *)
(* A filter has an ownership scope (a set of tokens, or Nil for none) and  *)
(* a token (or Nil). The filters by type, source, domain and time drop     *)
(* further records in the same way on every path and are left out, as is   *)
(* the page that is cut from the result.                                   *)
(***************************************************************************)
EXTENDS MemoryStore, SequencesExt

CONSTANT Nil

ASSUME NilAssumption == Nil \notin Tokens /\ \A scope \in SUBSET Tokens : scope # Nil

\* sort.Slice by the relation before: the i-th of S has i - 1 others before it.
Sorted(S, less) ==
  [i \in 1..Cardinality(S) |->
     CHOOSE x \in S : Cardinality({y \in S : <<y, x>> \in less}) = i - 1]

Pairs == (DOMAIN interactions) \X (DOMAIN interactions)

\* Fault: records of one stamp are shown oldest first.
NewerTiesUp ==
  {p \in Pairs : LET a == p[1] b == p[2] IN
     \/ interactions[a].at > interactions[b].at
     \/ interactions[a].at = interactions[b].at /\ a < b}

\* sort.Slice of the scoped branch: by stamp, then by id, newest first.
Newer ==
  {p \in Pairs : LET a == p[1] b == p[2] IN
     \/ interactions[a].at > interactions[b].at
     \/ interactions[a].at = interactions[b].at /\ a > b}

\* A scope sorted by id alone, as InteractionStatsByTokens does.
NewerById == {p \in Pairs : p[1] > p[2]}

OwnedBy(scope) == UNION {Range(ListOf(t)) : t \in scope}
OfToken(ids, token) == {id \in ids : token = Nil \/ interactions[id].token = token}

\* Fault: an empty scope taken for no scope.
ListOpenScope(scope, token) ==
  IF scope \notin {Nil, {}}
  THEN Sorted(OfToken(OwnedBy(scope), token), Newer)
  ELSE IF token # Nil THEN Reverse(ListOf(token))
  ELSE Reverse(order)

\* ListInteractions: the matches, newest first (in a scope the code sorts before it
\* drops what does not match). A scope that is empty and not nil matches nothing.
ListInteractions(scope, token) ==
  IF scope # Nil
  THEN Sorted(OfToken(OwnedBy(scope), token), Newer)
  ELSE IF token # Nil THEN Reverse(ListOf(token))
  ELSE Reverse(order)

CountInteractionsByToken(t) == Len(ListOf(t))

\* InteractionStatsByTokens: the total and the most recent, newest first.
InteractionStatsByTokens(scope) ==
  [interactions |-> Cardinality(OwnedBy(scope)),
   recent |-> Sorted(OwnedBy(scope), NewerById)]

-----------------------------------------------------------------------------
(* Properties.                                                             *)

Scopes == {Nil} \cup SUBSET Tokens

Matching(scope, token) ==
  {id \in DOMAIN interactions :
     /\ scope = Nil \/ interactions[id].token \in scope
     /\ token = Nil \/ interactions[id].token = token}

\* Every path of ListInteractions and of the counters finds the interactions
\* that match, all of them and each once: none of another visitor's, and none
\* at all for a visitor without tokens.
ReadsAreScoped ==
  lock = "free" =>
    \A scope \in Scopes, token \in Tokens \cup {Nil} :
      LET found == ListInteractions(scope, token)
      IN  /\ Range(found) = Matching(scope, token)
          /\ Len(found) = Cardinality(Matching(scope, token))
          /\ token \in Tokens =>
               CountInteractionsByToken(token) = Cardinality(Matching(Nil, token))
          /\ scope # Nil =>
               InteractionStatsByTokens(scope).interactions
                 = Cardinality(Matching(scope, Nil))

\* What comes first was inserted last.
LastInFirst(found) ==
  \A i, j \in DOMAIN found : i < j =>
    \E k, l \in DOMAIN order : l < k /\ order[k] = found[i] /\ order[l] = found[j]

\* While the clock has not been set back the three orders in use (insertion,
\* stamp, id) are the same on every path, so that the lists and the dashboard show
\* the same newest interactions.
ReadsAgreeOnOrder ==
  lock = "free" /\ ~stepped =>
    \A scope \in Scopes :
      /\ \A token \in Tokens \cup {Nil} : LastInFirst(ListInteractions(scope, token))
      /\ scope # Nil =>
           ListInteractions(scope, Nil) = InteractionStatsByTokens(scope).recent
=============================================================================
