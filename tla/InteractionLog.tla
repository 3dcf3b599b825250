--------------------------- MODULE InteractionLog ---------------------------
(***************************************************************************)
(* What a capped store of interactions promises: a set of records that     *)
(* grows by whole batches under fresh ids, loses its oldest records to the *)
(* per-token and the global cap, and loses records to deletion and to      *)
(* retention. Nothing else removes or changes a record.                    *)
(***************************************************************************)
EXTENDS Integers, Sequences, FiniteSets

CONSTANTS Tokens, MaxInteractions, MaxPerToken, MaxBatch, Times

VARIABLES log,    \* the records: [id, token, at]
          last    \* the last id given out

logVars == <<log, last>>

\* The records of S among its n newest, by id.
Newest(S, n) == {r \in S : Cardinality({q \in S : q.id >= r.id}) <= n}

OfToken(S, t) == {r \in S : r.token = t}

\* First each token keeps its newest records, then the store does.
Capped(S) ==
  Newest(UNION {Newest(OfToken(S, t), MaxPerToken) : t \in Tokens}, MaxInteractions)

LogInit == log = {} /\ last = 0

Add(toks, ats) ==
  LET new == {[id |-> last + i, token |-> toks[i], at |-> ats[i]] : i \in DOMAIN toks}
  IN  /\ log' = Capped(log \cup new)
      /\ last' = last + Len(toks)

AddBatch ==
  \E n \in 1..MaxBatch : \E toks \in [1..n -> Tokens], ats \in [1..n -> Times] :
    Add(toks, ats)

Delete(r) ==
  /\ log' = log \ {r}
  /\ UNCHANGED last

\* Retention removes records older than a cutoff; the whole of them, unless
\* the clock once ran backwards.
Expire(cutoff) ==
  /\ log' \subseteq log
  /\ \A r \in log \ log' : r.at < cutoff
  /\ UNCHANGED last

LogNext ==
  \/ AddBatch
  \/ \E r \in log : Delete(r)
  \/ \E cutoff \in Times : Expire(cutoff)

LogSpec == LogInit /\ [][LogNext]_logVars
=============================================================================
