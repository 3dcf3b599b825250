------------------------------ MODULE Delivery ------------------------------
(***************************************************************************)
(* What the ingestion path promises to its producers, whatever buffers,    *)
(* workers and batches it is built from: an offered event is accepted or   *)
(* refused; an accepted event is delivered at most once; it is lost only   *)
(* after shutdown has begun or the store has broken; and it does not stay  *)
(* pending for ever.                                                       *)
(***************************************************************************)
CONSTANT Events   \* the events that may be offered

VARIABLES pending,    \* accepted, neither delivered nor lost
          delivered,
          lost,
          refused,
          impaired    \* shutdown has begun, or the store has broken

vars == <<pending, delivered, lost, refused, impaired>>

Offered == pending \cup delivered \cup lost \cup refused

Init ==
  /\ pending = {}
  /\ delivered = {}
  /\ lost = {}
  /\ refused = {}
  /\ impaired = FALSE

Accept(e) ==
  /\ e \in Events \ Offered
  /\ pending' = pending \cup {e}
  /\ UNCHANGED <<delivered, lost, refused, impaired>>

Refuse(e) ==
  /\ e \in Events \ Offered
  /\ refused' = refused \cup {e}
  /\ UNCHANGED <<pending, delivered, lost, impaired>>

\* A batch is delivered as a whole ...
Deliver(S) ==
  /\ S # {} /\ S \subseteq pending
  /\ pending' = pending \ S
  /\ delivered' = delivered \cup S
  /\ UNCHANGED <<lost, refused, impaired>>

\* ... or lost as a whole.
Lose(S) ==
  /\ impaired
  /\ S # {} /\ S \subseteq pending
  /\ pending' = pending \ S
  /\ lost' = lost \cup S
  /\ UNCHANGED <<delivered, refused, impaired>>

Impair ==
  /\ ~impaired
  /\ impaired' = TRUE
  /\ UNCHANGED <<pending, delivered, lost, refused>>

Settle(S) == Deliver(S) \/ Lose(S)

Next ==
  \/ \E e \in Events : Accept(e) \/ Refuse(e)
  \/ \E S \in SUBSET Events : Settle(S)
  \/ Impair

Safety == Init /\ [][Next]_vars

\* Every pending event is settled at last, alone or with its batch.
Spec ==
  /\ Safety
  /\ \A e \in Events :
       WF_vars(\E S \in SUBSET Events : e \in S /\ Settle(S))
=============================================================================
