--------------------------- MODULE ShutdownProofs ---------------------------
(***************************************************************************)
(* The shutdown of the process, for any requests, any of them slow, any    *)
(* workers and any sizes. What the bus keeps under whatever its callers do *)
(* (AnyStep) holds here at once; what it keeps only while nobody submits   *)
(* between the two halves of Stop (CalmStep) holds if no budget ran out.   *)
(***************************************************************************)
EXTENDS Shutdown, EventBusProofs

ReqStates == {"none", "busy", "done", "aborted"}
MainStates == {"serving", "stopping", "closing", "exited", "crashed"}

\* The servers go down one by one, and the bus after the last.
OrderInv ==
  /\ req \in [Events -> ReqStates]
  /\ asked \in 0..4 /\ down \in 0..4
  /\ down <= asked /\ asked <= down + 1
  /\ main \in MainStates
  /\ main = "serving" => stop = "running"
  /\ stop # "running" => down = 4
  /\ closed => stop # "running"

\* A request that is still busy when its server is down made a budget run
\* out, and only a slow one can.
OverrunInv ==
  /\ \A e \in Events : req[e] = "busy" =>
       \A i \in 1..down : Servers[i] = ServerOf[e] => CollectorOf(ServerOf[e]) \in expired
  /\ \A c \in expired : \E e \in Slow : CollectorOf(ServerOf[e]) = c

\* A panic comes from such a request, and a crash from a panic over DNS.
PanicInv ==
  /\ \A e \in panicked : CollectorOf(ServerOf[e]) \in expired
  /\ main = "crashed" => "dns" \in expired

ShutInv ==
  /\ OnceInv /\ TotalInv /\ (OneWorker => LineInv)
  /\ OrderInv /\ OverrunInv /\ PanicInv
  /\ expired = {} => StopInv

LEMMA FourServers == Len(Servers) = 4 /\ \A e \in Events : \E i \in 1..4 : Servers[i] = ServerOf[e]
<1>1. Len(Servers) = 4 /\ DOMAIN Servers = 1..4  BY DEF Servers
<1>2. \A e \in Events : ServerOf[e] \in Range(Servers)  BY ServerAssumption
<1> QED  BY <1>1, <1>2 DEF Range

\* Once the last server is down, who still runs has overrun.
LEMMA LateIsOverrun ==
  ASSUME OverrunInv, down = 4, NEW e \in Events, req[e] = "busy"
  PROVE  CollectorOf(ServerOf[e]) \in expired
BY FourServers DEF OverrunInv

LEMMA ShutInvInit == ProcInit => ShutInv
<1> SUFFICES ASSUME ProcInit PROVE ShutInv  OBVIOUS
<1>1. OnceInv /\ TotalInv /\ LineInv /\ StopInv
  BY OnceInvInit, TotalInvInit, LineInvInit, StopInvInit DEF ProcInit
<1>2. OrderInv  BY DEF ProcInit, Init, OrderInv, ReqStates, MainStates
<1>3. OverrunInv /\ PanicInv  BY DEF ProcInit, Init, OverrunInv, PanicInv
<1> QED  BY <1>1, <1>2, <1>3 DEF ShutInv

\* Seen from the bus, a step of the process is a step of its own or none, and
\* a Submit between cancel and close needs an overrun.
LEMMA ProcIsBusStep ==
  /\ [ProcNext]_allVars => [AnyStep]_vars
  /\ OrderInv /\ OverrunInv /\ expired = {} /\ [ProcNext]_allVars => [CalmStep]_vars
<1> SUFFICES ASSUME [ProcNext]_allVars
             PROVE  /\ [AnyStep]_vars
                    /\ OrderInv /\ OverrunInv /\ expired = {} => [CalmStep]_vars
  OBVIOUS
<1>1. CASE UNCHANGED vars  BY <1>1
<1>2. ASSUME NEW e \in Events, Record(e)
      PROVE  AnyStep /\ (OrderInv /\ OverrunInv /\ expired = {} => CalmStep)
  <2>1. Submit(e) /\ req[e] = "busy"  BY <1>2 DEF Record
  <2>2. OrderInv /\ OverrunInv /\ expired = {} => stop # "cancelled"
    BY <2>1, LateIsOverrun DEF OrderInv
  <2> QED  BY <2>1, <2>2 DEF AnyStep, CalmStep
<1>3. CASE \E w \in Workers : Worker(w)  BY <1>3 DEF AnyStep, CalmStep
<1>4. CASE StoreBreaks \/ BusStop  BY <1>4 DEF AnyStep, CalmStep, BusStop
<1>5. UNCHANGED allVars => UNCHANGED vars  BY DEF allVars
<1>6. ASSUME NEW e \in Events, Arrive(e) \/ Ignore(e) PROVE UNCHANGED vars
  BY <1>6 DEF Arrive, Ignore
<1>7. CASE ShutdownServer \/ ServerDown \/ BudgetExpires \/ Exit
  BY <1>7 DEF ShutdownServer, ServerDown, BudgetExpires, Exit
<1> QED
  BY <1>1, <1>2, <1>3, <1>4, <1>5, <1>6, <1>7 DEF ProcNext, Handler, Ended

LEMMA BusPart ==
  ShutInv /\ [ProcNext]_allVars /\ expired \subseteq expired' =>
    OnceInv' /\ TotalInv' /\ (OneWorker => LineInv)' /\ (expired' = {} => StopInv')
<1> SUFFICES ASSUME ShutInv, [ProcNext]_allVars, expired \subseteq expired'
             PROVE  /\ OnceInv' /\ TotalInv' /\ (OneWorker => LineInv)'
                    /\ (expired' = {} => StopInv')
  OBVIOUS
<1>1. [AnyStep]_vars /\ (expired = {} => [CalmStep]_vars)
  BY ProcIsBusStep DEF ShutInv
<1>2. OnceInv' /\ TotalInv'  BY <1>1, OnceInvStep, TotalInvStep DEF ShutInv
<1>3. expired = {} => StopInv'  BY <1>1, StopInvKept DEF ShutInv, OnceInv
<1>4. (OneWorker => LineInv)'
  <2>1. OneWorker' = OneWorker  BY DEF OneWorker
  <2> QED  BY <1>1, <2>1, LineInvStep DEF ShutInv
<1> QED  BY <1>2, <1>3, <1>4

\* A step of the process keeps the order of the shutdown and blames a slow
\* request for what goes wrong in it.
LEMMA ProcPart ==
  ShutInv /\ [ProcNext]_allVars =>
    OrderInv' /\ OverrunInv' /\ PanicInv' /\ expired \subseteq expired'
<1> SUFFICES ASSUME ShutInv, [ProcNext]_allVars
             PROVE  OrderInv' /\ OverrunInv' /\ PanicInv' /\ expired \subseteq expired'
  OBVIOUS
<1>1. OrderInv /\ OverrunInv /\ PanicInv  BY DEF ShutInv
<1> USE FourServers DEF OrderInv, ReqStates, MainStates
<1>2. ASSUME NEW e \in Events, Arrive(e)
      PROVE  OrderInv' /\ OverrunInv' /\ PanicInv' /\ expired \subseteq expired'
  <2>1. /\ UNCHANGED <<panicked, stop, closed, asked, down, expired, main>>
        /\ req' = [req EXCEPT ![e] = "busy"]
    BY <1>2 DEF Arrive, vars, callerVars, stopVars
  <2>2. \A i \in 1..down : Servers[i] # ServerOf[e]
    BY <1>1, <1>2 DEF Arrive, Listening
  <2>3. OverrunInv'
    <3>1. ASSUME NEW x \in Events, req'[x] = "busy", NEW i \in 1..down,
                 Servers[i] = ServerOf[x]
          PROVE  CollectorOf(ServerOf[x]) \in expired
      <4>1. x # e  BY <2>2, <3>1
      <4>2. req[x] = "busy"  BY <1>1, <2>1, <3>1, <4>1
      <4> QED  BY <1>1, <3>1, <4>2 DEF OverrunInv
    <3> QED  BY <1>1, <2>1, <3>1 DEF OverrunInv
  <2> QED  BY <1>1, <2>1, <2>3 DEF PanicInv
<1>3. ASSUME NEW e \in Events, NEW r \in {"done", "aborted"},
             req' = [req EXCEPT ![e] = r], UNCHANGED <<down, expired>>
      PROVE  OverrunInv'
  <2>1. \A x \in Events : req'[x] = "busy" => req[x] = "busy"  BY <1>1, <1>3
  <2> QED  BY <1>1, <1>3, <2>1 DEF OverrunInv
<1>4. ASSUME NEW e \in Events, Ignore(e)
      PROVE  OrderInv' /\ OverrunInv' /\ PanicInv' /\ expired \subseteq expired'
  <2>1. /\ UNCHANGED <<panicked, stop, closed, asked, down, expired, main>>
        /\ req' = [req EXCEPT ![e] = "done"]
    BY <1>4 DEF Ignore, vars, callerVars, stopVars
  <2> QED  BY <1>1, <1>3, <2>1 DEF PanicInv
<1>5. ASSUME NEW e \in Events, Record(e)
      PROVE  OrderInv' /\ OverrunInv' /\ PanicInv' /\ expired \subseteq expired'
  <2>1. /\ UNCHANGED <<stop, closed, asked, down, expired>>
        /\ req[e] = "busy" /\ panicked' \subseteq panicked \cup {e}
        /\ main' \in {main, "crashed"} /\ main # "crashed"
        /\ main' = "crashed" => e \in panicked' /\ CollectorOf(ServerOf[e]) = "dns"
    BY <1>5 DEF Record, Submit, SubmitAccepted, SubmitDropped, SubmitPanics, stopVars, Alive
  <2>2. PICK r \in {"done", "aborted"} : req' = [req EXCEPT ![e] = r]
    BY <1>5 DEF Record
  <2>3. e \in panicked' => e \in panicked \/ closed
    BY <1>5 DEF Record, Submit, SubmitAccepted, SubmitDropped, SubmitPanics
  <2>4. closed => CollectorOf(ServerOf[e]) \in expired
    BY <1>1, <2>1, LateIsOverrun
  <2>5. OverrunInv'  BY <1>3, <2>1, <2>2
  <2>6. OrderInv'  BY <1>1, <2>1, <2>2
  <2>7. PanicInv'  BY <1>1, <2>1, <2>3, <2>4 DEF PanicInv
  <2> QED  BY <2>1, <2>5, <2>6, <2>7
<1>6. CASE UNCHANGED <<procVars, closed, stop, panicked>>
  BY <1>1, <1>6 DEF procVars, OverrunInv, PanicInv
<1>7. CASE \/ \E w \in Workers : Worker(w) /\ UNCHANGED procVars
           \/ StoreBreaks /\ UNCHANGED procVars
           \/ UNCHANGED allVars
  <2>1. UNCHANGED <<procVars, closed, stop, panicked>>
    BY <1>7 DEF Worker, Receive, ReceiveClosed, Tick, CtxDone, DrainClosed, DrainEmpty,
                CtxRefused, CtxPassed, Insert, InsertFails, Count, StoreBreaks,
                allVars, vars, callerVars, stopVars
  <2> QED  BY <1>6, <2>1
<1>8. CASE ShutdownServer
  BY <1>1, <1>8 DEF ShutdownServer, OverrunInv, PanicInv, vars, callerVars, stopVars
<1>9. CASE ServerDown
  <2>1. /\ UNCHANGED <<panicked, stop, closed, req, asked, expired, main>>
        /\ main = "serving" /\ asked = down + 1 /\ down' = asked
        /\ InFlight(Servers[asked]) = {} \/ CollectorOf(Servers[asked]) \in expired
    BY <1>9 DEF ServerDown, vars, callerVars, stopVars
  <2>2. ASSUME NEW x \in Events, req[x] = "busy", NEW i \in 1..asked,
               Servers[i] = ServerOf[x]
        PROVE  CollectorOf(ServerOf[x]) \in expired
    <3>1. CASE i \in 1..down  BY <1>1, <2>2, <3>1 DEF OverrunInv
    <3>2. CASE i = asked
      <4>1. x \in InFlight(Servers[asked])  BY <2>2, <3>2 DEF InFlight
      <4> QED  BY <2>1, <2>2, <3>2, <4>1
    <3> QED  BY <1>1, <2>1, <2>2, <3>1, <3>2
  <2>3. OverrunInv'  BY <1>1, <2>1, <2>2 DEF OverrunInv
  <2> QED  BY <1>1, <2>1, <2>3 DEF PanicInv
<1>10. CASE BudgetExpires
  <2>1. /\ UNCHANGED <<panicked, stop, closed, req, asked, down, main>>
        /\ main = "serving" /\ expired' = expired \cup {CollectorOf(Servers[asked])}
        /\ InFlight(Servers[asked]) \cap Slow # {}
    BY <1>10 DEF BudgetExpires, vars, callerVars, stopVars
  <2>2. PICK x \in Slow : ServerOf[x] = Servers[asked]  BY <2>1 DEF InFlight
  <2>3. OverrunInv'  BY <1>1, <2>1, <2>2 DEF OverrunInv
  <2> QED  BY <1>1, <2>1, <2>3 DEF PanicInv
<1>11. CASE BusStop
  <2>1. /\ UNCHANGED <<panicked, req, asked, down, expired>> /\ down = 4
        /\ main' \in {"closing", "stopping"} /\ stop' # "running"
    BY <1>11 DEF BusStop, Stop, StopCancel, StopClose, StopDone, StopTimeout, callerVars
  <2>2. closed' => stop' # "running"  BY <2>1
  <2> QED  BY <1>1, <2>1, <2>2 DEF OverrunInv, PanicInv
<1>12. CASE Exit
  BY <1>1, <1>12 DEF Exit, OverrunInv, PanicInv, vars, callerVars, stopVars
<1> QED
  BY <1>2, <1>4, <1>5, <1>7, <1>8, <1>9, <1>10, <1>11, <1>12
     DEF ProcNext, Handler, Ended

LEMMA ShutInvStep == ShutInv /\ [ProcNext]_allVars => ShutInv'
  BY BusPart, ProcPart DEF ShutInv

LEMMA ShutInvHolds == ProcSpec => []ShutInv
  BY ShutInvInit, ShutInvStep, PTL DEF ProcSpec

-----------------------------------------------------------------------------
(* Theorems.                                                               *)

\* Also with the collectors around it, and late requests after its end, a bus
\* with one worker stores the interactions in the order of their submission.
THEOREM OrderIsKeptToTheEnd == ProcSpec => []OneWorkerKeepsOrder
<1>1. ShutInv => OneWorkerKeepsOrder
  <2>1. ~OneWorker => OneWorkerKeepsOrder  BY DEF OneWorker, OneWorkerKeepsOrder
  <2> QED  BY <2>1, LineIsOrder DEF ShutInv
<1> QED  BY <1>1, ShutInvHolds, PTL

\* main.go stops the collectors before the bus so that no Submit meets the
\* closed channel: only a request that outlived its collector's budget does.
THEOREM OverrunIsToBlame == ProcSpec => []LateSubmitNeedsOverrun
<1>1. ShutInv => LateSubmitNeedsOverrun
  BY DEF ShutInv, PanicInv, LateSubmitNeedsOverrun
<1> QED  BY <1>1, ShutInvHolds, PTL

\* However many uploads are slow, and whenever, none of them takes the process
\* down as long as no DNS handler is slow.
THEOREM SlowUploadsDoNotCrash == ProcSpec => []NeverCrashes
<1>1. ShutInv => NeverCrashes
  BY DEF ShutInv, PanicInv, OverrunInv, NeverCrashes
<1> QED  BY <1>1, ShutInvHolds, PTL

\* If no budget ran out and the bus stopped in time, the process ends with
\* nothing in motion and with an exact total.
THEOREM ExitIsClean == ProcSpec => []CleanExit
<1>1. ShutInv => CleanExit
  <2> SUFFICES ASSUME ShutInv, expired = {}, stop = "stopped"
               PROVE  Pending = {} /\ total = Len(rows)
    BY DEF CleanExit
  <2>1. \A w \in Workers : Exited(w)  BY DEF ShutInv, StopInv
  <2>2. ch = <<>>  BY <2>1, WorkersAssumption DEF ShutInv, StopInv, Exited
  <2>3. Pending = {}  BY <2>1, <2>2, EmptySeqFacts DEF Pending
  <2> QED  BY <2>1, <2>3, TotalSettled DEF ShutInv
<1> QED  BY <1>1, ShutInvHolds, PTL
=============================================================================
