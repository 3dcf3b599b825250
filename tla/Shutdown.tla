------------------------------ MODULE Shutdown ------------------------------
(***************************************************************************)
(* The process around the bus: the DNS and HTTP collectors whose handlers  *)
(* call Submit, and the ordered shutdown of cmd/oast/main.go, which closes *)
(* the listeners, waits for the handlers within a budget of five seconds   *)
(* per collector, stops the bus and closes the store.                      *)
(*                                                                         *)
(* Every event of the bus is the interaction of one request. The admin API *)
(* submits nothing, so its own shutdown is not a step here.                *)
(***************************************************************************)
EXTENDS EventBus

CONSTANTS
  ServerOf,   \* the server that each request arrives at
  Slow        \* requests whose handler may run for longer than the budget

\* In the order in which they are shut down.
Servers == <<"udp", "tcp", "http", "https">>
CollectorOf(s) == IF s \in {"udp", "tcp"} THEN "dns" ELSE "web"

ASSUME ServerAssumption == ServerOf \in [Events -> Range(Servers)]
ASSUME SlowAssumption == Slow \subseteq Events

VARIABLES
  req,       \* per request: "none", "busy", "done" or "aborted"
  asked,     \* servers whose Shutdown was called
  down,      \* servers whose Shutdown returned (a prefix of Servers)
  expired,   \* collectors whose budget ran out
  main       \* "serving", "stopping", "closing", "exited" or "crashed"

procVars == <<req, asked, down, expired, main>>
allVars == <<vars, procVars>>

InFlight(s) == {e \in Events : ServerOf[e] = s /\ req[e] = "busy"}
Alive == main \notin {"exited", "crashed"}

ProcInit ==
  /\ Init
  /\ req = [e \in Events |-> "none"]
  /\ asked = 0 /\ down = 0
  /\ expired = {}
  /\ main = "serving"

-----------------------------------------------------------------------------
(* The handlers.                                                           *)

Listening(s) == \A i \in 1..asked : Servers[i] # s

Arrive(e) ==
  /\ Alive
  /\ req[e] = "none" /\ Listening(ServerOf[e])
  /\ req' = [req EXCEPT ![e] = "busy"]
  /\ UNCHANGED <<vars, asked, down, expired, main>>

\* Not for one of our zones, or noise: answered and not recorded.
Ignore(e) ==
  /\ Alive
  /\ req[e] = "busy"
  /\ req' = [req EXCEPT ![e] = "done"]
  /\ UNCHANGED <<vars, asked, down, expired, main>>

\* net/http recovers a handler's panic and aborts the request; the DNS
\* library does not, and the process dies.
Record(e) ==
  /\ Alive
  /\ req[e] = "busy"
  /\ Submit(e)
  /\ req' = [req EXCEPT ![e] = IF e \in panicked' THEN "aborted" ELSE "done"]
  /\ main' = IF e \in panicked' /\ CollectorOf(ServerOf[e]) = "dns"
               THEN "crashed" ELSE main
  /\ UNCHANGED <<asked, down, expired>>

Handler(e) == Ignore(e) \/ Record(e)

-----------------------------------------------------------------------------
(* Faults that the properties must tell from the code.                     *)

\* Shutdown without a deadline.
ServerDownNoBudget ==
  /\ main = "serving"
  /\ asked = down + 1
  /\ InFlight(Servers[asked]) = {}
  /\ down' = asked
  /\ UNCHANGED <<vars, req, asked, expired, main>>

\* bus.Stop before the collectors.
BusStopFirst ==
  /\ main \in {"serving", "stopping"}
  /\ Stop
  /\ main' = IF stop' \in {"stopped", "timedout"} THEN "closing" ELSE "stopping"
  /\ UNCHANGED <<req, asked, down, expired>>

-----------------------------------------------------------------------------
(* main's deferred shutdown.                                               *)

\* The next server's listener closes.
ShutdownServer ==
  /\ main = "serving"
  /\ asked = down /\ asked < Len(Servers)
  /\ asked' = asked + 1
  /\ UNCHANGED <<vars, req, down, expired, main>>

\* Its handlers have all returned, or the budget it shares with the other
\* server of its collector is spent.
ServerDown ==
  /\ main = "serving"
  /\ asked = down + 1
  /\ \/ InFlight(Servers[asked]) = {}
     \/ CollectorOf(Servers[asked]) \in expired
  /\ down' = asked
  /\ UNCHANGED <<vars, req, asked, expired, main>>

BudgetExpires ==
  /\ main = "serving"
  /\ asked = down + 1
  /\ InFlight(Servers[asked]) \cap Slow # {}
  /\ CollectorOf(Servers[asked]) \notin expired
  /\ expired' = expired \cup {CollectorOf(Servers[asked])}
  /\ UNCHANGED <<vars, req, asked, down, main>>

\* bus.Stop, entered when every Shutdown has returned.
BusStop ==
  /\ main \in {"serving", "stopping"}
  /\ down = Len(Servers)
  /\ Stop
  /\ main' = IF stop' \in {"stopped", "timedout"} THEN "closing" ELSE "stopping"
  /\ UNCHANGED <<req, asked, down, expired>>

\* store.Close, then main returns and every goroutine ends with it: a worker
\* that outlived the drain timeout stores nothing more.
Exit ==
  /\ main = "closing"
  /\ main' = "exited"
  /\ UNCHANGED <<vars, req, asked, down, expired>>

Ended == ~Alive /\ UNCHANGED allVars

ProcNext ==
  \/ \E e \in Events : Arrive(e) \/ Handler(e)
  \/ \E w \in Workers : Alive /\ Worker(w) /\ UNCHANGED procVars
  \/ Alive /\ StoreBreaks /\ UNCHANGED procVars
  \/ ShutdownServer \/ ServerDown \/ BudgetExpires \/ BusStop \/ Exit
  \/ Ended

\* Handlers return, except that nothing is assumed of a slow one; timers
\* fire; main goes on once the signal has come; the pool's goroutines run.
ProcFairness ==
  /\ \A e \in Events \ Slow : WF_allVars(Handler(e))
  /\ \A w \in Workers : WF_allVars(Alive /\ Worker(w) /\ UNCHANGED procVars)
  /\ WF_allVars(asked > 0 /\ ShutdownServer)
  /\ WF_allVars(ServerDown) /\ WF_allVars(BudgetExpires)
  /\ WF_allVars(BusStop) /\ WF_allVars(Exit)

ProcSpec == ProcInit /\ [][ProcNext]_allVars /\ ProcFairness

-----------------------------------------------------------------------------
(* Properties.                                                             *)

\* The collectors are gone before bus.Stop closes the channel (main.go,
\* "collectors MUST stop (no new Submit calls) BEFORE bus.Stop closes the
\* channel"): no Submit ever panics.
NoLateSubmit == panicked = {}

\* Within the budgets that is so: only a handler that outlived its collector's
\* budget can submit late, and only the web collector's requests suffer when it
\* is the web collector whose budget ran out.
LateSubmitNeedsOverrun ==
  \A e \in panicked : CollectorOf(ServerOf[e]) \in expired

\* Slow uploads cost their own requests and never the process: the panic of a
\* late Submit reaches no DNS handler, since only HTTP handlers are slow.
NeverCrashes == (\A e \in Slow : CollectorOf(ServerOf[e]) = "web") => main # "crashed"

\* If the budgets were enough, a bus that stopped in time left nothing behind
\* when the process ends: every interaction that was accepted is stored, or was
\* in a batch given up at shutdown, and the logged total is exact.
CleanExit ==
  main = "exited" /\ expired = {} /\ stop = "stopped" =>
    Pending = {} /\ total = Len(rows)

\* A shutdown that has begun comes to an end, even if a slow handler never
\* returns.
ShutdownEnds == asked > 0 ~> ~Alive
=============================================================================
