-------------------------- MODULE AutoDecisionCycle --------------------------
(***************************************************************************)
(* Who runs decision cycles, and what runs beside them: the scheduler of   *)
(* automatic cycles, a loop on the event loop that hands each cycle to a   *)
(* worker thread; POST /decision-cycle, on threads of its own; and the     *)
(* endpoints that inject faults or approve commands, which refresh the     *)
(* telemetry outside the lock of the cycles.                               *)
(***************************************************************************)
EXTENDS TelemetryRefresh, Naturals

CONSTANTS
  Automatic,       \* the thread of the scheduler's cycles
  Manual,          \* threads serving POST /decision-cycle
  Endpoints,       \* threads serving the fault and approval endpoints
  Free,            \* the lock is not held
  MaxRequests,     \* bound: requests served by Manual and Endpoints
  MaxFailures      \* bound: exceptions

ASSUME CyclesAssumption ==
  /\ Threads = {Automatic} \cup Manual \cup Endpoints
  /\ Automatic \notin Manual \cup Endpoints
  /\ Manual \cap Endpoints = {}
  /\ Free \notin Threads
  /\ MaxRequests \in Nat
  /\ MaxFailures \in Nat

VARIABLES
  lock,        \* SystemComposition._decision_cycle_lock: its holder
  loop,        \* the scheduler's task
  stopped,     \* history: AutoDecisionCycleScheduler.stop has returned
  overlapped,  \* history: two threads were ever active at once
  requests, failures

cycleVars == <<lock, loop, stopped, overlapped, requests, failures>>
refreshVars == <<grid, store, lastGrid, asked, thread>>
vars == <<refreshVars, cycleVars>>

Cycles == {Automatic} \cup Manual

Labels == {"idle", "lock", "decide", "send", "verify"}

(***************************************************************************)
(* The variables keep their types, and the lock is held by a thread that   *)
(* is inside a cycle.                                                      *)
(***************************************************************************)
TypeOK ==
  /\ RefreshTypeOK(Labels)
  /\ lock \in Cycles \cup {Free}
  /\ loop \in {"off", "sleeping", "running"}
  /\ stopped \in BOOLEAN
  /\ overlapped \in BOOLEAN
  /\ requests \in 0..MaxRequests
  /\ failures \in 0..MaxFailures

Init ==
  /\ RefreshInit
  /\ lock = Free
  /\ loop = "off"
  /\ stopped = FALSE
  /\ overlapped = FALSE
  /\ requests = 0
  /\ failures = 0
-----------------------------------------------------------------------------
Active(t) == thread[t].pc \notin {"idle", "lock"}

(***************************************************************************)
(* Thread t sets out on its work: alone when nobody else is active, in     *)
(* which case the others are not any longer.                               *)
(***************************************************************************)
SetOut(t, label, then) ==
  LET others == {u \in Threads \ {t} : Active(u)} IN
  /\ thread' =
       [u \in Threads |->
          IF u = t
            THEN [thread[t] EXCEPT !.pc = label, !.then = then,
                                   !.alone = (others = {})]
            ELSE [thread[u] EXCEPT !.alone = @ /\ u \notin others]]
  /\ overlapped' = (overlapped \/ others # {})

(***************************************************************************)
(* The scheduler.  start does nothing when the interval is not positive,   *)
(* so the loop may stay off.                                               *)
(***************************************************************************)
Start ==
  /\ loop = "off"
  /\ ~stopped
  /\ loop' = "sleeping"
  /\ UNCHANGED <<refreshVars, lock, stopped, overlapped, requests, failures>>

Wake ==
  /\ loop = "sleeping"
  /\ At(Automatic, "idle")
  /\ loop' = "running"
  /\ Goto(Automatic, "lock")
  /\ UNCHANGED <<grid, store, lastGrid, asked, lock, stopped, overlapped,
                 requests, failures>>

(***************************************************************************)
(* to_thread returns, with the cycle's result or with what it raised; the  *)
(* loop logs the latter and goes on.                                       *)
(***************************************************************************)
CycleReturned ==
  /\ loop = "running"
  /\ At(Automatic, "idle")
  /\ loop' = "sleeping"
  /\ UNCHANGED <<refreshVars, lock, stopped, overlapped, requests, failures>>

(***************************************************************************)
(* stop cancels the task, asleep or waiting for its thread, and returns    *)
(* when it has ended.  A thread that is in a cycle, or waits to enter one, *)
(* is not touched.                                                         *)
(***************************************************************************)
StopIsSwallowed ==   \* mutant: the loop catches CancelledError as well
  /\ ~stopped
  /\ stopped' = TRUE
  /\ loop' = IF loop = "off" THEN "off" ELSE "sleeping"
  /\ UNCHANGED <<refreshVars, lock, overlapped, requests, failures>>

Stop ==
  /\ ~stopped
  /\ stopped' = TRUE
  /\ loop' = "off"
  /\ UNCHANGED <<refreshVars, lock, overlapped, requests, failures>>
-----------------------------------------------------------------------------
(***************************************************************************)
(* run_decision_cycle.                                                     *)
(***************************************************************************)
RequestCycle(t) ==
  /\ At(t, "idle")
  /\ requests < MaxRequests
  /\ requests' = requests + 1
  /\ Goto(t, "lock")
  /\ UNCHANGED <<grid, store, lastGrid, asked, lock, loop, stopped, overlapped,
                 failures>>

AcquireBusyLock(t) ==   \* mutant: nobody waits
  /\ At(t, "lock")
  /\ lock' = t
  /\ SetOut(t, "ingest", "decide")
  /\ UNCHANGED <<grid, store, lastGrid, asked, loop, stopped, requests, failures>>

AcquireLock(t) ==
  /\ At(t, "lock")
  /\ lock = Free
  /\ lock' = t
  /\ SetOut(t, "ingest", "decide")
  /\ UNCHANGED <<grid, store, lastGrid, asked, loop, stopped, requests, failures>>

AtRest(t) ==
  [thread[t] EXCEPT !.pc = "idle", !.then = "idle", !.reading = NoReading,
                    !.alone = TRUE]

Done(t) == thread' = [thread EXCEPT ![t] = AtRest(t)]

Release(t) == lock' = IF lock = t THEN Free ELSE lock

(***************************************************************************)
(* The engine reads the store, and the pipeline sends the command, ends it *)
(* or leaves it to a person.                                               *)
(***************************************************************************)
Decide(t) ==
  /\ At(t, "decide")
  /\ \/ /\ Goto(t, "send")
        /\ UNCHANGED lock
     \/ /\ Done(t)
        /\ Release(t)
  /\ UNCHANGED <<grid, store, lastGrid, asked, loop, stopped, overlapped,
                 requests, failures>>

(***************************************************************************)
(* The store, a detector or the pipeline raises and the thread unwinds.    *)
(* In a cycle the with statement gives the lock back.                      *)
(***************************************************************************)
MayRaise(t) ==
  /\ \E l \in {"update", "score", "decide", "send", "verify"} : At(t, l)
  /\ failures < MaxFailures

FailHoldingLock(t) ==   \* mutant: released on the way out only
  /\ MayRaise(t)
  /\ failures' = failures + 1
  /\ Done(t)
  /\ UNCHANGED <<grid, store, lastGrid, asked, lock, loop, stopped, overlapped,
                 requests>>

Fail(t) ==
  /\ MayRaise(t)
  /\ failures' = failures + 1
  /\ Done(t)
  /\ Release(t)
  /\ UNCHANGED <<grid, store, lastGrid, asked, loop, stopped, overlapped,
                 requests>>

(***************************************************************************)
(* ingestion.ingest raises when no reading can be built from what the twin *)
(* has become; the twin has moved on all the same.                         *)
(***************************************************************************)
IngestRaises(t) ==
  /\ At(t, "ingest")
  /\ failures < MaxFailures
  /\ failures' = failures + 1
  /\ thread' =
       [u \in Threads |->
          IF u = t THEN AtRest(t)
                   ELSE [thread[u] EXCEPT !.reading = Outdated(@)]]
  /\ store' = Outdated(store)
  /\ Release(t)
  /\ UNCHANGED <<grid, lastGrid, asked, loop, stopped, overlapped, requests>>

(***************************************************************************)
(* A command reaches the twin; the pipeline refreshes the telemetry and    *)
(* verifies against what the store holds then.                             *)
(***************************************************************************)
SendThenVerify(t) ==   \* mutant: verified against the reading at hand
  /\ At(t, "send")
  /\ store' = Unsettled(store)
  /\ thread' =
       [u \in Threads |->
          [thread[u] EXCEPT !.reading = Unsettled(@),
                            !.pc = IF u = t THEN "verify" ELSE @]]
  /\ UNCHANGED <<grid, lastGrid, asked, cycleVars>>

Send(t) ==
  /\ At(t, "send")
  /\ store' = Unsettled(store)
  /\ thread' =
       [u \in Threads |->
          [thread[u] EXCEPT !.reading = Unsettled(@),
                            !.pc   = IF u = t THEN "ingest" ELSE @,
                            !.then = IF u = t THEN "verify" ELSE @]]
  /\ UNCHANGED <<grid, lastGrid, asked, cycleVars>>

Verify(t) ==
  /\ At(t, "verify")
  /\ Done(t)
  /\ Release(t)
  /\ UNCHANGED <<grid, store, lastGrid, asked, loop, stopped, overlapped,
                 requests, failures>>

Cycle(t) == AcquireLock(t) \/ Decide(t) \/ Send(t) \/ Verify(t)
-----------------------------------------------------------------------------
(***************************************************************************)
(* The endpoints: a fault changes the grid, an approval sends a command.   *)
(***************************************************************************)
InjectFaultVerbatim(t) ==   \* mutant: clearing the fault leaves None
  /\ At(t, "idle")
  /\ requests < MaxRequests
  /\ requests' = requests + 1
  /\ grid' \in (GridStatuses \ {"CONNECTED"}) \cup {NoReading}
  /\ SetOut(t, "ingest", "idle")
  /\ UNCHANGED <<store, lastGrid, asked, lock, loop, stopped, failures>>

InjectFault(t) ==
  /\ At(t, "idle")
  /\ requests < MaxRequests
  /\ requests' = requests + 1
  /\ grid' \in GridStatuses
  /\ SetOut(t, "ingest", "idle")
  /\ UNCHANGED <<store, lastGrid, asked, lock, loop, stopped, failures>>

ApproveCommand(t) ==
  /\ At(t, "idle")
  /\ requests < MaxRequests
  /\ requests' = requests + 1
  /\ SetOut(t, "send", "idle")
  /\ UNCHANGED <<grid, store, lastGrid, asked, lock, loop, stopped, failures>>

Next ==
  \/ Start \/ Wake \/ CycleReturned \/ Stop
  \/ \E t \in Manual : RequestCycle(t)
  \/ \E t \in Cycles : Cycle(t)
  \/ \E t \in Endpoints :
       InjectFault(t) \/ ApproveCommand(t) \/ Send(t) \/ Verify(t)
  \/ \E t \in Threads :
       (Refresh(t) /\ UNCHANGED cycleVars) \/ IngestRaises(t) \/ Fail(t)

(***************************************************************************)
(* The event loop serves its timers and completions, and a thread that can *)
(* go on does.  A waiter on the lock gets it: between automatic cycles the *)
(* lock is free for a whole interval, again and again.                     *)
(***************************************************************************)
Fairness ==
  /\ WF_vars(Wake) /\ WF_vars(CycleReturned)
  /\ \A t \in Threads : WF_vars(Refresh(t) /\ UNCHANGED cycleVars)
  /\ \A t \in Cycles : SF_vars(AcquireLock(t))
  /\ \A t \in Threads : WF_vars(Decide(t) \/ Send(t) \/ Verify(t))

Spec == Init /\ [][Next]_vars /\ Fairness
-----------------------------------------------------------------------------
(***************************************************************************)
(* A manual trigger and an automatic one never run concurrently            *)
(* (api_composition.py:389-392): a cycle that is under way holds the lock. *)
(***************************************************************************)
CyclesExclude ==
  \A t \in Cycles : Active(t) => lock = t

(***************************************************************************)
(* A cycle that no other thread has run beside decides on the newest       *)
(* reading there is, and verifies on one taken after its command was sent. *)
(* The unlocked refresh takes this away from the others.                   *)
(***************************************************************************)
AloneReadsTheNewest ==
  \A t \in Threads : thread[t].alone =>
    /\ At(t, "decide") => store.newest
    /\ At(t, "verify") => store.newest /\ store.settled

(***************************************************************************)
(* As long as no two threads have ever refreshed side by side, the grid    *)
(* status the system remembers is the last one the notifier was asked to   *)
(* tell, but for the moment between asking and remembering.  Whether the   *)
(* message arrives is another matter: delivery is best effort.             *)
(***************************************************************************)
AskedWhatIsRemembered ==
  ~overlapped /\ (\A t \in Threads : ~At(t, "assign")) => asked = lastGrid

(***************************************************************************)
(* After stop has returned no automatic cycle is asked for any more.       *)
(***************************************************************************)
StopIsFinal ==
  [][stopped => ~(At(Automatic, "idle") /\ thread'[Automatic].pc # "idle")]_vars

(***************************************************************************)
(* A manual cycle that waits for the lock ends, whatever the cycles before *)
(* it raised.                                                              *)
(***************************************************************************)
RequestsAreServed ==
  \A t \in Manual : At(t, "lock") ~> At(t, "idle")

(***************************************************************************)
(* One bad cycle does not kill the loop: until stop is called, automatic   *)
(* cycles come again and again.                                            *)
(***************************************************************************)
SchedulerSurvives ==
  loop # "off" ~> (stopped \/ (lock = Automatic /\ At(Automatic, "ingest")))

(***************************************************************************)
(* However the refreshes were interleaved, the grid status the system      *)
(* remembers comes to be the one the grid stays in, as long as automatic   *)
(* cycles go on.                                                           *)
(***************************************************************************)
RemembersTheGrid ==
  \A g \in GridStatuses :
    <>[](grid = g /\ loop # "off") => <>[](lastGrid = g)
=============================================================================
