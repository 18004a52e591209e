-------------------------- MODULE TelemetryRefresh --------------------------
(***************************************************************************)
(* SystemComposition.refresh_telemetry, on any number of threads: the      *)
(* decision cycle's, the verification's after a send, the endpoints'.      *)
(* None of its steps is under a lock.                                      *)
(*                                                                         *)
(* A reading is its grid status and its place among the others: `newest'   *)
(* until the twin ticks again, `settled' when the twin ticked after the    *)
(* last command it was sent.  What forecasting and scoring do with it is   *)
(* left to ModelGate and DetectorGate; here they may raise.                *)
(***************************************************************************)
CONSTANTS
  Threads,
  GridStatuses,
  NoReading

ASSUME RefreshAssumption ==
  /\ "CONNECTED" \in GridStatuses
  /\ NoReading \notin [grid : GridStatuses, newest : BOOLEAN, settled : BOOLEAN]

VARIABLES
  grid,        \* the twin's grid status
  store,       \* the StateStore's current reading
  lastGrid,    \* SystemComposition._last_grid_status
  asked,       \* the grid status the notifier was last asked to tell
  thread       \* where each thread is, with its local variables

Readings == [grid : GridStatuses, newest : BOOLEAN, settled : BOOLEAN]

RefreshSteps == {"ingest", "update", "score", "compare", "assign"}

ThreadStates(labels) ==
  [pc      : labels \cup RefreshSteps,
   then    : labels,                       \* where the refresh returns
   reading : Readings \cup {NoReading},
   alone   : BOOLEAN]                      \* history: nobody else was active

RefreshTypeOK(labels) ==
  /\ grid \in GridStatuses
  /\ store \in Readings \cup {NoReading}
  /\ lastGrid \in GridStatuses
  /\ asked \in GridStatuses
  /\ thread \in [Threads -> ThreadStates(labels)]

(***************************************************************************)
(* The refresh that ends SystemComposition.__init__ is over; it asks for   *)
(* no message, for a first reading is no change.                           *)
(***************************************************************************)
RefreshInit ==
  /\ grid = "CONNECTED"
  /\ store = [grid |-> grid, newest |-> TRUE, settled |-> TRUE]
  /\ lastGrid = grid
  /\ asked = grid
  /\ thread = [t \in Threads |-> [pc |-> "idle", then |-> "idle",
                                  reading |-> NoReading, alone |-> TRUE]]

At(t, label) == thread[t].pc = label

Goto(t, label) == thread' = [thread EXCEPT ![t].pc = label]
-----------------------------------------------------------------------------
(***************************************************************************)
(* A mark taken off every reading there is, in the store or in the hands   *)
(* of a thread, when the world moves on.                                   *)
(***************************************************************************)
Outdated(reading) ==
  IF reading = NoReading THEN reading ELSE [reading EXCEPT !.newest = FALSE]

Unsettled(reading) ==
  IF reading = NoReading THEN reading ELSE [reading EXCEPT !.settled = FALSE]

(***************************************************************************)
(* ingestion.ingest: the twin ticks and yields a reading.                  *)
(***************************************************************************)
Ingest(t) ==
  /\ At(t, "ingest")
  /\ thread' =
       [u \in Threads |->
          IF u = t
            THEN [thread[t] EXCEPT !.pc = "update",
                    !.reading = [grid |-> grid, newest |-> TRUE,
                                 settled |-> TRUE]]
            ELSE [thread[u] EXCEPT !.reading = Outdated(@)]]
  /\ store' = Outdated(store)
  /\ UNCHANGED <<grid, lastGrid, asked>>

(***************************************************************************)
(* state_manager.update and the history.                                   *)
(***************************************************************************)
Update(t) ==
  /\ At(t, "update")
  /\ store' = thread[t].reading
  /\ Goto(t, "score")
  /\ UNCHANGED <<grid, lastGrid, asked>>

(***************************************************************************)
(* The forecast, the anomalies and the messages about them.                *)
(***************************************************************************)
Score(t) ==
  /\ At(t, "score")
  /\ Goto(t, "compare")
  /\ UNCHANGED <<grid, store, lastGrid, asked>>

(***************************************************************************)
(* The notifier is asked to tell a change of the grid status before it is  *)
(* remembered.  That is all the refresh knows: sending takes up to five    *)
(* seconds, _send swallows its failure, and NullNotifier, the one without  *)
(* a telephone number, drops the message.                                  *)
(***************************************************************************)
CompareAndSet(t) ==   \* mutant: remembered first, so nothing has changed
  /\ At(t, "compare")
  /\ lastGrid' = thread[t].reading.grid
  /\ Goto(t, "assign")
  /\ UNCHANGED <<grid, store, asked>>

Asked(reading) == IF lastGrid # reading.grid THEN reading.grid ELSE asked

Compare(t) ==
  /\ At(t, "compare")
  /\ asked' = Asked(thread[t].reading)
  /\ Goto(t, "assign")
  /\ UNCHANGED <<grid, store, lastGrid>>

AssignForgotten(t) ==   \* mutant: the status is not remembered
  /\ At(t, "assign")
  /\ thread' = [thread EXCEPT ![t].pc = thread[t].then, ![t].then = "idle",
                              ![t].reading = NoReading,
                              ![t].alone = @ \/ thread[t].then = "idle"]
  /\ UNCHANGED <<grid, store, lastGrid, asked>>

Assign(t) ==
  /\ At(t, "assign")
  /\ lastGrid' = thread[t].reading.grid
  /\ thread' = [thread EXCEPT ![t].pc = thread[t].then, ![t].then = "idle",
                              ![t].reading = NoReading,
                              ![t].alone = @ \/ thread[t].then = "idle"]
  /\ UNCHANGED <<grid, store, asked>>

Refresh(t) ==
  Ingest(t) \/ Update(t) \/ Score(t) \/ Compare(t) \/ Assign(t)
=============================================================================
