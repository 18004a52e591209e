----------------------- MODULE AutoDecisionCycleProofs -----------------------
(***************************************************************************)
(* Proofs about AutoDecisionCycle: for any number of threads of each kind, *)
(* any number of requests and of exceptions.                               *)
(*                                                                         *)
(* A thread is active from its lock, or from the endpoint's call, until it *)
(* returns.  One that is alone has had no other active beside it (Lone),   *)
(* so nothing has come between the steps of its refresh, and what it holds *)
(* and what it has stored are the newest there is (Fresh).  As long as     *)
(* none have overlapped, one thread asks for the message about a change    *)
(* and remembers the change (Asking).                                      *)
(***************************************************************************)
EXTENDS AutoDecisionCycle, TLAPS

(***************************************************************************)
(* The steps of a refresh after the twin has been read.                    *)
(***************************************************************************)
AfterIngest == {"update", "score", "compare", "assign"}

HoldsReading ==
  \A t \in Threads : thread[t].pc \in AfterIngest => thread[t].reading # NoReading

(***************************************************************************)
(* Who holds the lock is inside a cycle; a cycle's refresh goes back into  *)
(* the cycle.                                                              *)
(***************************************************************************)
HolderInside == lock # Free => Active(lock)

BackInside ==
  \A t \in Cycles :
    thread[t].pc \in RefreshSteps => thread[t].then \in {"decide", "verify"}

Lone ==
  \A t, u \in Threads :
    Active(t) /\ thread[t].alone /\ Active(u) => t = u

Fresh ==
  \A t \in Threads :
    thread[t].alone =>
      /\ At(t, "update") => thread[t].reading.newest /\ thread[t].reading.settled
      /\ thread[t].pc \in {"score", "compare", "assign", "verify"} =>
           store # NoReading /\ store.newest /\ store.settled
      /\ At(t, "decide") => store # NoReading /\ store.newest

(***************************************************************************)
(* Without an overlap one thread is active at a time, and at `assign' it   *)
(* is about to remember what the notifier has been asked to tell.          *)
(***************************************************************************)
Asking ==
  ~overlapped =>
    /\ \A t, u \in Threads : Active(t) /\ Active(u) => t = u
    /\ \A t \in Threads : At(t, "assign") => asked = thread[t].reading.grid
    /\ (\A t \in Threads : ~At(t, "assign")) => asked = lastGrid

StoppedIsOff == stopped => loop = "off"

IInv ==
  /\ TypeOK /\ HoldsReading /\ CyclesExclude /\ HolderInside /\ BackInside
  /\ Lone /\ Fresh /\ Asking /\ StoppedIsOff
-----------------------------------------------------------------------------
PlaceNames == Labels \cup RefreshSteps

(***************************************************************************)
(* The fields of the threads after a step, for every thread.               *)
(***************************************************************************)
Typed == thread' \in [Threads -> ThreadStates(Labels)]

SameThen == \A u \in Threads : thread'[u].then = thread[u].then

SameReading == \A u \in Threads : thread'[u].reading = thread[u].reading

SameAlone == \A u \in Threads : thread'[u].alone = thread[u].alone

OnlyMoves(t, label) ==
  /\ \A u \in Threads \ {t} : thread'[u].pc = thread[u].pc
  /\ thread'[t].pc = label

(***************************************************************************)
(* Goto moves one thread and changes nothing else.                         *)
(***************************************************************************)
LEMMA GotoFields ==
  ASSUME TypeOK, NEW t \in Threads, NEW label \in PlaceNames, Goto(t, label)
  PROVE  /\ Typed /\ OnlyMoves(t, label)
         /\ SameThen /\ SameReading /\ SameAlone
BY DEF TypeOK, RefreshTypeOK, ThreadStates, Goto, PlaceNames, Typed, OnlyMoves,
       SameThen, SameReading, SameAlone

(***************************************************************************)
(* A thread that sets out is alone when no other is active, and those that *)
(* are active are alone no longer.                                         *)
(***************************************************************************)
LEMMA SetOutFields ==
  ASSUME TypeOK, NEW t \in Threads, NEW label \in PlaceNames,
         NEW then \in Labels, SetOut(t, label, then)
  PROVE  /\ Typed /\ OnlyMoves(t, label) /\ SameReading
         /\ \A u \in Threads \ {t} : thread'[u].then = thread[u].then
         /\ thread'[t].then = then
         /\ \A u \in Threads \ {t} :
              thread'[u].alone => thread[u].alone /\ ~Active(u)
         /\ thread'[t].alone => \A u \in Threads \ {t} : ~Active(u)
         /\ ~overlapped' =>
              ~overlapped /\ \A u \in Threads \ {t} : ~Active(u)
         /\ overlapped' \in BOOLEAN
<1> DEFINE others == {u \in Threads \ {t} : Active(u)}
<1>1. /\ thread' =
           [u \in Threads |->
              IF u = t
                THEN [thread[t] EXCEPT !.pc = label, !.then = then,
                                       !.alone = (others = {})]
                ELSE [thread[u] EXCEPT !.alone = @ /\ u \notin others]]
      /\ overlapped' = (overlapped \/ others # {})
  BY DEF SetOut
<1> HIDE DEF others
<1>2. Typed
  BY <1>1 DEF TypeOK, RefreshTypeOK, ThreadStates, PlaceNames, Typed
<1>3. OnlyMoves(t, label) /\ SameReading
  BY <1>1 DEF TypeOK, RefreshTypeOK, ThreadStates, OnlyMoves, SameReading
<1>4. /\ \A u \in Threads \ {t} : thread'[u].then = thread[u].then
      /\ thread'[t].then = then
  BY <1>1 DEF TypeOK, RefreshTypeOK, ThreadStates
<1>5. /\ \A u \in Threads \ {t} :
           thread'[u].alone = (thread[u].alone /\ u \notin others)
      /\ thread'[t].alone = (others = {})
  BY <1>1 DEF TypeOK, RefreshTypeOK, ThreadStates
<1>6. QED
  BY <1>1, <1>2, <1>3, <1>4, <1>5 DEF others, TypeOK

(***************************************************************************)
(* A thread that ends its call is idle, with nothing in its hands.         *)
(***************************************************************************)
LEMMA DoneFields ==
  ASSUME TypeOK, NEW t \in Threads, Done(t)
  PROVE  /\ Typed /\ OnlyMoves(t, "idle")
         /\ \A u \in Threads \ {t} : thread'[u] = thread[u]
BY DEF TypeOK, RefreshTypeOK, ThreadStates, Labels, Done, AtRest, Typed,
       OnlyMoves

(***************************************************************************)
(* A reading that has lost a mark is a reading of the same grid status.    *)
(***************************************************************************)
LEMMA OutdatedTyped ==
  ASSUME NEW r \in Readings \cup {NoReading}
  PROVE  /\ Outdated(r) \in Readings \cup {NoReading}
         /\ Outdated(r) = NoReading <=> r = NoReading
         /\ r # NoReading => Outdated(r).grid = r.grid
BY RefreshAssumption DEF Outdated, Readings

(***************************************************************************)
(* The same for the mark a command takes away; the other one stays.        *)
(***************************************************************************)
LEMMA UnsettledTyped ==
  ASSUME NEW r \in Readings \cup {NoReading}
  PROVE  /\ Unsettled(r) \in Readings \cup {NoReading}
         /\ Unsettled(r) = NoReading <=> r = NoReading
         /\ r # NoReading => Unsettled(r).grid = r.grid
         /\ r # NoReading => Unsettled(r).newest = r.newest
BY RefreshAssumption DEF Unsettled, Readings

(***************************************************************************)
(* A tick puts a reading in the thread's hands and outdates the others'.   *)
(***************************************************************************)
LEMMA IngestFields ==
  ASSUME TypeOK, NEW t \in Threads, Ingest(t)
  PROVE  /\ Typed /\ OnlyMoves(t, "update") /\ SameThen /\ SameAlone
         /\ \A u \in Threads \ {t} :
              thread'[u].reading = Outdated(thread[u].reading)
         /\ thread'[t].reading \in Readings
         /\ thread'[t].reading.newest /\ thread'[t].reading.settled
<1>1. thread' =
        [u \in Threads |->
           IF u = t
             THEN [thread[t] EXCEPT !.pc = "update",
                     !.reading = [grid |-> grid, newest |-> TRUE,
                                  settled |-> TRUE]]
             ELSE [thread[u] EXCEPT !.reading = Outdated(@)]]
  BY DEF Ingest
<1>2. [grid |-> grid, newest |-> TRUE, settled |-> TRUE] \in Readings
  BY DEF TypeOK, RefreshTypeOK, Readings
<1>3. \A u \in Threads :
        /\ thread[u] \in ThreadStates(Labels)
        /\ Outdated(thread[u].reading) \in Readings \cup {NoReading}
  BY OutdatedTyped DEF TypeOK, RefreshTypeOK, ThreadStates
<1>4. Typed
  BY <1>1, <1>2, <1>3 DEF Typed, ThreadStates, RefreshSteps
<1>5. OnlyMoves(t, "update") /\ SameThen /\ SameAlone
  BY <1>1, <1>3 DEF OnlyMoves, SameThen, SameAlone, ThreadStates
<1>6. QED
  BY <1>1, <1>2, <1>3, <1>4, <1>5 DEF ThreadStates

(***************************************************************************)
(* A tick that raises outdates them likewise, and ends the thread's call.  *)
(***************************************************************************)
LEMMA IngestRaisesFields ==
  ASSUME TypeOK, NEW t \in Threads, IngestRaises(t)
  PROVE  /\ Typed /\ OnlyMoves(t, "idle")
         /\ \A u \in Threads \ {t} :
              /\ thread'[u].reading = Outdated(thread[u].reading)
              /\ thread'[u].then = thread[u].then
              /\ thread'[u].alone = thread[u].alone
<1>1. thread' =
        [u \in Threads |->
           IF u = t THEN AtRest(t)
                    ELSE [thread[u] EXCEPT !.reading = Outdated(@)]]
  BY DEF IngestRaises
<1>2. \A u \in Threads :
        /\ thread[u] \in ThreadStates(Labels)
        /\ Outdated(thread[u].reading) \in Readings \cup {NoReading}
  BY OutdatedTyped DEF TypeOK, RefreshTypeOK, ThreadStates
<1>3. AtRest(t) \in ThreadStates(Labels) /\ AtRest(t).pc = "idle"
  BY <1>2 DEF AtRest, ThreadStates, Labels
<1>4. Typed
  BY <1>1, <1>2, <1>3 DEF Typed, ThreadStates
<1>5. QED
  BY <1>1, <1>2, <1>3, <1>4 DEF OnlyMoves, ThreadStates

(***************************************************************************)
(* A command sent unsettles what every thread holds.                       *)
(***************************************************************************)
LEMMA SendFields ==
  ASSUME TypeOK, NEW t \in Threads, Send(t)
  PROVE  /\ Typed /\ OnlyMoves(t, "ingest") /\ SameAlone
         /\ \A u \in Threads \ {t} : thread'[u].then = thread[u].then
         /\ thread'[t].then = "verify"
         /\ \A u \in Threads :
              thread'[u].reading = Unsettled(thread[u].reading)
<1>1. thread' =
        [u \in Threads |->
           [thread[u] EXCEPT !.reading = Unsettled(@),
                             !.pc   = IF u = t THEN "ingest" ELSE @,
                             !.then = IF u = t THEN "verify" ELSE @]]
  BY DEF Send
<1>2. \A u \in Threads :
        /\ thread[u] \in ThreadStates(Labels)
        /\ Unsettled(thread[u].reading) \in Readings \cup {NoReading}
  BY UnsettledTyped DEF TypeOK, RefreshTypeOK, ThreadStates
<1>3. Typed
  BY <1>1, <1>2 DEF Typed, ThreadStates, RefreshSteps, Labels
<1>4. OnlyMoves(t, "ingest") /\ SameAlone
  BY <1>1, <1>2 DEF OnlyMoves, SameAlone, ThreadStates
<1>5. QED
  BY <1>1, <1>2, <1>3, <1>4 DEF ThreadStates

(***************************************************************************)
(* The end of a refresh: the thread goes on where its caller wants it.     *)
(***************************************************************************)
LEMMA AssignFields ==
  ASSUME TypeOK, NEW t \in Threads, Assign(t)
  PROVE  /\ Typed /\ OnlyMoves(t, thread[t].then)
         /\ \A u \in Threads \ {t} : thread'[u] = thread[u]
         /\ thread[t].then # "idle" => thread'[t].alone = thread[t].alone
<1>1. thread' = [thread EXCEPT ![t].pc = thread[t].then, ![t].then = "idle",
                               ![t].reading = NoReading,
                               ![t].alone = @ \/ thread[t].then = "idle"]
  BY DEF Assign
<1>2. /\ thread \in [Threads -> ThreadStates(Labels)]
      /\ thread[t] \in ThreadStates(Labels)
  BY DEF TypeOK, RefreshTypeOK
<1>3. /\ DOMAIN thread' = Threads
      /\ \A u \in Threads \ {t} : thread'[u] = thread[u]
  BY <1>1, <1>2
<1>4. thread'[t] = [thread[t] EXCEPT !.pc = thread[t].then, !.then = "idle",
                      !.reading = NoReading,
                      !.alone = @ \/ thread[t].then = "idle"]
  BY <1>1, <1>2 DEF ThreadStates
<1>5. /\ thread'[t] \in ThreadStates(Labels)
      /\ thread'[t].pc = thread[t].then
      /\ thread[t].then # "idle" => thread'[t].alone = thread[t].alone
  BY <1>2, <1>4 DEF ThreadStates, Labels
<1>6. Typed
  BY <1>1, <1>2, <1>3, <1>5 DEF Typed
<1>7. QED
  BY <1>3, <1>5, <1>6 DEF OnlyMoves

-----------------------------------------------------------------------------
(***************************************************************************)
(* The scheduler's own steps move no thread and leave the lock alone.      *)
(***************************************************************************)
LEMMA LoopStep ==
  ASSUME IInv, Start \/ CycleReturned \/ Stop
  PROVE  IInv'
<1>1. /\ UNCHANGED <<grid, store, lastGrid, asked, thread, lock, overlapped,
                     requests, failures>>
      /\ loop' \in {"off", "sleeping"} /\ stopped' \in BOOLEAN
      /\ stopped' => loop' = "off"
  <2>1. stopped \in BOOLEAN /\ (stopped => loop = "off")
    BY DEF IInv, TypeOK, StoppedIsOff
  <2>2. CASE Start
    BY <2>1, <2>2 DEF Start, refreshVars
  <2>3. CASE CycleReturned
    BY <2>1, <2>3 DEF CycleReturned, refreshVars
  <2>4. CASE Stop
    BY <2>1, <2>4 DEF Stop, refreshVars
  <2>5. QED
    BY <2>2, <2>3, <2>4
<1>2. TypeOK'
  BY <1>1 DEF IInv, TypeOK, RefreshTypeOK
<1>3. HoldsReading' /\ CyclesExclude' /\ HolderInside' /\ BackInside'
  BY <1>1 DEF IInv, HoldsReading, CyclesExclude, HolderInside, BackInside,
              Active
<1>4. Lone' /\ Fresh' /\ Asking'
  BY <1>1 DEF IInv, Lone, Fresh, Asking, Active, At
<1>5. QED
  BY <1>1, <1>2, <1>3, <1>4 DEF IInv, StoppedIsOff

(***************************************************************************)
(* A thread that asks for a cycle waits for the lock: it is not active     *)
(* yet.                                                                    *)
(***************************************************************************)
LEMMA AskStep ==
  ASSUME IInv, NEW t \in Cycles, At(t, "idle"), Goto(t, "lock"),
         UNCHANGED <<grid, store, lastGrid, asked, lock, stopped, overlapped,
                     failures>>,
         requests' \in 0..MaxRequests,
         loop' = loop \/ (loop = "sleeping" /\ loop' = "running")
  PROVE  IInv'
<1>1. /\ Typed /\ OnlyMoves(t, "lock")
      /\ SameThen /\ SameReading /\ SameAlone
      /\ t \in Threads
  BY GotoFields, CyclesAssumption DEF IInv, PlaceNames, Labels, Cycles
<1>2. TypeOK'
  BY <1>1 DEF IInv, TypeOK, RefreshTypeOK, Typed
<1>3. HoldsReading'
  BY <1>1 DEF IInv, HoldsReading, OnlyMoves, SameReading, AfterIngest
<1>4. CyclesExclude' /\ HolderInside' /\ BackInside'
  BY <1>1, CyclesAssumption
     DEF IInv, CyclesExclude, HolderInside, BackInside, Active, At, Cycles,
         OnlyMoves, SameThen, RefreshSteps, TypeOK
<1>5. Lone'
  BY <1>1 DEF IInv, Lone, Active, OnlyMoves, SameAlone
<1>6. Fresh'
  BY <1>1 DEF IInv, Fresh, At, OnlyMoves, SameAlone, SameReading
<1>7. Asking'
  BY <1>1 DEF IInv, Asking, Active, At, OnlyMoves, SameReading
<1>8. StoppedIsOff'
  BY <1>1 DEF IInv, StoppedIsOff
<1>9. QED
  BY <1>2, <1>3, <1>4, <1>5, <1>6, <1>7, <1>8 DEF IInv

(***************************************************************************)
(* A thread sets out: on a cycle with the free lock in its hands, or on an *)
(* endpoint's work without it.                                             *)
(***************************************************************************)
LEMMA SetOutStep ==
  ASSUME IInv, NEW t \in Threads, ~Active(t),
         NEW label \in {"ingest", "send"}, NEW then \in {"decide", "idle"},
         SetOut(t, label, then),
         \/ t \in Cycles /\ then = "decide" /\ lock = Free /\ lock' = t
         \/ t \in Endpoints /\ lock' = lock,
         grid' \in GridStatuses, requests' \in 0..MaxRequests,
         UNCHANGED <<store, lastGrid, asked, loop, stopped, failures>>
  PROVE  IInv'
<1>1. /\ Typed /\ OnlyMoves(t, label) /\ SameReading
      /\ \A u \in Threads \ {t} : thread'[u].then = thread[u].then
      /\ thread'[t].then = then
      /\ \A u \in Threads \ {t} :
           thread'[u].alone => thread[u].alone /\ ~Active(u)
      /\ thread'[t].alone => \A u \in Threads \ {t} : ~Active(u)
      /\ ~overlapped' => ~overlapped /\ \A u \in Threads \ {t} : ~Active(u)
      /\ overlapped' \in BOOLEAN
  <2>1. label \in PlaceNames /\ then \in Labels /\ TypeOK
    BY DEF IInv, PlaceNames, Labels, RefreshSteps
  <2>2. QED
    BY <2>1, SetOutFields
<1>2. TypeOK'
  BY <1>1 DEF IInv, TypeOK, RefreshTypeOK, Typed
<1>3. HoldsReading'
  BY <1>1 DEF IInv, HoldsReading, OnlyMoves, SameReading, AfterIngest
<1>4. CyclesExclude' /\ HolderInside' /\ BackInside'
  <2>1. t \in Endpoints => t \notin Cycles
    BY CyclesAssumption DEF Cycles
  <2>2. lock' \in Cycles \cup {Free} /\ Cycles \subseteq Threads /\ Free \notin Threads
    BY <1>2, CyclesAssumption DEF TypeOK, Cycles
  <2>3. CyclesExclude'
    BY <1>1, <2>1, <2>2 DEF IInv, CyclesExclude, Active, OnlyMoves
  <2>4. HolderInside'
    BY <1>1, <2>2 DEF IInv, HolderInside, Active, OnlyMoves
  <2>5. BackInside'
    BY <1>1, <2>1, <2>2 DEF IInv, BackInside, OnlyMoves
  <2>6. QED
    BY <2>3, <2>4, <2>5
<1>5. Lone'
  BY <1>1 DEF IInv, Lone, Active, OnlyMoves
<1>6. Fresh'
  BY <1>1 DEF IInv, Fresh, Active, At, OnlyMoves
<1>7. Asking'
  BY <1>1 DEF IInv, Asking, Active, At, OnlyMoves, SameReading
<1>8. StoppedIsOff'
  BY DEF IInv, StoppedIsOff
<1>9. QED
  BY <1>2, <1>3, <1>4, <1>5, <1>6, <1>7, <1>8 DEF IInv

(***************************************************************************)
(* A thread ends its call, by returning or by raising, and gives back the  *)
(* lock if it holds it.  It is not at `assign', where nothing raises.      *)
(***************************************************************************)
LEMMA EndStep ==
  ASSUME IInv, NEW t \in Threads,
         NEW label \in {"update", "score", "decide", "send", "verify"},
         At(t, label), Done(t), Release(t), failures' \in 0..MaxFailures,
         UNCHANGED <<grid, store, lastGrid, asked, loop, stopped, overlapped,
                     requests>>
  PROVE  IInv'
<1>1. /\ Typed /\ OnlyMoves(t, "idle")
      /\ \A u \in Threads \ {t} : thread'[u] = thread[u]
      /\ lock' = IF lock = t THEN Free ELSE lock
  BY DoneFields DEF IInv, Release
<1>2. TypeOK'
  BY <1>1 DEF IInv, TypeOK, RefreshTypeOK, Typed
<1>3. HoldsReading'
  BY <1>1 DEF IInv, HoldsReading, OnlyMoves, AfterIngest
<1>4. CyclesExclude' /\ HolderInside' /\ BackInside'
  <2>1. lock \in Cycles \cup {Free} /\ Cycles \subseteq Threads
    BY CyclesAssumption DEF IInv, TypeOK, Cycles
  <2>2. QED
    BY <1>1, <2>1 DEF IInv, CyclesExclude, HolderInside, BackInside, Active,
                      OnlyMoves, RefreshSteps
<1>5. Lone'
  BY <1>1 DEF IInv, Lone, Active, OnlyMoves
<1>6. Fresh'
  BY <1>1 DEF IInv, Fresh, At, OnlyMoves
<1>7. Asking'
  BY <1>1 DEF IInv, Asking, Active, At, OnlyMoves
<1>8. StoppedIsOff'
  BY DEF IInv, StoppedIsOff
<1>9. QED
  BY <1>2, <1>3, <1>4, <1>5, <1>6, <1>7, <1>8 DEF IInv

(***************************************************************************)
(* A cycle that has read the store goes on to send its command.            *)
(***************************************************************************)
LEMMA DecideStep ==
  ASSUME IInv, NEW t \in Cycles, Decide(t)
  PROVE  IInv'
<1>0. t \in Threads
  BY CyclesAssumption DEF Cycles
<1>a. CASE Done(t) /\ Release(t)
  <2>1. failures' \in 0..MaxFailures /\ At(t, "decide")
    BY DEF Decide, IInv, TypeOK
  <2>2. QED
    BY <1>0, <1>a, <2>1, EndStep DEF Decide
<1>b. CASE Goto(t, "send") /\ UNCHANGED lock
  <2>1. /\ Typed /\ OnlyMoves(t, "send") /\ At(t, "decide")
        /\ SameThen /\ SameReading /\ SameAlone
        /\ UNCHANGED <<grid, store, lastGrid, asked, lock, loop, stopped,
                       overlapped, requests, failures>>
    BY <1>0, <1>b, GotoFields DEF Decide, IInv, PlaceNames, Labels
  <2>2. TypeOK'
    BY <2>1 DEF IInv, TypeOK, RefreshTypeOK, Typed
  <2>3. HoldsReading'
    BY <2>1 DEF IInv, HoldsReading, OnlyMoves, SameReading, AfterIngest
  <2>4. CyclesExclude' /\ HolderInside' /\ BackInside'
    BY <1>0, <2>1, CyclesAssumption
       DEF IInv, CyclesExclude, HolderInside, BackInside, Active, At, Cycles,
           OnlyMoves, SameThen, RefreshSteps, TypeOK
  <2>5. Lone' /\ Fresh'
    BY <1>0, <2>1 DEF IInv, Lone, Fresh, Active, At, OnlyMoves, SameAlone,
                      SameReading
  <2>6. Asking' /\ StoppedIsOff'
    BY <1>0, <2>1 DEF IInv, Asking, StoppedIsOff, Active, At, OnlyMoves,
                      SameReading
  <2>7. QED
    BY <2>2, <2>3, <2>4, <2>5, <2>6 DEF IInv
<1>q. QED
  BY <1>a, <1>b DEF Decide

(***************************************************************************)
(* A command unsettles what every thread holds; nobody active beside the   *)
(* sender is alone.                                                        *)
(***************************************************************************)
LEMMA SendStep ==
  ASSUME IInv, NEW t \in Threads, Send(t)
  PROVE  IInv'
<1>1. /\ At(t, "send") /\ store' = Unsettled(store)
      /\ UNCHANGED <<grid, lastGrid, asked, lock, loop, stopped, overlapped,
                     requests, failures>>
  BY DEF Send, cycleVars
<1>2. /\ Typed /\ OnlyMoves(t, "ingest") /\ SameAlone
      /\ \A u \in Threads \ {t} : thread'[u].then = thread[u].then
      /\ thread'[t].then = "verify"
      /\ \A u \in Threads : thread'[u].reading = Unsettled(thread[u].reading)
  BY SendFields DEF IInv
<1>3. /\ store' \in Readings \cup {NoReading}
      /\ store # NoReading => store' # NoReading /\ store'.newest = store.newest
  BY <1>1, UnsettledTyped DEF IInv, TypeOK, RefreshTypeOK
<1>4. \A u \in Threads :
        thread[u].reading # NoReading =>
          /\ thread'[u].reading # NoReading
          /\ thread'[u].reading.grid = thread[u].reading.grid
  BY <1>2, UnsettledTyped DEF IInv, TypeOK, RefreshTypeOK, ThreadStates
<1>5. TypeOK'
  BY <1>1, <1>2, <1>3 DEF IInv, TypeOK, RefreshTypeOK, Typed
<1>6. HoldsReading'
  BY <1>2, <1>4 DEF IInv, HoldsReading, OnlyMoves, AfterIngest
<1>7. CyclesExclude' /\ HolderInside' /\ BackInside'
  BY <1>1, <1>2, CyclesAssumption
     DEF IInv, CyclesExclude, HolderInside, BackInside, Active, At, Cycles,
         OnlyMoves, TypeOK
<1>8. Lone' /\ Fresh'
  BY <1>1, <1>2, <1>3 DEF IInv, Lone, Fresh, Active, At, OnlyMoves, SameAlone
<1>9. Asking'
  BY <1>1, <1>2, <1>4 DEF IInv, Asking, HoldsReading, AfterIngest, Active, At,
                          OnlyMoves
<1>10. StoppedIsOff'
  BY <1>1 DEF IInv, StoppedIsOff
<1>11. QED
  BY <1>5, <1>6, <1>7, <1>8, <1>9, <1>10 DEF IInv

(***************************************************************************)
(* The lock's conjuncts, through a step of a thread that stays inside its  *)
(* refresh.                                                                *)
(***************************************************************************)
LEMMA LockFrame ==
  ASSUME IInv, NEW t \in Threads, NEW label \in RefreshSteps,
         thread[t].pc \in RefreshSteps, OnlyMoves(t, label), SameThen,
         UNCHANGED <<lock, loop, stopped>>
  PROVE  CyclesExclude' /\ HolderInside' /\ BackInside' /\ StoppedIsOff'
<1>1. Active(t) /\ label \notin {"idle", "lock"}
  BY DEF Active, RefreshSteps
<1>2. \A u \in Threads : thread'[u].pc \notin {"idle", "lock"} <=> Active(u)
  BY <1>1 DEF Active, OnlyMoves
<1>3. lock \in Cycles \cup {Free} /\ Cycles \subseteq Threads
  BY CyclesAssumption DEF IInv, TypeOK, Cycles
<1>4. CyclesExclude' /\ HolderInside'
  BY <1>2, <1>3 DEF IInv, CyclesExclude, HolderInside, Active
<1>5. BackInside' /\ StoppedIsOff'
  BY <1>3 DEF IInv, BackInside, StoppedIsOff, OnlyMoves, SameThen
<1>6. QED
  BY <1>4, <1>5

(***************************************************************************)
(* The tick of the twin outdates what the others hold, and what is stored. *)
(***************************************************************************)
LEMMA IngestStep ==
  ASSUME IInv, NEW t \in Threads, Ingest(t), UNCHANGED cycleVars
  PROVE  IInv'
<1>1. /\ At(t, "ingest") /\ store' = Outdated(store)
      /\ UNCHANGED <<grid, lastGrid, asked, lock, loop, stopped, overlapped,
                     requests, failures>>
  BY DEF Ingest, cycleVars
<1>2. /\ Typed /\ OnlyMoves(t, "update") /\ SameThen /\ SameAlone
      /\ \A u \in Threads \ {t} :
           thread'[u].reading = Outdated(thread[u].reading)
      /\ thread'[t].reading \in Readings
      /\ thread'[t].reading.newest /\ thread'[t].reading.settled
  BY IngestFields DEF IInv
<1>3. store' \in Readings \cup {NoReading}
  BY <1>1, OutdatedTyped DEF IInv, TypeOK, RefreshTypeOK
<1>4. \A u \in Threads \ {t} :
        thread[u].reading # NoReading =>
          /\ thread'[u].reading # NoReading
          /\ thread'[u].reading.grid = thread[u].reading.grid
  BY <1>2, OutdatedTyped DEF IInv, TypeOK, RefreshTypeOK, ThreadStates
<1>5. TypeOK'
  BY <1>1, <1>2, <1>3 DEF IInv, TypeOK, RefreshTypeOK, Typed
<1>6. HoldsReading'
  <2>1. thread'[t].reading # NoReading
    BY <1>2, RefreshAssumption DEF Readings
  <2>2. QED
    BY <1>2, <1>4, <2>1 DEF IInv, HoldsReading, OnlyMoves
<1>7. CyclesExclude' /\ HolderInside' /\ BackInside' /\ StoppedIsOff'
  BY <1>1, <1>2, LockFrame DEF At, RefreshSteps
<1>8. Lone' /\ Fresh'
  BY <1>1, <1>2 DEF IInv, Lone, Fresh, Active, At, OnlyMoves, SameAlone
<1>9. Asking'
  BY <1>1, <1>2, <1>4 DEF IInv, Asking, HoldsReading, AfterIngest, Active, At,
                          OnlyMoves
<1>10. QED
  BY <1>5, <1>6, <1>7, <1>8, <1>9 DEF IInv

(***************************************************************************)
(* A tick that raises outdates the same, and the thread is done with.      *)
(***************************************************************************)
LEMMA IngestRaisesStep ==
  ASSUME IInv, NEW t \in Threads, IngestRaises(t)
  PROVE  IInv'
<1>1. /\ At(t, "ingest") /\ store' = Outdated(store)
      /\ lock' = IF lock = t THEN Free ELSE lock
      /\ UNCHANGED <<grid, lastGrid, asked, loop, stopped, overlapped, requests>>
      /\ failures' \in 0..MaxFailures
  BY CyclesAssumption DEF IngestRaises, Release, IInv, TypeOK
<1>2. /\ Typed /\ OnlyMoves(t, "idle")
      /\ \A u \in Threads \ {t} :
           /\ thread'[u].reading = Outdated(thread[u].reading)
           /\ thread'[u].then = thread[u].then
           /\ thread'[u].alone = thread[u].alone
  BY IngestRaisesFields DEF IInv
<1>3. store' \in Readings \cup {NoReading}
  BY <1>1, OutdatedTyped DEF IInv, TypeOK, RefreshTypeOK
<1>4. \A u \in Threads \ {t} :
        thread[u].reading # NoReading =>
          /\ thread'[u].reading # NoReading
          /\ thread'[u].reading.grid = thread[u].reading.grid
  BY <1>2, OutdatedTyped DEF IInv, TypeOK, RefreshTypeOK, ThreadStates
<1>5. TypeOK'
  BY <1>1, <1>2, <1>3 DEF IInv, TypeOK, RefreshTypeOK, Typed
<1>6. HoldsReading'
  BY <1>2, <1>4 DEF IInv, HoldsReading, OnlyMoves, AfterIngest
<1>7. CyclesExclude' /\ HolderInside' /\ BackInside' /\ StoppedIsOff'
  <2>1. lock \in Cycles \cup {Free} /\ Cycles \subseteq Threads
    BY CyclesAssumption DEF IInv, TypeOK, Cycles
  <2>2. QED
    BY <1>1, <1>2, <2>1
       DEF IInv, CyclesExclude, HolderInside, BackInside, StoppedIsOff, Active,
           OnlyMoves, RefreshSteps
<1>8. Lone' /\ Fresh'
  BY <1>1, <1>2 DEF IInv, Lone, Fresh, Active, At, OnlyMoves
<1>9. Asking'
  BY <1>1, <1>2, <1>4 DEF IInv, Asking, HoldsReading, AfterIngest, Active, At,
                          OnlyMoves
<1>10. QED
  BY <1>5, <1>6, <1>7, <1>8, <1>9 DEF IInv

(***************************************************************************)
(* What a thread stores is what it holds; when it is alone, the newest     *)
(* there is.                                                               *)
(***************************************************************************)
LEMMA UpdateStep ==
  ASSUME IInv, NEW t \in Threads, Update(t), UNCHANGED cycleVars
  PROVE  IInv'
<1>1. /\ At(t, "update")
      /\ store' = thread[t].reading /\ thread[t].reading # NoReading
      /\ UNCHANGED <<grid, lastGrid, asked, lock, loop, stopped, overlapped,
                     requests, failures>>
  BY DEF Update, cycleVars, IInv, HoldsReading, AfterIngest, At
<1>2. /\ Typed /\ OnlyMoves(t, "score")
      /\ SameThen /\ SameReading /\ SameAlone
  BY GotoFields DEF Update, IInv, PlaceNames, RefreshSteps
<1>3. TypeOK'
  BY <1>1, <1>2 DEF IInv, TypeOK, RefreshTypeOK, Typed, ThreadStates
<1>4. HoldsReading'
  BY <1>1, <1>2 DEF IInv, HoldsReading, At, OnlyMoves, SameReading, AfterIngest
<1>5. CyclesExclude' /\ HolderInside' /\ BackInside' /\ StoppedIsOff'
  BY <1>1, <1>2, LockFrame DEF At, RefreshSteps
<1>6. Lone' /\ Fresh'
  BY <1>1, <1>2 DEF IInv, Lone, Fresh, Active, At, OnlyMoves, SameAlone,
                    SameReading
<1>7. Asking'
  BY <1>1, <1>2 DEF IInv, Asking, Active, At, OnlyMoves, SameReading
<1>8. QED
  BY <1>3, <1>4, <1>5, <1>6, <1>7 DEF IInv

(***************************************************************************)
(* Scoring touches nothing a thread shares with another.                   *)
(***************************************************************************)
LEMMA ScoreStep ==
  ASSUME IInv, NEW t \in Threads, Score(t), UNCHANGED cycleVars
  PROVE  IInv'
<1>1. /\ At(t, "score")
      /\ UNCHANGED <<grid, store, lastGrid, asked, lock, loop, stopped, overlapped,
                     requests, failures>>
  BY DEF Score, cycleVars
<1>2. /\ Typed /\ OnlyMoves(t, "compare")
      /\ SameThen /\ SameReading /\ SameAlone
  BY GotoFields DEF Score, IInv, PlaceNames, RefreshSteps
<1>3. TypeOK'
  BY <1>1, <1>2 DEF IInv, TypeOK, RefreshTypeOK, Typed
<1>4. HoldsReading'
  BY <1>1, <1>2 DEF IInv, HoldsReading, At, OnlyMoves, SameReading, AfterIngest
<1>5. CyclesExclude' /\ HolderInside' /\ BackInside' /\ StoppedIsOff'
  BY <1>1, <1>2, LockFrame DEF At, RefreshSteps
<1>6. Lone' /\ Fresh'
  BY <1>1, <1>2 DEF IInv, Lone, Fresh, Active, At, OnlyMoves, SameAlone,
                    SameReading
<1>7. Asking'
  BY <1>1, <1>2 DEF IInv, Asking, Active, At, OnlyMoves, SameReading
<1>8. QED
  BY <1>3, <1>4, <1>5, <1>6, <1>7 DEF IInv

(***************************************************************************)
(* A change is asked for; without one, what was asked for last is what is  *)
(* remembered.                                                             *)
(***************************************************************************)
LEMMA CompareStep ==
  ASSUME IInv, NEW t \in Threads, Compare(t), UNCHANGED cycleVars
  PROVE  IInv'
<1>1. /\ At(t, "compare")
      /\ asked' = Asked(thread[t].reading) /\ thread[t].reading # NoReading
      /\ UNCHANGED <<grid, store, lastGrid, lock, loop, stopped, overlapped,
                     requests, failures>>
  BY DEF Compare, cycleVars, IInv, HoldsReading, AfterIngest, At
<1>2. /\ Typed /\ OnlyMoves(t, "assign")
      /\ SameThen /\ SameReading /\ SameAlone
  BY GotoFields DEF Compare, IInv, PlaceNames, RefreshSteps
<1>3. TypeOK'
  <2>1. thread[t].reading \in Readings
    BY <1>1 DEF IInv, TypeOK, RefreshTypeOK, ThreadStates
  <2>2. asked' \in GridStatuses
    BY <1>1, <2>1 DEF IInv, TypeOK, RefreshTypeOK, Readings, Asked
  <2>3. QED
    BY <1>1, <1>2, <2>2 DEF IInv, TypeOK, RefreshTypeOK, Typed
<1>4. HoldsReading'
  BY <1>1, <1>2 DEF IInv, HoldsReading, At, OnlyMoves, SameReading, AfterIngest
<1>5. CyclesExclude' /\ HolderInside' /\ BackInside' /\ StoppedIsOff'
  BY <1>1, <1>2, LockFrame DEF At, RefreshSteps
<1>6. Lone' /\ Fresh'
  BY <1>1, <1>2 DEF IInv, Lone, Fresh, Active, At, OnlyMoves, SameAlone,
                    SameReading
<1>7. Asking'
  BY <1>1, <1>2 DEF IInv, Asking, Active, At, OnlyMoves, SameReading, Asked
<1>8. QED
  BY <1>3, <1>4, <1>5, <1>6, <1>7 DEF IInv

(***************************************************************************)
(* The thread remembers the status and returns to its caller: a cycle's    *)
(* thread stays inside the cycle.                                          *)
(***************************************************************************)
LEMMA AssignStep ==
  ASSUME IInv, NEW t \in Threads, Assign(t), UNCHANGED cycleVars
  PROVE  IInv'
<1>1. /\ At(t, "assign") /\ lastGrid' = thread[t].reading.grid
      /\ thread[t].reading \in Readings /\ thread[t].then \in Labels
      /\ UNCHANGED <<grid, store, asked, lock, loop, stopped, overlapped,
                     requests, failures>>
  BY DEF Assign, cycleVars, IInv, HoldsReading, AfterIngest, At, TypeOK,
         RefreshTypeOK, ThreadStates
<1>2. /\ Typed /\ OnlyMoves(t, thread[t].then)
      /\ \A u \in Threads \ {t} : thread'[u] = thread[u]
      /\ thread[t].then # "idle" => thread'[t].alone = thread[t].alone
  BY AssignFields DEF IInv
<1>3. TypeOK'
  BY <1>1, <1>2 DEF IInv, TypeOK, RefreshTypeOK, Typed, Readings
<1>4. HoldsReading'
  BY <1>1, <1>2 DEF IInv, HoldsReading, OnlyMoves, AfterIngest, Labels
<1>5. CyclesExclude' /\ HolderInside' /\ BackInside'
  <2>1. lock \in Cycles \cup {Free} /\ Cycles \subseteq Threads
    BY CyclesAssumption DEF IInv, TypeOK, Cycles
  <2>2. t \in Cycles => thread[t].then \in {"decide", "verify"}
    BY <1>1 DEF IInv, BackInside, At, RefreshSteps
  <2>3. CyclesExclude' /\ HolderInside'
    BY <1>1, <1>2, <2>1, <2>2
       DEF IInv, CyclesExclude, HolderInside, Active, At, OnlyMoves
  <2>4. BackInside'
    BY <1>2, <2>1, <2>2 DEF IInv, BackInside, OnlyMoves, RefreshSteps
  <2>5. QED
    BY <2>3, <2>4
<1>6. Lone'
  BY <1>1, <1>2 DEF IInv, Lone, Active, At, OnlyMoves
<1>7. Fresh'
  BY <1>1, <1>2 DEF IInv, Fresh, Lone, Active, At, OnlyMoves, Labels
<1>8. Asking'
  BY <1>1, <1>2 DEF IInv, Asking, Active, At, OnlyMoves, Labels
<1>9. StoppedIsOff'
  BY <1>1 DEF IInv, StoppedIsOff
<1>10. QED
  BY <1>3, <1>4, <1>5, <1>6, <1>7, <1>8, <1>9 DEF IInv

-----------------------------------------------------------------------------
(***************************************************************************)
(* The refresh that ends the constructor is over and no thread runs.       *)
(***************************************************************************)
LEMMA InitInductive == Init => IInv
<1> SUFFICES ASSUME Init PROVE IInv
  OBVIOUS
<1>1. \A t \in Threads :
        /\ thread[t] \in ThreadStates(Labels)
        /\ thread[t].pc = "idle"
  BY DEF Init, RefreshInit, ThreadStates, Labels
<1>2. TypeOK
  <2>1. RefreshTypeOK(Labels)
    <3>1. DOMAIN thread = Threads /\ thread \in [Threads -> ThreadStates(Labels)]
      BY <1>1 DEF Init, RefreshInit
    <3>2. QED
      BY <3>1, RefreshAssumption
         DEF Init, RefreshInit, RefreshTypeOK, Readings
  <2>2. requests \in 0..MaxRequests /\ failures \in 0..MaxFailures
    BY CyclesAssumption DEF Init
  <2>3. QED
    BY <2>1, <2>2 DEF Init, TypeOK
<1>3. HoldsReading /\ Lone /\ Fresh /\ StoppedIsOff
  BY <1>1 DEF Init, HoldsReading, AfterIngest, Lone, Active, Fresh, At,
              StoppedIsOff
<1>4. CyclesExclude /\ HolderInside /\ BackInside
  BY <1>1, CyclesAssumption DEF Init, CyclesExclude, HolderInside, BackInside,
                                Active, Cycles, RefreshSteps
<1>5. Asking
  BY <1>1 DEF Init, RefreshInit, Asking, Active, At
<1>6. QED
  BY <1>2, <1>3, <1>4, <1>5 DEF IInv

(***************************************************************************)
(* Every step of every thread, of the loop and of stop keeps the           *)
(* invariant.                                                              *)
(***************************************************************************)
LEMMA NextInductive == IInv /\ [Next]_vars => IInv'
<1> SUFFICES ASSUME IInv, [Next]_vars PROVE IInv'
  OBVIOUS
<1> Threads = Cycles \cup Endpoints /\ Automatic \in Cycles
  BY CyclesAssumption DEF Cycles
<1> requests \in 0..MaxRequests /\ failures \in 0..MaxFailures
  BY DEF IInv, TypeOK
<1>0. MaxRequests \in Nat /\ MaxFailures \in Nat
  BY CyclesAssumption
<1>1. CASE Start \/ CycleReturned \/ Stop
  BY <1>1, LoopStep
<1>2. CASE Wake
  <2>1. requests' \in 0..MaxRequests
    BY <1>2 DEF Wake
  <2>2. QED
    BY <1>2, <2>1, AskStep DEF Wake
<1>3. ASSUME NEW t \in Manual, RequestCycle(t)
      PROVE  IInv'
  <2>1. requests' \in 0..MaxRequests
    BY <1>0, <1>3 DEF RequestCycle
  <2>2. t \in Cycles
    BY DEF Cycles
  <2>3. QED
    BY <1>3, <2>1, <2>2, AskStep DEF RequestCycle
<1>4. ASSUME NEW t \in Cycles, AcquireLock(t)
      PROVE  IInv'
  <2>1. /\ ~Active(t)
        /\ SetOut(t, "ingest", "decide") /\ lock = Free /\ lock' = t
        /\ UNCHANGED <<grid, store, lastGrid, asked, loop, stopped, requests,
                       failures>>
    BY <1>4 DEF AcquireLock, Active, At
  <2>2. grid' \in GridStatuses /\ requests' \in 0..MaxRequests
    BY <2>1 DEF IInv, TypeOK, RefreshTypeOK
  <2>3. QED
    BY <2>1, <2>2, SetOutStep
<1>5. ASSUME NEW t \in Cycles, Decide(t)
      PROVE  IInv'
  BY <1>5, DecideStep
<1>6. ASSUME NEW t \in Threads, Send(t)
      PROVE  IInv'
  BY <1>6, SendStep
<1>7. ASSUME NEW t \in Threads, Verify(t)
      PROVE  IInv'
  <2>1. failures' \in 0..MaxFailures
    BY <1>7 DEF Verify
  <2>2. QED
    BY <1>7, <2>1, EndStep DEF Verify
<1>8. ASSUME NEW t \in Endpoints, InjectFault(t) \/ ApproveCommand(t)
      PROVE  IInv'
  <2>1. ~Active(t) /\ requests' \in 0..MaxRequests
    BY <1>0, <1>8 DEF InjectFault, ApproveCommand, Active, At
  <2>2. CASE InjectFault(t)
    BY <2>1, <2>2, SetOutStep DEF InjectFault
  <2>3. CASE ApproveCommand(t)
    <3>1. grid' \in GridStatuses
      BY <2>3 DEF ApproveCommand, IInv, TypeOK, RefreshTypeOK
    <3>2. QED
      BY <2>1, <2>3, <3>1, SetOutStep DEF ApproveCommand
  <2>4. QED
    BY <1>8, <2>2, <2>3
<1>9. ASSUME NEW t \in Threads, Refresh(t), UNCHANGED cycleVars
      PROVE  IInv'
  BY <1>9, IngestStep, UpdateStep, ScoreStep, CompareStep, AssignStep
     DEF Refresh
<1>10. ASSUME NEW t \in Threads, Fail(t)
       PROVE  IInv'
  <2>1. failures' \in 0..MaxFailures
    BY <1>0, <1>10 DEF Fail, MayRaise
  <2>2. QED
    BY <1>10, <2>1, EndStep DEF Fail, MayRaise
<1>11. ASSUME NEW t \in Threads, IngestRaises(t)
       PROVE  IInv'
  BY <1>11, IngestRaisesStep
<1>12. CASE UNCHANGED vars
  BY <1>12 DEF vars, refreshVars, cycleVars, IInv, TypeOK, RefreshTypeOK,
               HoldsReading, CyclesExclude, HolderInside, BackInside, Lone,
               Fresh, Asking, StoppedIsOff, Active, At
<1>13. QED
  BY <1>1, <1>2, <1>3, <1>4, <1>5, <1>6, <1>7, <1>8, <1>9, <1>10, <1>11, <1>12
     DEF Next, Cycle

(***************************************************************************)
(* The inductive invariant holds in every state the program reaches.       *)
(***************************************************************************)
LEMMA Inductive == Spec => []IInv
BY InitInductive, NextInductive, PTL DEF Spec

(***************************************************************************)
(* Threads, readings, the lock and the loop keep their types, whoever      *)
(* fails and wherever.                                                     *)
(***************************************************************************)
THEOREM TypeCorrect == Spec => []TypeOK
<1>1. IInv => TypeOK
  BY DEF IInv
<1>2. QED
  BY Inductive, <1>1, PTL

(***************************************************************************)
(* _decision_cycle_lock does what its comment says: a manual cycle and an  *)
(* automatic one never run concurrently, also when cycles raise.           *)
(***************************************************************************)
THEOREM LockExcludes == Spec => []CyclesExclude
<1>1. IInv => CyclesExclude
  BY DEF IInv
<1>2. QED
  BY Inductive, <1>1, PTL

(***************************************************************************)
(* A cycle that nothing runs beside decides on the newest reading, and     *)
(* verifies a command on one taken after it was sent.                      *)
(***************************************************************************)
THEOREM LoneCycleIsCurrent == Spec => []AloneReadsTheNewest
<1>1. IInv => AloneReadsTheNewest
  BY DEF IInv, Fresh, AloneReadsTheNewest, At
<1>2. QED
  BY Inductive, <1>1, PTL

(***************************************************************************)
(* Until two refreshes first overlap, the grid status the system remembers *)
(* is the one the notifier was last asked to tell.  Nothing is said of the *)
(* message's arrival.                                                      *)
(***************************************************************************)
THEOREM NotifierIsAsked == Spec => []AskedWhatIsRemembered
<1>1. IInv => AskedWhatIsRemembered
  BY DEF IInv, Asking, AskedWhatIsRemembered
<1>2. QED
  BY Inductive, <1>1, PTL

(***************************************************************************)
(* After stop has returned the loop is off for good, and only the loop     *)
(* asks for an automatic cycle.                                            *)
(***************************************************************************)
THEOREM StopEndsTheCycles == Spec => StopIsFinal
<1>1. IInv /\ [Next]_vars =>
        [stopped => ~(At(Automatic, "idle") /\ thread'[Automatic].pc # "idle")]_vars
  <2> SUFFICES ASSUME IInv, Next, stopped, At(Automatic, "idle")
               PROVE  thread'[Automatic].pc = "idle"
    OBVIOUS
  <2> DEFINE stays == thread'[Automatic].pc = "idle"
  <2>1. /\ loop = "off" /\ Automatic \in Threads /\ Automatic \notin Endpoints
        /\ Automatic \notin Manual /\ TypeOK
        /\ Cycles \subseteq Threads /\ Manual \subseteq Threads
        /\ Endpoints \subseteq Threads
    BY CyclesAssumption DEF IInv, StoppedIsOff, Cycles
  <2>2. ASSUME Start \/ Wake \/ CycleReturned \/ Stop
        PROVE  stays
    BY <2>1, <2>2 DEF Start, Wake, CycleReturned, Stop, At, refreshVars
  <2>3. ASSUME NEW t \in Manual, RequestCycle(t)
        PROVE  stays
    BY <2>1, <2>3, GotoFields DEF RequestCycle, OnlyMoves, PlaceNames, Labels, At
  <2>4. ASSUME NEW t \in Threads \ {Automatic}, NEW label \in PlaceNames,
               NEW then \in Labels, SetOut(t, label, then)
        PROVE  stays
    BY <2>1, <2>4, SetOutFields DEF OnlyMoves, At
  <2>5. ASSUME NEW t \in Cycles, AcquireLock(t)
        PROVE  stays
    BY <2>1, <2>4, <2>5 DEF AcquireLock, At, PlaceNames, RefreshSteps, Labels
  <2>6. ASSUME NEW t \in Threads, Done(t)
        PROVE  stays
    BY <2>1, <2>6, DoneFields DEF OnlyMoves, At
  <2>7. ASSUME NEW t \in Threads \ {Automatic}, NEW label \in PlaceNames,
               Goto(t, label)
        PROVE  stays
    BY <2>1, <2>7, GotoFields DEF OnlyMoves, At
  <2>8. ASSUME NEW t \in Threads, Decide(t) \/ Verify(t) \/ Fail(t)
        PROVE  stays
    BY <2>6, <2>7, <2>8 DEF Decide, Verify, Fail, At, PlaceNames, Labels
  <2>9. ASSUME NEW t \in Threads, Send(t)
        PROVE  stays
    BY <2>1, <2>9, SendFields DEF Send, OnlyMoves, At
  <2>10. ASSUME NEW t \in Endpoints, InjectFault(t) \/ ApproveCommand(t)
         PROVE  stays
    BY <2>1, <2>4, <2>10 DEF InjectFault, ApproveCommand, PlaceNames,
                             RefreshSteps, Labels
  <2>11. ASSUME NEW t \in Threads, Refresh(t)
         PROVE  stays
    <3>1. t # Automatic
      BY <2>11 DEF Refresh, Ingest, Update, Score, Compare, Assign, At
    <3>2. CASE Update(t) \/ Score(t) \/ Compare(t)
      BY <2>7, <3>1, <3>2 DEF Update, Score, Compare, PlaceNames, RefreshSteps
    <3>3. CASE Ingest(t)
      BY <2>1, <3>1, <3>3, IngestFields DEF OnlyMoves, At
    <3>4. CASE Assign(t)
      BY <2>1, <3>1, <3>4, AssignFields DEF OnlyMoves, At
    <3>5. QED
      BY <2>11, <3>2, <3>3, <3>4 DEF Refresh
  <2>12. ASSUME NEW t \in Threads, IngestRaises(t)
         PROVE  stays
    <3>1. t # Automatic
      BY <2>1, <2>12 DEF IngestRaises, At
    <3>2. QED
      BY <2>1, <2>12, <3>1, IngestRaisesFields DEF OnlyMoves, At
  <2>13. QED
    <3> HIDE DEF stays
    <3>1. ASSUME NEW t \in Cycles, Cycle(t)
          PROVE  stays
      BY <2>1, <2>5, <2>8, <2>9, <3>1 DEF Cycle
    <3>2. ASSUME NEW t \in Endpoints, Send(t) \/ Verify(t)
          PROVE  stays
      BY <2>1, <2>8, <2>9, <3>2
    <3>3. ASSUME NEW t \in Threads,
                 (Refresh(t) /\ UNCHANGED cycleVars) \/ IngestRaises(t) \/ Fail(t)
          PROVE  stays
      BY <2>8, <2>11, <2>12, <3>3
    <3>4. stays
      BY <2>2, <2>3, <2>10, <3>1, <3>2, <3>3 DEF Next
    <3>5. QED
      BY <3>4 DEF stays
<1>2. QED
  BY Inductive, <1>1, PTL DEF Spec, StopIsFinal
=============================================================================
