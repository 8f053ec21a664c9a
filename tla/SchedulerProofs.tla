--------------------------- MODULE SchedulerProofs ---------------------------
(***************************************************************************)
(* No interleaving of wake, wait and clear loses a wake, however many      *)
(* there are.                                                              *)
(***************************************************************************)
EXTENDS Scheduler, TLAPS

Steps == WakeKept /\ TypeOK

USE BoundAssumption

LEMMA InitSteps == Init => Steps
<1>1. Init => WakeKept
  BY DEF Init, WakeKept
<1>2. Init => TypeOK
  <2>1. Init => wake \in BOOLEAN /\ stop \in BOOLEAN /\ owed \in BOOLEAN
    BY Zenon DEF Init
  <2>2. Init => /\ pc = "test" /\ failures \in 0..MaxFailures
                /\ stopper \in 0..MaxStops /\ wakes \in 0..MaxWakes
    BY DEF Init
  <2> QED
    BY <2>1, <2>2, Zenon DEF TypeOK
<1> QED
  BY <1>1, <1>2 DEF Steps

\* wake_event is cleared only between a wait and a stop check, and every path
\* from there to the next wait starts a refresh.
LEMMA NextSteps == Steps /\ [Next]_vars => Steps'
<1> SUFFICES ASSUME Steps, [Next]_vars PROVE Steps'
  OBVIOUS
<1> USE DEF Steps, WakeKept, TypeOK
<1>1. CASE LoopTest                  BY <1>1 DEF LoopTest
<1>2. CASE RunStarts                 BY <1>2 DEF RunStarts
<1>3. CASE RunReturns \/ RunRaises   BY <1>3 DEF RunReturns, RunRaises
<1>4. CASE WaitReturns \/ WaitTimesOut
  BY <1>4 DEF WaitReturns, WaitTimesOut
<1>5. CASE Clear \/ StopCheck        BY <1>5 DEF Clear, StopCheck
<1>6. CASE Wake                      BY <1>6 DEF Wake
<1>7. ASSUME NEW half \in {1, 2}, RequestStop(half) PROVE Steps'
  <2>1. wake' \in BOOLEAN /\ stop' \in BOOLEAN /\ owed' \in BOOLEAN
    BY <1>7, Zenon DEF RequestStop
  <2>3. /\ UNCHANGED <<pc, failures, wakes>>
        /\ stopper' \in 0..MaxStops
    BY <1>7 DEF RequestStop
  <2>4. TypeOK'
    BY <2>1, <2>3, Zenon
  <2>2. WakeKept'
    BY <1>7 DEF RequestStop
  <2> QED
    BY <2>2, <2>4
<1>8. CASE UNCHANGED vars            BY <1>8 DEF vars
<1> QED
  BY <1>1, <1>2, <1>3, <1>4, <1>5, <1>6, <1>7, <1>8 DEF Next, Thread

\* The variables keep their types, for any number of wakes and failures.
THEOREM TypeCorrect == Spec => []TypeOK
<1>1. Steps => TypeOK
  BY DEF Steps
<1> QED
  BY <1>1, InitSteps, NextSteps, PTL DEF Spec

\* A SIGUSR1 that no refresh has answered is still in wake_event whenever the
\* thread refreshes or waits.
THEOREM NoWakeLost == Spec => []WakeKept
<1>1. Steps => WakeKept
  BY DEF Steps
<1> QED
  BY <1>1, InitSteps, NextSteps, PTL DEF Spec
------------------------------------------------------------------------------
(* The progress of the thread: what StopEndsThread and WakeHonoured rest on,  *)
(* but for the fairness.                                                      *)

\* A thread that still has a refresh or a wait ahead of it hears of the stop:
\* wake_event is set, or the call that sets it is under way.
StopHeard == stop /\ pc \in {"starting", "running", "waiting"} => wake \/ stopper > 0

\* How far the thread is from its end, once stop_event is set.
ToExit ==
    [starting |-> 6, running |-> 5, waiting |-> 4, clearing |-> 3, checking |-> 2, test |-> 1,
     exited |-> 0][pc]

\* How far it is from the beginning of its next refresh.
ToRefresh ==
    [running |-> 6, waiting |-> 5, clearing |-> 4, checking |-> 3, test |-> 2, starting |-> 1,
     exited |-> 0][pc]

\* After a stop the thread only moves towards its end.
StopCloses == [][stop => pc' = pc \/ ToExit' < ToExit]_vars

\* While a refresh is owed the thread only moves towards one.
OwedComes == [][owed /\ owed' => pc' = pc \/ ToRefresh' < ToRefresh]_vars

\* Nobody has called request_stop yet.
LEMMA InitHeard == Init => StopHeard
BY DEF Init, StopHeard

\* The thread clears the event only on its way to a check of the stop, and each
\* request_stop that begins ends by setting it.
LEMMA NextHeard == Steps /\ StopHeard /\ [Next]_vars => StopHeard'
<1> SUFFICES ASSUME Steps, StopHeard, [Next]_vars
             PROVE  StopHeard'
  OBVIOUS
<1> USE DEF StopHeard
<1>1. stopper \in Nat
  BY DEF Steps, TypeOK
<1>2. CASE LoopTest \/ RunStarts \/ RunReturns \/ RunRaises
  BY <1>2 DEF LoopTest, RunStarts, RunReturns, RunRaises
<1>3. CASE WaitReturns \/ WaitTimesOut \/ Clear \/ StopCheck
  BY <1>3 DEF WaitReturns, WaitTimesOut, Clear, StopCheck
<1>4. CASE Wake
  BY <1>4 DEF Wake
<1>5. ASSUME NEW half \in {1, 2}, RequestStop(half)
      PROVE  StopHeard'
  <2>1. pc' = pc /\ (wake' \/ stopper' = stopper + 1)
    BY <1>5 DEF RequestStop
  <2> QED BY <1>1, <2>1
<1>6. CASE UNCHANGED vars
  BY <1>6 DEF vars
<1> QED
  BY <1>2, <1>3, <1>4, <1>5, <1>6 DEF Next, Thread

\* A stop does not leave the thread asleep for the interval of six hours: whoever
\* set stop_event has set wake_event since, or is about to.
THEOREM StopIsHeard == Spec => []StopHeard
BY InitSteps, NextSteps, InitHeard, NextHeard, PTL DEF Spec

\* Once stop_event is set, every step of the thread brings it closer to its end,
\* an exception of the refresh included.
LEMMA StepCloses ==
  ASSUME Steps, [Next]_vars, stop
  PROVE  pc' = pc \/ ToExit' < ToExit
<1> USE DEF ToExit
<1>1. CASE LoopTest \/ RunStarts \/ StopCheck
  <2>1. \/ pc = "test" /\ pc' = "exited"
        \/ pc = "starting" /\ pc' = "running"
        \/ pc = "checking" /\ pc' = "exited"
    BY <1>1, Zenon DEF LoopTest, RunStarts, StopCheck
  <2> QED BY <2>1
<1>2. CASE RunReturns \/ RunRaises
  <2>1. pc = "running" /\ pc' \in {"waiting", "exited"}
    BY <1>2 DEF RunReturns, RunRaises
  <2> QED BY <2>1
<1>3. CASE WaitReturns \/ WaitTimesOut
  <2>1. pc = "waiting" /\ pc' = "clearing"
    BY <1>3 DEF WaitReturns, WaitTimesOut
  <2> QED BY <2>1
<1>4. CASE Clear
  BY <1>4 DEF Clear
<1>5. CASE Wake \/ (\E half \in {1, 2} : RequestStop(half)) \/ UNCHANGED vars
  BY <1>5 DEF Wake, RequestStop, vars
<1> QED
  BY <1>1, <1>2, <1>3, <1>4, <1>5 DEF Next, Thread

\* So the thread comes to its end by itself after a stop: no path leads it back to
\* a refresh or to a wait that it has left.
THEOREM StopClosesTheThread == Spec => StopCloses
<1>1. Steps /\ [Next]_vars => [stop => pc' = pc \/ ToExit' < ToExit]_vars
  BY StepCloses
<1> QED
  BY <1>1, InitSteps, NextSteps, PTL DEF Spec, StopCloses

\* While a refresh is owed, every step of the thread brings it closer to one.
LEMMA StepOwes ==
  ASSUME Steps, [Next]_vars, owed, owed'
  PROVE  pc' = pc \/ ToRefresh' < ToRefresh
<1> USE DEF ToRefresh
<1>1. CASE LoopTest \/ RunStarts \/ StopCheck
  <2>1. \/ pc = "test" /\ pc' \in {"exited", "starting"}
        \/ RunStarts /\ ~owed'
        \/ pc = "checking" /\ pc' \in {"exited", "test"}
    BY <1>1 DEF LoopTest, RunStarts, StopCheck
  <2> QED BY <2>1
<1>2. CASE RunReturns \/ RunRaises
  <2>1. pc = "running" /\ pc' \in {"waiting", "exited"}
    BY <1>2 DEF RunReturns, RunRaises
  <2> QED BY <2>1
<1>3. CASE WaitReturns \/ WaitTimesOut
  <2>1. pc = "waiting" /\ pc' = "clearing"
    BY <1>3 DEF WaitReturns, WaitTimesOut
  <2> QED BY <2>1
<1>4. CASE Clear
  BY <1>4 DEF Clear
<1>5. CASE Wake \/ (\E half \in {1, 2} : RequestStop(half)) \/ UNCHANGED vars
  BY <1>5 DEF Wake, RequestStop, vars
<1> QED
  BY <1>1, <1>2, <1>3, <1>4, <1>5 DEF Next, Thread

\* A wake that no refresh has answered is answered by the next one that the thread
\* comes to, and with WakeKept it does not sleep before it.
THEOREM OwedRefreshComes == Spec => OwedComes
<1>1. Steps /\ [Next]_vars => [owed /\ owed' => pc' = pc \/ ToRefresh' < ToRefresh]_vars
  BY StepOwes
<1> QED
  BY <1>1, InitSteps, NextSteps, PTL DEF Spec, OwedComes
=============================================================================
