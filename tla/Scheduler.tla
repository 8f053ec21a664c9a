------------------------------ MODULE Scheduler ------------------------------
(***************************************************************************)
(* RefreshScheduler (bk_crowns/server.py): a thread that refreshes the     *)
(* shared sources, then waits for a delay or for wake_event.  SIGUSR1 sets *)
(* wake_event; SIGTERM sets stop_event, then wake_event.  Nothing is       *)
(* locked: the hazards are a wake lost between wait and clear, and a stop  *)
(* that leaves the thread asleep for the six hours of the interval.        *)
(* Service composes it with the main thread that runs the handlers.        *)
(***************************************************************************)
EXTENDS Naturals

CONSTANTS MaxWakes, MaxFailures, MaxStops   \* bounds of the model

ASSUME BoundAssumption == MaxWakes \in Nat /\ MaxFailures \in Nat /\ MaxStops \in Nat

VARIABLES
    pc,         \* where run_forever stands
    failures,   \* its local count
    wake, stop, \* _wake_event and _stop_event
    stopper,    \* how many calls of request_stop are between their two events
    wakes,      \* how many times wake was called
    owed        \* history: no refresh has begun since the last wake

vars == <<pc, failures, wake, stop, stopper, wakes, owed>>

Init ==
    /\ pc = "test" /\ failures = 0
    /\ wake = FALSE /\ stop = FALSE
    /\ stopper = 0 /\ wakes = 0 /\ owed = FALSE
------------------------------------------------------------------------------
(* run_forever and _wait.                                                  *)

LoopTest ==
    /\ pc = "test"
    /\ pc' = IF stop THEN "exited" ELSE "starting"
    /\ UNCHANGED <<failures, wake, stop, stopper, wakes, owed>>

RunStarts ==
    /\ pc = "starting" /\ pc' = "running"
    /\ owed' = FALSE
    /\ UNCHANGED <<failures, wake, stop, stopper, wakes>>

\* Mutant: _wait clears the event before it waits.
RunReturnsThenClears ==
    /\ pc = "running" /\ pc' = "waiting"
    /\ failures' = 0 /\ wake' = FALSE
    /\ UNCHANGED <<stop, stopper, wakes, owed>>

RunReturns ==
    /\ pc = "running" /\ pc' = "waiting"
    /\ failures' = 0
    /\ UNCHANGED <<wake, stop, stopper, wakes, owed>>

\* Mutant: the thread does not survive an exception of refresher.run.
RunRaisesOut ==
    /\ pc = "running" /\ pc' = "exited"
    /\ UNCHANGED <<failures, wake, stop, stopper, wakes, owed>>

RunRaises ==
    /\ pc = "running"
    /\ IF stop
       THEN pc' = "exited" /\ UNCHANGED failures
       ELSE /\ pc' = "waiting"
            /\ failures' = IF failures < MaxFailures THEN failures + 1 ELSE failures
    /\ UNCHANGED <<wake, stop, stopper, wakes, owed>>

WaitReturns ==
    /\ pc = "waiting" /\ wake
    /\ pc' = "clearing"
    /\ UNCHANGED <<failures, wake, stop, stopper, wakes, owed>>

WaitTimesOut ==
    /\ pc = "waiting" /\ ~wake
    /\ pc' = "clearing"
    /\ UNCHANGED <<failures, wake, stop, stopper, wakes, owed>>

Clear ==
    /\ pc = "clearing" /\ pc' = "checking"
    /\ wake' = FALSE
    /\ UNCHANGED <<failures, stop, stopper, wakes, owed>>

StopCheck ==
    /\ pc = "checking"
    /\ pc' = IF stop THEN "exited" ELSE "test"
    /\ UNCHANGED <<failures, wake, stop, stopper, wakes, owed>>
------------------------------------------------------------------------------
(* Other threads and signal handlers.                                      *)

Wake ==
    /\ wakes < MaxWakes /\ wakes' = wakes + 1
    /\ wake' = TRUE /\ owed' = TRUE
    /\ UNCHANGED <<pc, failures, stop, stopper>>

\* Mutant: request_stop wakes the thread before it sets stop_event.
WakeThenStop(half) ==
    \/ /\ half = 1 /\ stopper < MaxStops /\ stopper' = stopper + 1
       /\ wake' = TRUE
       /\ UNCHANGED <<pc, failures, stop, wakes, owed>>
    \/ /\ half = 2 /\ stopper > 0 /\ stopper' = stopper - 1
       /\ stop' = TRUE
       /\ UNCHANGED <<pc, failures, wake, wakes, owed>>

\* request_stop sets one event, then the other; the thread may run between the
\* two, and a signal may start another call there.
RequestStop(half) ==
    \/ /\ half = 1 /\ stopper < MaxStops /\ stopper' = stopper + 1
       /\ stop' = TRUE
       /\ UNCHANGED <<pc, failures, wake, wakes, owed>>
    \/ /\ half = 2 /\ stopper > 0 /\ stopper' = stopper - 1
       /\ wake' = TRUE
       /\ UNCHANGED <<pc, failures, stop, wakes, owed>>

Thread ==
    \/ LoopTest \/ RunStarts \/ RunReturns \/ RunRaises
    \/ WaitReturns \/ Clear \/ StopCheck

Next == Thread \/ WaitTimesOut \/ Wake \/ \E half \in {1, 2} : RequestStop(half)

Spec == Init /\ [][Next]_vars
------------------------------------------------------------------------------
TypeOK ==
    /\ pc \in {"test", "starting", "running", "waiting", "clearing", "checking", "exited"}
    /\ failures \in 0..MaxFailures
    /\ wake \in BOOLEAN /\ stop \in BOOLEAN /\ owed \in BOOLEAN
    /\ stopper \in 0..MaxStops /\ wakes \in 0..MaxWakes

\* While a refresh is owed, the thread is on its way to one or wake_event is
\* still set: no interleaving of wake, wait and clear drops a SIGUSR1.
WakeKept ==
    owed /\ pc \in {"running", "waiting"} => wake

\* A wake is answered by a refresh without waiting for the delay, unless the
\* thread is told to stop.
WakeHonoured == owed ~> (~owed \/ stop)

\* README, "le processus reste vivant et réessaie": if the delays elapse, the
\* thread refreshes again and again until it is stopped, whatever the refreshes raise.
RefreshesForEver == WF_vars(WaitTimesOut) => []<>(pc = "running" \/ stop)
=============================================================================
