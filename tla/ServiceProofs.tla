---------------------------- MODULE ServiceProofs ----------------------------
(***************************************************************************)
(* The scheduler keeps its guarantee inside the service; the slots of the  *)
(* HTTP server add up; and one operation at most outlasts the stop.  For   *)
(* every number of slots, signals, jobs and operations.                    *)
(***************************************************************************)
EXTENDS Service, SchedulerProofs

USE SlotsAssumption

\* Every step of the service is a step of the scheduler, or none of it.
LEMMA StepIsScheduler == [ServiceNext]_service => [Next]_vars
<1> SUFFICES ASSUME [ServiceNext]_service PROVE Next \/ UNCHANGED vars
  OBVIOUS
<1>1. CASE SchedulerThread
  BY <1>1 DEF SchedulerThread, SchedulerLocks, thread, events, vars, Next, Thread
<1>2. CASE DelayElapses
  BY <1>2 DEF DelayElapses, Next
<1>3. CASE EnsureRunning \/ BeginOperation \/ EndOperation
  BY <1>3 DEF EnsureRunning, BeginOperation, EndOperation
<1>4. CASE WorkerThread \/ Connection \/ HandlerEnds
  BY <1>4 DEF WorkerThread, Connection, HandlerEnds
<1>5. CASE MainThread
  BY <1>5 DEF MainThread, Close, Next
<1>6. CASE SigTerm \/ SigUsr1 \/ SigInt \/ Shutdown
  BY <1>6 DEF SigTerm, SigUsr1, SigInt, Shutdown
<1>7. CASE Handler
  BY <1>7 DEF Handler, Terminate, RefreshNow, Next
<1>8. CASE UNCHANGED service
  BY <1>8 DEF service
<1> QED
  BY <1>1, <1>2, <1>3, <1>4, <1>5, <1>6, <1>7, <1>8 DEF ServiceNext

\* A SIGUSR1 is not lost either when handlers interrupt the main thread, one
\* another and the shutdown.
THEOREM ServiceKeepsWakes == ServiceSpec => []WakeKept
<1>1. ServiceInit => Steps
  BY InitSteps DEF ServiceInit
<1>2. Steps /\ [ServiceNext]_service => Steps'
  BY NextSteps, StepIsScheduler
<1>3. Steps => WakeKept
  BY DEF Steps
<1> QED
  BY <1>1, <1>2, <1>3, PTL DEF ServiceSpec
------------------------------------------------------------------------------
(* One operation outlasts the stop.                                         *)

\* The stop that the scheduler hears is final, and so is the end of its thread.
LEMMA StopIsFinal ==
  [Next]_vars => /\ stop => stop'
                 /\ pc = "exited" => pc' = "exited"
BY DEF Next, vars, Thread, LoopTest, RunStarts, RunReturns, RunRaises, WaitReturns,
       WaitTimesOut, Clear, StopCheck, Wake, RequestStop

\* The main thread has called request_stop, or has joined the scheduler thread.
Stopping == {"wake", "join", "stopWorker", "joinWorker", "closed"}
AfterJoin == {"stopWorker", "joinWorker", "closed"}

\* No check passes after the stop, so that the operation that ends after it is
\* the only one; a thread that has been joined has exited, or is held up.
Joined ==
    /\ late \in {0, 1}
    /\ late = 1 => stop /\ op = "idle"
    /\ main \in Stopping => stop
    /\ main \in AfterJoin => HeldUp \/ pc = "exited"
    /\ main = "closed" => HeldUp \/ wpc \in {"none", "exited"}

\* What each action may do to the state that Joined speaks of.
Closing == MainThread /\ Close

Elsewhere == main' = main \/ main' \notin Stopping

Idle == late' = late /\ op' = op

LEMMA ClosingSteps ==
  ASSUME [ServiceNext]_service
  PROVE  /\ Elsewhere \/ Closing
         /\ Idle \/ EnsureRunning \/ BeginOperation \/ EndOperation
         /\ main = "closed" => wpc' = wpc
<1>1. CASE SchedulerThread
  <2>1. Idle
    BY <1>1 DEF SchedulerThread, SchedulerLocks, Acquire, Release, network, Idle
  <2>2. main' = main /\ wpc' = wpc
    BY <1>1 DEF SchedulerThread, worker
  <2> QED
    BY <2>1, <2>2 DEF Elsewhere
<1>2. CASE DelayElapses
  BY <1>2 DEF DelayElapses, wiring, network, worker, Idle, Elsewhere
<1>3. CASE EnsureRunning \/ BeginOperation \/ EndOperation
  BY <1>3 DEF EnsureRunning, BeginOperation, EndOperation, worker, Elsewhere
<1>4. CASE WorkerThread
  <2>1. Idle
    BY <1>4 DEF WorkerThread, Work, Acquire, Release, network, Idle
  <2>2. main' = main /\ main # "closed"
    BY <1>4 DEF WorkerThread, Ended
  <2> QED
    BY <2>1, <2>2 DEF Elsewhere
<1>5. CASE MainThread
  <2>1. Idle
    BY <1>5 DEF MainThread, network, Idle
  <2>2. CASE Boot
    BY <2>1, <2>2 DEF Boot, Elsewhere, Stopping
  <2>3. CASE StartThread /\ UNCHANGED wpc
    BY <2>1, <2>3 DEF StartThread, Elsewhere, Stopping
  <2>4. CASE LeaveLoop /\ UNCHANGED wpc
    BY <2>1, <2>4 DEF LeaveLoop, Elsewhere, Stopping
  <2>5. CASE Close /\ UNCHANGED wpc
    BY <1>5, <2>1, <2>5 DEF Closing
  <2> QED
    BY <1>5, <2>2, <2>3, <2>4, <2>5 DEF MainThread
<1>6. CASE Connection \/ HandlerEnds
  BY <1>6 DEF Connection, Accept, HandlerEnds, network, worker, Idle, Elsewhere, Stopping
<1>7. CASE SigTerm \/ SigUsr1 \/ Shutdown
  BY <1>7 DEF SigTerm, SigUsr1, Shutdown, network, worker, Idle, Elsewhere
<1>8. CASE SigInt
  <2>1. Idle /\ wpc' = wpc
    BY <1>8 DEF SigInt, network, worker, Idle
  <2> QED
    BY <1>8, <2>1 DEF SigInt, Unwind, Elsewhere, Stopping
<1>9. CASE Handler
  <2>1. Idle /\ wpc' = wpc
    BY <1>9 DEF Handler, network, worker, Idle
  <2>2. Elsewhere
    BY <1>9 DEF Handler, RefreshNow, Unwind, Elsewhere, Stopping
  <2> QED
    BY <2>1, <2>2
<1>10. CASE UNCHANGED service
  BY <1>10 DEF service, wiring, network, worker, Idle, Elsewhere
<1> QED
  BY <1>1, <1>2, <1>3, <1>4, <1>5, <1>6, <1>7, <1>8, <1>9, <1>10 DEF ServiceNext

LEMMA NextJoined == Joined /\ [ServiceNext]_service => Joined'
<1> SUFFICES ASSUME Joined, [ServiceNext]_service PROVE Joined'
  OBVIOUS
<1>1. (stop => stop') /\ (pc = "exited" => pc' = "exited")
  BY StopIsFinal, StepIsScheduler
<1>2. late' \in {0, 1} /\ (late' = 1 => stop' /\ op' = "idle")
  <2>1. CASE EnsureRunning \/ BeginOperation
    BY <1>1, <2>1 DEF EnsureRunning, BeginOperation, Joined
  <2>2. CASE EndOperation
    <3>1. stop' = stop
      BY <2>2 DEF EndOperation, vars
    <3> QED
      BY <2>2, <3>1 DEF EndOperation, Joined
  <2>3. CASE Idle
    BY <1>1, <2>3 DEF Joined, Idle
  <2> QED
    BY <2>1, <2>2, <2>3, ClosingSteps
<1>3. stop /\ HeldUp => HeldUp'
  <2>1. CASE EnsureRunning \/ BeginOperation
    BY <2>1 DEF EnsureRunning, BeginOperation, Joined, HeldUp
  <2>2. CASE EndOperation
    BY <2>2 DEF EndOperation, Joined, HeldUp
  <2>3. CASE Idle
    BY <2>3 DEF Idle, HeldUp
  <2> QED
    BY <2>1, <2>2, <2>3, ClosingSteps
<1>4. CASE Closing
  <2>1. wpc' = wpc
    BY <1>4 DEF Closing, MainThread, Close, Boot, StartThread, LeaveLoop
  <2>2. CASE main = "stop"
    <3>1. main' = "wake" /\ stop' = TRUE
      BY <1>4, <2>2 DEF Closing, Close, RequestStop
    <3> QED BY <1>2, <3>1 DEF Joined, Stopping, AfterJoin
  <2>3. CASE main = "wake"
    <3>1. main' = "join" /\ stop
      BY <1>4, <2>3 DEF Closing, Close, Joined, Stopping
    <3> QED BY <1>1, <1>2, <3>1 DEF Joined, Stopping, AfterJoin
  <2>4. CASE main = "join"
    <3>1. main' = "stopWorker" /\ stop /\ (HeldUp \/ pc = "exited")
      BY <1>4, <2>4 DEF Closing, Close, OutOfTime, HeldUp, Joined, Stopping
    <3> QED BY <1>1, <1>2, <1>3, <3>1 DEF Joined, Stopping, AfterJoin
  <2>5. CASE main = "stopWorker"
    <3>1. main' = "joinWorker" /\ stop /\ (HeldUp \/ pc = "exited")
      BY <1>4, <2>5 DEF Closing, Close, Joined, Stopping, AfterJoin
    <3> QED BY <1>1, <1>2, <1>3, <3>1 DEF Joined, Stopping, AfterJoin
  <2>6. CASE main = "joinWorker"
    <3>1. /\ main' = "closed" /\ stop /\ (HeldUp \/ pc = "exited")
          /\ HeldUp \/ wpc \in {"none", "exited"}
      BY <1>4, <2>6 DEF Closing, Close, OutOfTime, HeldUp, Joined, Stopping, AfterJoin
    <3> QED BY <1>1, <1>2, <1>3, <2>1, <3>1 DEF Joined, Stopping, AfterJoin
  <2> QED
    BY <1>4, <2>2, <2>3, <2>4, <2>5, <2>6 DEF Closing, Close
<1>5. CASE Elsewhere
  <2>1. CASE main' \notin Stopping
    BY <1>2, <2>1 DEF Joined, Stopping, AfterJoin
  <2>2. CASE main' = main
    BY <1>1, <1>2, <1>3, <2>2, ClosingSteps DEF Joined, Stopping, AfterJoin
  <2> QED BY <1>5, <2>1, <2>2 DEF Elsewhere
<1> QED
  BY <1>4, <1>5, ClosingSteps

\* Whatever the signals and their interleaving with the operations, at most one
\* blocking operation of both threads ends after the stop, and a thread that
\* outlives run_http_service is one that this operation held up.
THEOREM OneOperationOutlasts == ServiceSpec => []OneOperationLeft
<1>1. ServiceInit => Joined
  BY DEF ServiceInit, Joined, Stopping, AfterJoin
<1>2. Joined => OneOperationLeft
  BY DEF Joined, OneOperationLeft, AfterJoin
<1> QED
  BY <1>1, <1>2, NextJoined, PTL DEF ServiceSpec
------------------------------------------------------------------------------
(* The slots add up, as long as no signal handler raises.                   *)

Handed == IF main = "starting" THEN 1 ELSE 0

SlotsInv ==
    /\ free \in Nat /\ running \in Nat
    /\ main \in Booting => free = Slots /\ running = 0
    /\ main \in Serving => free + running + Handed = Slots

\* Most actions leave the slots and the main thread alone.
LEMMA SlotsSteps ==
  ASSUME ~SharedMayFail, [ServiceNext]_service
  PROVE  \/ UNCHANGED <<main, slots>>
         \/ MainThread \/ Connection \/ HandlerEnds \/ SigInt
<1>1. CASE SchedulerThread
  BY <1>1 DEF SchedulerThread
<1>2. CASE DelayElapses
  BY <1>2 DEF DelayElapses, wiring
<1>3. CASE EnsureRunning \/ BeginOperation \/ EndOperation \/ WorkerThread
  BY <1>3 DEF EnsureRunning, BeginOperation, EndOperation, WorkerThread
<1>4. CASE SigTerm \/ SigUsr1 \/ Shutdown
  BY <1>4 DEF SigTerm, SigUsr1, Shutdown
<1>5. CASE Handler
  <2>1. UNCHANGED <<main, free>>
    BY <1>5 DEF Handler, RefreshNow
  <2> QED
    BY <1>5, <2>1 DEF Handler, slots
<1>6. CASE UNCHANGED service
  BY <1>6 DEF service, wiring
<1> QED
  BY <1>1, <1>2, <1>3, <1>4, <1>5, <1>6 DEF ServiceNext

LEMMA NextSlots ==
  ASSUME ~SharedMayFail, SlotsInv, [ServiceNext]_service
  PROVE  SlotsInv'
<1> USE DEF SlotsInv, Handed, Booting, Serving
<1>1. CASE UNCHANGED <<main, slots>>
  BY <1>1 DEF slots
<1>2. CASE MainThread
  <2>1. CASE Boot /\ UNCHANGED slots
    BY <2>1 DEF Boot, slots
  <2>2. CASE StartThread
    BY <2>2 DEF StartThread, Freed, slots
  <2>3. CASE (LeaveLoop \/ Close) /\ UNCHANGED slots
    BY <2>3 DEF LeaveLoop, Close, slots
  <2> QED
    BY <1>2, <2>1, <2>2, <2>3 DEF MainThread
<1>3. CASE Connection
  BY <1>3 DEF Connection, Accept
<1>4. CASE HandlerEnds
  BY <1>4 DEF HandlerEnds, Freed
<1>5. CASE SigInt
  BY <1>5 DEF SigInt, Unwind, Freed
<1> QED
  BY <1>1, <1>2, <1>3, <1>4, <1>5, SlotsSteps

\* No connection, thread that cannot start or signal leaks a request slot, for
\* any number of slots, provided that the shared snapshot stays readable.
THEOREM SlotsAreKept ==
  ASSUME ~SharedMayFail
  PROVE  ServiceSpec => []SlotsKept
<1>1. ServiceInit => SlotsInv
  BY DEF ServiceInit, SlotsInv, Booting, Serving
<1>2. SlotsInv /\ [ServiceNext]_service => SlotsInv'
  BY NextSlots
<1>3. SlotsInv => SlotsKept
  BY DEF SlotsInv, SlotsKept, Handed
<1> QED
  BY <1>1, <1>2, <1>3, PTL DEF ServiceSpec
------------------------------------------------------------------------------
(* The shutdown, but for the fairness.                                       *)

\* In the service too the scheduler thread hears of the stop, whichever of the
\* handlers and of the finally clause called request_stop, and goes to its end.
THEOREM ServiceStopIsHeard == ServiceSpec => []StopHeard /\ StopCloses
<1>1. ServiceInit => Steps /\ StopHeard
  BY InitSteps, InitHeard DEF ServiceInit
<1>2. Steps /\ StopHeard /\ [ServiceNext]_service => (Steps /\ StopHeard)'
  BY NextSteps, NextHeard, StepIsScheduler
<1>3. Steps /\ [ServiceNext]_service => [stop => pc' = pc \/ ToExit' < ToExit]_vars
  BY StepCloses, StepIsScheduler
<1> QED
  BY <1>1, <1>2, <1>3, PTL DEF ServiceSpec, StopCloses

\* Where terminate stands on the stack of handlers.
Terminating == {"stop", "wake", "coordinator", "shutdown"}

\* The main thread has left its loop, has been asked to, or will be: by a shutdown
\* thread, or by a call of terminate under way, interrupted by others or not.
UnderWay ==
    \/ main \notin Booting \cup Serving
    \/ asked \/ shutters > 0
    \/ \E i \in DOMAIN frames : frames[i] \in Terminating

\* What Closes waits for is always under way.
StopUnderWay == terms # 0 \/ interrupts # 0 => UnderWay

StackInv ==
    /\ frames \in Seq(Terminating \cup {"refresh", "propose"})
    /\ shutters \in Nat
    /\ StopUnderWay

\* A step of a handler pushes a frame on the stack, or replaces or removes its top.
LEMMA PushSteps ==
  ASSUME NEW S, NEW f \in Seq(S), NEW x \in S
  PROVE  /\ Append(f, x) \in Seq(S)
         /\ \A i \in DOMAIN f : i \in DOMAIN Append(f, x) /\ Append(f, x)[i] = f[i]
         /\ \E i \in DOMAIN Append(f, x) : Append(f, x)[i] = x
<1>1. /\ Append(f, x) \in Seq(S)
      /\ \A i \in DOMAIN f : i \in DOMAIN Append(f, x) /\ Append(f, x)[i] = f[i]
  OBVIOUS
<1>2. Len(f) + 1 \in DOMAIN Append(f, x) /\ Append(f, x)[Len(f) + 1] = x
  OBVIOUS
<1> QED BY <1>1, <1>2

LEMMA PopSteps ==
  ASSUME NEW S, NEW f \in Seq(S), f # <<>>
  PROVE  /\ Front(f) \in Seq(S)
         /\ \A i \in DOMAIN f : f[i] = Last(f)
              \/ (i \in DOMAIN Front(f) /\ Front(f)[i] = f[i])
BY DEF Front, Last

\* The frames of a stack that a step of its top leaves are still there.
LEMMA StackPops ==
  ASSUME StackInv, frames # <<>>, frames' = Front(frames)
  PROVE  /\ frames' \in Seq(Terminating \cup {"refresh", "propose"})
         /\ (\E i \in DOMAIN frames : frames[i] \in Terminating)
              => \/ \E i \in DOMAIN frames' : frames'[i] \in Terminating
                 \/ Last(frames) \in Terminating
<1> DEFINE S == Terminating \cup {"refresh", "propose"}
<1>1. frames \in Seq(S)
  BY DEF StackInv
<1> HIDE DEF S
<1>2. /\ Front(frames) \in Seq(S)
      /\ \A i \in DOMAIN frames : frames[i] = Last(frames)
           \/ (i \in DOMAIN Front(frames) /\ Front(frames)[i] = frames[i])
  BY <1>1, PopSteps
<1> QED BY <1>2 DEF S

LEMMA StackPushes ==
  ASSUME StackInv, NEW x \in Terminating \cup {"refresh", "propose"},
         \/ frames' = Append(frames, x)
         \/ frames # <<>> /\ frames' = Append(Front(frames), x)
  PROVE  /\ frames' \in Seq(Terminating \cup {"refresh", "propose"})
         /\ x \in Terminating => \E i \in DOMAIN frames' : frames'[i] \in Terminating
         /\ (\E i \in DOMAIN frames : frames[i] \in Terminating)
              => \/ \E i \in DOMAIN frames' : frames'[i] \in Terminating
                 \/ frames # <<>> /\ Last(frames) \in Terminating
<1> DEFINE S == Terminating \cup {"refresh", "propose"}
<1>1. frames \in Seq(S) /\ x \in S
  BY DEF StackInv
<1> HIDE DEF S
<1>2. CASE frames' = Append(frames, x)
  <2>1. /\ Append(frames, x) \in Seq(S)
        /\ \A i \in DOMAIN frames :
             i \in DOMAIN Append(frames, x) /\ Append(frames, x)[i] = frames[i]
        /\ \E i \in DOMAIN Append(frames, x) : Append(frames, x)[i] = x
    BY <1>1, PushSteps
  <2> QED BY <1>2, <2>1 DEF S
<1>3. CASE frames # <<>> /\ frames' = Append(Front(frames), x)
  <2> DEFINE g == Front(frames)
  <2>1. g \in Seq(S)
    BY <1>1, <1>3, PopSteps
  <2>2. \A i \in DOMAIN frames : frames[i] = Last(frames)
          \/ (i \in DOMAIN g /\ g[i] = frames[i])
    BY <1>1, <1>3, PopSteps
  <2>3. frames' = Append(g, x)
    BY <1>3
  <2> HIDE DEF g
  <2>4. /\ Append(g, x) \in Seq(S)
        /\ \A i \in DOMAIN g : i \in DOMAIN Append(g, x) /\ Append(g, x)[i] = g[i]
        /\ \E i \in DOMAIN Append(g, x) : Append(g, x)[i] = x
    <3>1. /\ Append(g, x) \in Seq(S)
          /\ \A i \in DOMAIN g : i \in DOMAIN Append(g, x) /\ Append(g, x)[i] = g[i]
      BY <1>1, <2>1
    <3>2. Len(g) + 1 \in DOMAIN Append(g, x) /\ Append(g, x)[Len(g) + 1] = x
      BY <1>1, <2>1
    <3> QED BY <3>1, <3>2
  <2> QED BY <1>3, <2>2, <2>3, <2>4 DEF S
<1> QED BY <1>2, <1>3

\* Most actions leave the shutdown as they find it.
LEMMA ShutdownSteps ==
  ASSUME ~SharedMayFail, [ServiceNext]_service
  PROVE  \/ UNCHANGED <<main, asked, shutters, frames, signals>>
         \/ MainThread \/ Connection \/ SigTerm \/ SigUsr1 \/ SigInt \/ Handler \/ Shutdown
<1>1. CASE SchedulerThread \/ WorkerThread
  BY <1>1 DEF SchedulerThread, WorkerThread
<1>2. CASE DelayElapses
  BY <1>2 DEF DelayElapses, wiring
<1>3. CASE EnsureRunning \/ BeginOperation \/ EndOperation \/ HandlerEnds
  BY <1>3 DEF EnsureRunning, BeginOperation, EndOperation, HandlerEnds
<1>4. CASE UNCHANGED service
  BY <1>4 DEF service, wiring
<1> QED
  BY <1>1, <1>2, <1>3, <1>4 DEF ServiceNext

\* The main thread does not come back to its loop.
LEMMA MainLeaves ==
  ASSUME [ServiceNext]_service, MainThread \/ Connection
  PROVE  main \notin Booting \cup Serving => main' \notin Booting \cup Serving
<1> USE DEF Booting, Serving
<1>1. CASE MainThread
  BY <1>1 DEF MainThread, Boot, StartThread, LeaveLoop, Close
<1>2. CASE Connection
  BY <1>2 DEF Connection, Accept
<1> QED BY <1>1, <1>2

\* A handler under way goes on until it has started the thread that shuts down.
LEMMA NextStack ==
  ASSUME ~SharedMayFail, StackInv, [ServiceNext]_service
  PROVE  StackInv'
<1> DEFINE Stacks == Seq(Terminating \cup {"refresh", "propose"})
           Terminates == \E i \in DOMAIN frames : frames[i] \in Terminating
<1>1. /\ frames \in Stacks /\ shutters \in Nat
      /\ terms # 0 \/ interrupts # 0 => UnderWay
  BY DEF StackInv, StopUnderWay
<1>2. CASE UNCHANGED <<main, asked, shutters, frames, signals>>
  BY <1>1, <1>2 DEF StackInv, StopUnderWay, UnderWay, signals
<1>3. CASE MainThread \/ Connection
  <2>1. UNCHANGED <<asked, shutters, frames, signals>>
    BY <1>3 DEF MainThread, Connection
  <2> QED BY <1>1, <1>3, <2>1, MainLeaves DEF StackInv, StopUnderWay, UnderWay, signals
<1>4. CASE SigTerm
  <2>1. frames' = Append(frames, "stop") /\ shutters' = shutters
    BY <1>4 DEF SigTerm
  <2>2. "stop" \in Terminating
    BY DEF Terminating
  <2>3. frames' \in Stacks /\ Terminates'
    BY <2>1, <2>2, StackPushes
  <2> QED BY <1>1, <2>1, <2>3 DEF StackInv, StopUnderWay, UnderWay
<1>5. CASE SigUsr1
  <2>1. frames' = Append(frames, "refresh") /\ UNCHANGED <<main, asked, shutters, signals>>
    BY <1>5 DEF SigUsr1
  <2>2. \A i \in DOMAIN frames : i \in DOMAIN frames' /\ frames'[i] = frames[i]
    BY <1>1, <2>1
  <2>3. frames' \in Stacks
    BY <1>1, <2>1
  <2> QED BY <1>1, <2>1, <2>2, <2>3 DEF StackInv, StopUnderWay, UnderWay, signals
<1>6. CASE SigInt
  <2>1. main \in Serving /\ frames' = <<>> /\ shutters' = shutters /\ main' = "stop"
    BY <1>6 DEF SigInt, Unwind
  <2> QED BY <1>1, <2>1 DEF StackInv, StopUnderWay, UnderWay, Booting, Serving
<1>7. CASE Shutdown
  <2>1. shutters > 0 /\ shutters' = shutters - 1 /\ asked' = TRUE /\ frames' = frames
    BY <1>7 DEF Shutdown
  <2> QED BY <1>1, <2>1 DEF StackInv, StopUnderWay, UnderWay
<1>8. CASE Handler
  <2>1. frames # <<>> /\ UNCHANGED <<main, asked, signals>>
    BY <1>8 DEF Handler, RefreshNow
  <2>2. CASE \E step \in Terminating : Step(step) /\ shutters' = shutters
    <3>1. PICK step \in Terminating :
            frames' = Append(Front(frames), step) /\ shutters' = shutters
      BY <2>2 DEF Step
    <3>2. frames' \in Stacks /\ Terminates'
      BY <2>1, <3>1, StackPushes
    <3> QED BY <1>1, <3>1, <3>2 DEF StackInv, StopUnderWay, UnderWay
  <2>3. CASE Top = "shutdown" /\ Return /\ shutters' = shutters + 1
    <3>1. frames' \in Stacks
      BY <2>1, <2>3, StackPops DEF Return
    <3>2. shutters' \in Nat /\ shutters' > 0
      BY <1>1, <2>3
    <3> QED BY <3>1, <3>2 DEF StackInv, StopUnderWay, UnderWay
  <2>4. CASE /\ Last(frames) \in {"refresh", "propose"} /\ shutters' = shutters
             /\ frames' \in {Append(Front(frames), "propose"), Front(frames)}
    <3>1. frames' \in Stacks
      BY <2>1, <2>4, StackPushes, StackPops
    <3>2. Last(frames) \notin Terminating
      BY <2>4 DEF Terminating
    <3>3. Terminates => Terminates'
      BY <2>1, <2>4, <3>2, StackPushes, StackPops
    <3> QED BY <1>1, <2>1, <2>4, <3>1, <3>3 DEF StackInv, StopUnderWay, UnderWay, signals
  <2>5. CASE Terminate
    BY <2>2, <2>3, <2>5 DEF Terminate, Terminating
  <2>6. CASE RefreshNow /\ UNCHANGED shutters
    BY <2>4, <2>6 DEF RefreshNow, Top, Step, Return
  <2> QED BY <1>8, <2>5, <2>6 DEF Handler
<1> QED
  BY <1>2, <1>3, <1>4, <1>5, <1>6, <1>7, <1>8, ShutdownSteps

\* No signal that asks for the end of the service is lost, wherever it finds the
\* main thread and however many handlers interrupt terminate, provided that no
\* handler raises, which the unreadable shared store would make refresh_now do.
THEOREM NoStopIsLost ==
  ASSUME ~SharedMayFail
  PROVE  ServiceSpec => []StopUnderWay
<1>1. ServiceInit => StackInv
  BY DEF ServiceInit, StackInv, StopUnderWay
<1>2. StackInv /\ [ServiceNext]_service => StackInv'
  BY NextStack
<1>3. StackInv => StopUnderWay
  BY DEF StackInv
<1> QED
  BY <1>1, <1>2, <1>3, PTL DEF ServiceSpec
=============================================================================
