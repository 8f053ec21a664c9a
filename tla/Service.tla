------------------------------- MODULE Service -------------------------------
(***************************************************************************)
(* run_http_service and CrownsHTTPServer (bk_crowns/server.py): the main   *)
(* thread that accepts connections, runs the signal handlers and shuts the *)
(* service down, composed with the scheduler thread (Scheduler), the       *)
(* catalogue worker, the network_lock they share and the handler threads   *)
(* of HTTP requests.  A signal may interrupt the main thread between any   *)
(* two calls, those of another handler included.                           *)
(***************************************************************************)
EXTENDS Scheduler, Sequences, SequencesExt

CONSTANTS
    Slots,          \* MAX_REQUEST_THREADS
    SharedMayFail,  \* may directory_provider raise StateError?
    MaxTerms, MaxInterrupts, MaxJobs, MaxOps   \* bounds of the model

ASSUME SlotsAssumption == Slots \in Nat \ {0} /\ SharedMayFail \in BOOLEAN

VARIABLES
    main,       \* where run_http_service stands
    frames,     \* the signal handlers under way on the main thread, the last on top
    asked,      \* __shutdown_request of the server
    shutters,   \* threads started by terminate that have not called shutdown
    free, running,     \* the semaphore of request slots, and the handler threads
    lock, op, ops,     \* network_lock: its holder, what the holder is at, its operations so far
    wpc, accepting, jobs,   \* the catalogue worker, the coordinator's _accepting, refreshes it took
    terms, interrupts,      \* SIGTERM and SIGINT received
    late        \* history: blocking operations that ended after the stop, up to 2

thread == <<pc, failures>>
events == <<wake, stop, stopper, wakes, owed>>
slots == <<free, running>>
network == <<lock, op, ops, late>>
worker == <<wpc, jobs>>
signals == <<terms, interrupts>>
wiring == <<main, frames, asked, shutters, slots, network, worker, accepting, signals>>
service == <<vars, wiring>>

Booting == {"boot", "bootScheduler"}
Serving == {"select", "starting", "started"}
Ended == {"closed", "aborted"}

ServiceInit ==
    /\ Init
    /\ main = "boot" /\ frames = <<>> /\ asked = FALSE /\ shutters = 0
    /\ free = Slots /\ running = 0
    /\ lock = "none" /\ op = "idle" /\ ops = 0 /\ late = 0
    /\ wpc = "none" /\ accepting = TRUE /\ jobs = 0
    /\ terms = 0 /\ interrupts = 0
------------------------------------------------------------------------------
(* The scheduler thread, once started: refresher.run is LockedSharedRefresher, *)
(* which does its work under network_lock.                                     *)

Acquire(owner) ==
    /\ lock = "none" /\ lock' = owner /\ ops' = 0
    /\ UNCHANGED <<op, late>>

Release(owner) ==
    /\ lock = owner /\ op = "idle"
    /\ lock' = "none"
    /\ UNCHANGED <<op, ops, late>>

SchedulerLocks ==
    /\ pc = "running" /\ Acquire("scheduler")
    /\ UNCHANGED <<thread, events>>

SchedulerThread ==
    /\ main \notin Booting \cup Ended
    /\ \/ LoopTest /\ UNCHANGED network
       \/ RunStarts /\ UNCHANGED network
       \/ SchedulerLocks
       \/ RunReturns /\ Release("scheduler")
       \/ RunRaises /\ Release("scheduler")
       \/ WaitReturns /\ UNCHANGED network
       \/ Clear /\ UNCHANGED network
       \/ StopCheck /\ UNCHANGED network
    /\ UNCHANGED <<main, frames, asked, shutters, slots, worker, accepting, signals>>

DelayElapses ==
    /\ main \notin Booting \cup Ended
    /\ WaitTimesOut
    /\ UNCHANGED wiring
------------------------------------------------------------------------------
(* Network operations of whoever holds the lock, and the catalogue worker.  *)

\* Mutant: _ensure_running does not look at stop_event.
EnsureNothing ==
    /\ main \notin Ended
    /\ lock # "none" /\ op = "idle" /\ ops < MaxOps
    /\ op' = "checked" /\ ops' = ops + 1
    /\ UNCHANGED <<vars, main, frames, asked, shutters, slots, lock, late, worker, accepting, signals>>

EnsureRunning ==
    /\ main \notin Ended
    /\ lock # "none" /\ op = "idle" /\ ops < MaxOps /\ ~stop
    /\ op' = "checked" /\ ops' = ops + 1
    /\ UNCHANGED <<vars, main, frames, asked, shutters, slots, lock, late, worker, accepting, signals>>

\* The request starts, whatever became of stop_event since the check.
BeginOperation ==
    /\ main \notin Ended
    /\ op = "checked" /\ op' = "busy"
    /\ UNCHANGED <<vars, main, frames, asked, shutters, slots, lock, ops, late, worker, accepting, signals>>

EndOperation ==
    /\ main \notin Ended
    /\ op = "busy" /\ op' = "idle"
    /\ late' = IF stop /\ late < 2 THEN late + 1 ELSE late
    /\ UNCHANGED <<vars, main, frames, asked, shutters, slots, lock, ops, worker, accepting, signals>>

\* _run and refresh_one: the stop test, the get, the refresh under the lock.
Work ==
    \/ /\ wpc = "check" /\ wpc' = IF accepting THEN "get" ELSE "exited"
       /\ UNCHANGED <<jobs, network>>
    \/ /\ wpc = "get" /\ wpc' = IF accepting THEN "check" ELSE "exited"
       /\ UNCHANGED <<jobs, network>>
    \/ /\ wpc = "get" /\ jobs < MaxJobs
       /\ wpc' = "locking" /\ jobs' = jobs + 1
       /\ UNCHANGED network
    \/ /\ wpc = "locking" /\ wpc' = "working" /\ Acquire("worker")
       /\ UNCHANGED jobs
    \/ /\ wpc = "working" /\ wpc' = "check" /\ Release("worker")
       /\ UNCHANGED jobs

WorkerThread ==
    /\ main \notin Ended /\ Work
    /\ UNCHANGED <<vars, main, frames, asked, shutters, slots, accepting, signals>>
------------------------------------------------------------------------------
(* The main thread outside its handlers.                                    *)

Boot ==
    \/ /\ main = "boot" /\ main' = "bootScheduler"
       /\ wpc' = IF accepting THEN "check" ELSE "none"
    \/ /\ main = "bootScheduler" /\ main' = "select"
       /\ UNCHANGED wpc

\* process_request, up to the start of the handler thread.
Accept ==
    /\ main = "select" /\ ~asked /\ free > 0
    /\ main' = "starting" /\ free' = free - 1
    /\ UNCHANGED running

\* BoundedSemaphore.release refuses to go over its initial value.
Freed == IF free < Slots THEN free + 1 ELSE free

\* Mutant: the slot is given back by the handler thread alone.
StartLeaksSlot ==
    \/ /\ main = "starting" /\ main' = "started" /\ running' = running + 1
       /\ UNCHANGED free
    \/ /\ main = "starting" /\ main' = "select"
       /\ UNCHANGED slots
    \/ /\ main = "started" /\ main' = "select"
       /\ UNCHANGED slots

\* The thread starts, or cannot start; then process_request returns.
StartThread ==
    \/ /\ main = "starting" /\ main' = "started" /\ running' = running + 1
       /\ UNCHANGED free
    \/ /\ main = "starting" /\ main' = "select" /\ free' = Freed
       /\ UNCHANGED running
    \/ /\ main = "started" /\ main' = "select"
       /\ UNCHANGED slots

LeaveLoop == main = "select" /\ asked /\ main' = "stop"

\* A join of one timeout plus five seconds may end first whenever an operation is
\* under way: httpx bounds each phase of a request by one timeout, the request by
\* none.  Everything else takes no time.
OutOfTime == op = "busy"

\* The finally clause: scheduler.stop, coordinator.stop, server_close.
Close ==
    \/ /\ main = "stop" /\ main' = "wake"
       /\ RequestStop(1) /\ UNCHANGED accepting
    \/ /\ main = "wake" /\ main' = "join"
       /\ RequestStop(2) /\ UNCHANGED accepting
    \/ /\ main = "join" /\ main' = "stopWorker"
       /\ pc = "exited" \/ OutOfTime
       /\ UNCHANGED <<vars, accepting>>
    \/ /\ main = "stopWorker" /\ main' = "joinWorker"
       /\ accepting' = FALSE
       /\ UNCHANGED vars
    \/ /\ main = "joinWorker" /\ main' = "closed"
       /\ wpc \in {"none", "exited"} \/ OutOfTime
       /\ UNCHANGED <<vars, accepting>>

MainThread ==
    /\ frames = <<>>
    /\ \/ Boot /\ UNCHANGED <<vars, slots, accepting>>
       \/ StartThread /\ UNCHANGED <<vars, wpc, accepting>>
       \/ LeaveLoop /\ UNCHANGED <<vars, slots, wpc, accepting>>
       \/ Close /\ UNCHANGED <<slots, wpc>>
    /\ UNCHANGED <<frames, asked, shutters, network, jobs, signals>>

Connection ==
    /\ frames = <<>> /\ Accept
    /\ UNCHANGED <<vars, frames, asked, shutters, network, worker, accepting, signals>>

\* process_request_thread ends, however its request ended.
HandlerEnds ==
    /\ main \notin Ended
    /\ running > 0 /\ running' = running - 1 /\ free' = Freed
    /\ UNCHANGED <<vars, main, frames, asked, shutters, network, worker, accepting, signals>>
------------------------------------------------------------------------------
(* Signals and their handlers.                                              *)

Top == Last(frames)
Step(next) == frames' = Append(Front(frames), next)
Return == frames' = Front(frames)

\* An exception leaves every handler under way.  process_request gives its slot
\* back; its caller swallows an Exception, but not a KeyboardInterrupt.
Unwind(swallowed) ==
    /\ frames' = <<>>
    /\ free' = IF main \in {"starting", "started"} THEN Freed ELSE free
    /\ main' = CASE main \in {"starting", "started"} /\ swallowed -> "select"
                 [] main \in Serving /\ ~(main # "select" /\ swallowed) -> "stop"
                 [] OTHER -> "aborted"

\* SIGTERM: terminate begins.
SigTerm ==
    /\ main \notin Ended /\ terms < MaxTerms
    /\ terms' = terms + 1 /\ frames' = Append(frames, "stop")
    /\ UNCHANGED <<vars, main, asked, shutters, slots, network, worker, accepting, interrupts>>

\* SIGUSR1: refresh_now begins.
SigUsr1 ==
    /\ main \notin Ended
    /\ wakes + Len(SelectSeq(frames, LAMBDA f : f = "refresh")) < MaxWakes
    /\ frames' = Append(frames, "refresh")
    /\ UNCHANGED <<vars, main, asked, shutters, slots, network, worker, accepting, signals>>

\* SIGINT: KeyboardInterrupt, while the service serves.
SigInt ==
    /\ main \in Serving /\ interrupts < MaxInterrupts
    /\ interrupts' = interrupts + 1
    /\ Unwind(FALSE)
    /\ UNCHANGED <<vars, asked, shutters, running, network, worker, accepting, terms>>

\* Mutant: terminate calls server.shutdown itself, which waits for the loop
\* that this handler interrupts.
TerminateWaits ==
    \/ Top = "stop" /\ Step("wake") /\ RequestStop(1) /\ UNCHANGED <<accepting, shutters>>
    \/ Top = "wake" /\ Step("coordinator") /\ RequestStop(2) /\ UNCHANGED <<accepting, shutters>>
    \/ Top = "coordinator" /\ Step("shutdown") /\ accepting' = FALSE /\ UNCHANGED <<vars, shutters>>

\* scheduler.request_stop, coordinator.request_stop, a thread for shutdown.
Terminate ==
    \/ Top = "stop" /\ Step("wake") /\ RequestStop(1) /\ UNCHANGED <<accepting, shutters>>
    \/ Top = "wake" /\ Step("coordinator") /\ RequestStop(2) /\ UNCHANGED <<accepting, shutters>>
    \/ Top = "coordinator" /\ Step("shutdown") /\ accepting' = FALSE /\ UNCHANGED <<vars, shutters>>
    \/ Top = "shutdown" /\ Return /\ shutters' = shutters + 1 /\ UNCHANGED <<vars, accepting>>

\* scheduler.wake, then coordinator.request for what is cached: is_known goes
\* through directory_provider, which raises while the shared store is not ready.
RefreshNow ==
    \/ Top = "refresh" /\ Step("propose") /\ Wake /\ UNCHANGED <<main, free>>
    \/ /\ Top = "propose" /\ UNCHANGED vars
       /\ \E raises \in {FALSE, SharedMayFail /\ accepting} :
            IF raises THEN Unwind(TRUE) ELSE Return /\ UNCHANGED <<main, free>>

Handler ==
    /\ frames # <<>> /\ main \notin Ended
    /\ \/ Terminate /\ UNCHANGED <<main, free>>
       \/ RefreshNow /\ UNCHANGED <<accepting, shutters>>
    /\ UNCHANGED <<asked, running, network, worker, signals>>

\* The shutdown thread.
Shutdown ==
    /\ main \notin Ended
    /\ shutters > 0 /\ shutters' = shutters - 1
    /\ asked' = TRUE
    /\ UNCHANGED <<vars, main, frames, slots, network, worker, accepting, signals>>

ServiceNext ==
    \/ SchedulerThread \/ DelayElapses
    \/ EnsureRunning \/ BeginOperation \/ EndOperation
    \/ WorkerThread \/ MainThread \/ Connection \/ HandlerEnds
    \/ SigTerm \/ SigUsr1 \/ SigInt \/ Handler \/ Shutdown

ServiceSpec == ServiceInit /\ [][ServiceNext]_service

\* Every thread goes on and a blocking operation ends some day, after a bounded
\* number of timeouts if the resolver answers.  Connections, signals and the
\* six-hour delay are not fair.
FairService ==
    /\ ServiceSpec
    /\ WF_service(SchedulerThread) /\ WF_service(WorkerThread)
    /\ WF_service(BeginOperation \/ EndOperation) /\ WF_service(MainThread)
    /\ WF_service(Handler) /\ WF_service(Shutdown)
------------------------------------------------------------------------------
\* README, "SIGTERM ... ferme le serveur proprement": wherever the signal finds
\* the main thread, the start-up and other handlers included, run_http_service
\* returns.
Closes == terms + interrupts > 0 ~> main = "closed"

\* A blocking operation that the stop found under way, or about to begin after
\* its check, is in the way of the shutdown: it is not over, or it was the one.
HeldUp == op = "busy" \/ late = 1

\* A stop ends the scheduler thread without waiting for the delay, wherever it was;
\* run_http_service leaves it behind, a daemon that dies with the process, only
\* if a blocking operation holds the thread up or held network_lock from it.
StopEndsThread ==
    stop ~> (pc = "exited" \/ (main = "closed" /\ HeldUp))

\* From the stop on at most one blocking operation ends, of both threads together,
\* even if the stop comes between _ensure_running and the request, and once it has
\* ended no other is under way.  run_http_service leaves behind no thread but one
\* that this operation held up.
OneOperationLeft ==
    /\ late <= 1 /\ (late = 1 => op = "idle")
    /\ main = "closed" => HeldUp \/ (pc = "exited" /\ wpc \in {"none", "exited"})

\* While the service accepts connections every slot is free, or held by one
\* handler thread, or by the connection being handed to one.
SlotsKept ==
    main \in Serving =>
        free + running + (IF main = "starting" THEN 1 ELSE 0) = Slots

\* README, "SIGUSR1 réveille le scheduler partagé et propose les entrées
\* anciennes": it never ends the service.
ServesUntilStopped ==
    [][(main \in Serving) /\ (main' \notin Serving) => asked \/ interrupts' # 0]_service
=============================================================================
