----------------------------- MODULE Scheduler -----------------------------
(***************************************************************************)
(* How a process starts and stops (foundation/scheduler.cpp, the run state *)
(* of worker.cpp): the main thread starts the worker thread, runs the      *)
(* network reactor and then waits for the worker; a signal runs            *)
(* Scheduler::stop on whatever thread it interrupts.                       *)
(*                                                                         *)
(* The threads share run_state, stop_flag (both atomic) and the flag of    *)
(* the reactor.  A thread is a stack of stages: a signal handler is pushed *)
(* on top of what it interrupts, and only the top stage runs.  An action   *)
(* is one access to a shared variable; what the worker does in a turn of   *)
(* its loop is left out, see Transactions.                                 *)
(***************************************************************************)
EXTENDS Naturals, Sequences, SequencesExt

CONSTANTS
    Handlers,     \* the threads a signal may interrupt
    MaxSignals    \* bound: signals that arrive

Threads == {"main", "worker"}

ASSUME SchedulerAssumption == Handlers \subseteq Threads /\ MaxSignals \in Nat

VARIABLES
    runState,     \* Worker::run_state
    stopFlag,     \* Worker::stop_flag
    reactorStop,  \* the stop flag of Poco's SocketReactor
    stack,        \* the stages of each thread, <<>> before and after its life
    signals       \* number of signals that have arrived

vars == <<runState, stopFlag, reactorStop, stack, signals>>

RunStates == {"STARTING", "STARTED", "STOPPING", "STOPPED"}
Stages == {"start", "spawn", "reactor", "run", "loop", "ended",
           "stopReactor", "check", "flag", "state", "wait"}

TypeOK ==
    /\ runState \in RunStates
    /\ stopFlag \in BOOLEAN
    /\ reactorStop \in BOOLEAN
    /\ stack \in [Threads -> Seq(Stages)]
    /\ signals \in 0 .. MaxSignals

\* The handlers of the signals are installed.
Init ==
    /\ runState = "STOPPED"
    /\ stopFlag = FALSE
    /\ reactorStop = FALSE
    /\ stack = [t \in Threads |-> IF t = "main" THEN <<"start">> ELSE <<>>]
    /\ signals = 0

At(t, stage) == stack[t] # <<>> /\ Last(stack[t]) = stage
Goto(t, stage) == stack' = [stack EXCEPT ![t] = Append(Front(@), stage)]
Return(t) == stack' = [stack EXCEPT ![t] = Front(@)]

-----------------------------------------------------------------------------
(* Scheduler::start, on the main thread *)

\* Mutant of StartWorker: the state is left to the new thread.
MutantStartWorkerSilently ==
    /\ At("main", "start")
    /\ runState = "STOPPED"
    /\ Goto("main", "spawn")
    /\ UNCHANGED <<runState, stopFlag, reactorStop, signals>>

\* A worker is started once only, so it is not running yet.
StartWorker ==
    /\ At("main", "start")
    /\ runState = "STOPPED"
    /\ runState' = "STARTING"
    /\ Goto("main", "spawn")
    /\ UNCHANGED <<stopFlag, reactorStop, signals>>

Spawn ==
    /\ At("main", "spawn")
    /\ stack' = [main |-> Append(Front(stack["main"]), "reactor"), worker |-> <<"run">>]
    /\ UNCHANGED <<runState, stopFlag, reactorStop, signals>>

\* The reactor looks at its flag in every turn, in the first one as well.
LeaveReactor ==
    /\ At("main", "reactor")
    /\ reactorStop
    /\ Goto("main", "check")
    /\ UNCHANGED <<runState, stopFlag, reactorStop, signals>>

-----------------------------------------------------------------------------
(* Scheduler::stop, in a signal handler, and its second half on the main thread *)

Signal(t) ==
    /\ t \in Handlers
    /\ stack[t] # <<>>
    /\ signals < MaxSignals
    /\ signals' = signals + 1
    /\ stack' = [stack EXCEPT ![t] = Append(@, "stopReactor")]
    /\ UNCHANGED <<runState, stopFlag, reactorStop>>

StopReactor(t) ==
    /\ At(t, "stopReactor")
    /\ reactorStop' = TRUE
    /\ Goto(t, "check")
    /\ UNCHANGED <<runState, stopFlag, signals>>

\* WorkerScheduler::stop does nothing unless the worker is STARTED.
CheckStarted(t) ==
    /\ At(t, "check")
    /\ Goto(t, IF runState = "STARTED" THEN "flag" ELSE "wait")
    /\ UNCHANGED <<runState, stopFlag, reactorStop, signals>>

SetFlag(t) ==
    /\ At(t, "flag")
    /\ stopFlag' = TRUE
    /\ Goto(t, "state")
    /\ UNCHANGED <<runState, reactorStop, signals>>

\* Mutant of SetStopping: the state is counted on, past the last one if need be.
MutantSetStoppingCounts(t) ==
    /\ At(t, "state")
    /\ runState' = CASE runState = "STARTED" -> "STOPPING"
                     [] runState = "STOPPING" -> "STOPPED"
                     [] OTHER -> "UNKNOWN"
    /\ Goto(t, "wait")
    /\ UNCHANGED <<stopFlag, reactorStop, signals>>

SetStopping(t) ==
    /\ At(t, "state")
    /\ runState' = "STOPPING"
    /\ Goto(t, "wait")
    /\ UNCHANGED <<stopFlag, reactorStop, signals>>

\* is_worker_running is asked until it says no.
Waited(t) ==
    /\ At(t, "wait")
    /\ runState = "STOPPED"
    /\ Return(t)
    /\ UNCHANGED <<runState, stopFlag, reactorStop, signals>>

-----------------------------------------------------------------------------
(* Worker::run, on the worker thread *)

Run ==
    /\ At("worker", "run")
    /\ runState' = "STARTED"
    /\ Goto("worker", "loop")
    /\ UNCHANGED <<stopFlag, reactorStop, signals>>

\* Mutant of LeaveLoop: the loop asks for the state as well.
MutantLeaveLoopStarted ==
    /\ At("worker", "loop")
    /\ stopFlag /\ runState = "STARTED"
    /\ Goto("worker", "ended")
    /\ UNCHANGED <<runState, stopFlag, reactorStop, signals>>

LeaveLoop ==
    /\ At("worker", "loop")
    /\ stopFlag
    /\ Goto("worker", "ended")
    /\ UNCHANGED <<runState, stopFlag, reactorStop, signals>>

EndRun ==
    /\ At("worker", "ended")
    /\ runState' = "STOPPED"
    /\ Return("worker")
    /\ UNCHANGED <<stopFlag, reactorStop, signals>>

-----------------------------------------------------------------------------

Stop(t) == StopReactor(t) \/ CheckStarted(t) \/ SetFlag(t) \/ SetStopping(t) \/ Waited(t)
Main == StartWorker \/ Spawn \/ LeaveReactor \/ Stop("main")
Worker == Run \/ LeaveLoop \/ EndRun \/ Stop("worker")

Next == Main \/ Worker \/ \E t \in Threads : Signal(t)

Spec == Init /\ [][Next]_vars

\* Both threads run; nobody has to send a signal.
FairSpec == Spec /\ WF_vars(Main) /\ WF_vars(Worker)

-----------------------------------------------------------------------------

\* The state says STOPPED only while no worker thread exists, so whoever waited
\* for it may tear down what the worker uses: scheduler.h:30, "It'll block until
\* finish stop."
StoppedMeansEnded == runState = "STOPPED" => stack["worker"] = <<>>

\* A worker that is told to stop ends, whatever state it and the others are in,
\* unless a signal interrupts it.
WorkerEndsUndisturbed ==
    stopFlag ~> stack["worker"] = <<>> \/ Len(stack["worker"]) > 1

\* scheduler.h:23: "By default, it'll return when have signal SIGINT, SIGTERM or
\* SIGUSR1."  It does not when the signal comes before the worker is STARTED, when
\* the worker ends between the two stores of WorkerScheduler::stop, or when the
\* signal interrupts the worker itself.
StartReturns == (signals > 0) ~> stack["main"] = <<>>

=============================================================================
