-------------------------- MODULE SchedulerProofs --------------------------
(***************************************************************************)
(* Theorems about Scheduler, for every set of interruptible threads and    *)
(* any number of signals.                                                  *)
(***************************************************************************)
EXTENDS Scheduler, SequenceTheorems, TLAPS

\* The stages a thread begins with; those of Scheduler::stop are pushed on top.
MainStages == {"start", "spawn", "reactor"}
WorkerStages == {"run", "loop", "ended"}

\* What is at the bottom of a stack is nowhere else in it: no signal handler runs
\* the thread's own code.
BottomOnly ==
    /\ \A k \in DOMAIN stack["main"] : stack["main"][k] \in MainStages => k = 1
    /\ \A k \in DOMAIN stack["worker"] : stack["worker"][k] \in WorkerStages <=> k = 1

\* No worker thread exists before main has spawned it, and the state says so when
\* main is about to.
NotYetSpawned ==
    stack["main"] # <<>> =>
        /\ stack["main"][1] \in {"start", "spawn"} => stack["worker"] = <<>>
        /\ stack["main"][1] = "spawn" => runState # "STOPPED"

IInv == TypeOK /\ BottomOnly /\ NotYetSpawned /\ StoppedMeansEnded

-----------------------------------------------------------------------------
(* Stacks *)

LEMMA StackTop ==
    ASSUME NEW s \in Seq(Stages), s # <<>>
    PROVE  /\ Last(s) = s[Len(s)] /\ Len(s) \in DOMAIN s /\ Last(s) \in Stages
           /\ Front(s) \in Seq(Stages) /\ Len(Front(s)) = Len(s) - 1
           /\ \A k \in DOMAIN Front(s) : k \in DOMAIN s /\ Front(s)[k] = s[k]
<1>1. Len(s) \in Nat \ {0} /\ s \in [1 .. Len(s) -> Stages]
  BY EmptySeq, LenProperties
<1>2. Last(s) = s[Len(s)] /\ Len(s) \in DOMAIN s /\ Last(s) \in Stages
  BY <1>1 DEF Last
<1>3. /\ Front(s) \in Seq(Stages)
      /\ Len(Front(s)) = Len(s) - 1
      /\ \A k \in 1 .. Len(s) - 1 : Front(s)[k] = s[k]
  <2>1. /\ SubSeq(s, 1, Len(s) - 1) \in Seq(Stages)
        /\ Len(SubSeq(s, 1, Len(s) - 1)) = IF 1 <= Len(s) - 1 THEN Len(s) - 1 - 1 + 1 ELSE 0
        /\ \A k \in 1 .. Len(s) - 1 - 1 + 1 : SubSeq(s, 1, Len(s) - 1)[k] = s[1 + k - 1]
    BY <1>1, SubSeqProperties
  <2> QED
    BY <1>1, <2>1 DEF Front
<1>4. DOMAIN Front(s) = 1 .. Len(s) - 1
  BY <1>3, LenProperties
<1> QED
  BY <1>1, <1>2, <1>3, <1>4

LEMMA StackPush ==
    ASSUME NEW s \in Seq(Stages), NEW x \in Stages
    PROVE  /\ Append(s, x) \in Seq(Stages)
           /\ Append(s, x) # <<>>
           /\ DOMAIN Append(s, x) = 1 .. Len(s) + 1
           /\ \A k \in DOMAIN Append(s, x) :
                 IF k = Len(s) + 1 THEN Append(s, x)[k] = x
                 ELSE k \in DOMAIN s /\ Append(s, x)[k] = s[k]
  OBVIOUS

\* Goto: the top is replaced.
LEMMA StackGoto ==
    ASSUME NEW s \in Seq(Stages), s # <<>>, NEW x \in Stages
    PROVE  /\ Append(Front(s), x) \in Seq(Stages)
           /\ Append(Front(s), x) # <<>>
           /\ DOMAIN Append(Front(s), x) = DOMAIN s
           /\ \A k \in DOMAIN s :
                 Append(Front(s), x)[k] = IF k = Len(s) THEN x ELSE s[k]
  BY StackTop, StackPush

\* What every action but those of the threads' own code does to the stacks: each
\* keeps its bottom, and no thread begins to live.
BottomsKept ==
    /\ stack' \in [Threads -> Seq(Stages)]
    /\ BottomOnly'
    /\ stack'["worker"] # <<>> => stack["worker"] # <<>>
    /\ stack'["main"] # <<>> /\ stack'["main"][1] \in MainStages =>
          stack["main"] # <<>> /\ stack["main"][1] = stack'["main"][1]

StopStages == {"stopReactor", "check", "flag", "state", "wait"}

LEMMA PushKeepsBottoms ==
    ASSUME TypeOK, BottomOnly, NEW t \in Threads, NEW x \in StopStages, stack[t] # <<>>,
           stack' = [stack EXCEPT ![t] = Append(@, x)]
    PROVE  BottomsKept
<1>1. x \in Stages /\ x \notin MainStages /\ x \notin WorkerStages
  BY DEF StopStages, Stages, MainStages, WorkerStages
<1>2. \A u \in Threads : stack[u] \in Seq(Stages)
  BY DEF TypeOK
<1>3. \A u \in Threads : stack'[u] = IF u = t THEN Append(stack[t], x) ELSE stack[u]
  BY DEF TypeOK
<1>4. /\ Append(stack[t], x) \in Seq(Stages)
      /\ Append(stack[t], x) # <<>>
      /\ DOMAIN Append(stack[t], x) = 1 .. Len(stack[t]) + 1
      /\ \A k \in DOMAIN Append(stack[t], x) :
            IF k = Len(stack[t]) + 1 THEN Append(stack[t], x)[k] = x
            ELSE k \in DOMAIN stack[t] /\ Append(stack[t], x)[k] = stack[t][k]
  BY <1>1, <1>2, StackPush
<1>5. Len(stack[t]) \in Nat \ {0}
  BY <1>2, EmptySeq
<1>6. stack' \in [Threads -> Seq(Stages)]
  BY <1>4 DEF TypeOK
<1>7. \A k \in DOMAIN stack'[t] :
         IF k = Len(stack[t]) + 1 THEN stack'[t][k] = x /\ k # 1
         ELSE k \in DOMAIN stack[t] /\ stack'[t][k] = stack[t][k]
  BY <1>3, <1>4, <1>5
<1>8. "main" \in Threads /\ "worker" \in Threads
  BY DEF Threads
<1>9. BottomOnly'
  BY <1>1, <1>3, <1>7, <1>8 DEF BottomOnly
<1>10. stack'[t] # <<>> /\ stack'[t][1] = stack[t][1] /\ 1 \in DOMAIN stack'[t]
  BY <1>3, <1>4, <1>5, <1>7
<1> QED
  BY <1>3, <1>6, <1>8, <1>9, <1>10 DEF BottomsKept

LEMMA GotoKeepsBottoms ==
    ASSUME TypeOK, BottomOnly, NEW t \in Threads, NEW y \in StopStages, NEW x \in StopStages,
           At(t, y), Goto(t, x)
    PROVE  BottomsKept
<1>1. x \in Stages /\ x \notin MainStages /\ x \notin WorkerStages
  BY DEF StopStages, Stages, MainStages, WorkerStages
<1>2. y \in Stages /\ y \notin MainStages /\ y \notin WorkerStages
  BY DEF StopStages, Stages, MainStages, WorkerStages
<1>3. stack[t] \in Seq(Stages) /\ stack[t] # <<>> /\ Last(stack[t]) = y
  BY DEF TypeOK, At
<1>4. \A u \in Threads : stack'[u] = IF u = t THEN Append(Front(stack[t]), x) ELSE stack[u]
  BY DEF TypeOK, Goto
<1>5. /\ stack[t][Len(stack[t])] = y
      /\ Len(stack[t]) \in DOMAIN stack[t]
  BY <1>3, StackTop
<1>6. /\ stack'[t] \in Seq(Stages)
      /\ stack'[t] # <<>>
      /\ DOMAIN stack'[t] = DOMAIN stack[t]
      /\ \A k \in DOMAIN stack[t] :
            stack'[t][k] = IF k = Len(stack[t]) THEN x ELSE stack[t][k]
  <2> DEFINE new == Append(Front(stack[t]), x)
  <2>1. /\ new \in Seq(Stages)
        /\ new # <<>>
        /\ DOMAIN new = DOMAIN stack[t]
        /\ \A k \in DOMAIN stack[t] : new[k] = IF k = Len(stack[t]) THEN x ELSE stack[t][k]
    BY <1>1, <1>3, StackGoto
  <2>2. stack'[t] = new
    BY <1>4
  <2> QED
    BY <2>1, <2>2
<1>7. stack' \in [Threads -> Seq(Stages)]
  BY <1>1, <1>3, StackGoto DEF TypeOK, Goto
<1>8. "main" \in Threads /\ "worker" \in Threads
  BY DEF Threads
<1>9. BottomOnly'
  BY <1>1, <1>2, <1>4, <1>5, <1>6, <1>8 DEF BottomOnly
<1>10. 1 \in DOMAIN stack[t]
  BY <1>3, EmptySeq, LenProperties
<1>11. stack'[t][1] \in MainStages => stack'[t][1] = stack[t][1]
  BY <1>1, <1>6, <1>10
<1> QED
  BY <1>3, <1>4, <1>7, <1>8, <1>9, <1>11 DEF BottomsKept

\* What a waiting signal handler returns to: the bottom stays, or the thread ends.
LEMMA ReturnKeepsBottoms ==
    ASSUME TypeOK, BottomOnly, NEW t \in Threads, NEW y \in StopStages,
           At(t, y), Return(t)
    PROVE  BottomsKept
<1>1. y \notin MainStages /\ y \notin WorkerStages
  BY DEF StopStages, Stages, MainStages, WorkerStages
<1>2. stack[t] \in Seq(Stages) /\ stack[t] # <<>> /\ Last(stack[t]) = y
  BY DEF TypeOK, At
<1>3. \A u \in Threads : stack'[u] = IF u = t THEN Front(stack[t]) ELSE stack[u]
  BY DEF TypeOK, Return
<1>4. /\ stack[t][Len(stack[t])] = y
      /\ Len(stack[t]) \in DOMAIN stack[t]
      /\ Front(stack[t]) \in Seq(Stages)
      /\ \A k \in DOMAIN Front(stack[t]) :
            k \in DOMAIN stack[t] /\ Front(stack[t])[k] = stack[t][k]
      /\ Len(Front(stack[t])) = Len(stack[t]) - 1
  BY <1>2, StackTop
<1>5. stack' \in [Threads -> Seq(Stages)]
  BY <1>4 DEF TypeOK, Return
<1>6. "main" \in Threads /\ "worker" \in Threads
  BY DEF Threads
<1>7. stack'[t] # <<>> => 1 \in DOMAIN stack'[t] /\ stack'[t][1] = stack[t][1]
  <2>1. Front(stack[t]) # <<>> => 1 \in DOMAIN Front(stack[t])
    BY <1>4, EmptySeq, LenProperties
  <2> QED
    BY <1>3, <1>4, <2>1
<1>8. BottomOnly'
  BY <1>1, <1>3, <1>4, <1>6 DEF BottomOnly
<1> QED
  BY <1>2, <1>3, <1>5, <1>6, <1>7, <1>8 DEF BottomsKept

LEMMA BottomsKeepInvariant ==
    ASSUME IInv, BottomsKept, runState' \in RunStates,
           runState' = runState \/ runState' # "STOPPED",
           stopFlag' \in BOOLEAN, reactorStop' \in BOOLEAN, signals' \in 0 .. MaxSignals
    PROVE  IInv'
  BY DEF IInv, BottomsKept, TypeOK, NotYetSpawned, StoppedMeansEnded, MainStages

-----------------------------------------------------------------------------
(* The steps *)

LEMMA StopKeeps ==
    ASSUME IInv, NEW t \in Threads, Stop(t)
    PROVE  IInv'
<1> USE DEF StopStages
<1>1. TypeOK /\ BottomOnly
  BY DEF IInv
<1>2. CASE StopReactor(t)
  BY <1>1, <1>2, GotoKeepsBottoms, BottomsKeepInvariant DEF StopReactor, TypeOK
<1>3. CASE CheckStarted(t)
  <2>1. (IF runState = "STARTED" THEN "flag" ELSE "wait") \in StopStages
    OBVIOUS
  <2>2. BottomsKept
    BY <1>1, <1>3, <2>1, GotoKeepsBottoms DEF CheckStarted
  <2> QED
    BY <1>1, <1>3, <2>2, BottomsKeepInvariant DEF CheckStarted, TypeOK
<1>4. CASE SetFlag(t)
  BY <1>1, <1>4, GotoKeepsBottoms, BottomsKeepInvariant DEF SetFlag, TypeOK
<1>5. CASE SetStopping(t)
  BY <1>1, <1>5, GotoKeepsBottoms, BottomsKeepInvariant DEF SetStopping, TypeOK, RunStates
<1>6. CASE Waited(t)
  BY <1>1, <1>6, ReturnKeepsBottoms, BottomsKeepInvariant DEF Waited, TypeOK
<1> QED
  BY <1>2, <1>3, <1>4, <1>5, <1>6 DEF Stop

\* Who stands at a stage of his own code has nothing on top of it.
LEMMA AtBottom ==
    ASSUME IInv, NEW t \in Threads, NEW y \in Stages, At(t, y),
           y \in (IF t = "main" THEN MainStages ELSE WorkerStages)
    PROVE  stack[t] \in Seq(Stages) /\ stack[t] # <<>> /\ Len(stack[t]) = 1 /\ stack[t][1] = y
<1>1. stack[t] \in Seq(Stages) /\ stack[t] # <<>> /\ Last(stack[t]) = y
  BY DEF IInv, TypeOK, At
<1>2. stack[t][Len(stack[t])] = y /\ Len(stack[t]) \in DOMAIN stack[t]
  BY <1>1, StackTop
<1> QED
  BY <1>1, <1>2 DEF IInv, BottomOnly, Threads

\* A step of a thread's own code from one stage to another.
LEMMA OwnGoto ==
    ASSUME IInv, NEW t \in Threads, NEW y \in Stages, NEW x \in Stages, At(t, y), Goto(t, x),
           y \in (IF t = "main" THEN MainStages ELSE WorkerStages),
           t = "worker" => x \in WorkerStages
    PROVE  /\ stack' \in [Threads -> Seq(Stages)]
           /\ BottomOnly'
           /\ stack'[t] # <<>> /\ stack'[t][1] = x /\ stack[t] # <<>> /\ stack[t][1] = y
           /\ \A u \in Threads \ {t} : stack'[u] = stack[u]
<1>1. stack[t] \in Seq(Stages) /\ stack[t] # <<>> /\ Len(stack[t]) = 1 /\ stack[t][1] = y
  BY AtBottom
<1>2. \A u \in Threads : stack'[u] = IF u = t THEN Append(Front(stack[t]), x) ELSE stack[u]
  BY DEF IInv, TypeOK, Goto
<1> DEFINE new == Append(Front(stack[t]), x)
<1>3. /\ new \in Seq(Stages)
      /\ new # <<>>
      /\ DOMAIN new = DOMAIN stack[t]
      /\ \A k \in DOMAIN stack[t] : new[k] = IF k = Len(stack[t]) THEN x ELSE stack[t][k]
  BY <1>1, StackGoto
<1>4. DOMAIN stack[t] = {1}
  BY <1>1, LenProperties
<1>5. stack'[t] = new /\ DOMAIN new = {1} /\ new[1] = x
  BY <1>1, <1>2, <1>3, <1>4
<1>6. stack' \in [Threads -> Seq(Stages)]
  BY <1>3 DEF IInv, TypeOK, Goto
<1>7. BottomOnly'
  BY <1>2, <1>5 DEF IInv, BottomOnly, Threads
<1> QED
  BY <1>1, <1>2, <1>3, <1>5, <1>6, <1>7

LEMMA MainKeeps == IInv /\ Main => IInv'
<1> SUFFICES ASSUME IInv, Main PROVE IInv'
  OBVIOUS
<1> USE DEF MainStages, Stages, Threads
<1>1. CASE StartWorker
  <2>1. /\ stack' \in [Threads -> Seq(Stages)]
        /\ BottomOnly'
        /\ stack["main"] # <<>> /\ stack["main"][1] = "start"
        /\ stack'["worker"] = stack["worker"]
    BY <1>1, OwnGoto DEF StartWorker
  <2> QED
    BY <1>1, <2>1 DEF StartWorker, IInv, TypeOK, RunStates, NotYetSpawned, StoppedMeansEnded
<1>2. CASE Spawn
  <2>1. /\ stack["main"] \in Seq(Stages) /\ stack["main"] # <<>>
        /\ Len(stack["main"]) = 1 /\ stack["main"][1] = "spawn"
    BY <1>2, AtBottom DEF Spawn
  <2> DEFINE new == Append(Front(stack["main"]), "reactor")
  <2>2. /\ new \in Seq(Stages) /\ new # <<>> /\ DOMAIN new = {1} /\ new[1] = "reactor"
    BY <2>1, StackGoto, LenProperties
  <2>3. stack' \in [Threads -> Seq(Stages)] /\ stack'["main"] = new /\ stack'["worker"] = <<"run">>
    <3>1. <<"run">> \in Seq(Stages)
      OBVIOUS
    <3>2. stack' = [main |-> new, worker |-> <<"run">>]
      BY <1>2 DEF Spawn
    <3>3. stack'["main"] = new /\ stack'["worker"] = <<"run">>
      BY <3>2
    <3>4. stack' = [t \in Threads |-> stack'[t]]
      BY <3>2
    <3> HIDE DEF new, MainStages, Stages
    <3>5. \A t \in Threads : stack'[t] \in Seq(Stages)
      BY <2>2, <3>1, <3>3
    <3> HIDE DEF Threads
    <3> QED
      BY <3>3, <3>4, <3>5
  <2>4. DOMAIN <<"run">> = {1} /\ <<"run">>[1] = "run"
    OBVIOUS
  <2>5. BottomOnly'
    BY <2>2, <2>3, <2>4 DEF BottomOnly, WorkerStages
  <2>6. runState # "STOPPED"
    BY <2>1 DEF IInv, NotYetSpawned
  <2> QED
    BY <1>2, <2>2, <2>3, <2>5, <2>6 DEF Spawn, IInv, TypeOK, NotYetSpawned, StoppedMeansEnded
<1>3. CASE LeaveReactor
  <2>1. /\ stack' \in [Threads -> Seq(Stages)]
        /\ BottomOnly'
        /\ stack'["main"][1] = "check"
        /\ stack'["worker"] = stack["worker"]
    BY <1>3, OwnGoto DEF LeaveReactor
  <2> QED
    BY <1>3, <2>1 DEF LeaveReactor, IInv, TypeOK, NotYetSpawned, StoppedMeansEnded
<1>4. CASE Stop("main")
  BY <1>4, StopKeeps
<1> QED
  BY <1>1, <1>2, <1>3, <1>4 DEF Main

LEMMA WorkerKeeps == IInv /\ Worker => IInv'
<1> SUFFICES ASSUME IInv, Worker PROVE IInv'
  OBVIOUS
<1> USE DEF WorkerStages, Stages, Threads
<1>1. CASE Run
  <2>1. /\ stack' \in [Threads -> Seq(Stages)]
        /\ BottomOnly'
        /\ stack["worker"] # <<>>
        /\ stack'["main"] = stack["main"]
    BY <1>1, OwnGoto DEF Run
  <2> QED
    BY <1>1, <2>1 DEF Run, IInv, TypeOK, RunStates, NotYetSpawned, StoppedMeansEnded
<1>2. CASE LeaveLoop
  <2>1. /\ stack' \in [Threads -> Seq(Stages)]
        /\ BottomOnly'
        /\ stack["worker"] # <<>>
        /\ stack'["main"] = stack["main"]
    BY <1>2, OwnGoto DEF LeaveLoop
  <2> QED
    BY <1>2, <2>1 DEF LeaveLoop, IInv, TypeOK, NotYetSpawned, StoppedMeansEnded
<1>3. CASE EndRun
  <2>1. /\ stack["worker"] \in Seq(Stages) /\ stack["worker"] # <<>>
        /\ Len(stack["worker"]) = 1
    BY <1>3, AtBottom DEF EndRun
  <2>2. Front(stack["worker"]) = <<>>
    BY <2>1, StackTop, EmptySeq
  <2>3. /\ stack' \in [Threads -> Seq(Stages)]
        /\ stack'["worker"] = <<>> /\ stack'["main"] = stack["main"]
    BY <1>3, <2>2 DEF EndRun, Return, IInv, TypeOK
  <2>4. BottomOnly'
    BY <2>3 DEF BottomOnly, IInv
  <2> QED
    BY <1>3, <2>1, <2>3, <2>4
    DEF EndRun, IInv, TypeOK, RunStates, NotYetSpawned, StoppedMeansEnded
<1>4. CASE Stop("worker")
  BY <1>4, StopKeeps
<1> QED
  BY <1>1, <1>2, <1>3, <1>4 DEF Worker

LEMMA SignalKeeps == ASSUME IInv, NEW t \in Threads, Signal(t) PROVE IInv'
<1>1. BottomsKept
  BY PushKeepsBottoms DEF Signal, IInv, StopStages
<1>2. signals' \in 0 .. MaxSignals
  BY SchedulerAssumption DEF Signal, IInv, TypeOK
<1> QED
  BY <1>1, <1>2, BottomsKeepInvariant DEF Signal, IInv, TypeOK

\* The threads' states and stacks keep their types and their shape.
THEOREM SchedulerInvariant == Spec => []IInv
<1>1. Init => IInv
  <2> SUFFICES ASSUME Init PROVE IInv
    OBVIOUS
  <2>1. /\ stack["main"] = <<"start">> /\ stack["worker"] = <<>>
        /\ <<"start">> \in Seq(Stages) /\ <<>> \in Seq(Stages)
        /\ DOMAIN <<"start">> = {1} /\ DOMAIN <<>> = {}
    BY DEF Init, Threads, Stages
  <2>2. stack \in [Threads -> Seq(Stages)]
    BY <2>1 DEF Init, Threads
  <2>3. BottomOnly
    BY <2>1 DEF BottomOnly
  <2>4. TypeOK
    <3>1. /\ runState \in RunStates /\ stopFlag \in BOOLEAN /\ reactorStop \in BOOLEAN
          /\ signals = 0
      BY DEF Init, RunStates
    <3>2. 0 \in 0 .. MaxSignals
      BY SchedulerAssumption
    <3> QED
      BY <2>2, <3>1, <3>2 DEF TypeOK
  <2> QED
    BY <2>1, <2>3, <2>4 DEF Init, IInv, NotYetSpawned, StoppedMeansEnded
<1>2. IInv /\ [Next]_vars => IInv'
  <2>1. IInv /\ UNCHANGED vars => IInv'
    BY DEF IInv, TypeOK, BottomOnly, NotYetSpawned, StoppedMeansEnded, vars
  <2> QED
    BY <2>1, MainKeeps, WorkerKeeps, SignalKeeps DEF Next
<1> QED
  BY <1>1, <1>2, PTL DEF Spec

\* Every reachable state of the scheduler has its type.
THEOREM SchedulerTypeCorrect == Spec => []TypeOK
<1>1. IInv => TypeOK
  BY DEF IInv
<1> QED
  BY <1>1, SchedulerInvariant, PTL

\* Worker::run_state: whoever sees STOPPED may tear down what the worker uses,
\* wherever and however often signals interrupt the two threads.
THEOREM StoppedIsEnded == Spec => []StoppedMeansEnded
<1>1. IInv => StoppedMeansEnded
  BY DEF IInv
<1> QED
  BY <1>1, SchedulerInvariant, PTL

=============================================================================
