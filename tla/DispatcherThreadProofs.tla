----------------------- MODULE DispatcherThreadProofs -----------------------
(***************************************************************************)
(* The composition of a Dispatcher with the Thread that consumes it: its   *)
(* steps are steps of both, so that what is proved of each holds in it, and *)
(* what the owner may rely on follows from both together.                  *)
(***************************************************************************)
EXTENDS DispatcherThread, TLAPS

DP == INSTANCE DispatcherProofs
TP == INSTANCE ThreadProofs WITH Discipline <- "join"

LEMMA PartAssumptions == DP!DispatcherAssumption /\ TP!ThreadAssumption
BY PartsAssumption
DEF D!DispatcherAssumption, DP!DispatcherAssumption, D!Threads, DP!Threads,
    T!ThreadAssumption, TP!ThreadAssumption

(* The two instances of each module, here and in its proofs, are the same. *)
LEMMA SameDispatcher ==
    /\ D!Init <=> DP!Init
    /\ [D!Next]_(D!vars) <=> [DP!Next]_(DP!vars)
    /\ D!TypeOK <=> DP!TypeOK
<1>1. D!Init <=> DP!Init
  BY DEF D!Init, DP!Init, D!Threads, DP!Threads
<1>2. D!TypeOK <=> DP!TypeOK
  BY DEF D!TypeOK, DP!TypeOK, D!Threads, DP!Threads, D!DispatchPoints, DP!DispatchPoints,
         D!ConsumePoints, DP!ConsumePoints
<1>3. UNCHANGED D!vars <=> UNCHANGED DP!vars
  BY DEF D!vars, DP!vars, D!dispatchVars, DP!dispatchVars, D!consumeVars, DP!consumeVars
<1>4. ASSUME NEW t, NEW j
      PROVE  D!Dispatch(t, j) <=> DP!Dispatch(t, j)
  BY DEF D!Dispatch, DP!Dispatch, D!Fresh, DP!Fresh, D!Range, DP!Range, D!Threads,
         DP!Threads, D!consumeVars, DP!consumeVars
<1>5. ASSUME NEW t
      PROVE  D!DispatchStep(t) <=> DP!DispatchStep(t)
  BY DEF D!DispatchStep, DP!DispatchStep, D!DispatchLock, DP!DispatchLock,
         D!DispatchLockTimeout, DP!DispatchLockTimeout, D!DispatchPush, DP!DispatchPush,
         D!DispatchSignal, DP!DispatchSignal, D!consumeVars, DP!consumeVars
<1>6. D!Consume <=> DP!Consume
  BY DEF D!Consume, DP!Consume, D!dispatchVars, DP!dispatchVars
<1>7. D!ConsumeStep <=> DP!ConsumeStep
  BY DEF D!ConsumeStep, DP!ConsumeStep, D!ConsumeWoken, DP!ConsumeWoken, D!ConsumeTimeout,
         DP!ConsumeTimeout, D!ConsumeClear, DP!ConsumeClear, D!ConsumeLock, DP!ConsumeLock,
         D!ConsumeTake, DP!ConsumeTake, D!PopFront, DP!PopFront, D!ConsumeNothing,
         DP!ConsumeNothing, D!ConsumeReturn, DP!ConsumeReturn, D!dispatchVars,
         DP!dispatchVars
<1>8. D!Threads = DP!Threads
  BY DEF D!Threads, DP!Threads
<1>9. D!Next <=> DP!Next
  BY <1>4, <1>5, <1>6, <1>7, <1>8, Zenon DEF D!Next, DP!Next
<1> QED
  BY <1>1, <1>2, <1>3, <1>9

LEMMA SameThread ==
    /\ T!Init <=> TP!Init
    /\ [T!Next]_(T!vars) <=> [TP!Next]_(TP!vars)
    /\ T!TypeOK <=> TP!TypeOK
<1>1. T!Init <=> TP!Init
  BY DEF T!Init, TP!Init, T!Tasks, TP!Tasks, T!NullHandle, TP!NullHandle
<1>2. T!TypeOK <=> TP!TypeOK
  BY DEF T!TypeOK, TP!TypeOK, T!Tasks, TP!Tasks, T!NullHandle, TP!NullHandle
<1>3. UNCHANGED T!vars <=> UNCHANGED TP!vars
  BY DEF T!vars, TP!vars, T!taskVars, TP!taskVars
<1>4. (T!Start <=> TP!Start) /\ (T!OwnerStep <=> TP!OwnerStep)
  BY DEF T!Start, TP!Start, T!OwnerStep, TP!OwnerStep, T!CreateTask, TP!CreateTask,
         T!CheckState, TP!CheckState, T!CheckHandle, TP!CheckHandle, T!JoinDone,
         TP!JoinDone, T!taskVars, TP!taskVars, T!NullHandle, TP!NullHandle
<1>5. /\ T!Join <=> TP!Join
      /\ T!JoinTimeout <=> TP!JoinTimeout
      /\ T!SeesStopped <=> TP!SeesStopped
      /\ T!Destroy <=> TP!Destroy
  BY DEF T!Join, TP!Join, T!JoinTimeout, TP!JoinTimeout, T!SeesStopped, TP!SeesStopped,
         T!Destroy, TP!Destroy, T!taskVars, TP!taskVars, T!NullHandle, TP!NullHandle
<1>6. ASSUME NEW i
      PROVE  T!TaskStep(i) <=> TP!TaskStep(i)
  BY DEF T!TaskStep, TP!TaskStep, T!TaskEnter, TP!TaskEnter, T!TaskReturn, TP!TaskReturn,
         T!TaskClearHandle, TP!TaskClearHandle, T!NullHandle, TP!NullHandle
<1>7. T!Tasks = TP!Tasks
  BY DEF T!Tasks, TP!Tasks
<1>8. T!Next <=> TP!Next
  BY <1>4, <1>5, <1>6, <1>7, Zenon DEF T!Next, TP!Next
<1> QED
  BY <1>1, <1>2, <1>3, <1>8

(* Each step of the composition is a step or a stutter of both parts. *)
LEMMA PartSteps == [Next]_vars => [D!Next]_(D!vars) /\ [T!Next]_(T!vars)
<1> SUFFICES ASSUME [Next]_vars
             PROVE  [D!Next]_(D!vars) /\ [T!Next]_(T!vars)
  OBVIOUS
<1>1. UNCHANGED dispatcherVars => UNCHANGED D!vars
  BY DEF dispatcherVars, D!vars, D!dispatchVars, D!consumeVars
<1>2. UNCHANGED threadVars => UNCHANGED T!vars
  BY DEF threadVars, T!vars, T!taskVars
<1>3. CASE StartThread \/ StopThread \/ Stopped \/ Free \/ ThreadStep \/ LoopExit
  BY <1>1, <1>3 DEF StartThread, StopThread, Stopped, Free, ThreadStep, LoopExit, T!Next,
                    T!OwnerStep, T!TaskStep
<1>4. CASE LoopConsume \/ Consuming
  BY <1>2, <1>4 DEF LoopConsume, Consuming, D!Next
<1>5. ASSUME NEW t \in D!Threads, CallDispatch(t) \/ Dispatching(t)
      PROVE  [D!Next]_(D!vars) /\ [T!Next]_(T!vars)
  BY <1>2, <1>5 DEF CallDispatch, Dispatching, D!Next
<1>6. CASE UNCHANGED vars
  BY <1>1, <1>2, <1>6 DEF vars
<1> QED
  BY <1>3, <1>4, <1>5, <1>6 DEF Next

-----------------------------------------------------------------------------
(* While start() looks at its new task and until stop() interrupts, the task is
   at work.                                                                *)
Interrupted == /\ opc \in {"create", "checkState", "checkHandle", "started"}
                    => interruptThread = FALSE
               /\ opc \in {"checkState", "checkHandle", "started"} => TP!Working # {}

(* Only a task inside of its main function is inside of consume(), and only a
   function that consume() runs dispatches from the thread itself.         *)
ConsumesInMain == cpc # "out" => Running

DispatchesInRun == dpc[Consumer] # "out" => cpc = "run"

FlagsOK == interruptThread \in BOOLEAN /\ looped \in BOOLEAN

IInv == /\ DP!IInv /\ TP!JoinInv
        /\ FlagsOK /\ Interrupted /\ ConsumesInMain /\ DispatchesInRun
        /\ opc # "crashed"

LEMMA PartInvs ==
    ASSUME IInv, [Next]_vars
    PROVE  DP!IInv' /\ TP!JoinInv'
<1>1. [DP!Next]_(DP!vars) /\ [TP!Next]_(TP!vars)
  BY PartSteps, SameDispatcher, SameThread
<1>2. DP!IInv'
  BY <1>1, DP!NextIInv, PartAssumptions DEF IInv
<1>3. TP!JoinInv'
  BY <1>1, TP!JoinStep, PartAssumptions DEF IInv
<1> QED
  BY <1>2, <1>3

(* The tasks of the thread and its handle, as the owner's steps find them. *)
LEMMA ThreadFacts ==
    ASSUME TP!JoinInv
    PROVE  /\ opc = "idle" => state = "Stopped"
           /\ opc \in {"idle", "create", "freed"} => \A i \in T!Tasks : body[i] # "main"
           /\ TP!Working # {} => taskHandle # TP!NullHandle
           /\ \A i, j \in T!Tasks : body[i] = "main" /\ body[j] \in {"created", "main"} => i = j
           /\ body \in [T!Tasks -> {"none", "created", "main", "stopped", "gone"}]
           /\ starts \in Nat /\ (opc = "create" => starts + 1 \in T!Tasks)
<1> USE DEF TP!JoinInv, TP!StateInv, TP!TypeOK, TP!Tasks, T!Tasks
<1>1. opc \in {"idle", "create", "freed"} => \A i \in T!Tasks : body[i] # "main"
  BY DEF TP!QuietObject, TP!Live
<1>2. opc = "idle" => state = "Stopped"
  BY DEF TP!QuietObject, TP!Live, TP!Working, TP!StateHasTask
<1>3. TP!Working # {} => taskHandle # TP!NullHandle
  <2>1. \A i \in TP!Working : i \in TP!Live /\ i # TP!NullHandle
    BY DEF TP!Working, TP!Live, TP!NullHandle
  <2> QED
    BY <2>1 DEF TP!HandleNamesLiveTask
<1>4. \A i, j \in T!Tasks : body[i] = "main" /\ body[j] \in {"created", "main"} => i = j
  BY DEF TP!OneWorking, TP!Working
<1>5. starts \in Nat /\ (opc = "create" => starts + 1 \in T!Tasks)
  BY PartAssumptions DEF TP!FreshTasks, TP!ThreadAssumption
<1> QED
  BY <1>1, <1>2, <1>3, <1>4, <1>5

(* What the consumer and a function that it runs do to where they are. *)
LEMMA ConsumerMoves ==
    ASSUME DP!IInv, DispatchesInRun, [Next]_vars
    PROVE  /\ cpc' # cpc => LoopConsume \/ Consuming
           /\ DispatchesInRun'
<1>0. Consumer \in D!Threads /\ dpc \in [D!Threads -> D!DispatchPoints]
  BY DEF D!Threads, DP!IInv, DP!TypeOK, DP!Threads, D!DispatchPoints, DP!DispatchPoints
<1>1. CASE StartThread \/ StopThread \/ Stopped \/ Free \/ ThreadStep \/ LoopExit
  BY <1>1 DEF StartThread, StopThread, Stopped, Free, ThreadStep, LoopExit, dispatcherVars,
              DispatchesInRun
<1>2. CASE LoopConsume
  BY <1>2 DEF LoopConsume, D!Consume, D!dispatchVars, DispatchesInRun
<1>3. CASE Consuming
  BY <1>3 DEF Consuming, D!ConsumeStep, D!ConsumeWoken, D!ConsumeTimeout, D!ConsumeClear,
              D!ConsumeLock, D!ConsumeTake, D!ConsumeNothing, D!ConsumeReturn,
              D!dispatchVars, DispatchesInRun
<1>4. ASSUME NEW t \in D!Threads, CallDispatch(t)
      PROVE  cpc' = cpc /\ DispatchesInRun'
  BY <1>0, <1>4 DEF CallDispatch, D!Dispatch, D!consumeVars, DispatchesInRun
<1>5. ASSUME NEW t \in D!Threads, Dispatching(t)
      PROVE  cpc' = cpc /\ DispatchesInRun'
  BY <1>0, <1>5 DEF Dispatching, D!DispatchStep, D!DispatchLock, D!DispatchLockTimeout,
                    D!DispatchPush, D!DispatchSignal, D!consumeVars, DispatchesInRun
<1>6. CASE UNCHANGED vars
  BY <1>6 DEF vars, dispatcherVars, DispatchesInRun
<1> QED
  BY <1>1, <1>2, <1>3, <1>4, <1>5, <1>6 DEF Next

LEMMA OwnerStep ==
    ASSUME IInv, [Next]_vars
    PROVE  FlagsOK' /\ Interrupted' /\ ConsumesInMain' /\ (opc # "crashed")'
<1> USE DEF FlagsOK
<1>0. /\ opc = "idle" => state = "Stopped"
      /\ opc \in {"idle", "create", "freed"} => \A i \in T!Tasks : body[i] # "main"
      /\ TP!Working # {} => taskHandle # TP!NullHandle
      /\ \A i, j \in T!Tasks : body[i] = "main" /\ body[j] \in {"created", "main"} => i = j
      /\ body \in [T!Tasks -> {"none", "created", "main", "stopped", "gone"}]
      /\ starts \in Nat /\ (opc = "create" => starts + 1 \in T!Tasks)
  BY ThreadFacts DEF IInv
<1>1. CASE StartThread
  BY <1>0, <1>1 DEF StartThread, T!Start, IInv, Interrupted, ConsumesInMain, Running,
                    dispatcherVars
<1>2. CASE ThreadStep
  <2>1. UNCHANGED <<cpc, interruptThread, looped>>
    BY <1>2 DEF ThreadStep, dispatcherVars
  <2>2. CASE T!CreateTask
    <3>1. body'[starts + 1] = "created"
      BY <1>0, <2>2 DEF T!CreateTask
    <3>2. TP!Working' # {}
      BY <1>0, <2>2, <3>1 DEF T!CreateTask, TP!Working, TP!Tasks, T!Tasks
    <3>3. cpc = "out"
      BY <1>0, <2>2 DEF T!CreateTask, IInv, ConsumesInMain, Running
    <3> QED
      BY <2>1, <2>2, <3>2, <3>3 DEF T!CreateTask, IInv, Interrupted, ConsumesInMain
  <2>3. CASE T!CheckState \/ T!CheckHandle
    <3>1. UNCHANGED body
      BY <2>3 DEF T!CheckState, T!CheckHandle, T!taskVars
    <3>2. opc \in {"checkState", "checkHandle"} /\ opc' \in {"checkHandle", "started"}
      BY <1>0, <2>3 DEF T!CheckState, T!CheckHandle, IInv, Interrupted, T!NullHandle,
                        TP!NullHandle
    <3> QED
      BY <2>1, <3>1, <3>2 DEF IInv, Interrupted, ConsumesInMain, Running, TP!Working
  <2>4. ASSUME NEW i \in T!Tasks, T!TaskEnter(i) \/ T!TaskClearHandle(i)
        PROVE  FlagsOK' /\ Interrupted' /\ ConsumesInMain' /\ (opc # "crashed")'
    <3>1. \A j \in T!Tasks : /\ body[j] \in {"created", "main"} => body'[j] \in {"created", "main"}
                             /\ body[j] = "main" => body'[j] = "main"
      BY <1>0, <2>4 DEF T!TaskEnter, T!TaskClearHandle
    <3>2. UNCHANGED opc
      BY <2>4 DEF T!TaskEnter, T!TaskClearHandle
    <3> QED
      BY <2>1, <3>1, <3>2 DEF IInv, Interrupted, ConsumesInMain, Running, TP!Working,
                              TP!Tasks, T!Tasks
  <2> QED
    BY <1>2, <2>2, <2>3, <2>4 DEF ThreadStep
<1>3. CASE StopThread \/ Stopped \/ Free
  <2>1. UNCHANGED <<body, cpc, looped>> /\ interruptThread' \in BOOLEAN
    BY <1>3 DEF StopThread, Stopped, Free, T!Join, T!JoinDone, T!Destroy, T!taskVars,
                dispatcherVars, IInv
  <2>2. opc' \in {"joining", "idle", "freed", "freedEarly"}
    BY <1>3 DEF StopThread, Stopped, Free, T!Join, T!JoinDone, T!Destroy
  <2> QED
    BY <2>1, <2>2 DEF IInv, Interrupted, ConsumesInMain, Running
<1>4. CASE LoopConsume \/ Consuming
  BY <1>4 DEF LoopConsume, Consuming, threadVars, IInv, Interrupted, ConsumesInMain,
              Running, TP!Working
<1>5. CASE LoopExit
  <2>1. PICK i \in T!Tasks : T!TaskReturn(i)
    BY <1>5 DEF LoopExit
  <2>2. opc \notin {"create", "checkState", "checkHandle", "started"} /\ UNCHANGED opc
    BY <1>5, <2>1 DEF LoopExit, T!TaskReturn, IInv, Interrupted
  <2> QED
    BY <1>5, <2>2 DEF LoopExit, IInv, Interrupted, ConsumesInMain, dispatcherVars
<1>6. ASSUME NEW t \in D!Threads, CallDispatch(t) \/ Dispatching(t)
      PROVE  FlagsOK' /\ Interrupted' /\ ConsumesInMain' /\ (opc # "crashed")'
  <2>1. UNCHANGED <<threadVars, interruptThread, looped>> /\ UNCHANGED cpc
    BY <1>6 DEF CallDispatch, Dispatching, D!Dispatch, D!DispatchStep, D!DispatchLock,
                D!DispatchLockTimeout, D!DispatchPush, D!DispatchSignal, D!consumeVars
  <2> QED
    BY <2>1 DEF threadVars, IInv, Interrupted, ConsumesInMain, Running, TP!Working
<1>7. CASE UNCHANGED vars
  BY <1>7 DEF vars, dispatcherVars, threadVars, IInv, Interrupted, ConsumesInMain, Running,
              TP!Working
<1> QED
  BY <1>1, <1>2, <1>3, <1>4, <1>5, <1>6, <1>7 DEF Next

LEMMA IInvHolds == Spec => []IInv
<1>1. ASSUME Init
      PROVE  IInv
  <2>1. DP!IInv
    BY <1>1, SameDispatcher, DP!InitIInv, PartAssumptions DEF Init
  <2>2. TP!JoinInv
    BY <1>1, SameThread, TP!JoinInit, PartAssumptions DEF Init
  <2>3. cpc = "out" /\ dpc[Consumer] = "out" /\ opc = "idle"
    BY <1>1 DEF Init, D!Init, T!Init, D!Threads
  <2> QED
    BY <1>1, <2>1, <2>2, <2>3
    DEF Init, IInv, FlagsOK, Interrupted, ConsumesInMain, DispatchesInRun
<1>2. ASSUME IInv, [Next]_vars
      PROVE  IInv'
  BY <1>2, PartInvs, OwnerStep, ConsumerMoves DEF IInv
<1> QED
  BY <1>1, <1>2, PTL DEF Spec

-----------------------------------------------------------------------------
(* The dispatcher, its thread and the flag of stop() keep their types. *)
THEOREM TypeCorrect == Spec => []TypeOK
<1>1. ASSUME IInv
      PROVE  TypeOK
  <2>1. DP!TypeOK /\ TP!TypeOK
    BY <1>1 DEF IInv, DP!IInv, TP!JoinInv, TP!StateInv
  <2> QED
    BY <1>1, <2>1, SameDispatcher, SameThread DEF IInv, FlagsOK, TypeOK
<1> QED
  BY <1>1, IInvHolds, PTL

(* Once stop() has returned, the thread runs no function and is not half-way
   through taking one: what the functions use may be torn down.            *)
THEOREM StoppedIsQuiet == Spec => []QuietWhenStopped
<1>1. ASSUME IInv, opc \in {"idle", "freed"}
      PROVE  cpc = "out" /\ current = None /\ mutex # Consumer
  <2>1. cpc = "out"
    BY <1>1, ThreadFacts DEF IInv, ConsumesInMain, Running
  <2>2. dpc[Consumer] = "out"
    BY <1>1, <2>1 DEF IInv, DispatchesInRun
  <2> QED
    BY <1>1, <2>1, <2>2 DEF IInv, DP!IInv, DP!CurrentSet, DP!ConsumerHolds
<1>2. IInv => QuietWhenStopped
  BY <1>1 DEF QuietWhenStopped
<1> QED
  BY <1>2, IInvHolds, PTL

(* The owner never frees a thread whose task has still to touch it, join() polls
   the handle of the only task, and the checks of Thread::start() hold: the loop
   cannot end before the owner that is in start() interrupts it.           *)
THEOREM ThreadIsSafe == Spec => []ThreadChecksHold
<1>1. ASSUME IInv
      PROVE  ThreadChecksHold
  <2>1. T!FreedAfterLastAccess
    BY <1>1 DEF IInv, TP!JoinInv, TP!QuietObject, TP!Live, T!FreedAfterLastAccess, T!Live,
                TP!Tasks, T!Tasks
  <2>2. T!HandleNamesLiveTask
    BY <1>1 DEF IInv, TP!JoinInv, TP!HandleNamesLiveTask, T!HandleNamesLiveTask, TP!Live,
                T!Live, TP!Tasks, T!Tasks
  <2>3. T!StartCheckHolds
    BY <1>1 DEF IInv, T!StartCheckHolds
  <2> QED
    BY <2>1, <2>2, <2>3 DEF ThreadChecksHold
<1> QED
  BY <1>1, IInvHolds, PTL

(* Restarts and stops included, the functions are run in the order in which they
   were accepted, each once: the thread is a serial FIFO executor.         *)
THEOREM RefinesExecutor == Spec => ImplementsExecutor
<1>1. Init => D!Executor!Init
  BY DEF Init, D!Init, D!Executor!Init
<1>2. IInv /\ [Next]_vars => [D!Executor!Next]_(D!Executor!vars)
  <2> SUFFICES ASSUME IInv, [Next]_vars
               PROVE  [D!Executor!Next]_(D!Executor!vars)
    OBVIOUS
  <2>1. [DP!Executor!Next]_(DP!Executor!vars)
    BY PartSteps, SameDispatcher, DP!StepSimulation, PartAssumptions DEF IInv
  <2> QED
    BY <2>1 DEF D!Executor!Next, DP!Executor!Next, D!Executor!vars, DP!Executor!vars,
                D!Executor!Accept, DP!Executor!Accept, D!Executor!Start, DP!Executor!Start,
                D!Executor!Finish, DP!Executor!Finish
<1> QED
  BY <1>1, <1>2, IInvHolds, PTL DEF Spec, ImplementsExecutor, D!ImplementsExecutor,
                                    D!Executor!Spec
=============================================================================
