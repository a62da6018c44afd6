----------------------------- MODULE Dispatcher -----------------------------
(***************************************************************************)
(* TactilityCore/Source/Dispatcher.cpp: the thread-safe execution queue    *)
(* that the main loop, the loader and the services use.  Any thread calls  *)
(* dispatch(); one thread calls consume() again and again.  A dispatched   *)
(* function may itself dispatch (Consumer is also a dispatching thread).   *)
(*                                                                         *)
(* A step is what happens between two points where another thread can      *)
(* observe the difference: taking the mutex, the critical section that     *)
(* ends by releasing it, setting, awaiting or clearing the event flag,     *)
(* and the return of the function that was run without the mutex.          *)
(***************************************************************************)
EXTENDS Naturals, Sequences, Functions

CONSTANTS Callers,   \* threads that call dispatch() from outside
          Consumer,  \* the thread that calls consume()
          Jobs,      \* the functions dispatched, each one once
          Patient,   \* the jobs dispatched with timeout = portMAX_DELAY
          None       \* no owner, no argument, no function

Threads == Callers \cup {Consumer}

ASSUME DispatcherAssumption ==
    /\ Consumer \notin Callers
    /\ Patient \subseteq Jobs
    /\ None \notin Jobs
    /\ None \notin Threads

VARIABLES
    mutex,        \* owner of Dispatcher::mutex (type Normal), or None
    queue,        \* Dispatcher::queue
    eventFlag,    \* WAIT_FLAG of Dispatcher::eventFlag
    dpc,          \* dpc[t]: where thread t is in dispatch()
    argument,     \* argument[t]: the function t is dispatching
    cpc,          \* where Consumer is in consume()
    processing,   \* the local of that name in consume()
    current,      \* the function consume() popped and has not finished
    accepted,     \* history: the functions pushed, in order
    started,      \* history: the functions popped to be run, in order
    dropped       \* history: functions given up because the lock timed out

dispatchVars == <<dpc, argument, dropped>>
consumeVars == <<cpc, processing, current, started>>
vars == <<mutex, queue, eventFlag, dispatchVars, consumeVars, accepted>>

DispatchPoints == {"out", "lock", "push", "signal"}
ConsumePoints == {"out", "wait", "clear", "lock", "take", "run"}

Init == /\ mutex = None
        /\ queue = <<>>
        /\ eventFlag = FALSE
        /\ dpc = [t \in Threads |-> "out"]
        /\ argument = [t \in Threads |-> None]
        /\ cpc = "out"
        /\ processing = FALSE
        /\ current = None
        /\ accepted = <<>>
        /\ started = <<>>
        /\ dropped = {}

(* The jobs no thread has dispatched yet. *)
Fresh == {j \in Jobs : /\ j \notin Range(accepted)
                       /\ j \notin dropped
                       /\ \A t \in Threads : argument[t] # j}

-----------------------------------------------------------------------------
(* dispatch(function, timeout) *)

(* The call: by a thread outside of the dispatcher, or by a function that   *)
(* consume() is running.                                                   *)
Dispatch(t, j) ==
    /\ dpc[t] = "out"
    /\ t = Consumer => cpc = "run"
    /\ j \in Fresh
    /\ dpc' = [dpc EXCEPT ![t] = "lock"]
    /\ argument' = [argument EXCEPT ![t] = j]
    /\ UNCHANGED <<mutex, queue, eventFlag, dropped, consumeVars, accepted>>

(* Mutation of DispatchLock: the function is moved out before it is pushed. *)
LockMovesArgument(t) ==
    /\ dpc[t] = "lock"
    /\ mutex = None
    /\ mutex' = t
    /\ dpc' = [dpc EXCEPT ![t] = "push"]
    /\ argument' = [argument EXCEPT ![t] = None]
    /\ UNCHANGED <<queue, eventFlag, dropped, consumeVars, accepted>>

DispatchLock(t) ==
    /\ dpc[t] = "lock"
    /\ mutex = None
    /\ mutex' = t
    /\ dpc' = [dpc EXCEPT ![t] = "push"]
    /\ UNCHANGED <<queue, eventFlag, argument, dropped, consumeVars, accepted>>

(* mutex.lock(timeout) fails: the function is logged and forgotten. *)
DispatchLockTimeout(t) ==
    /\ dpc[t] = "lock"
    /\ mutex # None
    /\ argument[t] \notin Patient
    /\ dpc' = [dpc EXCEPT ![t] = "out"]
    /\ argument' = [argument EXCEPT ![t] = None]
    /\ dropped' = dropped \cup {argument[t]}
    /\ UNCHANGED <<mutex, queue, eventFlag, consumeVars, accepted>>

(* queue.push(function) and mutex.unlock() *)
DispatchPush(t) ==
    /\ dpc[t] = "push"
    /\ queue' = Append(queue, argument[t])
    /\ accepted' = Append(accepted, argument[t])
    /\ mutex' = None
    /\ dpc' = [dpc EXCEPT ![t] = "signal"]
    /\ UNCHANGED <<eventFlag, argument, dropped, consumeVars>>

(* Mutation of DispatchSignal: the flag is not set. *)
SignalForgotten(t) ==
    /\ dpc[t] = "signal"
    /\ dpc' = [dpc EXCEPT ![t] = "out"]
    /\ argument' = [argument EXCEPT ![t] = None]
    /\ UNCHANGED <<mutex, queue, eventFlag, dropped, consumeVars, accepted>>

(* eventFlag.set(WAIT_FLAG), outside of the lock *)
DispatchSignal(t) ==
    /\ dpc[t] = "signal"
    /\ eventFlag' = TRUE
    /\ dpc' = [dpc EXCEPT ![t] = "out"]
    /\ argument' = [argument EXCEPT ![t] = None]
    /\ UNCHANGED <<mutex, queue, dropped, consumeVars, accepted>>

-----------------------------------------------------------------------------
(* consume(timeout) *)

Consume ==
    /\ cpc = "out"
    /\ cpc' = "wait"
    /\ UNCHANGED <<mutex, queue, eventFlag, dispatchVars, processing, current,
                   started, accepted>>

(* EventFlag::wait clears the flag on exit: consume() does not pass NoClear. *)
ConsumeWoken ==
    /\ cpc = "wait"
    /\ eventFlag
    /\ eventFlag' = FALSE
    /\ cpc' = "clear"
    /\ UNCHANGED <<mutex, queue, dispatchVars, processing, current, started,
                   accepted>>

(* ErrorTimeout has the Error bit: consume() returns 0. *)
ConsumeTimeout ==
    /\ cpc = "wait"
    /\ ~eventFlag
    /\ cpc' = "out"
    /\ UNCHANGED <<mutex, queue, eventFlag, dispatchVars, processing, current,
                   started, accepted>>

ConsumeClear ==
    /\ cpc = "clear"
    /\ eventFlag' = FALSE
    /\ processing' = TRUE
    /\ cpc' = "lock"
    /\ UNCHANGED <<mutex, queue, dispatchVars, current, started, accepted>>

(* A lock(10) that times out is logged and tried again, `processing` still   *)
(* being TRUE: it changes nothing and is a stuttering step.                *)
ConsumeLock ==
    /\ cpc = "lock"
    /\ mutex = None
    /\ mutex' = Consumer
    /\ cpc' = "take"
    /\ UNCHANGED <<queue, eventFlag, dispatchVars, processing, current, started,
                   accepted>>

(* Mutations of PopFront: front() without pop(), and a stack for a queue. *)
PopForgotten == /\ current' = Head(queue)
                /\ started' = Append(started, Head(queue))
                /\ UNCHANGED queue

PopBack == /\ current' = queue[Len(queue)]
           /\ started' = Append(started, queue[Len(queue)])
           /\ queue' = SubSeq(queue, 1, Len(queue) - 1)

(* front() and pop() *)
PopFront == /\ current' = Head(queue)
            /\ started' = Append(started, Head(queue))
            /\ queue' = Tail(queue)

(* Mutation of ConsumeTake: the mutex is kept while the function runs. *)
TakeAndKeepLock ==
    /\ cpc = "take"
    /\ queue # <<>>
    /\ PopFront
    /\ processing' = (Tail(queue) # <<>>)
    /\ cpc' = "run"
    /\ UNCHANGED <<mutex, eventFlag, dispatchVars, accepted>>

(* Take the first function and unlock(); `processing` remembers whether there is
   more.                                                                   *)
ConsumeTake ==
    /\ cpc = "take"
    /\ queue # <<>>
    /\ PopFront
    /\ processing' = (Tail(queue) # <<>>)
    /\ mutex' = None
    /\ cpc' = "run"
    /\ UNCHANGED <<eventFlag, dispatchVars, accepted>>

(* The queue is empty: unlock() and leave the loop. *)
ConsumeNothing ==
    /\ cpc = "take"
    /\ queue = <<>>
    /\ processing' = FALSE
    /\ mutex' = None
    /\ cpc' = "out"
    /\ UNCHANGED <<queue, eventFlag, dispatchVars, current, started, accepted>>

(* Mutation of ConsumeReturn: one function for each call of consume(). *)
ReturnAtOnce ==
    /\ cpc = "run"
    /\ dpc[Consumer] = "out"
    /\ current' = None
    /\ cpc' = "out"
    /\ UNCHANGED <<mutex, queue, eventFlag, dispatchVars, processing, started,
                   accepted>>

(* function() returns; the loop goes on while `processing`. *)
ConsumeReturn ==
    /\ cpc = "run"
    /\ dpc[Consumer] = "out"
    /\ current' = None
    /\ cpc' = IF processing THEN "lock" ELSE "out"
    /\ UNCHANGED <<mutex, queue, eventFlag, dispatchVars, processing, started,
                   accepted>>

-----------------------------------------------------------------------------
DispatchStep(t) == \/ DispatchLock(t) \/ DispatchLockTimeout(t)
                   \/ DispatchPush(t) \/ DispatchSignal(t)

ConsumeStep == \/ ConsumeWoken \/ ConsumeTimeout \/ ConsumeClear
               \/ ConsumeLock \/ ConsumeTake \/ ConsumeNothing \/ ConsumeReturn

Next == \/ \E t \in Threads, j \in Jobs : Dispatch(t, j)
        \/ \E t \in Threads : DispatchStep(t)
        \/ Consume
        \/ ConsumeStep

Spec == Init /\ [][Next]_vars

(* The scheduler runs every ready thread, the owner of a Dispatcher calls   *)
(* consume() in a loop, and the functions it runs return.  Nothing makes a   *)
(* thread call dispatch().                                                 *)
Fairness == /\ \A t \in Threads : WF_vars(DispatchStep(t))
            /\ WF_vars(Consume)
            /\ WF_vars(ConsumeStep)

FairSpec == Spec /\ Fairness

-----------------------------------------------------------------------------
TypeOK ==
    /\ mutex \in Threads \cup {None}
    /\ queue \in Seq(Jobs)
    /\ eventFlag \in BOOLEAN
    /\ dpc \in [Threads -> DispatchPoints]
    /\ argument \in [Threads -> Jobs \cup {None}]
    /\ cpc \in ConsumePoints
    /\ processing \in BOOLEAN
    /\ current \in Jobs \cup {None}
    /\ accepted \in Seq(Jobs)
    /\ started \in Seq(Jobs)
    /\ dropped \subseteq Jobs

(* A thread that has pushed and has not yet signalled. *)
SignalPending == \E t \in Threads : dpc[t] = "signal"

(* No lost wake-up.  dispatch() pushes, releases the mutex and only then sets
   the flag, while consume() clears the flag twice and decides from a value of
   `processing` computed before it ran the last function.  Still, whenever the
   consumer is outside of consume() or blocked in it, a queue that is not empty
   has its flag set, or about to be set by the thread that pushed. *)
NoLostWakeup ==
    cpc \in {"out", "wait"} /\ queue # <<>> => eventFlag \/ SignalPending

(* The functions run are those accepted, in order, each once: what has been
   started followed by what is queued is what was accepted. *)
NothingLostOrDuplicated == accepted = started \o queue

(* A function runs while the consumer does not hold the mutex ("don't keep lock
   as callback might be slow"), so that it may dispatch in its turn. *)
RunsUnlocked == cpc = "run" /\ dpc[Consumer] # "push" => mutex # Consumer

(* The jobs some thread has begun to dispatch. *)
Dispatched(j) == \E t \in Threads : argument[t] = j

(* A function dispatched without a time limit is eventually run, whatever the
   other threads and the timeouts of consume() do in between. *)
PatientJobsRun == \A j \in Patient : Dispatched(j) ~> (j \in Range(started))

(* A function dispatched with a time limit is run or dropped, never stuck. *)
ImpatientJobsResolved ==
    \A j \in Jobs : Dispatched(j) ~> (j \in Range(started) \/ j \in dropped)

(* The dispatcher implements the serial FIFO executor, its liveness included. *)
Executor == INSTANCE FifoExecutor WITH running <- current

ImplementsExecutor == Executor!Spec
ImplementsFairExecutor == Executor!FairSpec
=============================================================================
