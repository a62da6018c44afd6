-------------------------- MODULE DispatcherThread --------------------------
(***************************************************************************)
(* TactilityCore/Source/DispatcherThread.cpp: a Thread whose main function *)
(* consumes a Dispatcher until it is interrupted.  Composes Thread (owned  *)
(* by one thread that starts, stops and frees it) with Dispatcher (whose   *)
(* consumer is the task of that Thread).                                   *)
(***************************************************************************)
EXTENDS Naturals, Sequences

CONSTANTS Callers, Consumer, Jobs, Patient, None,   \* as in Dispatcher
          MaxStarts                                 \* as in Thread

VARIABLES mutex, queue, eventFlag, dpc, argument, cpc, processing, current,
          accepted, started, dropped                \* Dispatcher
VARIABLES state, taskHandle, body, starts, opc      \* Thread
VARIABLES interruptThread,   \* DispatcherThread::interruptThread
          looped             \* the running task has called consume()

D == INSTANCE Dispatcher
T == INSTANCE Thread WITH Discipline <- "join"

ASSUME PartsAssumption == D!DispatcherAssumption /\ T!ThreadAssumption

dispatcherVars == <<mutex, queue, eventFlag, dpc, argument, cpc, processing,
                    current, accepted, started, dropped>>
threadVars == <<state, taskHandle, body, starts, opc>>
vars == <<dispatcherVars, threadVars, interruptThread, looped>>

Init == D!Init /\ T!Init /\ interruptThread = FALSE /\ looped = FALSE

-----------------------------------------------------------------------------
(* Mutation of StartThread: the flag of the last stop() remains. *)
StartInterrupted == /\ T!Start
                    /\ looped' = FALSE
                    /\ UNCHANGED <<dispatcherVars, interruptThread>>

(* start(): the flag is reset before the thread is started. *)
StartThread == /\ T!Start
               /\ interruptThread' = FALSE
               /\ looped' = FALSE
               /\ UNCHANGED dispatcherVars

(* The rest of Thread::start(), and the entry and exit of the task. *)
ThreadStep == /\ \/ T!CreateTask \/ T!CheckState \/ T!CheckHandle
                 \/ \E i \in T!Tasks : T!TaskEnter(i) \/ T!TaskClearHandle(i)
              /\ UNCHANGED <<dispatcherVars, interruptThread, looped>>

(* Mutation of StopThread: join() without an interrupt. *)
StopUnasked == T!Join /\ UNCHANGED <<dispatcherVars, interruptThread, looped>>

(* stop(): interruptThread = true, then join() without a time limit. *)
StopThread == /\ T!Join
              /\ interruptThread' = TRUE
              /\ UNCHANGED <<dispatcherVars, looped>>

(* Mutation of Stopped: stop() does not join. *)
StoppedAtOnce == /\ opc = "joining"
                 /\ opc' = "idle"
                 /\ UNCHANGED <<dispatcherVars, state, taskHandle, body, starts,
                                interruptThread, looped>>

(* join() has seen that the task is gone. *)
Stopped == T!JoinDone /\ UNCHANGED <<dispatcherVars, interruptThread, looped>>

(* ~DispatcherThread() after a stop(), or before any start(); the dispatcher's
   destructor waits for the users of its mutex.  Its owner sees to it that
   nobody is inside of dispatch().                                         *)
Free == /\ T!Destroy
        /\ mutex = None
        /\ \A t \in Callers : dpc[t] = "out"
        /\ UNCHANGED <<dispatcherVars, interruptThread, looped>>

-----------------------------------------------------------------------------
(* threadMain(): do consume() while (!interruptThread). *)

Running == \E i \in T!Tasks : body[i] = "main"

(* Mutation of LoopConsume: the condition of the loop is inverted. *)
LoopInverted == /\ Running
                /\ looped => interruptThread
                /\ D!Consume
                /\ looped' = TRUE
                /\ UNCHANGED <<threadVars, interruptThread>>

LoopConsume == /\ Running
               /\ looped => ~interruptThread
               /\ D!Consume
               /\ looped' = TRUE
               /\ UNCHANGED <<threadVars, interruptThread>>

LoopExit == /\ looped
            /\ interruptThread
            /\ cpc = "out"
            /\ \E i \in T!Tasks : T!TaskReturn(i)
            /\ UNCHANGED <<dispatcherVars, interruptThread, looped>>

Consuming == Running /\ D!ConsumeStep /\ UNCHANGED <<threadVars, interruptThread, looped>>

-----------------------------------------------------------------------------
(* dispatch(): by the callers whenever the object lives, and by functions. *)
CallDispatch(t) == /\ opc # "freed"
                   /\ \E j \in Jobs : D!Dispatch(t, j)
                   /\ UNCHANGED <<threadVars, interruptThread, looped>>

Dispatching(t) == /\ D!DispatchStep(t)
                  /\ UNCHANGED <<threadVars, interruptThread, looped>>

Next == \/ StartThread \/ StopThread \/ Stopped \/ Free
        \/ ThreadStep
        \/ LoopConsume \/ LoopExit \/ Consuming
        \/ \E t \in D!Threads : CallDispatch(t) \/ Dispatching(t)

Spec == Init /\ [][Next]_vars

(* Every task that is ready runs, the functions return and join() polls. *)
Fairness == /\ WF_vars(ThreadStep) /\ WF_vars(Stopped)
            /\ WF_vars(LoopConsume) /\ WF_vars(LoopExit) /\ WF_vars(Consuming)
            /\ \A t \in D!Threads : WF_vars(Dispatching(t))

FairSpec == Spec /\ Fairness

-----------------------------------------------------------------------------
TypeOK == /\ D!TypeOK
          /\ T!TypeOK
          /\ interruptThread \in BOOLEAN
          /\ looped \in BOOLEAN

(* Once stop() has returned no dispatched function is running or half-way
   taken from the queue: the owner may tear down what the functions use.   *)
QuietWhenStopped ==
    opc \in {"idle", "freed"} => cpc = "out" /\ current = None /\ mutex # Consumer

(* The Thread under the dispatcher is used as it asks to be: it is not freed while
   its task still has to touch it, the handle that join() polls is that of the
   only task on it, and the checks of start() hold for this main function, which
   cannot return before the owner that is still in start() interrupts it.      *)
ThreadChecksHold ==
    /\ T!FreedAfterLastAccess
    /\ T!HandleNamesLiveTask
    /\ T!StartCheckHolds

(* Functions left in the queue by a stop are neither lost nor run twice, or out
   of order, when the thread is started again.                             *)
ImplementsExecutor == D!ImplementsExecutor

(* stop() returns whenever it is called, whatever is still dispatched: it is
   never called from the thread itself, and the functions return.          *)
StopReturns == opc = "joining" ~> opc = "idle"

(* A function dispatched without time limit while the thread runs is run, unless
   the thread is interrupted first.                                        *)
RunsUnlessStopped ==
    \A j \in Patient :
        (D!Dispatched(j) /\ Running) ~> (j \in D!Range(started) \/ interruptThread)
=============================================================================
