-------------------------- MODULE DispatcherProofs --------------------------
(***************************************************************************)
(* Theorems about Dispatcher for any number of threads and jobs.  The      *)
(* inductive invariant adds to the checked invariants what consume() may   *)
(* still owe while it runs its last function: `processing` was computed    *)
(* before the function ran, so a push made meanwhile must have signalled.  *)
(***************************************************************************)
EXTENDS Dispatcher, SequenceTheorems, TLAPS

(* A thread inside dispatch() has a function to push. *)
ArgumentSet == \A t \in Threads : dpc[t] # "out" => argument[t] \in Jobs

(* When consume() is not going to look at the queue again before it waits. *)
LastLookDone == \/ cpc \in {"out", "wait"}
                \/ cpc = "run" /\ ~processing

WakeupOwed == LastLookDone /\ queue # <<>> => eventFlag \/ SignalPending

ConsumerHolds == mutex = Consumer => cpc = "take" \/ dpc[Consumer] = "push"

(* Outside of the critical section and of a function there is no function. *)
CurrentSet == (current # None) <=> (cpc = "run")

IInv == /\ TypeOK
        /\ ArgumentSet
        /\ WakeupOwed
        /\ ConsumerHolds
        /\ CurrentSet
        /\ NothingLostOrDuplicated

-----------------------------------------------------------------------------
(* Moving the head of the queue to the end of the history keeps their
   concatenation: ConsumeTake neither loses nor repeats a function. *)
LEMMA MoveHead ==
    ASSUME NEW S, NEW s \in Seq(S), NEW q \in Seq(S), q # <<>>
    PROVE  /\ Append(s, Head(q)) \o Tail(q) = s \o q
           /\ Head(q) \in S /\ Tail(q) \in Seq(S)
           /\ Append(s, Head(q)) \in Seq(S)
           /\ Len(s) < Len(s \o q)
           /\ (s \o q)[Len(s) + 1] = Head(q)
  <1>1. /\ Len(q) \in Nat /\ Len(q) > 0 /\ Len(s) \in Nat
        /\ Head(q) \in S /\ Tail(q) \in Seq(S) /\ Head(q) = q[1]
        /\ Len(Tail(q)) = Len(q) - 1
    OBVIOUS
  <1>2. \A i \in 1 .. Len(Tail(q)) : Tail(q)[i] = q[i + 1]
    OBVIOUS
  <1>3. Append(s, Head(q)) \in Seq(S) /\ Len(Append(s, Head(q))) = Len(s) + 1
    BY <1>1
  <1>4. \A i \in 1 .. Len(s) : Append(s, Head(q))[i] = s[i]
    BY <1>1
  <1>5. Append(s, Head(q))[Len(s) + 1] = Head(q)
    BY <1>1
  <1> DEFINE l == Append(s, Head(q)) \o Tail(q)
             r == s \o q
  <1>6. /\ l \in Seq(S) /\ r \in Seq(S)
        /\ Len(l) = Len(s) + Len(q) /\ Len(r) = Len(s) + Len(q)
    BY <1>1, <1>3
  <1>7. ASSUME NEW i \in 1 .. Len(l)
        PROVE  l[i] = r[i]
    <2>1. CASE i <= Len(s)
      BY <2>1, <1>1, <1>3, <1>4
    <2>2. CASE i = Len(s) + 1
      BY <2>2, <1>1, <1>3, <1>5
    <2>3. CASE i > Len(s) + 1
      <3>1. l[i] = Tail(q)[i - (Len(s) + 1)]
        BY <2>3, <1>1, <1>3, <1>6
      <3>2. r[i] = q[i - Len(s)]
        BY <2>3, <1>1, <1>6
      <3> QED
        BY <3>1, <3>2, <2>3, <1>1, <1>2, <1>6
    <2> QED
      BY <2>1, <2>2, <2>3, <1>1, <1>6
  <1>8. l = r
    <2> HIDE DEF l, r
    <2> QED
      BY <1>6, <1>7, SeqEqual
  <1>9. r[Len(s) + 1] = q[1]
    BY <1>1
  <1> QED
    BY <1>1, <1>3, <1>6, <1>8, <1>9

(* Pushing at the end of the queue is accepting at the end of the history. *)
LEMMA PushLast ==
    \A s, q \in Seq(Jobs), j \in Jobs :
        Append(s \o q, j) = s \o Append(q, j)
  OBVIOUS

-----------------------------------------------------------------------------
LEMMA InitIInv == Init => IInv
  <1> SUFFICES ASSUME Init PROVE IInv
    OBVIOUS
  <1>1. <<>> \o <<>> = <<>> /\ <<>> \in Seq(Jobs)
    OBVIOUS
  <1>2. TypeOK
    BY <1>1 DEF Init, TypeOK, DispatchPoints, ConsumePoints
  <1>3. ArgumentSet /\ WakeupOwed /\ CurrentSet
    BY DEF Init, ArgumentSet, WakeupOwed, CurrentSet
  <1>4. ConsumerHolds
    BY DispatcherAssumption DEF Init, ConsumerHolds, Threads
  <1>5. NothingLostOrDuplicated
    BY <1>1 DEF Init, NothingLostOrDuplicated
  <1> QED
    BY <1>2, <1>3, <1>4, <1>5 DEF IInv

LEMMA NextIInv == IInv /\ [Next]_vars => IInv'
  <1> SUFFICES ASSUME IInv, [Next]_vars PROVE IInv'
    OBVIOUS
  <1> USE DEF IInv, TypeOK, DispatchPoints, ConsumePoints, dispatchVars,
          consumeVars, PopFront
  <1> Consumer \in Threads /\ Consumer # None /\ None \notin Jobs /\ None \notin Threads
    BY DispatcherAssumption DEF Threads
  <1>1. ASSUME NEW t \in Threads, NEW j \in Jobs, Dispatch(t, j)
        PROVE  IInv'
    BY <1>1 DEF Dispatch, ArgumentSet, WakeupOwed, LastLookDone, SignalPending,
       ConsumerHolds, CurrentSet, NothingLostOrDuplicated
  <1>2. ASSUME NEW t \in Threads, DispatchLock(t)
        PROVE  IInv'
    BY <1>2 DEF DispatchLock, ArgumentSet, WakeupOwed, LastLookDone,
       SignalPending, ConsumerHolds, CurrentSet, NothingLostOrDuplicated
  <1>3. ASSUME NEW t \in Threads, DispatchLockTimeout(t)
        PROVE  IInv'
    BY <1>3 DEF DispatchLockTimeout, ArgumentSet, WakeupOwed, LastLookDone,
       SignalPending, ConsumerHolds, CurrentSet, NothingLostOrDuplicated
  <1>4. ASSUME NEW t \in Threads, DispatchPush(t)
        PROVE  IInv'
    <2>1. argument[t] \in Jobs
      BY <1>4 DEF DispatchPush, ArgumentSet
    <2>2. TypeOK' /\ ArgumentSet' /\ ConsumerHolds' /\ CurrentSet'
      BY <1>4, <2>1 DEF DispatchPush, ArgumentSet, ConsumerHolds, CurrentSet
    <2>3. WakeupOwed'
      BY <1>4 DEF DispatchPush, WakeupOwed, SignalPending
    <2>4. NothingLostOrDuplicated'
      <3>1. Append(started \o queue, argument[t])
              = started \o Append(queue, argument[t])
        <4>1. started \in Seq(Jobs) /\ queue \in Seq(Jobs)
          OBVIOUS
        <4> QED
          BY <4>1, <2>1, PushLast, Zenon
      <3>2. /\ queue' = Append(queue, argument[t])
            /\ accepted' = Append(accepted, argument[t])
            /\ started' = started
        BY <1>4 DEF DispatchPush
      <3> QED
        BY <3>1, <3>2, Zenon DEF NothingLostOrDuplicated
    <2> QED
      BY <2>2, <2>3, <2>4
  <1>5. ASSUME NEW t \in Threads, DispatchSignal(t)
        PROVE  IInv'
    BY <1>5 DEF DispatchSignal, ArgumentSet, WakeupOwed, ConsumerHolds,
       CurrentSet, NothingLostOrDuplicated
  <1>6. CASE Consume \/ ConsumeWoken \/ ConsumeTimeout \/ ConsumeClear
             \/ ConsumeLock \/ ConsumeNothing \/ ConsumeReturn
    BY <1>6 DEF Consume, ConsumeWoken, ConsumeTimeout, ConsumeClear,
       ConsumeLock, ConsumeNothing, ConsumeReturn, ArgumentSet, WakeupOwed,
       LastLookDone, SignalPending, ConsumerHolds, CurrentSet,
       NothingLostOrDuplicated
  <1>7. CASE ConsumeTake
    <2>1. /\ Append(started, Head(queue)) \o Tail(queue) = started \o queue
          /\ Head(queue) \in Jobs /\ Tail(queue) \in Seq(Jobs)
          /\ Append(started, Head(queue)) \in Seq(Jobs)
      BY <1>7, MoveHead DEF ConsumeTake
    <2>2. TypeOK' /\ ArgumentSet' /\ ConsumerHolds' /\ CurrentSet'
      BY <1>7, <2>1 DEF ConsumeTake, ArgumentSet, ConsumerHolds, CurrentSet
    <2>3. WakeupOwed'
      BY <1>7 DEF ConsumeTake, WakeupOwed, LastLookDone
    <2>4. NothingLostOrDuplicated'
      BY <1>7, <2>1 DEF ConsumeTake, NothingLostOrDuplicated
    <2> QED
      BY <2>2, <2>3, <2>4
  <1>8. CASE UNCHANGED vars
    BY <1>8 DEF vars, ArgumentSet, WakeupOwed, LastLookDone, SignalPending,
       ConsumerHolds, CurrentSet, NothingLostOrDuplicated
  <1> QED
    BY <1>1, <1>2, <1>3, <1>4, <1>5, <1>6, <1>7, <1>8
    DEF Next, DispatchStep, ConsumeStep

(* The inductive invariant holds in every reachable state. *)
THEOREM Invariance == Spec => []IInv
  BY InitIInv, NextIInv, PTL DEF Spec

(* Type correctness of the dispatcher for any set of threads and jobs. *)
THEOREM TypeCorrect == Spec => []TypeOK
  <1>1. IInv => TypeOK
    BY DEF IInv
  <1> QED
    BY <1>1, Invariance, PTL

(* No wake-up is lost: a consumer that is about to wait, or waits, with a
   function in its queue has been or is about to be signalled. *)
THEOREM NoWakeupIsLost == Spec => []NoLostWakeup
  <1>1. IInv => NoLostWakeup
    BY DEF IInv, WakeupOwed, LastLookDone, NoLostWakeup
  <1> QED
    BY <1>1, Invariance, PTL

(* The functions are started in the order in which they were accepted, none
   of them twice and none skipped. *)
THEOREM RunInOrderOnce == Spec => []NothingLostOrDuplicated
  <1>1. IInv => NothingLostOrDuplicated
    BY DEF IInv
  <1> QED
    BY <1>1, Invariance, PTL

(* The mutex is free of the consumer while a function runs, so that a function
   that dispatches does not wait for the thread that runs it. *)
THEOREM FunctionsRunUnlocked == Spec => []RunsUnlocked
  <1>1. IInv => RunsUnlocked
    BY DEF IInv, ConsumerHolds, RunsUnlocked
  <1> QED
    BY <1>1, Invariance, PTL

-----------------------------------------------------------------------------
LEMMA StepSimulation ==
    IInv /\ [Next]_vars => [Executor!Next]_(Executor!vars)
  <1> SUFFICES ASSUME IInv, [Next]_vars
               PROVE  Executor!Next \/ UNCHANGED <<accepted, started, current>>
    BY DEF Executor!vars
  <1> USE DEF IInv, TypeOK, dispatchVars, consumeVars, PopFront
  <1> Consumer # None /\ None \notin Jobs
    BY DispatcherAssumption DEF Threads
  <1>1. ASSUME NEW t \in Threads, DispatchPush(t)
        PROVE  Executor!Next
    <2>1. argument[t] \in Jobs
      BY <1>1 DEF DispatchPush, ArgumentSet
    <2> QED
      BY <1>1, <2>1 DEF DispatchPush, Executor!Next, Executor!Accept
  <1>2. CASE ConsumeTake
    <2>1. /\ Len(started) < Len(started \o queue)
          /\ (started \o queue)[Len(started) + 1] = Head(queue)
      BY <1>2, MoveHead DEF ConsumeTake
    <2>2. current = None
      BY <1>2 DEF ConsumeTake, CurrentSet
    <2>3. current' = accepted[Len(started) + 1] /\ Len(started) < Len(accepted)
      BY <1>2, <2>1 DEF ConsumeTake, NothingLostOrDuplicated
    <2>4. started' = Append(started, current') /\ accepted' = accepted
      BY <1>2 DEF ConsumeTake
    <2> QED
      BY <2>2, <2>3, <2>4 DEF Executor!Next, Executor!Start
  <1>3. CASE ConsumeReturn
    BY <1>3 DEF ConsumeReturn, CurrentSet, Executor!Next, Executor!Finish
  <1>4. ASSUME NEW t \in Threads,
               \/ \E j \in Jobs : Dispatch(t, j)
               \/ DispatchLock(t) \/ DispatchLockTimeout(t) \/ DispatchSignal(t)
        PROVE  UNCHANGED <<accepted, started, current>>
    BY <1>4 DEF Dispatch, DispatchLock, DispatchLockTimeout, DispatchSignal
  <1>5. CASE Consume \/ ConsumeWoken \/ ConsumeTimeout \/ ConsumeClear
             \/ ConsumeLock \/ ConsumeNothing \/ UNCHANGED vars
    BY <1>5 DEF Consume, ConsumeWoken, ConsumeTimeout, ConsumeClear,
       ConsumeLock, ConsumeNothing, vars
  <1> QED
    BY <1>1, <1>2, <1>3, <1>4, <1>5 DEF Next, DispatchStep, ConsumeStep

(* The dispatcher refines the serial FIFO executor: every step of its threads
   is an acceptance, a start or a finish of the executor, or invisible. *)
THEOREM RefinesExecutor == Spec => ImplementsExecutor
  <1>1. Init => Executor!Init
    BY DEF Init, Executor!Init
  <1> QED
    BY <1>1, StepSimulation, Invariance, PTL
    DEF Spec, ImplementsExecutor, Executor!Spec
=============================================================================
