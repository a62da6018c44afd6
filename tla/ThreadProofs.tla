---------------------------- MODULE ThreadProofs ----------------------------
(***************************************************************************)
(* Proofs about Thread: what the state of a Thread object says of its task *)
(* holds for every owner, and with an owner that joins the object outlives *)
(* its tasks.                                                              *)
(***************************************************************************)
EXTENDS Thread, TLAPS

(* The tasks that are between their creation and the end of mainFunction(). *)
Working == {i \in Tasks : body[i] \in {"created", "main"}}

(* Tasks are numbered in the order of their creation, and start() that is about
   to create one may still do so.                                          *)
FreshTasks == /\ \A i \in Tasks : i > starts => body[i] = "none"
              /\ opc = "create" => starts < MaxStarts

(* start() asserts Stopped, so it never creates a task beside a working one. *)
OneWorking == /\ \A i, j \in Working : i = j
              /\ opc = "create" => state = "Starting" /\ Working = {}

(* The inductive invariant behind StateMatchesBody. *)
StateInv == TypeOK /\ FreshTasks /\ OneWorking /\ StateMatchesBody

LEMMA StateInit == Init => StateInv
  BY ThreadAssumption
  DEF Init, StateInv, TypeOK, FreshTasks, OneWorking, StateMatchesBody, Working, Tasks,
      NullHandle

LEMMA StateStep == StateInv /\ [Next]_vars => StateInv'
  <1> SUFFICES ASSUME StateInv, [Next]_vars
               PROVE  StateInv'
    OBVIOUS
  <1> USE ThreadAssumption
      DEF StateInv, TypeOK, FreshTasks, OneWorking, StateMatchesBody, Working, Tasks,
          NullHandle
  <1>1. CASE Start
    BY <1>1 DEF Start
  <1>2. CASE CreateTask
    BY <1>2 DEF CreateTask
  <1>3. CASE CheckState \/ CheckHandle
    BY <1>3 DEF CheckState, CheckHandle, taskVars
  <1>4. CASE Join \/ JoinDone \/ JoinTimeout \/ SeesStopped \/ Destroy
    BY <1>4 DEF Join, JoinDone, JoinTimeout, SeesStopped, Destroy, taskVars
  <1>5. ASSUME NEW i \in Tasks, TaskEnter(i)
        PROVE  StateInv'
    BY <1>5 DEF TaskEnter
  <1>6. ASSUME NEW i \in Tasks, TaskReturn(i)
        PROVE  StateInv'
    BY <1>6 DEF TaskReturn
  <1>7. ASSUME NEW i \in Tasks, TaskClearHandle(i)
        PROVE  StateInv'
    BY <1>7 DEF TaskClearHandle
  <1>8. CASE UNCHANGED vars
    BY <1>8 DEF vars, taskVars
  <1> QED
    BY <1>1, <1>2, <1>3, <1>4, <1>5, <1>6, <1>7, <1>8 DEF Next, OwnerStep, TaskStep

LEMMA StateInvariant == Spec => []StateInv
  BY StateInit, StateStep, PTL DEF Spec

(* The variables of Thread.cpp and the program points keep their types. *)
THEOREM TypeCorrect == Spec => []TypeOK
  <1>1. StateInv => TypeOK
    BY DEF StateInv
  <1> QED
    BY <1>1, StateInvariant, PTL

(* The asserts of mainBody() hold for every owner, even one that does not join:
   a task that is created finds Starting, one that returns finds Running.  *)
THEOREM BodyFindsItsState == Spec => []StateMatchesBody
  <1>1. StateInv => StateMatchesBody
    BY DEF StateInv
  <1> QED
    BY <1>1, StateInvariant, PTL

-----------------------------------------------------------------------------
(* What holds with an owner that joins. *)

(* The object is left alone before start() has created a task, and after join(). *)
QuietObject == opc \in {"idle", "create", "freed"} => Live = {} /\ taskHandle = NullHandle

(* A thread that is not Stopped has a task at work, or one about to be created. *)
StateHasTask == state = "Stopped" \/ Working # {} \/ opc = "create"

JoinInv == /\ StateInv
           /\ HandleNamesLiveTask
           /\ QuietObject
           /\ StateHasTask
           /\ opc # "freedEarly"

LEMMA JoinInit == Init => JoinInv
  BY StateInit, ThreadAssumption
  DEF Init, JoinInv, HandleNamesLiveTask, QuietObject, StateHasTask, Live, Tasks

LEMMA JoinStep ==
    ASSUME Discipline = "join", JoinInv, [Next]_vars
    PROVE  JoinInv'
  <1>0. StateInv'
    BY StateStep DEF JoinInv
  <1> USE ThreadAssumption
      DEF JoinInv, HandleNamesLiveTask, QuietObject, StateHasTask, Live, Working,
          Tasks, NullHandle
  <1> USE DEF StateInv, TypeOK, FreshTasks
  <1>1. CASE Start
    BY <1>0, <1>1 DEF Start
  <1>2. CASE CreateTask
    <2>1. HandleNamesLiveTask' /\ QuietObject' /\ (opc # "freedEarly")'
      BY <1>2 DEF CreateTask
    <2>2. starts' \in Working'
      BY <1>2 DEF CreateTask
    <2> QED
      BY <1>0, <2>1, <2>2
  <1>3. CASE CheckState \/ CheckHandle
    BY <1>0, <1>3 DEF CheckState, CheckHandle, taskVars
  <1>4. CASE Join \/ JoinTimeout
    BY <1>0, <1>4 DEF Join, JoinTimeout, taskVars
  <1>5. CASE JoinDone
    BY <1>0, <1>5 DEF JoinDone, taskVars
  <1>6. CASE SeesStopped
    BY <1>6 DEF SeesStopped
  <1>7. CASE Destroy
    <2>1. Working = {}
      BY <1>7 DEF Destroy
    <2>2. state = "Stopped" /\ taskHandle = NullHandle
      BY <1>7, <2>1 DEF Destroy
    <2> QED
      BY <1>0, <1>7, <2>2 DEF Destroy, taskVars
  <1>8. ASSUME NEW i \in Tasks, TaskEnter(i)
        PROVE  JoinInv'
    <2>1. i \in Working'
      BY <1>8 DEF TaskEnter
    <2> QED
      BY <1>0, <1>8, <2>1 DEF TaskEnter
  <1>9. ASSUME NEW i \in Tasks, TaskReturn(i)
        PROVE  JoinInv'
    BY <1>0, <1>9 DEF TaskReturn
  <1>10. ASSUME NEW i \in Tasks, TaskClearHandle(i)
         PROVE  JoinInv'
    BY <1>0, <1>10 DEF TaskClearHandle
  <1>11. CASE UNCHANGED vars
    BY <1>0, <1>11 DEF vars, taskVars
  <1> QED
    BY <1>1, <1>2, <1>3, <1>4, <1>5, <1>6, <1>7, <1>8, <1>9, <1>10, <1>11
    DEF Next, OwnerStep, TaskStep

(* "Ensure that use join before free": an owner that joins before it starts again
   or frees never fails the asserts of ~Thread(), no task touches a freed object,
   and the handle is always that of the only task on it.                   *)
THEOREM JoinersAreSafe ==
    ASSUME Discipline = "join"
    PROVE  Spec => [](FreedAfterLastAccess /\ HandleNamesLiveTask)
  <1>1. Init => JoinInv
    BY JoinInit
  <1>2. JoinInv /\ [Next]_vars => JoinInv'
    BY JoinStep
  <1>3. JoinInv => FreedAfterLastAccess /\ HandleNamesLiveTask
    BY DEF JoinInv, QuietObject, FreedAfterLastAccess
  <1> QED
    BY <1>1, <1>2, <1>3, PTL DEF Spec
=============================================================================
