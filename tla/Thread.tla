------------------------------- MODULE Thread -------------------------------
(***************************************************************************)
(* TactilityCore/Source/Thread.cpp: the life of a Thread object and of the *)
(* FreeRTOS tasks it creates, as its owner sees them.  The object says that*)
(* it is Stopped before it forgets its task handle, so the two ways of     *)
(* finding out that a thread has ended are not the same; Discipline is the *)
(* one the owner uses:                                                     *)
(*   "join"   start() again or free only after join() returned true, as    *)
(*            Gui.cpp, ScreenshotTask.cpp, Boot.cpp and DispatcherThread do*)
(*   "state"  a thread seen Stopped is not joined, as GpsDevice.cpp and    *)
(*            ConsoleView.h do                                             *)
(***************************************************************************)
EXTENDS Naturals

CONSTANTS MaxStarts,   \* bound on the number of calls of start()
          Discipline

ASSUME ThreadAssumption == /\ MaxStarts \in Nat
                           /\ Discipline \in {"join", "state"}

Tasks == 1 .. MaxStarts
NullHandle == 0

VARIABLES
    state,        \* Thread::state
    taskHandle,   \* Thread::taskHandle, a task or NullHandle
    body,         \* body[i]: where task i is in mainBody()
    starts,       \* number of tasks created
    opc           \* where the owner is in start(), join() or ~Thread()

taskVars == <<state, taskHandle, body>>
vars == <<taskVars, starts, opc>>

Init == /\ state = "Stopped"
        /\ taskHandle = NullHandle
        /\ body = [i \in Tasks |-> "none"]
        /\ starts = 0
        /\ opc = "idle"

-----------------------------------------------------------------------------
(* The owner.  "idle": it takes the thread for ended, or never started it.   *)

(* Mutation of Start: the assert is left out. *)
StartUnchecked == /\ opc = "idle"
                  /\ starts < MaxStarts
                  /\ state' = "Starting"
                  /\ opc' = "create"
                  /\ UNCHANGED <<taskHandle, body, starts>>

(* start(): assert(state == Stopped), then setState(Starting). *)
Start == /\ opc = "idle"
         /\ starts < MaxStarts
         /\ IF state = "Stopped" THEN state' = "Starting" /\ opc' = "create"
                                 ELSE opc' = "crashed" /\ UNCHANGED state
         /\ UNCHANGED <<taskHandle, body, starts>>

(* xTaskCreate() stores the handle before the task is made ready. *)
CreateTask == /\ opc = "create"
              /\ starts' = starts + 1
              /\ taskHandle' = starts'
              /\ body' = [body EXCEPT ![starts'] = "created"]
              /\ opc' = "checkState"
              /\ UNCHANGED state

(* tt_check(state == State::Stopped || taskHandle): two reads, in order,
   while the new task may already be running on the other core. *)
CheckState == /\ opc = "checkState"
              /\ opc' = IF state = "Stopped" THEN "started" ELSE "checkHandle"
              /\ UNCHANGED <<taskVars, starts>>

CheckHandle == /\ opc = "checkHandle"
               /\ opc' = IF taskHandle = NullHandle THEN "crashed" ELSE "started"
               /\ UNCHANGED <<taskVars, starts>>

Join == /\ opc = "started"
        /\ opc' = "joining"
        /\ UNCHANGED <<taskVars, starts>>

(* Mutation of JoinDone: the poll looks at the state. *)
JoinByState == /\ opc = "joining"
               /\ state = "Stopped"
               /\ opc' = "idle"
               /\ UNCHANGED <<taskVars, starts>>

(* The poll of join() sees that the handle is gone. *)
JoinDone == /\ opc = "joining"
            /\ taskHandle = NullHandle
            /\ opc' = "idle"
            /\ UNCHANGED <<taskVars, starts>>

(* The poll sees a handle and the time is over: join() returns false. *)
JoinTimeout == /\ opc = "joining"
               /\ taskHandle # NullHandle
               /\ opc' = "started"
               /\ UNCHANGED <<taskVars, starts>>

(* getState() == Stopped, and the owner does not join. *)
SeesStopped == /\ Discipline = "state"
               /\ opc = "started"
               /\ state = "Stopped"
               /\ opc' = "idle"
               /\ UNCHANGED <<taskVars, starts>>

(* ~Thread(): assert(state == Stopped) and assert(taskHandle == nullptr). *)
Destroy == /\ opc = "idle"
           /\ opc' = IF state = "Stopped" /\ taskHandle = NullHandle
                     THEN "freed" ELSE "freedEarly"
           /\ UNCHANGED <<taskVars, starts>>

-----------------------------------------------------------------------------
(* The tasks: mainBody(). *)

TaskEnter(i) == /\ body[i] = "created"
                /\ state' = "Running"
                /\ body' = [body EXCEPT ![i] = "main"]
                /\ UNCHANGED <<taskHandle, starts, opc>>

(* mainFunction() has returned: setState(Stopped). *)
TaskReturn(i) == /\ body[i] = "main"
                 /\ state' = "Stopped"
                 /\ body' = [body EXCEPT ![i] = "stopped"]
                 /\ UNCHANGED <<taskHandle, starts, opc>>

(* Mutation of TaskClearHandle: the handle is kept. *)
HandleKept(i) == /\ body[i] = "stopped"
                 /\ body' = [body EXCEPT ![i] = "gone"]
                 /\ UNCHANGED <<taskHandle, state, starts, opc>>

(* taskHandle = nullptr, the last access of the task to the object. *)
TaskClearHandle(i) == /\ body[i] = "stopped"
                      /\ taskHandle' = NullHandle
                      /\ body' = [body EXCEPT ![i] = "gone"]
                      /\ UNCHANGED <<state, starts, opc>>

TaskStep(i) == TaskEnter(i) \/ TaskReturn(i) \/ TaskClearHandle(i)

OwnerStep == CreateTask \/ CheckState \/ CheckHandle \/ JoinDone

Next == \/ Start \/ Join \/ JoinTimeout \/ SeesStopped \/ Destroy
        \/ OwnerStep
        \/ \E i \in Tasks : TaskStep(i)

Spec == Init /\ [][Next]_vars

(* Every task runs, its main function returns, and an owner that is inside
   of start() or join() goes on. *)
Fairness == WF_vars(OwnerStep) /\ \A i \in Tasks : WF_vars(TaskStep(i))

FairSpec == Spec /\ Fairness

-----------------------------------------------------------------------------
TypeOK == /\ state \in {"Stopped", "Starting", "Running"}
          /\ taskHandle \in Tasks \cup {NullHandle}
          /\ body \in [Tasks -> {"none", "created", "main", "stopped", "gone"}]
          /\ starts \in 0 .. MaxStarts
          /\ opc \in {"idle", "create", "checkState", "checkHandle", "started",
                      "joining", "freed", "freedEarly", "crashed"}

(* The tasks that have still to access the Thread object. *)
Live == {i \in Tasks : body[i] \in {"created", "main", "stopped"}}

(* "Ensure that use join before free": the asserts of ~Thread() hold, and no task
   touches a freed Thread.                                                 *)
FreedAfterLastAccess == opc # "freedEarly" /\ (opc = "freed" => Live = {})

(* At most one task works on a Thread object, and while one does the handle is
   that task's: setFlags() and join() address the right task.              *)
HandleNamesLiveTask == \A i \in Live : taskHandle = i

(* The asserts of mainBody(): what a task finds in `state`, however careless the
   owner is, since start() asserts that the thread is Stopped.             *)
StateMatchesBody == \A i \in Tasks : /\ body[i] = "created" => state = "Starting"
                                     /\ body[i] = "main" => state = "Running"

(* The assert that begins start() and the tt_check that ends it, as a claim
   about what they can find.                                               *)
StartCheckHolds == opc # "crashed"

(* A join() on a thread whose main function returns ends: with success, or
   with its timeout. *)
JoinReturns == opc = "joining" ~> opc # "joining"
=============================================================================
