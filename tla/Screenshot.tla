----------------------------- MODULE Screenshot -----------------------------
(***************************************************************************)
(* Tactility/Source/service/screenshot (Screenshot.cpp, ScreenshotTask.cpp)*)
(* with the app that uses it (app/screenshot/Screenshot.cpp) and the thread*)
(* of the loader, whose mutex the task needs.                              *)
(*                                                                         *)
(* The app's press handler and timer hold the LVGL lock, the only lock that*)
(* serializes them; the service's mutex is only taken by them, the task's  *)
(* mutex for a single step.  A task's number stands for the object.        *)
(***************************************************************************)
EXTENDS Naturals

CONSTANTS MaxTasks,      \* bound on the tasks that are made
          AppIds,        \* the ids of the apps that the loader shows
          ScreenshotId   \* that of the Screenshot app

Tasks == 1 .. MaxTasks
NoTask == 0

ScreenshotParameters == MaxTasks \in Nat /\ ScreenshotId \in AppIds

VARIABLES
    task,      \* ScreenshotService::task
    shotMode,  \* ScreenshotService::mode
    made,      \* number of tasks made
    pressPc,   \* where the press handler is: "idle", "ask", "stop" or "start"
    old,       \* the task that is being destroyed
    kind,      \* kind[t]: ScreenshotTask::work.type
    shotPc,    \* shotPc[t]: where the thread of t is
    seen,      \* seen[t]: last_app_id, or "none"
    interrupt, \* interrupt[t]: ScreenshotTask::interrupted
    finished,  \* finished[t]: ScreenshotTask::finished
    label,     \* the button: "Start" or "Stop"
    topApp,    \* the app that the loader has on top
    loaderPc   \* where the loader's thread is; it has the mutex unless "idle"

taskVars == <<kind, shotPc, seen, interrupt, finished>>
uiVars == <<task, shotMode, made, pressPc, old, label>>
loaderVars == <<topApp, loaderPc>>
vars == <<uiVars, taskVars, loaderVars>>

Init == /\ task = NoTask /\ old = NoTask /\ made = 0
        /\ shotMode = "None"
        /\ pressPc = "idle"
        /\ kind = [t \in Tasks |-> "None"]
        /\ shotPc = [t \in Tasks |-> "none"]
        /\ seen = [t \in Tasks |-> "none"]
        /\ interrupt = [t \in Tasks |-> FALSE]
        /\ finished = [t \in Tasks |-> FALSE]
        /\ label = "Start"
        /\ topApp \in AppIds
        /\ loaderPc = "idle"

LvglFree == /\ pressPc = "idle"
            /\ loaderPc # "draw"
            /\ \A t \in Tasks : shotPc[t] # "shoot"
IsTaskStarted == task # NoTask /\ ~finished[task]
Ended(t) == t # NoTask => shotPc[t] = "ended"

-----------------------------------------------------------------------------
(* The handlers of the button and of the list of modes, with the LVGL lock *)

Press == /\ LvglFree
         /\ pressPc' = "ask"
         /\ UNCHANGED <<task, shotMode, made, old, label, taskVars, loaderVars>>

(* optApp() takes the loader's mutex, without a time limit. *)
Asked == pressPc = "ask" /\ loaderPc = "idle"

(* Another app is on top; or the mode was changed, or the delay is 0. *)
PressIgnored == /\ Asked
                /\ pressPc' = "idle"
                /\ \/ topApp # ScreenshotId /\ label' = label
                   \/ topApp = ScreenshotId /\ label' = IF IsTaskStarted THEN "Stop" ELSE "Start"
                /\ UNCHANGED <<task, shotMode, made, old, taskVars, loaderVars>>

(* Mutation of PressStop: the flag is not set. *)
PressStopUntold == /\ Asked /\ topApp = ScreenshotId
                   /\ IsTaskStarted
                   /\ pressPc' = "stop"
                   /\ old' = task
                   /\ task' = NoTask
                   /\ UNCHANGED <<shotMode, made, label, taskVars, loaderVars>>

(* onStartPressed(): stop(), and the task's destructor sets the flag ... *)
PressStop == /\ Asked /\ topApp = ScreenshotId
             /\ IsTaskStarted
             /\ pressPc' = "stop"
             /\ old' = task
             /\ task' = NoTask
             /\ interrupt' = [interrupt EXCEPT ![task] = TRUE]
             /\ UNCHANGED <<shotMode, made, label, kind, shotPc, seen, finished, loaderVars>>

(* ... and joins the thread. *)
StopJoined == /\ pressPc = "stop"
              /\ Ended(old)
              /\ pressPc' = "idle"
              /\ old' = NoTask
              /\ shotMode' = "None"
              /\ label' = "Start"
              /\ UNCHANGED <<task, made, taskVars, loaderVars>>

(* startTimed() or startApps(): a new task replaces one that is finished, whose
   destructor does the same.                                               *)
PressStart(k) == /\ Asked /\ topApp = ScreenshotId
                 /\ ~IsTaskStarted
                 /\ made < MaxTasks
                 /\ pressPc' = "start"
                 /\ made' = made + 1
                 /\ task' = made + 1
                 /\ old' = task
                 /\ interrupt' = [t \in Tasks |-> interrupt[t] \/ t = task]
                 /\ shotMode' = k
                 /\ kind' = [kind EXCEPT ![made + 1] = k]
                 /\ UNCHANGED <<label, shotPc, seen, finished, loaderVars>>

(* Mutation of StartThread: the old task's thread is not joined. *)
StartUnjoined == /\ pressPc = "start"
                 /\ pressPc' = "idle"
                 /\ old' = NoTask
                 /\ shotPc' = [shotPc EXCEPT ![task] = "loop"]
                 /\ label' = "Stop"
                 /\ UNCHANGED <<task, shotMode, made, kind, seen, interrupt, finished, loaderVars>>

StartThread == /\ pressPc = "start"
               /\ Ended(old)
               /\ pressPc' = "idle"
               /\ old' = NoTask
               /\ shotPc' = [shotPc EXCEPT ![task] = "loop"]
               /\ label' = "Stop"
               /\ UNCHANGED <<task, shotMode, made, kind, seen, interrupt, finished, loaderVars>>

(* Mutation of TimerTick: the tick leaves the button alone. *)
TickIdle == LvglFree /\ UNCHANGED vars

(* onTimerTick(): every half second; without the lock it does nothing. *)
TimerTick == /\ LvglFree
             /\ label' = IF IsTaskStarted THEN "Stop" ELSE "Start"
             /\ UNCHANGED <<task, shotMode, made, pressPc, old, taskVars, loaderVars>>

-----------------------------------------------------------------------------
(* taskMain() of task t *)

Go(t, here, there) == shotPc[t] = here /\ shotPc' = [shotPc EXCEPT ![t] = there]

(* while (!isInterrupted()) *)
Loop(t) == /\ Go(t, "loop", CASE interrupt[t] -> "finish"
                              [] ~interrupt[t] /\ kind[t] = "Timed" -> "delay"
                              [] OTHER -> "context")
           /\ UNCHANGED <<kind, seen, interrupt, finished, uiVars, loaderVars>>

(* The delay, which an interrupt ends. *)
Delay(t) == /\ Go(t, "delay", IF interrupt[t] THEN "loop" ELSE "want")
            /\ UNCHANGED <<kind, seen, interrupt, finished, uiVars, loaderVars>>

(* getCurrentAppContext() takes the loader's mutex without a time limit. *)
Context(t) == /\ Go(t, "context", IF topApp = seen[t] THEN "loop" ELSE "want")
              /\ loaderPc = "idle"
              /\ seen' = [seen EXCEPT ![t] = topApp]
              /\ UNCHANGED <<kind, interrupt, finished, uiVars, loaderVars>>

(* makeScreenshot() *)
LockLvgl(t) == /\ Go(t, "want", "shoot")
               /\ LvglFree
               /\ UNCHANGED <<kind, seen, interrupt, finished, uiVars, loaderVars>>

(* Mutation of GiveUp: the lock is waited for without a time limit. *)
Patient(t) == shotPc[t] = "never" /\ UNCHANGED vars

(* The app asks for one picture: a timed task ends, with or without it. *)
After(t) == IF kind[t] = "Timed" THEN "finish" ELSE "loop"

GiveUp(t) == /\ Go(t, "want", After(t))
             /\ ~LvglFree
             /\ UNCHANGED <<kind, seen, interrupt, finished, uiVars, loaderVars>>

Shoot(t) == /\ Go(t, "shoot", After(t))
            /\ UNCHANGED <<kind, seen, interrupt, finished, uiVars, loaderVars>>

SetFinished(t) == /\ Go(t, "finish", "return")
                  /\ finished' = [finished EXCEPT ![t] = TRUE]
                  /\ UNCHANGED <<kind, seen, interrupt, uiVars, loaderVars>>

ThreadEnd(t) == /\ Go(t, "return", "ended")
                /\ UNCHANGED <<kind, seen, interrupt, finished, uiVars, loaderVars>>

TaskStep(t) == \/ Loop(t) \/ Delay(t) \/ Context(t) \/ LockLvgl(t) \/ GiveUp(t)
               \/ Shoot(t) \/ SetFinished(t) \/ ThreadEnd(t)

-----------------------------------------------------------------------------
(* The loader changes the app with its mutex, and has the GUI service show it
   (LVGL lock) before it releases the mutex.                               *)
LoaderTake(a) == /\ loaderPc = "idle"
                 /\ a # topApp
                 /\ loaderPc' = "want"
                 /\ topApp' = a
                 /\ UNCHANGED <<uiVars, taskVars>>

LoaderDraw == /\ loaderPc = "want"
              /\ LvglFree
              /\ loaderPc' = "draw"
              /\ UNCHANGED <<topApp, uiVars, taskVars>>

LoaderRelease == /\ loaderPc = "draw"
                 /\ loaderPc' = "idle"
                 /\ UNCHANGED <<topApp, uiVars, taskVars>>

PressStep == \/ PressStop \/ PressIgnored \/ StopJoined \/ StartThread
             \/ \E k \in {"Timed", "Apps"} : PressStart(k)
LoaderStep == LoaderDraw \/ LoaderRelease

Next == \/ Press \/ PressStep
        \/ TimerTick
        \/ \E t \in Tasks : TaskStep(t)
        \/ \E a \in AppIds : LoaderTake(a)
        \/ LoaderStep

Spec == Init /\ [][Next]_vars

(* The threads run, the timer fires again and again, and who waits for a lock
   gets it in the end.                                                     *)
Fairness == /\ WF_vars(PressStep)
            /\ SF_vars(TimerTick)
            /\ \A t \in Tasks : SF_vars(TaskStep(t))
            /\ SF_vars(LoaderStep)

FairSpec == Spec /\ Fairness

-----------------------------------------------------------------------------
ScreenshotTypeOK ==
    /\ {task, old} \subseteq Tasks \cup {NoTask} /\ made \in 0 .. MaxTasks
    /\ shotMode \in {"None", "Timed", "Apps"}
    /\ pressPc \in {"idle", "ask", "stop", "start"}
    /\ kind \in [Tasks -> {"None", "Timed", "Apps"}]
    /\ shotPc \in [Tasks -> {"none", "loop", "delay", "context", "want", "shoot", "finish", "return", "ended"}]
    /\ seen \in [Tasks -> AppIds \cup {"none"}]
    /\ interrupt \in [Tasks -> BOOLEAN] /\ finished \in [Tasks -> BOOLEAN]
    /\ label \in {"Start", "Stop"}
    /\ topApp \in AppIds
    /\ loaderPc \in {"idle", "want", "draw"}

Running(t) == shotPc[t] \notin {"none", "ended"}

(* The thread of a task works on the object of its task: it exists as long as
   the thread runs, and no two threads take pictures at the same time.     *)
ThreadHasTask == \A t \in Tasks : Running(t) =>
    t \in {task, old} /\ \A u \in Tasks : Running(u) => u = t

(* The deadlocks, which the loader's check of its time limit ends with a crash: the
   press handler, with LVGL, waits for the mutex of a loader that waits for LVGL, ... *)
AskMeetsLoader == pressPc = "ask" /\ loaderPc = "want"

(* ... or joins a task that waits for it. *)
ThreeWait == /\ pressPc \in {"stop", "start"} /\ old # NoTask
             /\ shotPc[old] = "context"
             /\ loaderPc = "want"

(* A press of the button ends, but for these deadlocks. *)
PressEndsOrDeadlocks == pressPc # "idle" ~> (pressPc = "idle" \/ AskMeetsLoader \/ ThreeWait)

(* The button says in the end whether there is a task to stop. *)
LabelSettles == <>[](label = (IF IsTaskStarted THEN "Stop" ELSE "Start") \/ pressPc # "idle")
=============================================================================
