------------------------------ MODULE AppTimer ------------------------------
(***************************************************************************)
(* An app that is refreshed by a periodic Timer (TactilityCore Timer.cpp): *)
(* the timer task calls back, while the app's hooks run on other threads.  *)
(*   "gpio"        app/gpio/Gpio.cpp: a Timer lives from onShow() to       *)
(*                 onHide(), the callback captures the app and holds its   *)
(*                 mutex while it waits for the LVGL lock                  *)
(*   "power"       app/power/Power.cpp: the callback looks the app up      *)
(*   "screenshot"  app/screenshot/Screenshot.cpp: no onHide(), the         *)
(*                 destructor stops the timer, the callback captures the   *)
(*                 app                                                     *)
(* start(), stop() and the deleter only post commands to the timer task.   *)
(* One that has fallen behind may call back once more before it executes   *)
(* them: FreeRTOS looks at the timers that expired before its queue.       *)
(* Of the Timers of an app at most one is active: a new one is started     *)
(* behind the commands that end the one before it.                         *)
(***************************************************************************)
EXTENDS Naturals, Sequences, SequencesExt

CONSTANTS TimerApps,    \* the kinds of app
          TimerQueue    \* the length of the queue of the timer task

AppTimerParameters == TimerApps \subseteq {"gpio", "power", "screenshot"} /\ TimerQueue \in Nat

VARIABLES
    tKind,     \* the kind of the app
    tLife,     \* "none", "created", "shown", "hidden" or "popped" (redraw to come)
    again,     \* it was hidden before
    widgets,   \* the widgets that the app points to exist
    timerObj,  \* the app's Timer exists
    ticking,   \* the active timer: "none", "live", or "freed" as an object
    queue,     \* the commands for the timer task: "start", "stop" and "delete"
    hookPc,    \* where the thread that calls the hooks is
    tickPc,    \* where the callback is
    tickApp,   \* the callback's app: "none", "live" or "freed"
    tLvgl,     \* who has the LVGL lock, "hook", "tick" or "free"
    hits       \* history: what went wrong: [what, early]

timerVars == <<timerObj, ticking, queue>>
hookVars == <<tKind, tLife, again, widgets, hookPc>>
tickVars == <<tickPc, tickApp, hits>>
vars == <<hookVars, timerVars, tickVars, tLvgl>>

Init == /\ tKind \in TimerApps
        /\ tLife = "none" /\ again = FALSE
        /\ widgets = FALSE
        /\ timerObj = FALSE /\ ticking = "none" /\ queue = <<>>
        /\ hookPc = "idle"
        /\ tickPc = "idle" /\ tickApp = "none"
        /\ tLvgl = "free"
        /\ hits = {}

CapturesApp == tKind # "power"
Hook(here, there) == hookPc = here /\ hookPc' = there
Tick(here, there) == tickPc = here /\ tickPc' = there

(* The app is on the screen, for the first time. *)
Early == tLife = "shown" /\ ~again
Hit(names) == hits' = hits \cup {[what |-> h, early |-> Early] : h \in names}

(* The posting thread waits while the queue is full. *)
Post(commands) == /\ Len(queue) + Len(commands) <= TimerQueue
                  /\ queue' = queue \o commands

(* ~Timer(): the deleter posts, and the object is gone. *)
FreeTimer(commands) == /\ Post(commands \o <<"delete">>)
                       /\ timerObj' = FALSE
                       /\ ticking' = IF ticking = "live" THEN "freed" ELSE ticking

-----------------------------------------------------------------------------
(* The hooks.  A new app of the kind is made when nothing of the last is left. *)

Create == /\ Hook("idle", "idle")
          /\ tLife = "none"
          /\ tickPc = "idle" /\ queue = <<>>
          /\ tLife' = "created" /\ again' = FALSE
          /\ timerObj' = (tKind # "gpio")
          /\ UNCHANGED <<tKind, widgets, ticking, queue, tickVars, tLvgl>>

(* The GUI thread calls onShow() and onHide() with the LVGL lock; an app that
   was hidden by another one is shown again when it is on top again. *)
BeginHook(life, there) == /\ Hook("idle", there)
                          /\ tLife = life
                          /\ tLvgl = "free"
                          /\ tLvgl' = "hook"
                          /\ UNCHANGED <<tKind, tLife, again, widgets, timerVars, tickVars>>

(* The mutex of GpioApp is taken without a limit, to make the widgets;
   ScreenshotApp stops its timer if it is running. *)
Show == /\ Hook("show", "start")
        /\ tKind = "gpio" => tickPc = "idle"
        /\ IF tKind = "screenshot" /\ ticking = "live" THEN Post(<<"stop">>) ELSE UNCHANGED queue
        /\ widgets' = TRUE
        /\ tLife' = "shown"
        /\ UNCHANGED <<tKind, again, timerObj, ticking, tickVars, tLvgl>>

(* Mutation of StartTimer: no app starts a timer while one is active. *)
StartIfIdle == /\ Hook("start", "idle")
               /\ IF tKind = "gpio" /\ timerObj THEN Hit({"assert"}) ELSE UNCHANGED hits
               /\ IF ticking # "none" THEN UNCHANGED queue ELSE Post(<<"start">>)
               /\ timerObj' = TRUE
               /\ tLvgl' = "free"
               /\ UNCHANGED <<tKind, tLife, again, widgets, ticking, tickPc, tickApp>>

(* startTask() asserts that there is no timer.  ScreenshotApp starts its own only
   if it is not running, and the command to stop it may still be in the queue. *)
StartTimer == /\ Hook("start", "idle")
              /\ IF tKind = "gpio" /\ timerObj THEN Hit({"assert"}) ELSE UNCHANGED hits
              /\ IF tKind = "screenshot" /\ ticking = "live" THEN UNCHANGED queue
                                                             ELSE Post(<<"start">>)
              /\ timerObj' = TRUE
              /\ tLvgl' = "free"
              /\ UNCHANGED <<tKind, tLife, again, widgets, ticking, tickPc, tickApp>>

Hidden == /\ Hook("hide", "idle")
          /\ tLife' = "hidden" /\ again' = TRUE
          /\ tLvgl' = "free"
          /\ UNCHANGED <<tKind, widgets, tickPc, tickApp>>

(* Mutation of Hide: stopTask() forgets the timer, and does not delete it. *)
HideKept == /\ Hidden
            /\ timerObj' = FALSE
            /\ ticking' = IF ticking = "live" THEN "freed" ELSE ticking
            /\ UNCHANGED <<queue, hits>>

(* stopTask() asserts that there is one, stops and deletes it. *)
Hide == /\ Hidden
        /\ \/ /\ tKind = "gpio"
              /\ IF ~timerObj THEN Hit({"assert"}) ELSE UNCHANGED hits
              /\ FreeTimer(<<"stop">>)
           \/ tKind = "power" /\ Post(<<"stop">>) /\ UNCHANGED <<timerObj, ticking, hits>>
           \/ tKind = "screenshot" /\ UNCHANGED <<timerVars, hits>>

Popped == /\ Hook("idle", "idle")
          /\ tLife = "hidden"
          /\ tLife' = "popped"
          /\ UNCHANGED <<tKind, again, widgets, tickPc, hits, tLvgl>>

(* Mutation of Pop: the callback of PowerApp captures the app, too. *)
PopCaptured == /\ Popped
               /\ tickApp' = IF tickPc # "idle" THEN "freed" ELSE tickApp
               /\ IF timerObj THEN FreeTimer(<<>>) ELSE UNCHANGED timerVars

(* The loader removes the app from its stack, which frees the app, its Timer
   included, unless the callback holds a reference. *)
Pop == /\ Popped
       /\ tickApp' = IF tickPc # "idle" /\ CapturesApp THEN "freed" ELSE tickApp
       /\ IF timerObj /\ (CapturesApp \/ tickPc = "idle")
          THEN FreeTimer(IF tKind = "screenshot" /\ ticking = "live" THEN <<"stop">> ELSE <<>>)
          ELSE UNCHANGED timerVars

(* The redraw for the next app deletes the widgets. *)
Redraw == /\ Hook("idle", "idle")
          /\ tLife = "popped" \/ (tLife = "hidden" /\ widgets)
          /\ tLvgl = "free"
          /\ widgets' = FALSE
          /\ tLife' = IF tLife = "popped" THEN "none" ELSE tLife
          /\ UNCHANGED <<tKind, again, timerVars, tickVars, tLvgl>>

-----------------------------------------------------------------------------
(* The timer task *)

(* onCallback() with the Timer that the handle names ... *)
Fire == /\ ticking = "live"
        /\ Tick("idle", IF tKind = "power" /\ tLife = "popped" THEN "idle" ELSE "lvgl")
        /\ tickApp' = IF tickPc' = "idle" THEN "none" ELSE "live"
        /\ UNCHANGED <<hookVars, timerVars, hits, tLvgl>>

(* ... which may have been freed: the command to delete it is still queued. *)
FireFreed == /\ ticking = "freed"
             /\ tickPc = "idle"
             /\ Hit({"freedTimer"})
             /\ UNCHANGED <<hookVars, timerVars, tickPc, tickApp, tLvgl>>

(* A command is executed; the object of a timer may be gone when it is started. *)
Command == /\ queue # <<>>
           /\ tickPc = "idle"
           /\ queue' = Tail(queue)
           /\ ticking' = IF Head(queue) # "start" THEN "none"
                         ELSE IF "delete" \in ToSet(Tail(queue)) THEN "freed" ELSE "live"
           /\ UNCHANGED <<hookVars, timerObj, tickVars, tLvgl>>

TickLvgl == /\ Tick("lvgl", "update")
            /\ tLvgl = "free"
            /\ tLvgl' = "tick"
            /\ UNCHANGED <<hookVars, timerVars, tickApp, hits>>

(* The time limit: updateUi() of PowerApp goes on without the lock. *)
TickTimeout == /\ Tick("lvgl", "update")
               /\ tLvgl # "free"
               /\ UNCHANGED <<hookVars, timerVars, tickApp, hits, tLvgl>>

Unlocked == tLvgl # "tick" /\ tKind = "power"
Touches == tLvgl = "tick" \/ tKind = "power"

(* The update, and the end of the callback, which may free the app. *)
TickUpdate == /\ Tick("update", "idle")
              /\ Hit({h \in {"freedApp", "deadWidgets", "unlocked"} :
                            \/ h = "freedApp" /\ tickApp = "freed"
                            \/ h = "deadWidgets" /\ Touches /\ ~widgets
                            \/ h = "unlocked" /\ Unlocked})
              /\ tickApp' = "none"
              /\ IF timerObj /\ tLife \in {"popped", "none"} THEN FreeTimer(<<>>)
                                                            ELSE UNCHANGED timerVars
              /\ tLvgl' = IF tLvgl = "tick" THEN "free" ELSE tLvgl
              /\ UNCHANGED hookVars

-----------------------------------------------------------------------------
HookStep == Show \/ StartTimer \/ Hide
TickStep == Command \/ TickLvgl \/ TickTimeout \/ TickUpdate

Next == \/ Create
        \/ BeginHook("created", "show")
        \/ BeginHook("hidden", "show")
        \/ BeginHook("shown", "hide")
        \/ HookStep \/ Pop \/ Redraw
        \/ Fire \/ FireFreed \/ TickStep

Spec == Init /\ [][Next]_vars

-----------------------------------------------------------------------------
AppTimerTypeOK ==
    /\ tKind \in TimerApps
    /\ tLife \in {"none", "created", "shown", "hidden", "popped"}
    /\ {again, widgets, timerObj} \subseteq BOOLEAN
    /\ ticking \in {"none", "live", "freed"}
    /\ ToSet(queue) \subseteq {"start", "stop", "delete"} /\ Len(queue) <= TimerQueue
    /\ tickApp \in {"none", "live", "freed"}
    /\ tLvgl \in {"hook", "tick", "free"}
    /\ hits \subseteq [what : {"assert", "freedTimer", "freedApp", "deadWidgets", "unlocked"},
                       early : BOOLEAN]

(* A callback does no harm while its app is shown for the first time, but that
   PowerApp updates without the LVGL lock when it does not get it in time; at
   any time, one that looks its app up never works on a freed one, and the
   asserts of GpioApp hold, when it is shown again, too.  What is left, after
   the app was hidden: a freed Timer or app, and widgets that are gone.      *)
OnlyKnownHits ==
    \A h \in hits : /\ h.what # "assert"
                    /\ h.what = "unlocked" => tKind = "power"
                    /\ h.what = "freedApp" => CapturesApp
                    /\ h.early => h.what = "unlocked"

(* A Timer is only freed with a command to delete it: the timer task calls back
   on a freed one only when it overtakes that command.                     *)
LiveTimerUnlessStopping == ticking = "freed" => "delete" \in ToSet(queue)

(* When the timer task has worked off its queue, the app that is shown is being
   refreshed, by a Timer of its own -- only ScreenshotApp may be not, when it is
   shown again: onShow() stops its timer and, as the command is not executed yet,
   does not start it.                                                      *)
ShownIsRefreshed ==
    /\ tLife = "shown" /\ hookPc \in {"idle", "hide"} /\ queue = <<>>
    /\ tKind = "screenshot" => ~again
    => ticking = "live" /\ timerObj
=============================================================================
