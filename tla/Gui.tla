-------------------------------- MODULE Gui --------------------------------
(***************************************************************************)
(* Tactility/Source/service/gui/Gui.cpp, GuiDraw.cpp and Keyboard.cpp with *)
(* the thread flags of TactilityCore/Source/Thread.cpp.  Four threads meet *)
(* at three mutexes, all of them recursive:                                *)
(*   loader   the loader's dispatcher thread: showApp() and hideApp(), in  *)
(*            the order module Loader proves, with the loader mutex held   *)
(*   gui      guiMain(): awaits thread flags and redraws                   *)
(*   lvgl     the LVGL task: runs event handlers with the LVGL lock held   *)
(*   main     the thread that stops the service                            *)
(***************************************************************************)
EXTENDS Naturals

CONSTANTS MaxShows,         \* bound on the calls of showApp()
          ClicksAskLoader,  \* a handler may call getCurrentAppContext()
          SoftKeyboard,     \* softwareKeyboardIsEnabled()
          MayStop           \* the service may be stopped

GuiParameters == /\ MaxShows \in Nat
                 /\ {ClicksAskLoader, SoftKeyboard, MayStop} \subseteq BOOLEAN

Threads == {"loader", "gui", "lvgl", "main"}
Locks == {"loaderMutex", "guiMutex", "lvglLock"}
Free == "free"
Shown == 1 .. MaxShows   \* a Showing event is the number of its showApp()
NoApp == 0

VARIABLES
    owner,        \* owner[l]: the thread that holds lock l, or Free
    pc,           \* pc[t]: where thread t is
    appToRender,  \* Gui::appToRender
    shows,        \* number of calls of showApp()
    drawn,        \* the app whose onShow() made the widgets on the screen
    hidden,       \* history: the apps whose onHide() has been called
    givenUp,      \* history: the app whose redraw was given up last
    notified,     \* the notification value of the gui task: flags that are set
    received,     \* its notification state: a notification is pending
    flags,        \* local of guiMain()
    cflags        \* local of clearFlags()

appVars == <<appToRender, shows, drawn, hidden, givenUp>>
flagVars == <<notified, received, flags, cflags>>
vars == <<owner, pc, appVars, flagVars>>

Init == /\ owner = [l \in Locks |-> Free]
        /\ pc = [t \in Threads |-> IF t = "gui" THEN "await" ELSE "idle"]
        /\ appToRender = NoApp
        /\ shows = 0
        /\ drawn = NoApp
        /\ hidden = {}
        /\ givenUp = NoApp
        /\ notified = {}
        /\ received = FALSE
        /\ flags = {}
        /\ cflags = {}

-----------------------------------------------------------------------------
At(t, here) == pc[t] = here
Goto(t, there) == pc' = [pc EXCEPT ![t] = there]

Acquire(t, l) == owner[l] = Free /\ owner' = [owner EXCEPT ![l] = t]
Release(ls) == owner' = [l \in Locks |-> IF l \in ls THEN Free ELSE owner[l]]

(* Thread t waits for lock l at program point `here`. *)
TakeLock(t, here, l, there) ==
    /\ At(t, here)
    /\ Acquire(t, l)
    /\ Goto(t, there)
    /\ UNCHANGED <<appVars, flagVars>>

(* The thread that t waits for: the owner of the lock it wants, or the gui
   thread that onStop() joins.                                             *)
WaitsFor(t) ==
    CASE At(t, "wantLoader") -> {owner["loaderMutex"]} \cap Threads
      [] At(t, "wantGui") \/ At(t, "wantGuiHide") -> {owner["guiMutex"]} \cap Threads
      [] At(t, "wantLvgl") -> {owner["lvglLock"]} \cap Threads
      [] At(t, "join") -> {"gui"}
      [] OTHER -> {}

(* A wait that only a timeout can end: t waits, directly or not, for itself. *)
Deadlocked(t) ==
    \E a \in WaitsFor(t) :
        \/ t \in WaitsFor(a)
        \/ \E b \in WaitsFor(a) : t \in WaitsFor(b) \cup UNION {WaitsFor(c) : c \in WaitsFor(b)}

(* A tt_check(lock(1 second)) gives up and crashes the device. *)
LockCheckFails(t) ==
    /\ \/ At(t, "wantGui") \/ At(t, "wantGuiHide")
       \/ t = "loader" /\ At(t, "wantLvgl")
    /\ Deadlocked(t)
    /\ Goto(t, "crashed")
    /\ UNCHANGED <<owner, appVars, flagVars>>

(* xTaskNotify(flag, eSetBits) on the gui task: Thread::setFlags(). *)
SetFlag(f) == notified' = notified \cup {f} /\ received' = TRUE

-----------------------------------------------------------------------------
(* showApp() and hideApp(), on the loader thread *)

LoaderEvent == /\ At("loader", "idle")
               /\ shows < MaxShows \/ appToRender # NoApp
               /\ Acquire("loader", "loaderMutex")
               /\ Goto("loader", IF appToRender = NoApp THEN "wantGui" ELSE "wantGuiHide")
               /\ UNCHANGED <<appVars, flagVars>>

ShowAppLock == TakeLock("loader", "wantGui", "guiMutex", "show")

ShowApp == /\ At("loader", "show")
           /\ shows' = shows + 1
           /\ appToRender' = shows'
           /\ Release({"guiMutex"})
           /\ Goto("loader", "requestDraw")
           /\ UNCHANGED <<drawn, hidden, givenUp, flagVars>>

(* Mutation of RequestDraw: a screen that has widgets is not drawn again. *)
RequestIfBlank == /\ At("loader", "requestDraw")
                  /\ IF drawn = NoApp THEN SetFlag("DRAW") ELSE UNCHANGED <<notified, received>>
                  /\ Release({"loaderMutex"})
                  /\ Goto("loader", "idle")
                  /\ UNCHANGED <<appVars, flags, cflags>>

RequestDraw == /\ At("loader", "requestDraw")
               /\ SetFlag("DRAW")
               /\ Release({"loaderMutex"})
               /\ Goto("loader", "idle")
               /\ UNCHANGED <<appVars, flags, cflags>>

(* Mutation of HideAppLock: the app is forgotten before its onHide(). *)
HideForgetsApp == /\ At("loader", "wantGuiHide")
                  /\ Acquire("loader", "guiMutex")
                  /\ Goto("loader", "wantLvgl")
                  /\ appToRender' = NoApp
                  /\ UNCHANGED <<shows, drawn, hidden, givenUp, flagVars>>

HideAppLock == TakeLock("loader", "wantGuiHide", "guiMutex", "wantLvgl")

(* Mutation of HideAppLvgl: onHide() without the LVGL lock. *)
HideUnlocked == /\ At("loader", "wantLvgl")
                /\ Goto("loader", "onHide")
                /\ UNCHANGED <<owner, appVars, flagVars>>

HideAppLvgl == TakeLock("loader", "wantLvgl", "lvglLock", "onHide")

(* Mutation of OnHide: the gui lock is released with the LVGL lock. *)
OnHideUnlocks == /\ At("loader", "onHide")
                 /\ hidden' = hidden \cup {appToRender}
                 /\ Release({"lvglLock", "guiMutex"})
                 /\ Goto("loader", "hide")
                 /\ UNCHANGED <<appToRender, shows, drawn, givenUp, flagVars>>

(* onHide() returns, lvgl::unlock(). *)
OnHide == /\ At("loader", "onHide")
          /\ hidden' = hidden \cup {appToRender}
          /\ Release({"lvglLock"})
          /\ Goto("loader", "hide")
          /\ UNCHANGED <<appToRender, shows, drawn, givenUp, flagVars>>

HideApp == /\ At("loader", "hide")
           /\ appToRender' = NoApp
           /\ Release({"guiMutex", "loaderMutex"})
           /\ Goto("loader", "idle")
           /\ UNCHANGED <<shows, drawn, hidden, givenUp, flagVars>>

-----------------------------------------------------------------------------
(* guiMain() *)

(* awaitFlags(ALL, WaitAny): xTaskNotifyWait() returns the value, clears the
   flags and the pending state; it waits again if no flag was set.         *)
AwaitFlags == /\ At("gui", "await")
              /\ received
              /\ flags' = notified
              /\ notified' = {}
              /\ received' = FALSE
              /\ Goto("gui", IF notified = {} THEN "await"
                             ELSE IF "DRAW" \in notified THEN "queryDraw"
                             ELSE "queryExit")
              /\ UNCHANGED <<owner, appVars, cflags>>

(* clearFlags(): first a query, which makes a notification pending, ... *)
ClearFlagsQuery ==
    /\ At("gui", "queryDraw") \/ At("gui", "queryExit")
    /\ received' = TRUE
    /\ cflags' = notified
    /\ Goto("gui", IF At("gui", "queryDraw") THEN "clearDraw" ELSE "clearExit")
    /\ UNCHANGED <<owner, appVars, notified, flags>>

(* ... then the value it read, without the flag, overwrites what was set since. *)
ClearFlagsWrite(f, here, there) ==
    /\ At("gui", here)
    /\ notified' = cflags \ {f}
    /\ received' = TRUE
    /\ Goto("gui", there)
    /\ UNCHANGED <<owner, appVars, flags, cflags>>

ClearDraw == ClearFlagsWrite("DRAW", "clearDraw", "wantGui")
ClearExit == ClearFlagsWrite("EXIT", "clearExit", "ended")

RedrawLock == TakeLock("gui", "wantGui", "guiMutex", "wantLvgl")

RedrawLvgl == TakeLock("gui", "wantLvgl", "lvglLock", "onShow")

(* redraw(): clean the screen and, with an app to render, let it make its
   widgets; then both locks are released.                                  *)
OnShow == /\ At("gui", "onShow")
          /\ drawn' = appToRender
          /\ Release({"guiMutex", "lvglLock"})
          /\ Goto("gui", IF "EXIT" \in flags THEN "queryExit" ELSE "await")
          /\ UNCHANGED <<appToRender, shows, hidden, givenUp, flagVars>>

(* lvgl::lock(1000) fails, as LVGL is busy: nothing is drawn, and nothing asks again. *)
RedrawGivesUp ==
    /\ At("gui", "wantLvgl")
    /\ owner["lvglLock"] # Free
    /\ givenUp' = appToRender
    /\ Release({"guiMutex"})
    /\ Goto("gui", IF "EXIT" \in flags THEN "queryExit" ELSE "await")
    /\ UNCHANGED <<appToRender, shows, drawn, hidden, flagVars>>

-----------------------------------------------------------------------------
(* The LVGL task: an event handler runs with the LVGL lock. *)

LvglEvent == /\ At("lvgl", "idle")
             /\ Acquire("lvgl", "lvglLock")
             /\ \E there \in {"handler"}
                             \cup (IF ClicksAskLoader THEN {"wantLoader"} ELSE {})
                             \cup (IF SoftKeyboard THEN {"wantGui"} ELSE {}) :
                  Goto("lvgl", there)
             /\ UNCHANGED <<appVars, flagVars>>

(* A handler passes through a critical section of lock l. *)
PassLock(here, l) == /\ At("lvgl", here)
                     /\ owner[l] = Free
                     /\ Goto("lvgl", "handler")
                     /\ UNCHANGED <<owner, appVars, flagVars>>

(* getCurrentAppContext() waits for the loader mutex without a time limit. *)
HandlerAsksLoader == PassLock("wantLoader", "loaderMutex")

(* softwareKeyboardShow() and softwareKeyboardHide() take the gui lock. *)
HandlerLocksGui == PassLock("wantGui", "guiMutex")

HandlerReturns == /\ At("lvgl", "handler")
                  /\ Release({"lvglLock"})
                  /\ Goto("lvgl", "idle")
                  /\ UNCHANGED <<appVars, flagVars>>

-----------------------------------------------------------------------------
(* GuiService::onStop(): the gui lock is held while it joins the thread. *)

StopService == MayStop /\ TakeLock("main", "idle", "guiMutex", "exit")

StopSetsExit == /\ At("main", "exit")
                /\ SetFlag("EXIT")
                /\ Goto("main", "join")
                /\ UNCHANGED <<owner, appVars, flags, cflags>>

StopJoined == /\ At("main", "join")
              /\ At("gui", "ended")
              /\ Release({"guiMutex"})
              /\ Goto("main", "stopped")
              /\ UNCHANGED <<appVars, flagVars>>

-----------------------------------------------------------------------------
ShowStep == ShowAppLock \/ ShowApp \/ RequestDraw
HideStep == HideAppLock \/ HideAppLvgl \/ OnHide \/ HideApp
GuiStep == \/ AwaitFlags \/ ClearFlagsQuery \/ ClearDraw \/ ClearExit
           \/ RedrawLock \/ RedrawLvgl \/ OnShow \/ RedrawGivesUp
LvglStep == HandlerAsksLoader \/ HandlerLocksGui \/ HandlerReturns
StopStep == StopSetsExit \/ StopJoined

Next == \/ LoaderEvent \/ ShowStep \/ HideStep
        \/ GuiStep
        \/ LvglEvent \/ LvglStep
        \/ StopService \/ StopStep
        \/ \E t \in Threads : LockCheckFails(t)

Spec == Init /\ [][Next]_vars

(* Ready threads run and hooks return.  A mutex is handed to a waiter in the
   end: FreeRTOS wakes the waiter of the highest priority when a mutex is given
   (strong fairness of taking a lock), although the LVGL task retakes its lock
   for every event.  A lock that a circle of waits keeps from a thread is given
   up when its time is over.                                               *)
Fairness == /\ WF_vars(GuiStep) /\ SF_vars(RedrawLvgl) /\ SF_vars(RedrawLock)
            /\ WF_vars(ShowStep) /\ WF_vars(HideStep)
            /\ SF_vars(HideAppLvgl) /\ SF_vars(ShowAppLock) /\ SF_vars(HideAppLock)
            /\ WF_vars(LvglStep) /\ WF_vars(\E t \in Threads : LockCheckFails(t))

FairSpec == Spec /\ Fairness

-----------------------------------------------------------------------------
TypeOK ==
    /\ owner \in [Locks -> Threads \cup {Free}]
    /\ DOMAIN pc = Threads
    /\ appToRender \in Shown \cup {NoApp}
    /\ shows \in 0 .. MaxShows
    /\ drawn \in Shown \cup {NoApp}
    /\ hidden \subseteq Shown
    /\ givenUp \in Shown \cup {NoApp}
    /\ notified \subseteq {"DRAW", "EXIT"}
    /\ received \in BOOLEAN
    /\ flags \subseteq {"DRAW", "EXIT"}
    /\ cflags \subseteq {"DRAW", "EXIT"}

(* A hidden app gets no onShow(): whatever the redraw was requested for, it
   draws an app whose onHide() has not been called, or nothing.            *)
NeverDrawsHidden == At("gui", "onShow") => appToRender \notin hidden

(* The hooks of apps and the event handlers never run at the same time: they
   share the widgets.                                                      *)
HooksExclusive ==
    \A s, t \in Threads :
        s # t => ~(pc[s] \in {"onShow", "onHide", "handler"}
                   /\ pc[t] \in {"onShow", "onHide", "handler"})

(* An app that is shown and stays is drawn, whatever locks the handlers take: no
   request to draw is lost between awaitFlags() and clearFlags().  Only where LVGL
   was busy for the second that redraw() waits the request is given up, and a circle
   of waits ends in a crash; a service that is being stopped draws no more.        *)
ShownGetsDrawn ==
    \A a \in Shown :
        appToRender = a ~> \/ drawn = a \/ appToRender # a \/ givenUp = a
                           \/ \E t \in Threads : pc[t] = "crashed"
                           \/ pc["main"] # "idle"

(* tt_check(gui->mutex.lock(configTICK_RATE_HZ)) and the tt_check on the LVGL
   lock in hideApp(): a lock asked for is obtained.                        *)
LockChecksHold == \A t \in Threads : pc[t] # "crashed"
=============================================================================
