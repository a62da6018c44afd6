------------------------------ MODULE GuiProofs ------------------------------
(***************************************************************************)
(* Which thread holds which lock where, for any number of Showing events   *)
(* and any handlers: hooks exclude each other and hidden apps are not      *)
(* drawn.  That no lock is waited for in a circle is not so (run           *)
(* Gui_click).                                                             *)
(***************************************************************************)
EXTENDS Gui, TLAPS

LoaderPoints == {"idle", "wantGui", "show", "requestDraw", "wantGuiHide", "wantLvgl", "onHide",
                 "hide", "crashed"}
GuiPoints == {"await", "queryDraw", "queryExit", "clearDraw", "clearExit", "ended", "wantGui",
              "wantLvgl", "onShow", "crashed"}
LvglPoints == {"idle", "handler", "wantLoader", "wantGui", "crashed"}
MainPoints == {"idle", "exit", "join", "stopped"}

PointsOK == /\ pc = [t \in Threads |-> pc[t]]
            /\ pc["loader"] \in LoaderPoints /\ pc["gui"] \in GuiPoints
            /\ pc["lvgl"] \in LvglPoints /\ pc["main"] \in MainPoints

(* What the loader's thread is about to do with which app. *)
LoaderKnows ==
    /\ pc["loader"] \in {"wantGui", "show"} => appToRender = NoApp /\ shows < MaxShows
    /\ pc["loader"] \in {"wantGuiHide", "wantLvgl", "onHide", "hide"} => appToRender # NoApp
    /\ appToRender <= shows

TypeInv == TypeOK /\ PointsOK /\ LoaderKnows

LEMMA TypeInvHolds ==
    ASSUME GuiParameters
    PROVE  Spec => []TypeInv
<1> USE DEF Threads, Locks, Free, Shown, NoApp, At, Goto, Acquire, Release, SetFlag, TakeLock,
            GuiParameters, appVars, flagVars
<1>1. Init => TypeInv
  <2> SUFFICES ASSUME Init
               PROVE  TypeInv
    OBVIOUS
  <2>1. owner \in [Locks -> Threads \cup {Free}]
    BY DEF Init
  <2>2. TypeOK
    <3>1. DOMAIN pc = Threads
      BY DEF Init
    <3>2. /\ appToRender \in Shown \cup {NoApp} /\ shows \in 0 .. MaxShows
          /\ drawn \in Shown \cup {NoApp} /\ givenUp \in Shown \cup {NoApp}
      BY DEF Init
    <3>3. /\ hidden \subseteq Shown /\ received \in BOOLEAN
          /\ notified \subseteq {"DRAW", "EXIT"}
          /\ flags \subseteq {"DRAW", "EXIT"} /\ cflags \subseteq {"DRAW", "EXIT"}
      BY DEF Init
    <3> QED
      BY <2>1, <3>1, <3>2, <3>3 DEF TypeOK
  <2>3. pc = [t \in Threads |-> pc[t]]
    BY DEF Init
  <2>4. PointsOK
    BY <2>3 DEF Init, PointsOK, LoaderPoints, GuiPoints, LvglPoints, MainPoints
  <2>5. LoaderKnows
    BY DEF Init, LoaderKnows
  <2> QED
    BY <2>2, <2>4, <2>5 DEF TypeInv
<1>2. ASSUME TypeInv, [Next]_vars
      PROVE  TypeInv'
  <2> USE <1>2 DEF TypeInv, TypeOK, PointsOK, LoaderKnows, LoaderPoints, GuiPoints,
                   LvglPoints, MainPoints
  <2>1. CASE LoaderEvent
    BY <2>1 DEF LoaderEvent
  <2>2. CASE ShowAppLock
    BY <2>2 DEF ShowAppLock
  <2>3. CASE ShowApp
    <3>1. owner' \in [Locks -> Threads \cup {Free}]
      BY <2>3 DEF ShowApp
    <3>2. /\ appToRender' \in Shown \cup {NoApp} /\ shows' \in 0 .. MaxShows
          /\ LoaderKnows'
      BY <2>3 DEF ShowApp
    <3>3. PointsOK'
      BY <2>3 DEF ShowApp
    <3> QED
      BY <2>3, <3>1, <3>2, <3>3 DEF ShowApp
  <2>4. CASE RequestDraw
    BY <2>4 DEF RequestDraw
  <2>5. CASE HideAppLock
    BY <2>5 DEF HideAppLock
  <2>6. CASE HideAppLvgl
    BY <2>6 DEF HideAppLvgl
  <2>7. CASE OnHide
    BY <2>7 DEF OnHide
  <2>8. CASE HideApp
    <3>1. owner' \in [Locks -> Threads \cup {Free}]
      BY <2>8 DEF HideApp
    <3>2. /\ appToRender' \in Shown \cup {NoApp} /\ shows' \in 0 .. MaxShows
          /\ LoaderKnows'
      BY <2>8 DEF HideApp
    <3>3. PointsOK'
      BY <2>8 DEF HideApp
    <3> QED
      BY <2>8, <3>1, <3>2, <3>3 DEF HideApp
  <2>9. CASE AwaitFlags
    BY <2>9 DEF AwaitFlags
  <2>10. CASE ClearFlagsQuery
    BY <2>10 DEF ClearFlagsQuery
  <2>11. CASE ClearDraw
    BY <2>11 DEF ClearDraw, ClearFlagsWrite
  <2>12. CASE ClearExit
    BY <2>12 DEF ClearExit, ClearFlagsWrite
  <2>13. CASE RedrawLock
    BY <2>13 DEF RedrawLock
  <2>14. CASE RedrawLvgl
    BY <2>14 DEF RedrawLvgl
  <2>15. CASE OnShow
    BY <2>15 DEF OnShow
  <2>16. CASE RedrawGivesUp
    BY <2>16 DEF RedrawGivesUp
  <2>17. CASE LvglEvent
    <3>1. PICK there \in {"handler", "wantLoader", "wantGui"} : Goto("lvgl", there)
      BY <2>17 DEF LvglEvent
    <3>2. PointsOK' /\ LoaderKnows'
      BY <2>17, <3>1 DEF LvglEvent
    <3>3. owner' \in [Locks -> Threads \cup {Free}]
      BY <2>17 DEF LvglEvent
    <3> QED
      BY <2>17, <3>1, <3>2, <3>3 DEF LvglEvent
  <2>18. CASE HandlerAsksLoader
    BY <2>18 DEF HandlerAsksLoader, PassLock
  <2>19. CASE HandlerLocksGui
    BY <2>19 DEF HandlerLocksGui, PassLock
  <2>20. CASE HandlerReturns
    BY <2>20 DEF HandlerReturns
  <2>21. CASE StopService
    BY <2>21 DEF StopService
  <2>22. CASE StopSetsExit
    BY <2>22 DEF StopSetsExit
  <2>23. CASE StopJoined
    BY <2>23 DEF StopJoined
  <2>24. ASSUME NEW t \in Threads, LockCheckFails(t)
         PROVE  TypeInv'
    BY <2>24 DEF LockCheckFails
  <2>25. CASE UNCHANGED vars
    BY <2>25 DEF vars
  <2> QED
    BY <2>1, <2>2, <2>3, <2>4, <2>5, <2>6, <2>7, <2>8, <2>9, <2>10, <2>11, <2>12,
       <2>13, <2>14, <2>15, <2>16, <2>17, <2>18, <2>19, <2>20, <2>21, <2>22, <2>23,
       <2>24, <2>25
    DEF Next, ShowStep, HideStep, GuiStep, LvglStep, StopStep
<1> QED
  BY <1>1, <1>2, PTL DEF Spec

(* The locks, the flags and the apps keep their types. *)
THEOREM TypeCorrect ==
    ASSUME GuiParameters
    PROVE  Spec => []TypeOK
<1>1. TypeInv => TypeOK
  BY DEF TypeInv
<1> QED
  BY <1>1, TypeInvHolds, PTL

-----------------------------------------------------------------------------
(* A lock that a program point needs is held by the thread that is there. *)
LocksHeld ==
    /\ pc["loader"] \in {"show", "wantLvgl", "onHide", "hide"} => owner["guiMutex"] = "loader"
    /\ pc["loader"] = "onHide" => owner["lvglLock"] = "loader"
    /\ pc["gui"] \in {"wantLvgl", "onShow"} => owner["guiMutex"] = "gui"
    /\ pc["gui"] = "onShow" => owner["lvglLock"] = "gui"
    /\ pc["lvgl"] \in {"handler", "wantLoader", "wantGui"} => owner["lvglLock"] = "lvgl"
    /\ pc["main"] \in {"exit", "join"} => owner["guiMutex"] = "main"

(* An app whose onHide() was called is about to be forgotten. *)
HiddenIsGoing == /\ appToRender \in hidden => pc["loader"] = "hide"
                 /\ \A a \in hidden : a <= shows

LockInv == TypeInv /\ LocksHeld /\ HiddenIsGoing

LEMMA LockInvHolds ==
    ASSUME GuiParameters
    PROVE  Spec => []LockInv
<1> USE DEF Threads, Locks, Free, Shown, NoApp, At, Goto, Acquire, Release, SetFlag, TakeLock,
            GuiParameters, appVars, flagVars
<1>1. Init => LocksHeld /\ HiddenIsGoing
  BY DEF Init, LocksHeld, HiddenIsGoing
<1>2. ASSUME TypeInv, LocksHeld, HiddenIsGoing, [Next]_vars
      PROVE  LocksHeld' /\ HiddenIsGoing'
  <2> USE <1>2 DEF TypeInv, TypeOK, PointsOK, LoaderKnows, LoaderPoints, GuiPoints,
                   LvglPoints, MainPoints, LocksHeld, HiddenIsGoing
  <2>1. CASE LoaderEvent
    BY <2>1 DEF LoaderEvent
  <2>2. CASE ShowAppLock
    BY <2>2 DEF ShowAppLock
  <2>3. CASE ShowApp
    BY <2>3 DEF ShowApp
  <2>4. CASE RequestDraw
    BY <2>4 DEF RequestDraw
  <2>5. CASE HideAppLock
    BY <2>5 DEF HideAppLock
  <2>6. CASE HideAppLvgl
    BY <2>6 DEF HideAppLvgl
  <2>7. CASE OnHide
    BY <2>7 DEF OnHide
  <2>8. CASE HideApp
    BY <2>8 DEF HideApp
  <2>9. CASE AwaitFlags
    BY <2>9 DEF AwaitFlags
  <2>10. CASE ClearFlagsQuery
    BY <2>10 DEF ClearFlagsQuery
  <2>11. CASE ClearDraw
    BY <2>11 DEF ClearDraw, ClearFlagsWrite
  <2>12. CASE ClearExit
    BY <2>12 DEF ClearExit, ClearFlagsWrite
  <2>13. CASE RedrawLock
    BY <2>13 DEF RedrawLock
  <2>14. CASE RedrawLvgl
    BY <2>14 DEF RedrawLvgl
  <2>15. CASE OnShow
    BY <2>15 DEF OnShow
  <2>16. CASE RedrawGivesUp
    BY <2>16 DEF RedrawGivesUp
  <2>17. CASE LvglEvent
    BY <2>17 DEF LvglEvent
  <2>18. CASE HandlerAsksLoader
    BY <2>18 DEF HandlerAsksLoader, PassLock
  <2>19. CASE HandlerLocksGui
    BY <2>19 DEF HandlerLocksGui, PassLock
  <2>20. CASE HandlerReturns
    BY <2>20 DEF HandlerReturns
  <2>21. CASE StopService
    BY <2>21 DEF StopService
  <2>22. CASE StopSetsExit
    BY <2>22 DEF StopSetsExit
  <2>23. CASE StopJoined
    BY <2>23 DEF StopJoined
  <2>24. ASSUME NEW t \in Threads, LockCheckFails(t)
         PROVE  LocksHeld' /\ HiddenIsGoing'
    BY <2>24 DEF LockCheckFails
  <2>25. CASE UNCHANGED vars
    BY <2>25 DEF vars
  <2> QED
    BY <2>1, <2>2, <2>3, <2>4, <2>5, <2>6, <2>7, <2>8, <2>9, <2>10, <2>11, <2>12,
       <2>13, <2>14, <2>15, <2>16, <2>17, <2>18, <2>19, <2>20, <2>21, <2>22, <2>23,
       <2>24, <2>25
    DEF Next, ShowStep, HideStep, GuiStep, LvglStep, StopStep
<1> QED
  BY <1>1, <1>2, TypeInvHolds, PTL DEF Spec, LockInv

(* onShow(), onHide() and the event handlers of apps exclude each other, whatever
   locks the handlers take and even if the service is stopped.             *)
THEOREM HooksNeverMeet ==
    ASSUME GuiParameters
    PROVE  Spec => []HooksExclusive
<1>1. LockInv => HooksExclusive
  BY DEF LockInv, LocksHeld, TypeInv, PointsOK, HooksExclusive, Threads, LoaderPoints,
         GuiPoints, LvglPoints, MainPoints
<1> QED
  BY <1>1, LockInvHolds, PTL

(* A redraw never calls onShow() of an app whose onHide() was called. *)
THEOREM HiddenIsNotDrawn ==
    ASSUME GuiParameters
    PROVE  Spec => []NeverDrawsHidden
<1>1. LockInv => NeverDrawsHidden
  BY DEF LockInv, LocksHeld, HiddenIsGoing, NeverDrawsHidden, At
<1> QED
  BY <1>1, LockInvHolds, PTL

=============================================================================
