------------------------------- MODULE PubSub -------------------------------
(***************************************************************************)
(* TactilityCore/Source/PubSub.cpp with the apps that subscribe to the     *)
(* states of a service: WifiManage.cpp, WifiConnect.cpp and GpsSettings.cpp*)
(* in Tactility/Source/app.  publish() calls the subscribers on the        *)
(* publisher's thread with the PubSub's mutex held; they want the app's    *)
(* mutex and the LVGL lock.  The other actor are the threads that call the *)
(* app's hooks, one at a time (module Loader), onShow() and onHide() with  *)
(* the LVGL lock.  Every mutex but LVGL's is a Normal one.                 *)
(*   "manage"    subscribes in onShow(), unsubscribes in onHide() with its *)
(*               own mutex held                                            *)
(*   "connect"   subscribes in the constructor, unsubscribes in the        *)
(*               destructor                                                *)
(*   "settings"  as "manage", without a mutex of its own                   *)
(***************************************************************************)
CONSTANT Apps   \* the kinds of app that are opened

PubSubParameters == Apps \subseteq {"manage", "connect", "settings"}

VARIABLES
    psApp,        \* the kind of the app that exists
    psLife,       \* its life: "none", "created", "shown" or "hidden"
    psViews,      \* isViewEnabled, view_enabled
    subscribed,   \* PubSub::items has the app's subscription
    uiPc,         \* where the thread that calls the hooks is
    pubPc,        \* where the publisher is
    lvglOwner, appOwner, psOwner   \* who has the lock: "ui", "pub" or "free"

psLocks == <<lvglOwner, appOwner, psOwner>>
vars == <<psApp, psLife, psViews, subscribed, uiPc, pubPc, psLocks>>

Init == /\ psApp \in Apps
        /\ psLife = "none"
        /\ psViews = FALSE
        /\ subscribed = FALSE
        /\ uiPc = "idle"
        /\ pubPc = "idle"
        /\ lvglOwner = "free" /\ appOwner = "free" /\ psOwner = "free"

Ui(here, there) == uiPc = here /\ uiPc' = there
Pub(here, there) == pubPc = here /\ pubPc' = there

-----------------------------------------------------------------------------
(* The hooks *)

Create == /\ psLife = "none"
          /\ Ui("idle", IF psApp = "connect" THEN "createSubscribe" ELSE "idle")
          /\ psLife' = "created"
          /\ UNCHANGED <<psApp, psViews, subscribed, pubPc, psLocks>>

(* subscribe(), which waits for a publish() that is going on. *)
Subscribe(here, there) == /\ Ui(here, there)
                          /\ psOwner = "free"
                          /\ subscribed' = TRUE
                          /\ UNCHANGED <<psApp, psLife, psViews, pubPc, psLocks>>

CreateSubscribe == Subscribe("createSubscribe", "idle")

BeginHook(hook, there) == /\ Ui("idle", there)
                          /\ lvglOwner = "free"
                          /\ lvglOwner' = "ui"
                          /\ UNCHANGED <<psApp, psLife, psViews, subscribed, pubPc, appOwner, psOwner>>

Show == /\ psLife \in {"created", "hidden"}
        /\ BeginHook("show", IF psApp = "connect" THEN "showLock" ELSE "showSubscribe")

ShowSubscribe == Subscribe("showSubscribe", "showLock")

(* lock(), the views are made, unlock(); the LVGL lock is released. *)
ShowViews == /\ Ui("showLock", "idle")
             /\ appOwner = "free" \/ psApp = "settings"
             /\ psViews' = TRUE
             /\ psLife' = "shown"
             /\ lvglOwner' = "free"
             /\ UNCHANGED <<psApp, subscribed, pubPc, appOwner, psOwner>>

Hide == /\ psLife = "shown"
        /\ BeginHook("hide", CASE psApp = "manage" -> "hideLock"
                               [] psApp = "connect" -> "hideViews"
                               [] OTHER -> "hideUnsubscribe")

HideLock == /\ Ui("hideLock", "hideUnsubscribe")
            /\ appOwner = "free"
            /\ appOwner' = "ui"
            /\ UNCHANGED <<psApp, psLife, psViews, subscribed, pubPc, lvglOwner, psOwner>>

HideUnsubscribe == /\ Ui("hideUnsubscribe", "hideViews")
                   /\ psOwner = "free"
                   /\ subscribed' = FALSE
                   /\ UNCHANGED <<psApp, psLife, psViews, pubPc, psLocks>>

(* Mutation of HideViews: the views stay enabled. *)
HideEnabled == /\ Ui("hideViews", "idle")
               /\ psApp = "connect" => appOwner = "free"
               /\ appOwner' = IF appOwner = "ui" THEN "free" ELSE appOwner
               /\ psLife' = "hidden"
               /\ lvglOwner' = "free"
               /\ UNCHANGED <<psApp, psViews, subscribed, pubPc, psOwner>>

(* The end of onHide(): for "connect" all of what the app's mutex protects. *)
HideViews == /\ Ui("hideViews", "idle")
             /\ psApp = "connect" => appOwner = "free"
             /\ appOwner' = IF appOwner = "ui" THEN "free" ELSE appOwner
             /\ psViews' = FALSE
             /\ psLife' = "hidden"
             /\ lvglOwner' = "free"
             /\ UNCHANGED <<psApp, subscribed, pubPc, psOwner>>

(* Mutation of Destroy: the destructor forgets the subscription. *)
DestroySubscribed == /\ Ui("idle", "idle")
                     /\ psLife \in {"created", "hidden"}
                     /\ psLife' = "none"
                     /\ UNCHANGED <<psApp, psViews, subscribed, pubPc, psLocks>>

Destroy == /\ Ui("idle", "idle")
           /\ psLife \in {"created", "hidden"}
           /\ psApp = "connect" => psOwner = "free"
           /\ subscribed' = (subscribed /\ psApp # "connect")
           /\ psLife' = "none"
           /\ UNCHANGED <<psApp, psViews, pubPc, psLocks>>

-----------------------------------------------------------------------------
(* publish() *)

Publish == /\ Pub("idle", "iterate")
           /\ psOwner = "free"
           /\ psOwner' = "pub"
           /\ UNCHANGED <<psApp, psLife, psViews, subscribed, uiPc, lvglOwner, appOwner>>

(* The callback of a subscriber, if there is one. *)
Call == /\ Pub("iterate", CASE ~subscribed -> "end"
                            [] subscribed /\ psApp = "settings" -> "wantLvgl"
                            [] OTHER -> "wantApp")
        /\ UNCHANGED <<psApp, psLife, psViews, subscribed, uiPc, psLocks>>

(* requestViewUpdate() *)
CallbackLock == /\ Pub("wantApp", IF psViews THEN "wantLvgl" ELSE "end")
                /\ appOwner = "free"
                /\ appOwner' = IF psViews THEN "pub" ELSE appOwner
                /\ UNCHANGED <<psApp, psLife, psViews, subscribed, uiPc, lvglOwner, psOwner>>

CallbackLvgl == /\ Pub("wantLvgl", "update")
                /\ lvglOwner = "free"
                /\ lvglOwner' = "pub"
                /\ UNCHANGED <<psApp, psLife, psViews, subscribed, uiPc, appOwner, psOwner>>

(* Mutation of CallbackTimeout: the LVGL lock is waited for without a limit. *)
CallbackPatient == FALSE /\ UNCHANGED vars

(* lvgl::lock(1000), or 100 ms in GpsSettings: the update is given up. *)
CallbackTimeout == /\ Pub("wantLvgl", "end")
                   /\ lvglOwner # "free"
                   /\ appOwner' = IF appOwner = "pub" THEN "free" ELSE appOwner
                   /\ UNCHANGED <<psApp, psLife, psViews, subscribed, uiPc, lvglOwner, psOwner>>

CallbackUpdate == /\ Pub("update", "end")
                  /\ lvglOwner' = "free"
                  /\ appOwner' = IF appOwner = "pub" THEN "free" ELSE appOwner
                  /\ UNCHANGED <<psApp, psLife, psViews, subscribed, uiPc, psOwner>>

PublishEnd == /\ Pub("end", "idle")
              /\ psOwner' = "free"
              /\ UNCHANGED <<psApp, psLife, psViews, subscribed, uiPc, lvglOwner, appOwner>>

-----------------------------------------------------------------------------
HookStep == \/ CreateSubscribe \/ ShowSubscribe \/ ShowViews
            \/ HideLock \/ HideUnsubscribe \/ HideViews
PublishStep == \/ Call \/ CallbackLock \/ CallbackLvgl \/ CallbackTimeout
               \/ CallbackUpdate \/ PublishEnd

Next == \/ Create \/ Show \/ Hide \/ Destroy \/ HookStep
        \/ Publish \/ PublishStep

Spec == Init /\ [][Next]_vars

(* Both threads run, and each is given the mutexes it waits for in the end. *)
Fairness == SF_vars(HookStep) /\ SF_vars(PublishStep)

FairSpec == Spec /\ Fairness

-----------------------------------------------------------------------------
PubSubTypeOK ==
    /\ psApp \in Apps
    /\ psLife \in {"none", "created", "shown", "hidden"}
    /\ psViews \in BOOLEAN
    /\ subscribed \in BOOLEAN
    /\ \A l \in {lvglOwner, appOwner, psOwner} : l \in {"free", "ui", "pub"}

(* A callback only updates the views of an app that is shown. *)
UpdatesShownViews == pubPc = "update" => psLife = "shown"

(* A callback only runs for an app that exists: its context is the app. *)
CallsLiveApp == pubPc \in {"wantApp", "wantLvgl", "update"} => psLife # "none"

(* The one deadlock: the callback waits for the mutex of WifiManage, whose
   onHide() waits for the callback to end.                                 *)
CrossedLocks == psApp = "manage" /\ pubPc = "wantApp" /\ uiPc = "hideUnsubscribe"

(* Every hook and every publish() ends, but for that deadlock: a callback holds
   what a hook waits for only until the limit of its wait for LVGL.        *)
HooksEndOrCross == uiPc # "idle" ~> (uiPc = "idle" \/ CrossedLocks)
PublishEndsOrCrosses == pubPc # "idle" ~> (pubPc = "idle" \/ CrossedLocks)
=============================================================================
