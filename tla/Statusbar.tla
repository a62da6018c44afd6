------------------------------ MODULE Statusbar ------------------------------
(***************************************************************************)
(* Tactility/Source/lvgl/Statusbar.cpp (the widget, its icons and its      *)
(* clock) with service/statusbar/Statusbar.cpp (which keeps an icon in     *)
(* step with a state of the system).  Threads:                             *)
(*   main    starts the service: claims its icon and updates it once       *)
(*   timer   the FreeRTOS timer task: runs the callback of the service's   *)
(*           periodic timer and of the clock's one-shot timer, in turn     *)
(* The statusbar mutex is recursive.  A change is published with it held,  *)
(* and the widget, which takes the LVGL lock for at most 100 ms, is drawn  *)
(* by the publisher.  Every other user of LVGL is "lvglBusy".              *)
(***************************************************************************)
CONSTANTS Images,    \* the images the icon may have
          NoImage,   \* nullptr, and an icon that is hidden
          Unknown    \* a state of the SD card that no image stands for

Threads == {"main", "timer"}

VARIABLES
    desired,     \* the image that fits the state of the system now
    lastIcon,    \* StatusbarService: the image set last, or NoImage
    image,       \* StatusbarIcon::image
    visible,     \* StatusbarIcon::visible
    claimed,     \* StatusbarIcon::claimed
    sbDrawn,     \* what the widget shows: an image, or NoImage
    sbPc,        \* sbPc[t]: where thread t is
    wanted,      \* wanted[t]: desired_icon, local of the update
    sbOwner,     \* the thread that holds the statusbar mutex, or "free"
    lvglBusy,    \* another thread holds the LVGL lock
    armed,       \* the clock's timer is running
    started,     \* the service's timer is running
    undrawn,     \* history: the last publish() did not reach the widget
    iconLost,    \* history: the last change of the icon missed the mutex
    tickLost     \* history: the last tick of the clock missed the mutex

misses == <<iconLost, tickLost>>
iconVars == <<lastIcon, image, visible, claimed>>
vars == <<desired, iconVars, sbDrawn, sbPc, wanted, sbOwner, lvglBusy, armed, started,
          undrawn, misses>>

Init == /\ desired \in Images \cup {NoImage, Unknown}
        /\ lastIcon = NoImage
        /\ image = NoImage
        /\ visible = FALSE
        /\ claimed = FALSE
        /\ sbDrawn = NoImage
        /\ sbPc = [t \in Threads |-> IF t = "main" THEN "add" ELSE "idle"]
        /\ wanted = [t \in Threads |-> NoImage]
        /\ sbOwner = "free"
        /\ lvglBusy = FALSE
        /\ armed = TRUE
        /\ started = FALSE
        /\ undrawn = FALSE
        /\ iconLost = FALSE
        /\ tickLost = FALSE

Step(t, here, there) == sbPc[t] = here /\ sbPc' = [sbPc EXCEPT ![t] = there]

(* lock(): at once, or not in time while another thread has the mutex. *)
Lock(t) == sbOwner = "free" /\ sbOwner' = t
LockTimeout(t) == sbOwner \notin {"free", t}

-----------------------------------------------------------------------------
(* publish() calls statusbar_pubsub_event(), the mutex is released. *)

(* update_icon(): what the widget makes of an icon. *)
Look == IF visible /\ claimed THEN image ELSE NoImage

Draw(t, here, there) == /\ Step(t, here, there)
                        /\ ~lvglBusy
                        /\ sbDrawn' = Look
                        /\ undrawn' = FALSE
                        /\ sbOwner' = "free"
                        /\ UNCHANGED <<desired, iconVars, wanted, lvglBusy, armed, started, misses>>

DrawTimeout(t, here, there) ==
    /\ Step(t, here, there)
    /\ lvglBusy
    /\ undrawn' = TRUE
    /\ sbOwner' = "free"
    /\ UNCHANGED <<desired, iconVars, sbDrawn, wanted, lvglBusy, armed, started, misses>>

Publish(t, here, there) == Draw(t, here, there) \/ DrawTimeout(t, here, there)

-----------------------------------------------------------------------------
(* The constructor of the service and the beginning of its onStart(). *)

IconAdd == /\ Step("main", "add", "drawAdded")
           /\ Lock("main")
           /\ claimed' = TRUE
           /\ UNCHANGED <<desired, lastIcon, image, visible, sbDrawn, wanted, lvglBusy, armed,
                          started, undrawn, misses>>

DrawAdded == Publish("main", "drawAdded", "update")

(* onUpdate(): the image is only set when it has changed, and stays as it is
   while the state of the SD card is not known.                            *)
Update(t) ==
    /\ IF desired \in {lastIcon, Unknown}
       THEN /\ Step(t, "update", "updated")
            /\ UNCHANGED <<wanted, iconLost>>
       ELSE /\ Step(t, "update", IF desired = NoImage THEN "hide" ELSE "setImage")
            /\ wanted' = [wanted EXCEPT ![t] = desired]
            /\ iconLost' = FALSE
    /\ UNCHANGED <<desired, iconVars, sbDrawn, sbOwner, lvglBusy, armed, started, undrawn, tickLost>>

(* statusbar_icon_set_image() *)
SetImage(t) ==
    \/ /\ Step(t, "setImage", "drawImage")
       /\ Lock(t)
       /\ image' = wanted[t]
       /\ UNCHANGED <<desired, lastIcon, visible, claimed, sbDrawn, wanted, lvglBusy, armed,
                      started, undrawn, misses>>
    \/ /\ Step(t, "setImage", "show")
       /\ LockTimeout(t)
       /\ iconLost' = TRUE
       /\ UNCHANGED <<desired, iconVars, sbDrawn, wanted, sbOwner, lvglBusy, armed, started, undrawn,
                      tickLost>>

DrawImage(t) == Publish(t, "drawImage", "show")

(* Mutation of SetVisible: the mutex is released before publish(). *)
SetVisibleQuietly(t) ==
    \E here \in {"show", "hide"} :
        /\ Step(t, here, "remember")
        /\ sbOwner = "free"
        /\ visible' = (here = "show")
        /\ UNCHANGED <<desired, lastIcon, image, claimed, sbDrawn, wanted, sbOwner, lvglBusy, armed,
                       started, undrawn, misses>>

(* statusbar_icon_set_visibility() *)
SetVisible(t) ==
    \E here \in {"show", "hide"} :
        \/ /\ Step(t, here, "drawVisible")
           /\ Lock(t)
           /\ visible' = (here = "show")
           /\ UNCHANGED <<desired, lastIcon, image, claimed, sbDrawn, wanted, lvglBusy, armed,
                          started, undrawn, misses>>
        \/ /\ Step(t, here, "remember")
           /\ LockTimeout(t)
           /\ iconLost' = TRUE
           /\ UNCHANGED <<desired, iconVars, sbDrawn, wanted, sbOwner, lvglBusy, armed, started,
                          undrawn, tickLost>>

DrawVisible(t) == Publish(t, "drawVisible", "remember")

(* Mutation of Remember: the state is read once more. *)
RememberLatest(t) == /\ Step(t, "remember", "updated")
                     /\ lastIcon' = desired
                     /\ UNCHANGED <<desired, image, visible, claimed, sbDrawn, wanted, sbOwner,
                                    lvglBusy, armed, started, undrawn, misses>>

(* The image counts as set, whatever became of the locks. *)
Remember(t) == /\ Step(t, "remember", "updated")
               /\ lastIcon' = wanted[t]
               /\ UNCHANGED <<desired, image, visible, claimed, sbDrawn, wanted, sbOwner, lvglBusy,
                              armed, started, undrawn, misses>>

(* The end of an update: main starts the service's timer. *)
Updated(t) == /\ Step(t, "updated", IF t = "main" THEN "done" ELSE "idle")
              /\ started' = (started \/ t = "main")
              /\ wanted' = [wanted EXCEPT ![t] = NoImage]
              /\ UNCHANGED <<desired, iconVars, sbDrawn, sbOwner, lvglBusy, armed, undrawn, misses>>

-----------------------------------------------------------------------------
(* The timer task *)

ServiceTimer == /\ Step("timer", "idle", "update")
                /\ started
                /\ UNCHANGED <<desired, iconVars, sbDrawn, wanted, sbOwner, lvglBusy, armed, started,
                               undrawn, misses>>

ClockTimer == /\ Step("timer", "idle", "clock")
              /\ armed
              /\ armed' = FALSE
              /\ UNCHANGED <<desired, iconVars, sbDrawn, wanted, sbOwner, lvglBusy, started, undrawn,
                             misses>>

(* Mutation of Clock: the clock waits for the time to be set. *)
ClockUnset == \/ /\ Step("timer", "clock", "drawClock")
                 /\ Lock("timer")
                 /\ armed' = TRUE
                 /\ UNCHANGED <<desired, iconVars, sbDrawn, wanted, lvglBusy, started, undrawn, misses>>
              \/ /\ Step("timer", "clock", "idle")
                 /\ sbOwner = "free"
                 /\ UNCHANGED <<desired, iconVars, sbDrawn, wanted, sbOwner, lvglBusy, armed, started,
                                undrawn, misses>>

(* onUpdateTime(): with the mutex the timer is started again, for a minute
   without a drawing if the time is not set yet; without it nothing is.    *)
Clock == \/ /\ Step("timer", "clock", "drawClock")
            /\ Lock("timer")
            /\ armed' = TRUE
            /\ UNCHANGED <<desired, iconVars, sbDrawn, wanted, lvglBusy, started, undrawn, misses>>
         \/ /\ Step("timer", "clock", "idle")
            /\ sbOwner = "free"
            /\ armed' = TRUE
            /\ UNCHANGED <<desired, iconVars, sbDrawn, wanted, sbOwner, lvglBusy, started, undrawn,
                           misses>>
         \/ /\ Step("timer", "clock", "idle")
            /\ LockTimeout("timer")
            /\ tickLost' = TRUE
            /\ UNCHANGED <<desired, iconVars, sbDrawn, wanted, sbOwner, lvglBusy, armed, started,
                           undrawn, iconLost>>

DrawClock == Publish("timer", "drawClock", "idle")

(* SystemEvent::Time: the clock's timer is stopped and started. *)
TimeEvent == /\ sbOwner = "free"
             /\ armed' = TRUE
             /\ tickLost' = FALSE
             /\ UNCHANGED <<desired, iconVars, sbDrawn, sbPc, wanted, sbOwner, lvglBusy, started,
                            undrawn, iconLost>>

-----------------------------------------------------------------------------
(* The rest of the system *)

StateChanges == /\ desired' \in (Images \cup {NoImage, Unknown}) \ {desired}
                /\ UNCHANGED <<iconVars, sbDrawn, sbPc, wanted, sbOwner, lvglBusy, armed, started,
                               undrawn, misses>>

LvglUse == /\ lvglBusy' = ~lvglBusy
           /\ UNCHANGED <<desired, iconVars, sbDrawn, sbPc, wanted, sbOwner, armed, started, undrawn,
                          misses>>

UpdateStep(t) == \/ Update(t) \/ SetImage(t) \/ DrawImage(t) \/ SetVisible(t)
                 \/ DrawVisible(t) \/ Remember(t) \/ Updated(t)

MainStep == IconAdd \/ DrawAdded \/ UpdateStep("main")
TimerStep == UpdateStep("timer") \/ Clock \/ DrawClock

Next == \/ MainStep \/ TimerStep \/ ServiceTimer \/ ClockTimer
        \/ TimeEvent \/ StateChanges \/ LvglUse

Spec == Init /\ [][Next]_vars

(* Both threads run, main is given the mutex in the end, and both timers expire
   again and again.                                                        *)
Fairness == /\ SF_vars(MainStep) /\ WF_vars(TimerStep)
            /\ SF_vars(ServiceTimer) /\ SF_vars(ClockTimer)

FairSpec == Spec /\ Fairness

-----------------------------------------------------------------------------
StatusbarTypeOK ==
    /\ desired \in Images \cup {NoImage, Unknown}
    /\ {lastIcon, image, sbDrawn} \subseteq Images \cup {NoImage}
    /\ {visible, claimed, lvglBusy, armed, started, undrawn, iconLost, tickLost} \subseteq BOOLEAN
    /\ sbOwner \in Threads \cup {"free"}

(* Whenever nobody changes the icons the widget shows them as they are, but
   for a last drawing that did not get the LVGL lock: the next one repairs it. *)
WidgetShowsIcons == sbOwner = "free" /\ ~undrawn => sbDrawn = Look

(* A state that stays is shown in the end, and goes on being shown.  What can
   prevent it is that the very change to it did not get the mutex, which no
   later update repairs, or that every last drawing misses the LVGL lock;
   a lock that an earlier change missed is no excuse.                      *)
IconFollowsState ==
    \A i \in Images \cup {NoImage} :
        <>[](desired = i) => <>[](sbDrawn = i) \/ <>[]iconLost \/ []<>undrawn

(* The clock goes on, unless a tick found the mutex taken for too long, and no
   event of the time has started the timer again.                          *)
ClockGoesOn == []<>(sbPc["timer"] = "clock") \/ <>[]tickLost
=============================================================================
