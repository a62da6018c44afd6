------------------------------ MODULE TimeZone ------------------------------
(***************************************************************************)
(* The time zone app (Tactility app/timezone/TimeZone.cpp).  Each change   *)
(* of the search text restarts a one-shot Timer.  Its callback, on the     *)
(* timer task, reads the zones that match the text, and then rebuilds the  *)
(* list: under the LVGL lock both times, but not in between, when the LVGL *)
(* thread may handle a click on an item of the old list.  An item is       *)
(* known by its index only.                                                *)
(*                                                                         *)
(* The app's own mutex is taken only by those who have the LVGL lock, so   *)
(* it is always free and left out.                                         *)
(***************************************************************************)
EXTENDS Naturals, Sequences, FiniteSets, SequencesExt

CONSTANTS
    Zones,      \* the lines of timezones.csv, a sequence of names
    Texts,      \* what may be typed, the empty text included
    Matches,    \* [Texts -> SUBSET names]: lowercase(name).find(filter)
    NoZone,     \* no zone, and what lies behind the end of `entries`
    MaxEntries  \* the "safety guard", 51 in the code

Names == ToSet(Zones)

TimeZoneParameters == MaxEntries \in Nat

VARIABLES
    tzText,     \* the text of the textarea
    tzEntries,  \* TimeZoneApp::entries
    tzList,     \* the items on the screen, in order
    tzShown,    \* the app is shown and its widgets exist
    tzTimer,    \* the one-shot timer is armed
    tzPc,       \* the callback: "idle", "read", "rebuild", or "dead"
    tzPicked,   \* <<label of the item clicked, name in the result>>
    tzStopping, \* stopApp() was called
    tzSkipped   \* history: a callback gave up since the list was last rebuilt

appSide == <<tzText, tzTimer, tzPicked, tzStopping>>
vars == <<appSide, tzEntries, tzList, tzShown, tzPc, tzSkipped>>

Init == /\ tzText \in Texts /\ Matches[tzText] = Names
        /\ tzEntries = <<>> /\ tzList = <<>>
        /\ tzShown = TRUE
        /\ tzTimer = FALSE
        /\ tzPc = "idle"
        /\ tzPicked = <<NoZone, NoZone>>
        /\ tzStopping = FALSE
        /\ tzSkipped = FALSE

(* readTimeZones(): the first lines whose name contains the text. *)
Found(text) ==
    LET kept[n \in 0 .. Len(Zones)] ==
            IF n = 0 THEN <<>>
            ELSE IF Zones[n] \in Matches[text] /\ Len(kept[n - 1]) < MaxEntries
            THEN Append(kept[n - 1], Zones[n])
            ELSE kept[n - 1]
    IN  kept[Len(Zones)]

-----------------------------------------------------------------------------
(* The LVGL thread *)

(* Mutation of Type: the timer is not started again while it runs. *)
TypeOnce(text) == /\ tzShown /\ tzPc # "dead"
                  /\ text # tzText
                  /\ tzText' = text
                  /\ tzTimer' = (~tzTimer /\ tzPc = "idle")
                  /\ UNCHANGED <<tzPicked, tzStopping, tzEntries, tzList, tzShown, tzPc, tzSkipped>>

Type(text) == /\ tzShown /\ tzPc # "dead"
              /\ text # tzText
              /\ tzText' = text
              /\ tzTimer' = TRUE
              /\ UNCHANGED <<tzPicked, tzStopping, tzEntries, tzList, tzShown, tzPc, tzSkipped>>

(* onListItemSelected() takes the entry at the index of the item, and stops
   the app.  Behind the end of the vector lies anything.  Only the first
   click is followed: another before the app is hidden replaces the result. *)
Select(i) == /\ tzShown /\ tzPc # "dead"
             /\ tzPicked[1] = NoZone
             /\ tzPicked' = <<tzList[i], IF i <= Len(tzEntries) THEN tzEntries[i] ELSE NoZone>>
             /\ tzStopping' = TRUE
             /\ UNCHANGED <<tzText, tzTimer, tzEntries, tzList, tzShown, tzPc, tzSkipped>>

(* The button of the toolbar stops the app without a result. *)
Close == /\ tzShown /\ tzPc # "dead"
         /\ ~tzStopping
         /\ tzStopping' = TRUE
         /\ UNCHANGED <<tzText, tzTimer, tzPicked, tzEntries, tzList, tzShown, tzPc, tzSkipped>>

(* The loader hides the app: its widgets are deleted.  Its timer goes on. *)
Hide == /\ tzShown /\ tzPc # "dead"
        /\ tzStopping
        /\ tzShown' = FALSE
        /\ tzList' = <<>>
        /\ UNCHANGED <<appSide, tzEntries, tzPc, tzSkipped>>

-----------------------------------------------------------------------------
(* The timer task *)

(* updateTimerCallback(): only if the app is the current one.  The loader
   changes the current app before it hides the old one.                    *)
Fire == /\ tzPc = "idle" /\ tzTimer
        /\ tzTimer' = FALSE
        /\ \/ tzShown /\ tzPc' = "read"
           \/ tzStopping /\ tzPc' = "idle"
        /\ UNCHANGED <<tzText, tzPicked, tzStopping, tzEntries, tzList, tzShown, tzSkipped>>

(* With the LVGL lock, or the widget is gone and this is the end. *)
Read == /\ tzPc = "read"
        /\ IF tzShown THEN tzPc' = "rebuild" /\ tzEntries' = Found(tzText)
                      ELSE tzPc' = "dead" /\ UNCHANGED tzEntries
        /\ UNCHANGED <<appSide, tzList, tzShown, tzSkipped>>

Rebuild == /\ tzPc = "rebuild"
           /\ IF tzShown THEN tzPc' = "idle" /\ tzList' = tzEntries
                         ELSE tzPc' = "dead" /\ UNCHANGED tzList
           /\ tzSkipped' = FALSE
           /\ UNCHANGED <<appSide, tzEntries, tzShown>>

(* Mutation of GiveUp: without the list, the entries are dropped, too. *)
GiveUpQuietly == /\ tzPc \in {"read", "rebuild"}
                 /\ tzPc' = "idle"
                 /\ UNCHANGED <<appSide, tzEntries, tzList, tzShown, tzSkipped>>

(* The LVGL lock was not to be had for 100 ms. *)
GiveUp == /\ tzPc \in {"read", "rebuild"}
          /\ tzPc' = "idle"
          /\ tzSkipped' = TRUE
          /\ UNCHANGED <<appSide, tzEntries, tzList, tzShown>>

Callback == Fire \/ Read \/ Rebuild \/ GiveUp

Next == \/ \E t \in Texts : Type(t)
        \/ \E i \in DOMAIN tzList : Select(i)
        \/ Close
        \/ Hide
        \/ Callback

Spec == Init /\ [][Next]_vars

(* The timer task runs. *)
Fairness == WF_vars(Callback)

FairSpec == Spec /\ Fairness

-----------------------------------------------------------------------------
TimeZoneTypeOK ==
    /\ tzText \in Texts
    /\ tzEntries \in BoundedSeq(Names, MaxEntries)
    /\ tzList \in BoundedSeq(Names, MaxEntries)
    /\ {tzShown, tzTimer, tzStopping, tzSkipped} \subseteq BOOLEAN
    /\ tzPc \in {"idle", "read", "rebuild", "dead"}
    /\ tzPicked \in (Names \cup {NoZone}) \X (Names \cup {NoZone})

(* The items on the screen are the entries their indices mean, and what is
   clicked is what is returned, except while a callback is between its two
   turns with the LVGL lock, or after it has lost the second.              *)
ItemsMeanEntries == tzShown /\ tzPc # "rebuild" /\ ~tzSkipped => tzList = tzEntries

(* A text that stays long enough gets its zones listed, unless a callback
   gave up since (which nothing repeats) or the app was told to stop.      *)
ListFollowsText ==
    \A t \in Texts \ {""} :
        (tzText = t) ~> \/ tzText # t \/ tzSkipped \/ tzStopping
                                   \/ tzList = Found(t)
=============================================================================
