------------------------------- MODULE SdCard -------------------------------
(***************************************************************************)
(* An SD card that shares its SPI bus with the display, as on the boards   *)
(* whose SpiSdCardDevice has the LVGL lock as its custom lock:             *)
(*   - the LVGL thread draws, with the lock;                               *)
(*   - the timer of SdCardService (service/sdcard/Sdcard.cpp) probes the   *)
(*     card and unmounts one that does not answer, without the lock.  The  *)
(*     service's own mutex is taken by nobody else;                        *)
(*   - a thread uses a file through withSdCardLock() (SdCardDevice.h).     *)
(* The card is mounted at boot (Hal.cpp) and never again.                  *)
(***************************************************************************)
VARIABLES
    card,      \* SpiSdCardDevice::card is not nullptr
    ejected,   \* the card is no longer in its slot
    sdBus,     \* who has the lock: "free", "lvgl", "service" or "user"
    probePc,   \* the timer: "idle", "wait", "status" or "unmount"
    probed,    \* the state that getState() is about to return to it
    userPc,    \* withSdCardLock(): "idle", "find", "status", "lock", "locked",
               \* "cardFile", "file" (not known to be on the card), or "dead"
               \* (it has used a nullptr)
    onCard,    \* the file in use is on the card
    stuck      \* history: esp_vfs_fat_sdcard_unmount() has failed

deviceVars == <<card, ejected>>
probeVars == <<probePc, probed, stuck>>
userVars == <<userPc, onCard>>
vars == <<deviceVars, sdBus, probeVars, userVars>>

Init == /\ card \in BOOLEAN
        /\ ejected = FALSE
        /\ sdBus = "free"
        /\ probePc = "idle" /\ probed = "Unknown"
        /\ userPc = "idle" /\ onCard = FALSE
        /\ stuck = FALSE

Lock(who) == sdBus = "free" /\ sdBus' = who
Unlock(who) == sdBus = who /\ sdBus' = "free"
Probing(here, there) == probePc = here /\ probePc' = there
Using(here, there) == userPc = here /\ userPc' = there

-----------------------------------------------------------------------------
Eject == /\ ~ejected
         /\ ejected' = TRUE
         /\ UNCHANGED <<card, sdBus, probeVars, userVars>>

Draw == Lock("lvgl") /\ UNCHANGED <<deviceVars, probeVars, userVars>>
Drawn == Unlock("lvgl") /\ UNCHANGED <<deviceVars, probeVars, userVars>>

-----------------------------------------------------------------------------
(* SdCardService::update() *)

(* getState() *)
Probe == /\ \/ card /\ Probing("idle", "wait") /\ UNCHANGED probed
            \/ ~card /\ Probing("idle", "idle") /\ probed' = "Unmounted"
         /\ UNCHANGED <<deviceVars, sdBus, stuck, userVars>>

ProbeLock == /\ Probing("wait", "status")
             /\ Lock("service")
             /\ UNCHANGED <<deviceVars, probed, stuck, userVars>>

(* Mutation of ProbeLockTimeout: the card is asked anyway. *)
ProbeUnlocked == /\ Probing("wait", "status")
                 /\ sdBus # "free"
                 /\ UNCHANGED <<deviceVars, sdBus, probed, stuck, userVars>>

ProbeLockTimeout == /\ Probing("wait", "idle")
                    /\ sdBus # "free"
                    /\ probed' = "Unknown"
                    /\ UNCHANGED <<deviceVars, sdBus, stuck, userVars>>

(* Mutation of Status: an error is taken for a card that is not there. *)
StatusUnmounted == /\ Probing("status", "idle")
                   /\ Unlock("service")
                   /\ probed' = IF ejected THEN "Unmounted" ELSE "Mounted"
                   /\ UNCHANGED <<deviceVars, stuck, userVars>>

(* sdmmc_get_status(), and ~ScopedLock() *)
Status == /\ Probing("status", IF ejected THEN "unmount" ELSE "idle")
          /\ Unlock("service")
          /\ probed' = IF ejected THEN "Error" ELSE "Mounted"
          /\ UNCHANGED <<deviceVars, stuck, userVars>>

(* unmount(), without the lock *)
Unmount == /\ Probing("unmount", "idle")
           /\ card' = FALSE
           /\ UNCHANGED <<ejected, sdBus, probed, stuck, userVars>>

UnmountFails == /\ Probing("unmount", "idle")
                /\ stuck' = TRUE
                /\ UNCHANGED <<deviceVars, sdBus, probed, userVars>>

-----------------------------------------------------------------------------
(* withSdCardLock(): find() asks the state of the card in its turn. *)

Find == /\ Using("idle", IF card THEN "find" ELSE "file")
        /\ onCard' \in BOOLEAN
        /\ UNCHANGED <<deviceVars, sdBus, probeVars>>

FindLock == /\ Using("find", "status")
            /\ Lock("user")
            /\ UNCHANGED <<deviceVars, probeVars, onCard>>

(* The state is unknown: the path is not taken for one of the card. *)
FindLockTimeout == /\ Using("find", "file")
                   /\ sdBus # "free"
                   /\ UNCHANGED <<deviceVars, sdBus, probeVars, onCard>>

(* The card may have been unmounted since Find. *)
FindStatus == /\ Using("status", CASE ~card -> "dead"
                                   [] card /\ ~ejected /\ onCard -> "lock"
                                   [] OTHER -> "file")
              /\ Unlock("user")
              /\ UNCHANGED <<deviceVars, probeVars, onCard>>

(* The scoped lock belongs to the block of the `if` ... *)
FileLock == /\ Using("lock", "locked")
            /\ Lock("user")
            /\ UNCHANGED <<deviceVars, probeVars, onCard>>

(* ... and is released where the block ends: fn() runs without it. *)
FileUnlock == /\ Using("locked", "cardFile")
              /\ Unlock("user")
              /\ UNCHANGED <<deviceVars, probeVars, onCard>>

FileDone == /\ Using("file", "idle") \/ Using("cardFile", "idle")
            /\ onCard' = FALSE
            /\ UNCHANGED <<deviceVars, sdBus, probeVars>>

ProbeStep == Probe \/ ProbeLock \/ ProbeLockTimeout \/ Status \/ Unmount \/ UnmountFails
UserStep == \/ Find \/ FindLock \/ FindLockTimeout \/ FindStatus
            \/ FileLock \/ FileUnlock \/ FileDone

Next == Eject \/ Draw \/ Drawn \/ ProbeStep \/ UserStep

Spec == Init /\ [][Next]_vars

(* Every thread runs. *)
Fairness == WF_vars(Drawn) /\ WF_vars(ProbeStep)

FairSpec == Spec /\ Fairness

-----------------------------------------------------------------------------
SdCardTypeOK ==
    /\ {card, ejected, onCard, stuck} \subseteq BOOLEAN
    /\ sdBus \in {"free", "lvgl", "service", "user"}
    /\ probePc \in {"idle", "wait", "status", "unmount"}
    /\ probed \in {"Mounted", "Unmounted", "Error", "Unknown"}
    /\ userPc \in {"idle", "find", "status", "lock", "locked", "file", "cardFile", "dead"}

(* What withSdCardLock() is for: the file of a path that was found to be on
   the card is not used while the display is drawn on the same bus.         *)
BusUsedAlone == userPc = "cardFile" => sdBus # "lvgl"

(* The service asks a card that exists, while nobody else uses the bus:
   getState() gives up when it does not get the lock.                      *)
ProbesAlone == probePc = "status" => card /\ sdBus = "service"

(* An ejected card is unmounted in the end, unless from some time on every
   tick fails to get the lock: one that says Unknown is followed by another. *)
EjectedIsUnmounted == <>[](probed # "Unknown") => (ejected ~> (~card \/ stuck))
=============================================================================
