------------------------------ MODULE Restart ------------------------------
(***************************************************************************)
(* What survives a restart: the USB boot flag (hal/usb/Usb.cpp) and the    *)
(* crash data (TactilityCore kernel/PanicHandler.cpp) lie in RTC memory,   *)
(* which keeps its contents unless the power was cut.  The Boot app        *)
(* (app/boot/Boot.cpp) reads both on a thread of its own and starts either *)
(* the USB mass storage or the first app.  A panic may come at any time.   *)
(***************************************************************************)
EXTENDS Naturals

CONSTANTS MaxPanics, MaxRequests   \* bounds

RestartParameters == MaxPanics \in Nat /\ MaxRequests \in Nat \ {0}

VARIABLES
    bootFlag,     \* bootMode.flag = BOOT_FLAG
    crashData,    \* which panic the crash data is of; 0 for random contents
    resetReason,  \* esp_reset_reason(): "power", "software", "panic" or "watchdog"
    bootPc,       \* the boot: "start", "usb", "storage", "init", "next", and
                  \* how it ended: "massStorage", "splash" or "app"
    firstApp,     \* the app it started: "none", "CrashDiagnostics", "Launcher"
    reported,     \* the panic that CrashDiagnostics shows; 0 for none
    panics,       \* history: the number of panics
    requests,     \* history: the number of calls of rebootInto...()
    flagsFound,   \* history: flags that power-up made of random contents
    storageBoots  \* history: boots that tried to start the mass storage

rtc == <<bootFlag, crashData>>
boot == <<bootPc, firstApp, reported>>
history == <<panics, requests, flagsFound, storageBoots>>
vars == <<rtc, resetReason, boot, history>>

Reset(reason) == /\ resetReason' = reason
                 /\ bootPc' = "start"
                 /\ firstApp' = "none" /\ reported' = 0

Init == /\ bootFlag \in BOOLEAN
        /\ crashData = 0
        /\ resetReason = "power"
        /\ bootPc = "start" /\ firstApp = "none" /\ reported = 0
        /\ panics = 0 /\ requests = 0 /\ storageBoots = 0
        /\ flagsFound = IF bootFlag THEN 1 ELSE 0

-----------------------------------------------------------------------------
(* bootThreadCallback() *)
At(here) == bootPc = here

(* isUsbBootMode() *)
Start == /\ At("start")
         /\ bootPc' = IF bootFlag THEN "usb" ELSE "init"
         /\ UNCHANGED <<rtc, resetReason, firstApp, reported, history>>

(* Mutation of ResetFlag: the flag is left alone. *)
ResetNothing == /\ At("usb")
                /\ bootPc' = "storage"
                /\ UNCHANGED <<rtc, resetReason, firstApp, reported, history>>

(* resetUsbBootMode() *)
ResetFlag == /\ At("usb")
             /\ bootFlag' = FALSE
             /\ bootPc' = "storage"
             /\ UNCHANGED <<crashData, resetReason, firstApp, reported, history>>

(* startMassStorageWithSdmmc(): without a mounted card, or when the driver
   fails, the thread ends there and the splash screen stays.               *)
StartStorage == /\ At("storage")
                /\ bootPc' \in {"massStorage", "splash"}
                /\ storageBoots' = storageBoots + 1
                /\ UNCHANGED <<rtc, resetReason, firstApp, reported, panics, requests, flagsFound>>

(* initFromBootApp(), and stopApp() *)
InitApps == /\ At("init")
            /\ bootPc' = "next"
            /\ UNCHANGED <<rtc, resetReason, firstApp, reported, history>>

(* Mutation of StartNextApp: whenever there is crash data. *)
StartCrashApp == /\ At("next")
                 /\ bootPc' = "app"
                 /\ firstApp' = "CrashDiagnostics"
                 /\ reported' = crashData
                 /\ UNCHANGED <<rtc, resetReason, history>>

(* Mutation of StartNextApp: it looks for a restart by software. *)
StartAfterSoftware ==
    /\ At("next")
    /\ bootPc' = "app"
    /\ firstApp' = IF resetReason = "software" THEN "CrashDiagnostics" ELSE "Launcher"
    /\ reported' = IF resetReason = "software" THEN crashData ELSE 0
    /\ UNCHANGED <<rtc, resetReason, history>>

(* startNextApp(); CrashDiagnostics makes its QR code of the crash data. *)
StartNextApp ==
    /\ At("next")
    /\ bootPc' = "app"
    /\ IF resetReason = "panic"
       THEN firstApp' = "CrashDiagnostics" /\ reported' = crashData
       ELSE firstApp' = "Launcher" /\ reported' = 0
    /\ UNCHANGED <<rtc, resetReason, history>>

-----------------------------------------------------------------------------
(* UsbSettings: rebootIntoMassStorageSdmmc() sets the flag and restarts. *)
RequestFlag == /\ At("app") /\ ~bootFlag
               /\ requests < MaxRequests
               /\ bootFlag' = TRUE
               /\ requests' = requests + 1
               /\ UNCHANGED <<crashData, resetReason, boot, panics, flagsFound, storageBoots>>

Restarts == /\ At("app") /\ bootFlag
            /\ Reset("software")
            /\ UNCHANGED <<rtc, history>>

(* __wrap_esp_panic_handler() overwrites the data of an earlier panic.  A task or
   an interrupt that the watchdog found stuck comes here, too, and gives the
   restart a reason of its own.                                            *)
Panic == /\ panics < MaxPanics
         /\ panics' = panics + 1
         /\ crashData' = panics + 1
         /\ \E reason \in {"panic", "watchdog"} : Reset(reason)
         /\ UNCHANGED <<bootFlag, requests, flagsFound, storageBoots>>

(* The watchdog of the RTC restarts the chip without the handler. *)
HardReset == /\ Reset("watchdog")
             /\ UNCHANGED <<rtc, history>>

PowerCycle == /\ flagsFound < MaxRequests
              /\ bootFlag' \in BOOLEAN
              /\ crashData' = 0
              /\ flagsFound' = IF bootFlag' THEN flagsFound + 1 ELSE flagsFound
              /\ Reset("power")
              /\ UNCHANGED <<panics, requests, storageBoots>>

BootStep == Start \/ ResetFlag \/ StartStorage \/ InitApps \/ StartNextApp

Next == BootStep \/ RequestFlag \/ Restarts \/ Panic \/ HardReset \/ PowerCycle

Spec == Init /\ [][Next]_vars

(* The boot thread runs, and esp_restart() restarts. *)
Fairness == WF_vars(BootStep) /\ WF_vars(Restarts)

FairSpec == Spec /\ Fairness

-----------------------------------------------------------------------------
RestartTypeOK ==
    /\ bootFlag \in BOOLEAN
    /\ {crashData, reported, panics} \subseteq 0..MaxPanics
    /\ resetReason \in {"power", "software", "panic", "watchdog"}
    /\ bootPc \in {"start", "usb", "storage", "init", "next", "massStorage", "splash", "app"}
    /\ firstApp \in {"none", "CrashDiagnostics", "Launcher"}
    /\ {requests, flagsFound} \subseteq 0..MaxRequests
    /\ storageBoots \in 0..(2 * MaxRequests)

(* One request makes the device boot into the mass storage at most once,
   whatever panics in between: a panic of the USB driver is no boot loop.  *)
OneStorageBootPerRequest == storageBoots <= requests + flagsFound

(* The crash that is shown is the last one, and the one that restarted the
   device: random contents of the memory are never shown.                  *)
ShowsTheLastCrash == firstApp = "CrashDiagnostics" =>
                         reported = panics /\ panics > 0

(* After a restart by a panic the crash is shown in the end, unless another
   restart comes in between, or the device was to boot into the mass storage.
   (Boot does not look for a restart by the watchdog.)                     *)
PanicIsShown == \A n \in 1..MaxPanics :
    (resetReason = "panic" /\ panics = n) ~>
        \/ reported = n
        \/ panics > n \/ resetReason # "panic" \/ bootPc \in {"massStorage", "splash"}
=============================================================================
