----------------------------- MODULE I2cScanner -----------------------------
(***************************************************************************)
(* Tactility/Source/app/i2cscanner/I2cScanner.cpp: a bus is scanned on the *)
(* timer task, by the callback of a Timer that fires once, while the app's *)
(* handlers start, stop and restart scans.  The handlers and onShow() hold *)
(* the LVGL lock, so they exclude each other and the update of the views.  *)
(* The app's mutex is only held for one step.                              *)
(***************************************************************************)
EXTENDS Sequences, Naturals

CONSTANTS Ports,          \* the I2C ports
          StartedPorts,   \* those that have been started
          LastAddress,    \* 127 in the code
          Answering,      \* Answering[p]: the addresses of the devices on port p
          MaxPresses      \* bound on the starts of scans

Addresses == 0 .. LastAddress

I2cParameters == /\ {LastAddress, MaxPresses} \subseteq Nat
                 /\ \A p \in Ports \cap StartedPorts : Answering[p] \subseteq Addresses

VARIABLES
    scanState,   \* "Initial", "Scanning" or "Stopped"
    busPort,     \* I2cScannerApp::port
    addresses,   \* scannedAddresses
    timerSet,    \* scanTimer is there and has not fired
    appShown,    \* the app is on top of the loader's stack and has widgets
    selecting,   \* the handler is between the two parts of selectBus()
    button,      \* what updateViews() last showed, a state
    scanPc,      \* where the callback is; "dead" once it used deleted widgets
    address,     \* local of onScanTimer()
    presses,     \* number of scans started
    restarted,   \* history: a scan was started while a callback was running
    missed       \* history: the callback did not get the LVGL lock at its end

viewVars == <<appShown, selecting, button>>
scanVars == <<scanPc, address>>
historyVars == <<presses, restarted, missed>>
vars == <<scanState, busPort, addresses, timerSet, viewVars, scanVars, historyVars>>

Init == /\ scanState = "Initial"
        /\ busPort \in Ports
        /\ addresses = <<>>
        /\ timerSet = FALSE
        /\ appShown = TRUE
        /\ selecting = TRUE   \* onShow() calls selectBus()
        /\ button = "Initial"
        /\ scanPc = "idle"
        /\ address = 0
        /\ presses = 0
        /\ restarted = FALSE
        /\ missed = FALSE

-----------------------------------------------------------------------------
(* The handlers *)

(* stopScanning(), then updateViews() *)
PressStop == /\ appShown /\ ~selecting
             /\ scanState = "Scanning"
             /\ scanState' = "Stopped"
             /\ button' = "Stopped"
             /\ UNCHANGED <<busPort, addresses, timerSet, appShown, selecting, scanVars, historyVars>>

(* startScanning() and updateViews().  The new Timer replaces the one before it,
   which fires no more; a callback that is running goes on.                *)
StartScanning == /\ presses < MaxPresses
                 /\ presses' = presses + 1
                 /\ addresses' = <<>>
                 /\ scanState' = "Scanning"
                 /\ timerSet' = TRUE
                 /\ restarted' = (restarted \/ scanPc # "idle")
                 /\ button' = "Scanning"
                 /\ missed' = FALSE
                 /\ UNCHANGED <<busPort, appShown, scanVars>>

PressStart == /\ appShown /\ ~selecting
              /\ scanState # "Scanning"
              /\ StartScanning
              /\ UNCHANGED selecting

(* selectBus(): the state is Initial, and Stopped if there was a timer, until
   startScanning() sets it.  The dropdown is not clickable during a scan.  *)
SelectBus(p) == /\ appShown /\ ~selecting
                /\ button # "Scanning"
                /\ presses < MaxPresses
                /\ selecting' = TRUE
                /\ busPort' = p
                /\ addresses' = <<>>
                /\ scanState' = "Initial"
                /\ UNCHANGED <<timerSet, appShown, button, scanVars, historyVars>>

SelectStart == /\ selecting
               /\ StartScanning
               /\ selecting' = FALSE

(* onHide() stops a scan whose timer has not fired, and no other. *)
Hide == /\ appShown /\ ~selecting
        /\ appShown' = FALSE
        /\ scanState' = IF timerSet THEN "Stopped" ELSE scanState
        /\ UNCHANGED <<busPort, addresses, timerSet, selecting, button, scanVars, historyVars>>

-----------------------------------------------------------------------------
(* The callback *)

Scan(here, there) == scanPc = here /\ scanPc' = there

(* onScanTimerCallback() finds the app when it is on top. *)
Fire == /\ timerSet
        /\ timerSet' = FALSE
        /\ Scan("idle", CASE ~appShown -> "idle"
                          [] appShown /\ busPort \in StartedPorts -> "probe"
                          [] OTHER -> "finish")
        /\ address' = 0
        /\ UNCHANGED <<scanState, busPort, addresses, viewVars, historyVars>>

(* masterHasDeviceAtAddress() with the port that is now selected. *)
Probe == /\ Scan("probe", IF address \in Answering[busPort] THEN "found" ELSE "next")
         /\ UNCHANGED <<scanState, busPort, addresses, timerSet, address, viewVars, historyVars>>

(* shouldStopScanTimer(), then addAddressToList(), each with the mutex *)
Found == /\ Scan("found", IF scanState = "Scanning" THEN "add" ELSE "finish")
         /\ UNCHANGED <<scanState, busPort, addresses, timerSet, address, viewVars, historyVars>>

Add == /\ Scan("add", "next")
       /\ addresses' = Append(addresses, address)
       /\ UNCHANGED <<scanState, busPort, timerSet, address, viewVars, historyVars>>

(* Mutation of NextAddress: the loop ends one address early. *)
NextAddressEarly == /\ Scan("next", IF scanState = "Scanning" /\ address + 1 < LastAddress
                                    THEN "probe" ELSE "finish")
                    /\ address' = IF scanPc' = "probe" THEN address + 1 ELSE 0
                    /\ UNCHANGED <<scanState, busPort, addresses, timerSet, viewVars, historyVars>>

NextAddress == /\ Scan("next", IF scanState = "Scanning" /\ address < LastAddress
                               THEN "probe" ELSE "finish")
               /\ address' = IF scanPc' = "probe" THEN address + 1 ELSE 0
               /\ UNCHANGED <<scanState, busPort, addresses, timerSet, viewVars, historyVars>>

(* Mutation of Finish: the end of a scan leaves the state alone. *)
FinishQuietly == /\ Scan("finish", "update")
                 /\ UNCHANGED <<scanState, busPort, addresses, timerSet, address, viewVars, historyVars>>

(* onScanTimerFinished() *)
Finish == /\ Scan("finish", "update")
          /\ scanState' = IF scanState = "Scanning" THEN "Stopped" ELSE scanState
          /\ UNCHANGED <<busPort, addresses, timerSet, address, viewVars, historyVars>>

(* Mutation of Update: the views keep showing the scan. *)
UpdateNothing == /\ Scan("update", "idle")
                 /\ ~selecting
                 /\ UNCHANGED <<scanState, busPort, addresses, timerSet, address, viewVars, historyVars>>

(* updateViewsSafely() does not look whether the app is still shown: if it was
   hidden since Fire its widgets are gone, and this is the end.            *)
Update == /\ Scan("update", IF appShown THEN "idle" ELSE "dead")
          /\ ~selecting
          /\ button' = IF appShown THEN scanState ELSE button
          /\ UNCHANGED <<scanState, busPort, addresses, timerSet, appShown, selecting, address, historyVars>>

(* The time limit for the LVGL lock, which somebody else may hold. *)
UpdateTimeout == /\ Scan("update", "idle")
                 /\ missed' = TRUE
                 /\ UNCHANGED <<scanState, busPort, addresses, timerSet, address, viewVars, presses, restarted>>

CallbackStep == \/ Fire \/ Probe \/ Found \/ Add \/ NextAddress \/ Finish
                \/ Update \/ UpdateTimeout

Next == \/ PressStop \/ PressStart \/ SelectStart \/ Hide
        \/ \E p \in Ports : SelectBus(p)
        \/ CallbackStep

Spec == Init /\ [][Next]_vars

(* The timer task runs, and a handler ends. *)
Fairness == WF_vars(CallbackStep) /\ WF_vars(SelectStart)

FairSpec == Spec /\ Fairness

-----------------------------------------------------------------------------
I2cTypeOK == /\ scanState \in {"Initial", "Scanning", "Stopped"}
             /\ busPort \in Ports
             /\ addresses \in Seq(Addresses)
             /\ {timerSet, appShown, selecting, restarted, missed} \subseteq BOOLEAN
             /\ button \in {"Initial", "Scanning", "Stopped"}
             /\ scanPc \in {"idle", "probe", "found", "add", "next", "finish", "update", "dead"}
             /\ address \in Addresses
             /\ presses \in 0 .. MaxPresses

(* Whatever scans were stopped and restarted, what is listed was found by one
   of them: no address is listed twice, and they ascend.                   *)
ListAscends == \A i, j \in DOMAIN addresses : i < j => addresses[i] < addresses[j]

Expected == IF busPort \in StartedPorts THEN Answering[busPort] ELSE {}

(* A scan that was neither stopped nor started over lists what answers.  One
   that was started while the callback of another ran may list less: that
   callback goes on where it is, and ends the new scan.                    *)
ListIsComplete == scanPc = "update" /\ button = "Scanning" /\ appShown /\ ~restarted /\ ~selecting =>
                      {addresses[i] : i \in DOMAIN addresses} = Expected

(* A scan ends, unless the app is hidden first. *)
ScanEnds == scanState = "Scanning" ~> (scanState # "Scanning" \/ ~appShown)

(* With the callback over and its update done, the button shows the state. *)
ButtonFollows == scanPc \notin {"finish", "update"} /\ ~missed /\ appShown /\ ~selecting
                     => button = scanState
=============================================================================
