---------------------------- MODULE MCLiveParts -----------------------------
(***************************************************************************)
(* Small instances of the components that promise to go on and that share  *)
(* nothing with each other, in one run: `part` says which of them moves,   *)
(* the others stay in one initial state.  Each property joins what its     *)
(* components promise in their own modules.  Thread is extended, so that   *)
(* TLC evaluates its assumption; the others are instances.                 *)
(***************************************************************************)
EXTENDS Thread, Sequences

CONSTANTS MaxShows, ClicksAskLoader, SoftKeyboard, MayStop, MaxJobs, NoDevice, u1, u2,
          MaxSessions, Ports, StartedPorts, LastAddress, MaxPresses, Apps, MaxPanics,
          MaxRequests, MaxTasks, AppIds, ScreenshotId, BufferSize, Images, NoImage, Unknown, Texts, NoZone,
          MaxEntries

Uarts == {u1, u2}
Answering == [p \in Ports |-> IF p = "p1" THEN {0, 2} ELSE {1, 2}]
Zones == <<"Aa", "Ab", "Bb">>
Matches == [t \in Texts |-> CASE t = "" -> {"Aa", "Ab", "Bb"}
                              [] t = "a" -> {"Aa", "Ab"}
                              [] OTHER -> {"Ab", "Bb"}]

VARIABLES
    part,
    \* Gui
    owner, pc, appToRender, shows, drawn, hidden, givenUp, notified, received, flags,
    cflags,
    \* EspNow
    jobs, mainPc, nowEnabled, radio, driver, leftOn, chat, msgList, chatPc, receiving,
    recvPc, sendPc, closedEarly,
    \* Gps
    gpsState, mpc, session, records, todo, current, fix, rpc, sentence, interrupted,
    devState, attached, subs, gpsUart, refused,
    \* I2cScanner
    scanState, busPort, addresses, timerSet, appShown, selecting, button, scanPc,
    address, presses, restarted, missed,
    \* PubSub
    psApp, psLife, psViews, subscribed, uiPc, pubPc, lvglOwner, appOwner, psOwner,
    \* Restart
    bootFlag, crashData, resetReason, bootPc, firstApp, reported, panics, requests,
    flagsFound, storageBoots,
    \* Screenshot
    task, shotMode, made, pressPc, old, kind, shotPc, seen, interrupt, finished,
    label, topApp, loaderPc,
    \* SdCard
    card, ejected, sdBus, probePc, probed, userPc, onCard, stuck,
    \* SerialConsole
    activeView, consPc, nextView, uartOpen, uartOn, readerPc, readerStop, drawerPc,
    drawerStop, position, stored, fresh,
    \* Statusbar
    desired, lastIcon, image, visible, claimed, sbDrawn, sbPc, wanted, sbOwner,
    lvglBusy, armed, started, undrawn, iconLost, tickLost,
    \* TimeZone
    tzText, tzEntries, tzList, tzShown, tzTimer, tzPc, tzPicked, tzStopping, tzSkipped

guiVars == <<owner, pc, appToRender, shows, drawn, hidden, givenUp, notified, received,
             flags, cflags>>
nowVars == <<jobs, mainPc, nowEnabled, radio, driver, leftOn, chat, msgList, chatPc,
             receiving, recvPc, sendPc, closedEarly>>
satVars == <<gpsState, mpc, session, records, todo, current, fix, rpc, sentence,
             interrupted, devState, attached, subs, gpsUart, refused>>
scanVars == <<scanState, busPort, addresses, timerSet, appShown, selecting, button,
              scanPc, address, presses, restarted, missed>>
pubVars == <<psApp, psLife, psViews, subscribed, uiPc, pubPc, lvglOwner, appOwner,
             psOwner>>
bootVars == <<bootFlag, crashData, resetReason, bootPc, firstApp, reported, panics,
              requests, flagsFound, storageBoots>>
shotVars == <<task, shotMode, made, pressPc, old, kind, shotPc, seen, interrupt,
              finished, label, topApp, loaderPc>>
sdVars == <<card, ejected, sdBus, probePc, probed, userPc, onCard, stuck>>
consVars == <<activeView, consPc, nextView, uartOpen, uartOn, readerPc, readerStop,
              drawerPc, drawerStop, position, stored, fresh>>
barVars == <<desired, lastIcon, image, visible, claimed, sbDrawn, sbPc, wanted, sbOwner,
             lvglBusy, armed, started, undrawn, iconLost, tickLost>>
zoneVars == <<tzText, tzEntries, tzList, tzShown, tzTimer, tzPc, tzPicked, tzStopping, tzSkipped>>
allVars == <<part, vars, guiVars, nowVars, satVars, scanVars, pubVars, bootVars, shotVars,
             sdVars, consVars, barVars, zoneVars>>

Gui1 == INSTANCE Gui
Now == INSTANCE EspNow
Sat == INSTANCE Gps
Scan == INSTANCE I2cScanner
Pub == INSTANCE PubSub
Boot == INSTANCE Restart
Shot == INSTANCE Screenshot
Sd == INSTANCE SdCard
Cons == INSTANCE SerialConsole
Bar == INSTANCE Statusbar
Zone == INSTANCE TimeZone

ASSUME InstanceParameters ==
    /\ Gui1!GuiParameters /\ Sat!GpsParameters /\ Scan!I2cParameters
    /\ Pub!PubSubParameters /\ Boot!RestartParameters /\ Shot!ScreenshotParameters
    /\ Cons!ConsoleParameters /\ Zone!TimeZoneParameters

PartsInit ==
    /\ part \in {"thread", "gui", "now", "gps", "scan", "pubsub", "boot", "shot", "sd",
                "console", "bar", "zone"}
    /\ Init
    /\ Gui1!Init
    /\ Now!Init /\ (part # "now" => radio = "Off")
    /\ Sat!Init
    /\ Scan!Init /\ (part # "scan" => busPort = "p1")
    /\ Pub!Init /\ (part # "pubsub" => psApp = "manage")
    /\ Boot!Init /\ (part # "boot" => ~bootFlag)
    /\ Shot!Init /\ (part # "shot" => topApp = "a")
    /\ Sd!Init /\ (part # "sd" => card)
    /\ Cons!Init
    /\ Bar!Init /\ (part # "bar" => desired = NoImage)
    /\ Zone!Init

(* Of the components only the one that `part` names moves. *)
Rest ==
    /\ UNCHANGED part
    /\ IF part = "thread" THEN TRUE ELSE UNCHANGED vars
    /\ IF part = "gui" THEN TRUE ELSE UNCHANGED guiVars
    /\ IF part = "now" THEN TRUE ELSE UNCHANGED nowVars
    /\ IF part = "gps" THEN TRUE ELSE UNCHANGED satVars
    /\ IF part = "scan" THEN TRUE ELSE UNCHANGED scanVars
    /\ IF part = "pubsub" THEN TRUE ELSE UNCHANGED pubVars
    /\ IF part = "boot" THEN TRUE ELSE UNCHANGED bootVars
    /\ IF part = "shot" THEN TRUE ELSE UNCHANGED shotVars
    /\ IF part = "sd" THEN TRUE ELSE UNCHANGED sdVars
    /\ IF part = "console" THEN TRUE ELSE UNCHANGED consVars
    /\ IF part = "bar" THEN TRUE ELSE UNCHANGED barVars
    /\ IF part = "zone" THEN TRUE ELSE UNCHANGED zoneVars

PartsNext ==
    \/ part = "thread" /\ Next /\ Rest
    \/ part = "gui" /\ Gui1!Next /\ Rest
    \/ part = "now" /\ Now!Next /\ Rest
    \/ part = "gps" /\ Sat!Next /\ Rest
    \/ part = "scan" /\ Scan!Next /\ Rest
    \/ part = "pubsub" /\ Pub!Next /\ Rest
    \/ part = "boot" /\ Boot!Next /\ Rest
    \/ part = "shot" /\ Shot!Next /\ Rest
    \/ part = "sd" /\ Sd!Next /\ Rest
    \/ part = "console" /\ Cons!Next /\ Rest
    \/ part = "bar" /\ Bar!Next /\ Rest
    \/ part = "zone" /\ Zone!Next /\ Rest

-----------------------------------------------------------------------------
(* The fairness of the components.  As `part` does not change, fairness of a
   disjunction with one disjunct for each component is fairness of that disjunct
   for the component that moves.                                             *)

(* The variables of the component that moves. *)
moving == CASE part = "thread" -> vars
            [] part = "gui" -> guiVars
            [] part = "now" -> nowVars
            [] part = "gps" -> satVars
            [] part = "scan" -> scanVars
            [] part = "pubsub" -> pubVars
            [] part = "boot" -> bootVars
            [] part = "shot" -> shotVars
            [] part = "sd" -> sdVars
            [] part = "console" -> consVars
            [] part = "bar" -> barVars
            [] part = "zone" -> zoneVars

Device == <<<<u1, 1>>, <<u1, 2>>, <<u2, 1>>, <<u2, 2>>>>

Weak1 == \/ part = "thread" /\ OwnerStep
         \/ part = "gui" /\ Gui1!GuiStep
         \/ part = "scan" /\ Scan!CallbackStep
         \/ part = "boot" /\ Boot!BootStep
         \/ part = "shot" /\ Shot!PressStep
         \/ part = "sd" /\ Sd!Drawn
         \/ part = "console" /\ Cons!HandlerStep
         \/ part = "bar" /\ Bar!TimerStep
         \/ part = "zone" /\ Zone!Callback
         \/ part = "gps" /\ Sat!ReceiverStep(Device[1])

Weak2 == \/ part = "gui" /\ Gui1!ShowStep
         \/ part = "scan" /\ Scan!SelectStart
         \/ part = "boot" /\ Boot!Restarts
         \/ part = "sd" /\ Sd!ProbeStep
         \/ part = "console" /\ Cons!ReaderStep
         \/ part = "thread" /\ TaskStep(1)
         \/ part = "gps" /\ Sat!ReceiverStep(Device[2])

Weak3 == \/ part = "gui" /\ Gui1!HideStep
         \/ part = "thread" /\ TaskStep(2)
         \/ part = "gps" /\ Sat!ReceiverStep(Device[3])

Weak4 == \/ part = "gui" /\ Gui1!LvglStep
         \/ part = "thread" /\ TaskStep(3)
         \/ part = "gps" /\ Sat!ReceiverStep(Device[4])

Weak5 == \/ part = "gui" /\ \E t \in Gui1!Threads : Gui1!LockCheckFails(t)
         \/ part = "thread" /\ TaskStep(4)

Strong1 == \/ part = "gui" /\ Gui1!RedrawLvgl
           \/ part = "now" /\ Now!MainStep
           \/ part = "gps" /\ Sat!MainStep
           \/ part = "pubsub" /\ Pub!HookStep
           \/ part = "shot" /\ Shot!TimerTick
           \/ part = "console" /\ Cons!DrawerStep
           \/ part = "bar" /\ Bar!MainStep

Strong2 == \/ part = "gui" /\ Gui1!RedrawLock
           \/ part = "now" /\ Now!ChatStep
           \/ part = "pubsub" /\ Pub!PublishStep
           \/ part = "shot" /\ Shot!TaskStep(1)
           \/ part = "console" /\ Cons!DrawerLock
           \/ part = "bar" /\ Bar!ServiceTimer

Strong3 == \/ part = "gui" /\ Gui1!HideAppLvgl
           \/ part = "now" /\ Now!Send
           \/ part = "shot" /\ Shot!TaskStep(2)
           \/ part = "bar" /\ Bar!ClockTimer

Strong4 == \/ part = "gui" /\ Gui1!ShowAppLock
           \/ part = "now" /\ Now!ReceiveStep
           \/ part = "shot" /\ Shot!LoaderStep

Strong5 == \/ part = "gui" /\ Gui1!HideAppLock

PartsFairness ==
    /\ WF_moving(Weak1 /\ UNCHANGED part)
    /\ WF_moving(Weak2 /\ UNCHANGED part)
    /\ WF_moving(Weak3 /\ UNCHANGED part)
    /\ WF_moving(Weak4 /\ UNCHANGED part)
    /\ WF_moving(Weak5 /\ UNCHANGED part)
    /\ SF_moving(Strong1 /\ UNCHANGED part)
    /\ SF_moving(Strong2 /\ UNCHANGED part)
    /\ SF_moving(Strong3 /\ UNCHANGED part)
    /\ SF_moving(Strong4 /\ UNCHANGED part)
    /\ SF_moving(Strong5 /\ UNCHANGED part)

PartsSpec == PartsInit /\ [][PartsNext]_allVars /\ PartsFairness

-----------------------------------------------------------------------------
(* The types of the variables of the component that moves; the others stay as they
   began. *)
TypesOK ==
    /\ (part = "thread" => TypeOK)
    /\ (part = "gui" => Gui1!TypeOK)
    /\ (part = "now" => Now!EspNowTypeOK)
    /\ (part = "gps" => Sat!GpsTypeOK)
    /\ (part = "scan" => Scan!I2cTypeOK)
    /\ (part = "pubsub" => Pub!PubSubTypeOK)
    /\ (part = "boot" => Boot!RestartTypeOK)
    /\ (part = "shot" => Shot!ScreenshotTypeOK)
    /\ (part = "sd" => Sd!SdCardTypeOK)
    /\ (part = "console" => Cons!ConsoleTypeOK)
    /\ (part = "bar" => Bar!StatusbarTypeOK)
    /\ (part = "zone" => Zone!TimeZoneTypeOK)

(* No callback and no thread uses an app, a device or a buffer that is gone:
   the subscribers of ESP-NOW and of PubSub, GPS receivers, screenshot tasks
   and the threads of the serial console; and none draws on the views of a
   shown app that has none. (Chat also draws before it is shown and after it
   was hidden, when its list is not there: ChatApp.cpp:73.) *)
OnlyLiveIsUsed ==
    /\ Now!DeliversToLiveApp
    /\ Sat!ReceiverHasDevice
    /\ Pub!CallsLiveApp
    /\ Pub!UpdatesShownViews
    /\ Shot!ThreadHasTask
    /\ Cons!ThreadsUseLiveObjects

(* The radio, a UART and the bus of the SD card have one user at a time
   (EspNowService, GpsDevice, SpiSdCardDevice). *)
UsedAlone ==
    /\ Now!OneRadioUser
    /\ Sat!UartNeverRefused
    /\ Sd!ProbesAlone

(* What was switched off has let go of everything: ESP-NOW when Chat is
   closed, unless its enable() was still queued or a call of the driver
   failed, the GPS, the serial console. *)
OffIsQuiet ==
    /\ Now!OffWhenClosed
    /\ Sat!QuietWhenOff
    /\ Cons!QuietUnlessConsole

(* The user sees what is so: the addresses and the button of the I2C scanner,
   the app that boot starts, the icons of the statusbar, the list of time
   zones. *)
ShownIsTrue ==
    /\ Scan!ListAscends
    /\ Scan!ListIsComplete
    /\ Scan!ButtonFollows
    /\ Boot!ShowsTheLastCrash
    /\ Boot!OneStorageBootPerRequest
    /\ Bar!WidgetShowsIcons
    /\ Zone!ItemsMeanEntries

(* What was begun ends, but for the deadlocks that the formulas of the
   components name: join(), Chat and its calls, a stop of the GPS, a scan of
   the bus, hooks and publish(), a press of the screenshot button, leaving the
   serial console. *)
BegunEnds ==
    /\ (part = "thread" => JoinReturns)
    /\ (part = "now" => Now!ChatGoesOn)
    /\ (part = "gps" => Sat!StopEndsOrDeadlocks)
    /\ (part = "scan" => Scan!ScanEnds)
    /\ (part = "pubsub" => Pub!HooksEndOrCross)
    /\ (part = "pubsub" => Pub!PublishEndsOrCrosses)
    /\ (part = "shot" => Shot!PressEndsOrDeadlocks)
    /\ (part = "console" => Cons!LeaveEnds)

(* What is shown catches up with what is so: apps, a panic, the screenshot
   button, an ejected card, the text of the serial console once its buffer was
   filled, the icons and the clock of the statusbar, the time zones; but for
   the lost locks and the deadlocks that the formulas of the components name.
   *)
StateCatchesUp ==
    /\ (part = "gui" => Gui1!ShownGetsDrawn)
    /\ (part = "boot" => Boot!PanicIsShown)
    /\ (part = "shot" => Shot!LabelSettles)
    /\ (part = "sd" => Sd!EjectedIsUnmounted)
    /\ (part = "console" => Cons!ReceivedIsRendered)
    /\ (part = "bar" => Bar!IconFollowsState)
    /\ (part = "bar" => Bar!ClockGoesOn)
    /\ (part = "zone" => Zone!ListFollowsText)
=============================================================================
