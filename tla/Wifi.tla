-------------------------------- MODULE Wifi --------------------------------
(***************************************************************************)
(* Tactility/Source/service/wifi/WifiEsp.cpp: the radio state machine.     *)
(* Its public functions only post requests to the main dispatcher (module  *)
(* Dispatcher), whose thread works them off one by one with radioMutex.    *)
(* The ESP-IDF event loop calls eventHandler() on a thread of its own, and *)
(* it reads and writes the radio state without radioMutex.  Every access   *)
(* to the state takes dataMutex, hence is one step.                        *)
(*                                                                         *)
(* The ESP-IDF Wi-Fi driver is external.  It accepts calls after init,     *)
(* posts events to the loop, and answers a connection attempt in the end.  *)
(***************************************************************************)
EXTENDS Naturals, Sequences

CONSTANTS MaxStimuli,    \* bound on the calls of the public functions, the scans
                         \* of the timer and the connections lost
          MaxRequests,   \* bound on the requests waiting, for callers
          MaxHandlers,   \* bound on the registrations of eventHandler()
          DriverMayFail  \* init, start and set_config may fail at will

ASSUME WifiAssumption == /\ MaxStimuli \in Nat /\ MaxRequests \in Nat
                         /\ MaxHandlers \in Nat \ {0}
                         /\ DriverMayFail \in BOOLEAN

RadioStates == {"OnPending", "On", "ConnectionPending", "ConnectionActive",
                "OffPending", "Off"}
Requests == {"Enable", "Disable", "Scan", "Connect", "Disconnect", "AutoConnect"}
Events == {"STA_START", "STA_DISCONNECTED", "STA_GOT_IP", "SCAN_DONE"}
Bits == {"CONNECTED", "FAIL"}

VARIABLES
    radio,        \* Wifi::radio_state
    scanActive,   \* Wifi::scan_active
    pause,        \* Wifi::pause_auto_connect
    waitFlags,    \* Wifi::connection_wait_flags
    netif,        \* Wifi::netif # nullptr
    scanList,     \* Wifi::scan_list has records
    handlers,     \* how often eventHandler() is registered
    requests,     \* the queue of the main dispatcher
    mpc,          \* where the main thread is in a dispatch...() function
    bits,         \* local of dispatchConnect()
    hpc,          \* where the event loop is in eventHandler()
    event,        \* the event it handles
    hleft,        \* the registrations still to be called with that event
    hstate,       \* the radio state it has read
    copied,       \* copied_list of eventHandler()
    inited, started,   \* the driver after esp_wifi_init(), esp_wifi_start()
    sta,          \* the driver's station
    scanning,     \* the driver scans
    events,       \* the events the driver has posted
    stimuli,      \* number of calls, timer scans and connections lost
    manual        \* history: disconnect() was called on a connection, and
                  \* neither connect() nor setEnabled() since

wifiVars == <<radio, scanActive, pause, waitFlags, netif, scanList, handlers>>
mainVars == <<mpc, bits>>
loopVars == <<hpc, event, hleft, hstate, copied>>
driverVars == <<inited, started, sta, scanning, events>>
callVars == <<stimuli, manual>>
vars == <<wifiVars, requests, mainVars, loopVars, driverVars, callVars>>

(* onStart() posts an Enable if the settings say so. *)
Init == /\ radio = "Off"
        /\ scanActive = FALSE /\ pause = FALSE /\ waitFlags = {}
        /\ netif = FALSE /\ scanList = FALSE /\ handlers = 0
        /\ requests \in {<<>>, <<"Enable">>}
        /\ mpc = "idle" /\ bits = {}
        /\ hpc = "idle" /\ event = "STA_START" /\ hleft = 0 /\ hstate = "Off"
        /\ copied = FALSE
        /\ inited = FALSE /\ started = FALSE /\ sta = "idle" /\ scanning = FALSE
        /\ events = <<>>
        /\ stimuli = 0 /\ manual = FALSE

-----------------------------------------------------------------------------
(* The public functions.  One that finds dataMutex taken for 10 ms returns
   without effect.                                                         *)

Stimulus == stimuli < MaxStimuli /\ stimuli' = stimuli + 1

Call == /\ Stimulus
        /\ Len(requests) < MaxRequests
        /\ UNCHANGED <<mainVars, loopVars, driverVars, radio, scanActive, waitFlags,
                       netif, scanList, handlers>>

(* The requests of connect(): the radio is to be enabled first if it is Off. *)
ConnectRequests == IF radio = "Off" THEN <<"Enable", "Connect">> ELSE <<"Connect">>

UserConnect == /\ Call
               /\ pause' = TRUE
               /\ requests' = requests \o ConnectRequests
               /\ manual' = FALSE

UserDisconnect == /\ Call
                  /\ pause' = TRUE
                  /\ requests' = Append(requests, "Disconnect")
                  /\ manual' = (radio = "ConnectionActive")

SetEnabled(request) == /\ Call
                       /\ pause' = FALSE
                       /\ requests' = Append(requests, request)
                       /\ manual' = FALSE

UserScan == /\ Call
            /\ requests' = Append(requests, "Scan")
            /\ UNCHANGED <<pause, manual>>

(* onAutoConnectTimer(), when the last scan is long enough ago. *)
AutoConnectTimer ==
    /\ Stimulus
    /\ Len(requests) < MaxRequests
    /\ radio = "On" /\ ~scanActive /\ ~pause
    /\ requests' = Append(requests, "Scan")
    /\ UNCHANGED <<wifiVars, mainVars, loopVars, driverVars, manual>>

-----------------------------------------------------------------------------
(* The driver *)

Post(e) == events' = Append(events, e)

(* esp_wifi_stop() on an initialized driver: a connection ends with an event, and
   so does a scan.                                                         *)
StopDriver ==
    /\ started' = FALSE /\ sta' = "idle" /\ scanning' = FALSE
    /\ events' = events \o (IF sta # "idle" THEN <<"STA_DISCONNECTED">> ELSE <<>>)
                        \o (IF scanning THEN <<"SCAN_DONE">> ELSE <<>>)
    /\ UNCHANGED inited

(* esp_wifi_start() *)
StartDriver == /\ started' = TRUE
               /\ IF started THEN UNCHANGED events ELSE Post("STA_START")
               /\ UNCHANGED <<sta, scanning>>

DriverPosts(from, to, e) ==
    /\ sta = from /\ sta' = to
    /\ Post(e)
    /\ UNCHANGED <<wifiVars, requests, mainVars, loopVars, inited, started, scanning,
                   manual>>

StationConnects == /\ DriverPosts("connecting", "connected", "STA_GOT_IP")
                   /\ UNCHANGED stimuli
StationFails == /\ DriverPosts("connecting", "idle", "STA_DISCONNECTED")
                /\ UNCHANGED stimuli
StationLost == Stimulus /\ DriverPosts("connected", "idle", "STA_DISCONNECTED")

ScanEnds == /\ scanning
            /\ scanning' = FALSE
            /\ Post("SCAN_DONE")
            /\ UNCHANGED <<wifiVars, requests, mainVars, loopVars, inited, started,
                           sta, callVars>>

-----------------------------------------------------------------------------
(* The main thread *)

Begin(request) == /\ mpc = "idle"
                  /\ requests # <<>>
                  /\ Head(requests) = request
                  /\ requests' = Tail(requests)

MainGoto(there) == mpc' = there
At(here) == mpc = here /\ UNCHANGED requests

(* A guard of the requested function says no. *)
Refused(request) ==
    CASE request = "Enable" -> radio \in {"On", "OnPending", "OffPending"}
      [] request = "Disable" -> radio \in {"Off", "OffPending", "OnPending"}
      [] request = "Scan" -> \/ radio \notin {"On", "ConnectionActive", "ConnectionPending"}
                             \/ scanActive
                             \/ ~started \/ sta = "connecting"
      [] request = "Disconnect" -> ~inited
      [] request = "AutoConnect" -> TRUE   \* no known access point in the list
      [] OTHER -> FALSE

Refuse(request) == /\ Begin(request)
                   /\ Refused(request)
                   /\ UNCHANGED <<wifiVars, mainVars, loopVars, driverVars, callVars>>

(* Mutant: the netif is left to somebody else. *)
EnableWithoutNetif ==
    /\ Begin("Enable")
    /\ ~Refused("Enable")
    /\ handlers < MaxHandlers
    /\ radio' = "OnPending"
    /\ MainGoto("enableInit")
    /\ UNCHANGED <<scanActive, pause, waitFlags, netif, scanList, handlers, bits,
                   loopVars, driverVars, callVars>>

(* dispatchEnable(): OnPending and a new netif ... *)
Enable == /\ Begin("Enable")
          /\ ~Refused("Enable")
          /\ handlers < MaxHandlers   \* bound
          /\ radio' = "OnPending"
          /\ netif' = TRUE
          /\ MainGoto("enableInit")
          /\ UNCHANGED <<scanActive, pause, waitFlags, scanList, handlers, bits,
                         loopVars, driverVars, callVars>>

(* Mutant: the handler is not registered. *)
RegisterForgotten == handlers' = handlers

Register == handlers' = handlers + 1

(* ... esp_wifi_init(), both handlers, set_mode() and start() ... *)
EnableInit == /\ At("enableInit")
              /\ Register
              /\ inited' = TRUE
              /\ StartDriver
              /\ MainGoto("enableOn")
              /\ UNCHANGED <<radio, scanActive, pause, waitFlags, netif, scanList,
                             bits, loopVars, callVars>>

(* ... of which init() fails, or what follows the registration.  None of these calls
   has anything to do, or fails, on a driver that is started already.      *)
EnableFails == /\ At("enableInit")
               /\ DriverMayFail
               /\ ~started
               /\ Register \/ (~inited /\ UNCHANGED handlers)
               /\ radio' = "Off"
               /\ inited' = FALSE
               /\ MainGoto("idle")
               /\ UNCHANGED <<scanActive, pause, waitFlags, netif, scanList, bits,
                              loopVars, started, sta, scanning, events, callVars>>

EnableOn == /\ At("enableOn")
            /\ radio' = "On"
            /\ pause' = FALSE
            /\ MainGoto("idle")
            /\ UNCHANGED <<scanActive, waitFlags, netif, scanList, handlers, bits,
                           loopVars, driverVars, callVars>>

(* dispatchDisable(): OffPending, and the scan list is freed. *)
Disable == /\ Begin("Disable")
           /\ ~Refused("Disable")
           /\ radio' = "OffPending"
           /\ scanList' = FALSE
           /\ MainGoto("disableStop")
           /\ UNCHANGED <<scanActive, pause, waitFlags, netif, handlers, bits,
                          loopVars, driverVars, callVars>>

(* Mutant: the driver is shut down without being stopped. *)
DisableStopUnchecked ==
    /\ At("disableStop")
    /\ MainGoto("disableOff")
    /\ UNCHANGED <<wifiVars, bits, driverVars, loopVars, callVars>>

(* esp_wifi_stop(), which only an initialized driver obeys. *)
DisableStop == /\ At("disableStop")
               /\ IF inited THEN /\ StopDriver
                                 /\ MainGoto("disableOff")
                                 /\ UNCHANGED radio
                            ELSE /\ radio' = "On"
                                 /\ MainGoto("idle")
                                 /\ UNCHANGED driverVars
               /\ UNCHANGED <<scanActive, pause, waitFlags, netif, scanList, handlers,
                              bits, loopVars, callVars>>

(* The handler is unregistered, which waits for the event loop to leave it; then
   esp_wifi_deinit(), and the assert that there is a netif.                *)
DisableOff == /\ At("disableOff")
              /\ hpc = "idle"
              /\ handlers' = handlers - 1
              /\ inited' = FALSE
              /\ netif' = FALSE
              /\ scanActive' = FALSE
              /\ radio' = "Off"
              /\ MainGoto(IF netif THEN "idle" ELSE "crashed")
              /\ UNCHANGED <<pause, waitFlags, scanList, bits, loopVars, started, sta,
                             scanning, events, callVars>>

(* dispatchScan(): the driver starts, then the scan is marked active. *)
Scan == /\ Begin("Scan")
        /\ ~Refused("Scan")
        /\ scanning' = TRUE
        /\ MainGoto("scanStarted")
        /\ UNCHANGED <<wifiVars, bits, loopVars, inited, started, sta, events, callVars>>

ScanStarted == /\ At("scanStarted")
               /\ scanActive' = TRUE
               /\ MainGoto("idle")
               /\ UNCHANGED <<radio, pause, waitFlags, netif, scanList, handlers, bits,
                              loopVars, driverVars, callVars>>

(* dispatchConnect(): a radio that is on is stopped first. *)
RadioUp == radio \in {"On", "ConnectionActive", "ConnectionPending"}

Connect == /\ Begin("Connect")
           /\ scanActive' = FALSE
           /\ IF RadioUp /\ inited THEN StopDriver ELSE UNCHANGED driverVars
           /\ MainGoto(IF RadioUp /\ ~inited THEN "idle" ELSE "connectPending")
           /\ UNCHANGED <<radio, pause, waitFlags, netif, scanList, handlers, bits,
                          loopVars, callVars>>

ConnectPending == /\ At("connectPending")
                  /\ radio' = "ConnectionPending"
                  /\ scanActive' = FALSE
                  /\ MainGoto("connectStart")
                  /\ UNCHANGED <<pause, waitFlags, netif, scanList, handlers, bits,
                                 loopVars, driverVars, callVars>>

(* esp_wifi_set_config() and esp_wifi_start() *)
ConnectStart == /\ At("connectStart")
                /\ inited
                /\ StartDriver
                /\ MainGoto("connectWait")
                /\ UNCHANGED <<wifiVars, bits, inited, loopVars, callVars>>

ConnectFails == /\ At("connectStart")
                /\ ~inited \/ DriverMayFail
                /\ radio' = "On"
                /\ MainGoto("idle")
                /\ UNCHANGED <<scanActive, pause, waitFlags, netif, scanList, handlers,
                               bits, loopVars, driverVars, callVars>>

(* The wait without a time limit clears both bits when it returns. *)
ConnectWoken == /\ At("connectWait")
                /\ waitFlags # {}
                /\ bits' = waitFlags
                /\ waitFlags' = {}
                /\ MainGoto("connectDone")
                /\ UNCHANGED <<radio, scanActive, pause, netif, scanList, handlers,
                               loopVars, driverVars, callVars>>

(* Mutant: a failed connection leaves the state to the event loop. *)
ConnectDoneUnset ==
    /\ At("connectDone")
    /\ radio' = IF "CONNECTED" \in bits THEN "ConnectionActive" ELSE radio
    /\ MainGoto("connectClear")
    /\ UNCHANGED <<scanActive, pause, waitFlags, netif, scanList, handlers,
                   bits, loopVars, driverVars, callVars>>

ConnectDone == /\ At("connectDone")
               /\ radio' = IF "CONNECTED" \in bits THEN "ConnectionActive" ELSE "On"
               /\ MainGoto("connectClear")
               /\ UNCHANGED <<scanActive, pause, waitFlags, netif, scanList, handlers,
                              bits, loopVars, driverVars, callVars>>

ConnectClear == /\ At("connectClear")
                /\ waitFlags' = {}
                /\ bits' = {}
                /\ MainGoto("idle")
                /\ UNCHANGED <<radio, scanActive, pause, netif, scanList, handlers,
                               loopVars, driverVars, callVars>>

(* dispatchDisconnectButKeepActive() *)
Disconnect == /\ Begin("Disconnect")
              /\ ~Refused("Disconnect")
              /\ StopDriver
              /\ MainGoto("disconnectStart")
              /\ UNCHANGED <<wifiVars, bits, loopVars, callVars>>

DisconnectStart == /\ At("disconnectStart")
                   /\ StartDriver
                   /\ MainGoto("disconnectOn")
                   /\ UNCHANGED <<wifiVars, bits, inited, loopVars, callVars>>

(* "radio state is in limbo between off and on" *)
DisconnectFails == /\ At("disconnectStart")
                   /\ DriverMayFail
                   /\ radio' = "Off"
                   /\ MainGoto("idle")
                   /\ UNCHANGED <<scanActive, pause, waitFlags, netif, scanList,
                                  handlers, bits, loopVars, driverVars, callVars>>

DisconnectOn == /\ At("disconnectOn")
                /\ radio' = "On"
                /\ MainGoto("idle")
                /\ UNCHANGED <<scanActive, pause, waitFlags, netif, scanList, handlers,
                               bits, loopVars, driverVars, callVars>>

(* dispatchAutoConnect() found a known access point: it calls connect(), which
   pauses auto-connection, and then undoes the pause.                      *)
AutoConnect == /\ mpc = "idle" /\ requests # <<>> /\ Head(requests) = "AutoConnect"
               /\ scanList
               /\ requests' = Tail(requests) \o ConnectRequests
               /\ pause' = TRUE
               /\ MainGoto("autoReset")
               /\ UNCHANGED <<radio, scanActive, waitFlags, netif, scanList, handlers,
                              bits, loopVars, driverVars, callVars>>

AutoReset == /\ At("autoReset")
             /\ pause' = FALSE
             /\ MainGoto("idle")
             /\ UNCHANGED <<radio, scanActive, waitFlags, netif, scanList, handlers,
                            bits, loopVars, driverVars, callVars>>

-----------------------------------------------------------------------------
(* The event loop: eventHandler(), once for each registration.               *)

Handling(e, here) == hpc = here /\ event = e /\ UNCHANGED mainVars
LoopGoto(there) == hpc' = there /\ UNCHANGED <<event, hleft>>
HandlerReturns == /\ hleft' = hleft - 1
                  /\ hpc' = IF hleft = 1 THEN "idle" ELSE "handle"
                  /\ hstate' = "Off" /\ copied' = FALSE   \* the locals are gone
                  /\ UNCHANGED event

(* An event without a registered handler is dropped. *)
TakeEvent == /\ hpc = "idle"
             /\ events # <<>>
             /\ event' = Head(events)
             /\ events' = Tail(events)
             /\ hleft' = handlers
             /\ hpc' = IF handlers = 0 THEN "idle" ELSE "handle"
             /\ UNCHANGED <<wifiVars, requests, mainVars, hstate, copied, inited,
                            started, sta, scanning, callVars>>

(* STA_START: esp_wifi_connect() if a connection is wanted. *)
HandleStart == /\ Handling("STA_START", "handle")
               /\ sta' = IF radio = "ConnectionPending" /\ started /\ sta = "idle"
                         THEN "connecting" ELSE sta
               /\ HandlerReturns
               /\ UNCHANGED <<wifiVars, requests, inited, started, scanning, events,
                              callVars>>

(* STA_DISCONNECTED and STA_GOT_IP switch on the state they have read ... *)
ReadState == /\ \/ Handling("STA_DISCONNECTED", "handle")
                \/ Handling("STA_GOT_IP", "handle")
             /\ hstate' = radio
             /\ LoopGoto("react")
             /\ UNCHANGED <<wifiVars, requests, copied, driverVars, callVars>>

Disconnected ==
    /\ Handling("STA_DISCONNECTED", "react")
    /\ waitFlags' = IF hstate = "ConnectionPending" THEN waitFlags \cup {"FAIL"}
                                                    ELSE waitFlags
    /\ pause' = (pause /\ hstate # "On")
    /\ LoopGoto("setOn")
    /\ UNCHANGED <<radio, scanActive, netif, scanList, handlers, requests, hstate,
                   copied, driverVars, callVars>>

(* ... and the former sets the state, whatever it is by now. *)
DisconnectedSetsOn ==
    /\ Handling("STA_DISCONNECTED", "setOn")
    /\ radio' = "On"
    /\ HandlerReturns
    /\ UNCHANGED <<scanActive, pause, waitFlags, netif, scanList, handlers, requests,
                   driverVars, callVars>>

GotIp ==
    /\ Handling("STA_GOT_IP", "react")
    /\ IF hstate = "ConnectionPending"
       THEN waitFlags' = waitFlags \cup {"CONNECTED"} /\ pause' = FALSE /\ manual' = FALSE
       ELSE UNCHANGED <<waitFlags, pause, manual>>
    /\ HandlerReturns
    /\ UNCHANGED <<radio, scanActive, netif, scanList, handlers, requests,
                   driverVars, stimuli>>

(* SCAN_DONE: copy_scan_list(), which may find no access point, ... *)
HandleScanDone ==
    /\ Handling("SCAN_DONE", "handle")
    /\ copied' = (radio \in {"On", "ConnectionActive"} /\ scanActive /\ inited)
    /\ scanList' \in IF copied' THEN BOOLEAN ELSE {scanList}
    /\ LoopGoto("react")
    /\ UNCHANGED <<radio, scanActive, pause, waitFlags, netif, handlers, requests,
                   hstate, driverVars, callVars>>

(* ... the scan is over unless the radio is off or going off, ... *)
ScanDone ==
    /\ Handling("SCAN_DONE", "react")
    /\ IF radio \notin {"Off", "OffPending"}
       THEN scanActive' = FALSE /\ scanning' = FALSE
       ELSE UNCHANGED <<scanActive, scanning>>
    /\ LoopGoto("autoConnect")
    /\ UNCHANGED <<radio, pause, waitFlags, netif, scanList, handlers, requests, hstate,
                   copied, inited, started, sta, events, callVars>>

(* ... and new results may lead to an automatic connection. *)
ScanDoneConnects ==
    /\ Handling("SCAN_DONE", "autoConnect")
    /\ requests' = IF copied /\ radio = "On" /\ ~pause
                   THEN Append(requests, "AutoConnect") ELSE requests
    /\ HandlerReturns
    /\ UNCHANGED <<wifiVars, driverVars, callVars>>

-----------------------------------------------------------------------------
UserStep == \/ UserConnect \/ UserDisconnect \/ UserScan
            \/ SetEnabled("Enable") \/ SetEnabled("Disable")

MainStep == \/ \E r \in Requests : Refuse(r)
            \/ Enable \/ EnableInit \/ EnableFails \/ EnableOn
            \/ Disable \/ DisableStop \/ DisableOff
            \/ Scan \/ ScanStarted
            \/ Connect \/ ConnectPending \/ ConnectStart \/ ConnectFails
            \/ ConnectWoken \/ ConnectDone \/ ConnectClear
            \/ Disconnect \/ DisconnectStart \/ DisconnectFails \/ DisconnectOn
            \/ AutoConnect \/ AutoReset

LoopStep == \/ TakeEvent \/ HandleStart \/ ReadState \/ Disconnected
            \/ DisconnectedSetsOn \/ GotIp
            \/ HandleScanDone \/ ScanDone \/ ScanDoneConnects

DriverStep == StationConnects \/ StationFails \/ ScanEnds

Next == UserStep \/ AutoConnectTimer \/ MainStep \/ LoopStep \/ DriverStep \/ StationLost

Spec == Init /\ [][Next]_vars

(* The main thread and the event loop are scheduled, and the driver answers an
   attempt to connect and ends a scan.                                     *)
Fairness == WF_vars(MainStep) /\ WF_vars(LoopStep) /\ WF_vars(DriverStep)

FairSpec == Spec /\ Fairness

-----------------------------------------------------------------------------
MainPoints == {"idle", "enableInit", "enableOn", "disableStop", "disableOff",
               "scanStarted", "connectPending", "connectStart", "connectWait",
               "connectDone", "connectClear", "disconnectStart", "disconnectOn",
               "autoReset", "crashed"}

TypeOK ==
    /\ radio \in RadioStates
    /\ scanActive \in BOOLEAN /\ pause \in BOOLEAN
    /\ waitFlags \subseteq Bits /\ bits \subseteq Bits
    /\ netif \in BOOLEAN /\ scanList \in BOOLEAN
    /\ handlers \in 0 .. MaxHandlers
    /\ requests \in Seq(Requests)
    /\ mpc \in MainPoints
    /\ hpc \in {"idle", "handle", "react", "setOn", "autoConnect"}
    /\ event \in Events
    /\ hleft \in 0 .. MaxHandlers
    /\ hstate \in RadioStates
    /\ copied \in BOOLEAN
    /\ inited \in BOOLEAN /\ started \in BOOLEAN
    /\ sta \in {"idle", "connecting", "connected"}
    /\ scanning \in BOOLEAN
    /\ events \in Seq(Events)
    /\ stimuli \in 0 .. MaxStimuli
    /\ manual \in BOOLEAN

(* A pending state is never left behind: whatever the event loop writes in
   between and whichever call of the driver fails, it ends with the function of
   the main thread that began it, and no refusal can be due to one.        *)
TransientsBelongToMain ==
    /\ radio = "OnPending" => mpc \in {"enableInit", "enableOn"}
    /\ radio = "OffPending" => mpc \in {"disableStop", "disableOff"}
    /\ radio = "ConnectionPending" => mpc \in {"connectStart", "connectWait", "connectDone"}

(* assert(wifi->netif != nullptr) in dispatchDisable(): a driver that obeys stop
   has been given a netif, which nobody has destroyed since.               *)
NetifIsThere == mpc # "crashed"

(* A radio that is Off between two requests is silent: the driver is stopped, with
   no scan and no connection, whatever the event loop had still to tell and
   whichever call of the driver has failed.                                *)
OffMeansSilent == mpc = "idle" /\ radio = "Off" => ~started /\ sta = "idle" /\ ~scanning

(* "Enable/disable the radio": what is On is on.  Between two requests, a radio
   whose state is On has an initialized driver.                            *)
OnMeansInitialized == mpc = "idle" /\ radio = "On" => inited

(* "Manual disconnect should stop auto-connecting until a new connection is
   established."                                                           *)
ManualDisconnectPauses == manual => pause

(* "Waiting until either the connection is established or connection failed":
   the wait of dispatchConnect() ends, and with it the main dispatcher's block. *)
ConnectReturns == mpc = "connectWait" ~> mpc # "connectWait"
=============================================================================
