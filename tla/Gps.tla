--------------------------------- MODULE Gps ---------------------------------
(***************************************************************************)
(* Tactility/Source/service/gps/GpsService.cpp with hal/gps/GpsDevice.cpp  *)
(* and the usage marks of hal/uart/Uart.cpp.  startReceiving() and         *)
(* stopReceiving() run on the main dispatcher's thread, each GpsDevice has *)
(* a receiver thread of its own.  startReceiving() makes new devices, so a *)
(* device is a configuration with the number of its startReceiving().      *)
(*                                                                         *)
(* Both mutexes are recursive, and a section that waits for nothing is one *)
(* step.  What is left to hold a mutex over several steps is in the        *)
(* program counters: main holds the service's mutex from mpc "add" on, a   *)
(* receiver its device's mutex while it is in "callback".                  *)
(***************************************************************************)
EXTENDS Naturals

CONSTANTS NoDevice,     \* "no device"
          Uarts,        \* the UARTs a configuration may name, each at most once
          MaxSessions   \* bound on the calls of startReceiving() that start

Sessions == 1 .. MaxSessions
Devices == Uarts \X Sessions
Kinds == {"gga", "rmc"}

GpsParameters == NoDevice \notin Devices /\ MaxSessions \in Nat

VARIABLES
    gpsState,     \* GpsService::state
    mpc,          \* where the main thread is
    session,      \* number of startReceiving() that found configurations
    records,      \* GpsService::deviceRecords, the devices that exist
    todo,         \* devices that the loop of main has not come to
    current,      \* the device the loop is at, or NoDevice
    fix,          \* the device rmcRecord came from; NoDevice is rmcTime = 0
    rpc,          \* rpc[d]: where the receiver of device d is
    sentence,     \* sentence[d]: local of threadMain(), what was read
    interrupted,  \* interrupted[d]: GpsDevice::threadInterrupted
    devState,     \* devState[d]: GpsDevice::state
    attached,     \* attached[d]: GpsDevice::thread is set
    subs,         \* subs[d]: the kinds of sentence the service has subscribed to
    gpsUart,      \* gpsUart[u]: the device that has opened UART u, or NoDevice
    refused       \* history: devices that found their UART in use

mainVars == <<gpsState, mpc, session, records, todo, current>>
deviceVars == <<rpc, sentence, interrupted, devState, attached, subs>>
uartVars == <<gpsUart, refused>>
vars == <<mainVars, fix, deviceVars, uartVars>>

Init == /\ gpsState = "Off"
        /\ mpc = "idle"
        /\ session = 0
        /\ records = {}
        /\ todo = {}
        /\ current = NoDevice
        /\ fix = NoDevice
        /\ rpc = [d \in Devices |-> "none"]
        /\ sentence = [d \in Devices |-> "none"]
        /\ interrupted = [d \in Devices |-> FALSE]
        /\ devState = [d \in Devices |-> "Off"]
        /\ attached = [d \in Devices |-> FALSE]
        /\ subs = [d \in Devices |-> {}]
        /\ gpsUart = [u \in Uarts |-> NoDevice]
        /\ refused = {}

ServiceFree == mpc \in {"idle", "startLock", "stopLock"}
DeviceFree(d) == rpc[d] # "callback"
Main(here, there) == mpc = here /\ mpc' = there

-----------------------------------------------------------------------------
(* startReceiving() *)

(* Off is the only state that starts: any other returns false. *)
StartReceiving == /\ Main("idle", "startLock")
                  /\ gpsState = "Off"
                  /\ session < MaxSessions
                  /\ gpsState' = "OnPending"
                  /\ UNCHANGED <<session, records, todo, current, fix, deviceVars, uartVars>>

(* deviceRecords.clear(), then a device per configuration.  There may be no
   configuration, or the file cannot be read.                              *)
StartClear == /\ mpc = "startLock"
              /\ \E us \in SUBSET Uarts :
                   IF us = {} THEN /\ gpsState' = "Off"
                                   /\ mpc' = "idle"
                                   /\ records' = {}
                                   /\ UNCHANGED <<session, todo>>
                   ELSE /\ session' = session + 1
                        /\ records' = us \X {session'}
                        /\ todo' = records'
                        /\ mpc' = "add"
                        /\ UNCHANGED gpsState
              /\ UNCHANGED <<current, fix, deviceVars, uartVars>>

(* GpsDevice::start() of a device without a thread makes one. *)
StartDevice(d) == /\ Main("add", "subscribeGga")
                  /\ d \in todo
                  /\ DeviceFree(d)
                  /\ current' = d
                  /\ todo' = todo \ {d}
                  /\ interrupted' = [interrupted EXCEPT ![d] = FALSE]
                  /\ attached' = [attached EXCEPT ![d] = TRUE]
                  /\ devState' = [devState EXCEPT ![d] = "PendingOn"]
                  /\ rpc' = [rpc EXCEPT ![d] = "open"]
                  /\ UNCHANGED <<gpsState, session, records, fix, sentence, subs, uartVars>>

Subscribe(kind, here, there) ==
    /\ Main(here, there)
    /\ DeviceFree(current)
    /\ subs' = [subs EXCEPT ![current] = @ \cup {kind}]
    /\ UNCHANGED <<gpsState, session, records, todo, current, fix, rpc, sentence,
                   interrupted, devState, attached, uartVars>>

SubscribeGga == Subscribe("gga", "subscribeGga", "subscribeRmc")
SubscribeRmc == Subscribe("rmc", "subscribeRmc", "add")

(* Every start() returned true: rmcTime = 0 and On. *)
StartDone == /\ Main("add", "idle")
             /\ todo = {}
             /\ current' = NoDevice
             /\ fix' = NoDevice
             /\ gpsState' = "On"
             /\ UNCHANGED <<session, records, todo, deviceVars, uartVars>>

-----------------------------------------------------------------------------
(* stopReceiving(): in any state. *)

StopReceiving == /\ Main("idle", "stopLock")
                 /\ gpsState' = "OffPending"
                 /\ UNCHANGED <<session, records, todo, current, fix, deviceVars, uartVars>>

StopLock == /\ Main("stopLock", "remove")
            /\ todo' = records
            /\ UNCHANGED <<gpsState, session, records, current, fix, deviceVars, uartVars>>

Unsubscribe(d, kind) == subs' = [subs EXCEPT ![d] = @ \ {kind}]

UnsubscribeGga(d) == /\ Main("remove", "unsubscribeRmc")
                     /\ d \in todo
                     /\ DeviceFree(d)
                     /\ current' = d
                     /\ todo' = todo \ {d}
                     /\ Unsubscribe(d, "gga")
                     /\ UNCHANGED <<gpsState, session, records, fix, rpc, sentence,
                                    interrupted, devState, attached, uartVars>>

UnsubscribeRmc == /\ Main("unsubscribeRmc", "stopDevice")
                  /\ DeviceFree(current)
                  /\ Unsubscribe(current, "rmc")
                  /\ UNCHANGED <<gpsState, session, records, todo, current, fix, rpc, sentence,
                                 interrupted, devState, attached, uartVars>>

(* Mutation of StopDevice: the thread is taken for ended. *)
StopUnjoined == /\ Main("stopDevice", "remove")
                /\ DeviceFree(current)
                /\ interrupted' = [interrupted EXCEPT ![current] = attached[current] \/ @]
                /\ attached' = [attached EXCEPT ![current] = FALSE]
                /\ devState' = [devState EXCEPT ![current] = "Off"]
                /\ UNCHANGED <<gpsState, session, records, todo, current, fix, rpc, sentence,
                               subs, uartVars>>

(* Mutation of StopDevice: the thread is not told. *)
StopUntold == /\ mpc = "stopDevice"
              /\ DeviceFree(current)
              /\ attached' = [attached EXCEPT ![current] = FALSE]
              /\ IF attached[current] /\ rpc[current] # "ended"
                 THEN mpc' = "join" /\ devState' = [devState EXCEPT ![current] = "PendingOff"]
                 ELSE mpc' = "remove" /\ devState' = [devState EXCEPT ![current] = "Off"]
              /\ UNCHANGED <<gpsState, session, records, todo, current, fix, rpc, sentence,
                             interrupted, subs, uartVars>>

(* GpsDevice::stop(): the thread is told and detached, and joined with the
   device's mutex released unless it is seen Stopped.                      *)
StopDevice == /\ mpc = "stopDevice"
              /\ DeviceFree(current)
              /\ interrupted' = [interrupted EXCEPT ![current] = attached[current] \/ @]
              /\ attached' = [attached EXCEPT ![current] = FALSE]
              /\ IF attached[current] /\ rpc[current] # "ended"
                 THEN mpc' = "join" /\ devState' = [devState EXCEPT ![current] = "PendingOff"]
                 ELSE mpc' = "remove" /\ devState' = [devState EXCEPT ![current] = "Off"]
              /\ UNCHANGED <<gpsState, session, records, todo, current, fix, rpc, sentence,
                             subs, uartVars>>

Joined == /\ Main("join", "remove")
          /\ rpc[current] = "ended"
          /\ devState' = [devState EXCEPT ![current] = "Off"]
          /\ UNCHANGED <<gpsState, session, records, todo, current, fix, rpc, sentence,
                         interrupted, attached, subs, uartVars>>

StopDone == /\ Main("remove", "idle")
            /\ todo = {}
            /\ current' = NoDevice
            /\ fix' = NoDevice
            /\ gpsState' = "Off"
            /\ UNCHANGED <<session, records, todo, deviceVars, uartVars>>

-----------------------------------------------------------------------------
(* threadMain(), the receiver of device d *)

UartOf(d) == d[1]
Goto(d, there) == rpc' = [rpc EXCEPT ![d] = there]

(* Mutation of CloseUart: the mark stays. *)
UartStaysOpen(d) == UNCHANGED gpsUart

(* ~Uart(): the UART is marked as not in use. *)
CloseUart(d) == gpsUart' = [gpsUart EXCEPT ![UartOf(d)] = NoDevice]

(* uart::open(), taken for one step: it has no lock (see the README for what two
   of them at once may do).                                                *)
Open(d) == /\ rpc[d] = "open"
           /\ IF gpsUart[UartOf(d)] # NoDevice
              THEN Goto(d, "ended") /\ refused' = refused \cup {d} /\ UNCHANGED gpsUart
              ELSE /\ gpsUart' = [gpsUart EXCEPT ![UartOf(d)] = d]
                   /\ Goto(d, "start")
                   /\ UNCHANGED refused
           /\ UNCHANGED <<mainVars, fix, sentence, interrupted, devState, attached, subs>>

(* start() and setBaudRate(); when one fails the device stays PendingOn and the
   destructor of the UART closes it.                                       *)
StartUart(d) == /\ rpc[d] = "start"
                /\ \/ Goto(d, "configure") /\ UNCHANGED gpsUart
                   \/ Goto(d, "ended") /\ CloseUart(d)
                /\ UNCHANGED <<mainVars, fix, sentence, interrupted, devState, attached, subs,
                               refused>>

(* probe() and init(). *)
Configure(d) ==
    /\ rpc[d] = "configure"
    /\ \/ /\ Goto(d, "loop")
          /\ devState' = [devState EXCEPT ![d] = "On"]
          /\ UNCHANGED gpsUart
       \/ /\ Goto(d, "ended")
          /\ devState' = [devState EXCEPT ![d] = "Error"]
          /\ CloseUart(d)
    /\ UNCHANGED <<mainVars, fix, sentence, interrupted, attached, subs, refused>>

Loop(d) == /\ rpc[d] = "loop"
           /\ Goto(d, IF interrupted[d] THEN "close" ELSE "read")
           /\ UNCHANGED <<mainVars, fix, sentence, interrupted, devState, attached, subs, uartVars>>

(* readUntil() returns, and the thread may have been interrupted meanwhile.  A
   sentence may also be none of these, or not parse: "none".               *)
Read(d) ==
    /\ rpc[d] = "read"
    /\ IF interrupted[d] THEN Goto(d, "close") /\ UNCHANGED sentence
       ELSE \E s \in Kinds \cup {"rmc without position", "none"} :
                /\ sentence' = [sentence EXCEPT ![d] = s]
                /\ Goto(d, IF s = "none" THEN "loop" ELSE "publish")
    /\ UNCHANGED <<mainVars, fix, interrupted, devState, attached, subs, uartVars>>

(* mutex.lock(); without a subscription it is unlocked at once. *)
Publish(d) ==
    /\ rpc[d] = "publish"
    /\ Goto(d, IF (IF sentence[d] = "gga" THEN "gga" ELSE "rmc") \in subs[d]
               THEN "callback" ELSE "loop")
    /\ sentence' = IF rpc'[d] = "loop" THEN [sentence EXCEPT ![d] = "none"] ELSE sentence
    /\ UNCHANGED <<mainVars, fix, interrupted, devState, attached, subs, uartVars>>

(* The service's callback takes the mutex of the service. *)
Callback(d) == /\ rpc[d] = "callback"
               /\ ServiceFree
               /\ fix' = IF sentence[d] = "rmc" THEN d ELSE fix
               /\ Goto(d, "loop")
               /\ sentence' = [sentence EXCEPT ![d] = "none"]
               /\ UNCHANGED <<mainVars, interrupted, devState, attached, subs, uartVars>>

Close(d) == /\ rpc[d] = "close"
            /\ CloseUart(d)
            /\ Goto(d, "ended")
            /\ UNCHANGED <<mainVars, fix, sentence, interrupted, devState, attached, subs, refused>>

-----------------------------------------------------------------------------
MainStep == \/ StartClear \/ SubscribeGga \/ SubscribeRmc \/ StartDone
            \/ StopLock \/ UnsubscribeRmc \/ StopDevice \/ Joined \/ StopDone
            \/ \E d \in Devices : StartDevice(d) \/ UnsubscribeGga(d)

ReceiverStep(d) == \/ Open(d) \/ StartUart(d) \/ Configure(d) \/ Loop(d) \/ Read(d)
                   \/ Publish(d) \/ Callback(d) \/ Close(d)

Next == \/ StartReceiving \/ StopReceiving
        \/ MainStep
        \/ \E d \in Devices : ReceiverStep(d)

Spec == Init /\ [][Next]_vars

(* The threads run; main obtains the mutex of a device that is released again
   and again (FreeRTOS gives it to the waiter).                            *)
Fairness == /\ SF_vars(MainStep)
            /\ \A d \in Devices : WF_vars(ReceiverStep(d))

FairSpec == Spec /\ Fairness

-----------------------------------------------------------------------------
GpsTypeOK ==
    /\ gpsState \in {"Off", "OnPending", "On", "OffPending"}
    /\ session \in 0 .. MaxSessions
    /\ records \subseteq Devices
    /\ todo \subseteq records
    /\ current \in records \cup {NoDevice}
    /\ fix \in Devices \cup {NoDevice}
    /\ DOMAIN rpc = Devices
    /\ interrupted \in [Devices -> BOOLEAN]
    /\ devState \in [Devices -> {"PendingOn", "On", "Error", "PendingOff", "Off"}]
    /\ attached \in [Devices -> BOOLEAN]
    /\ subs \in [Devices -> SUBSET Kinds]
    /\ gpsUart \in [Uarts -> Devices \cup {NoDevice}]

Receiving(d) == rpc[d] \notin {"none", "ended"}

(* A GPS that is Off between two requests is silent: no receiver runs, every
   UART is closed, nothing is subscribed, no device says anything but Off,
   and the last position is forgotten.                                     *)
QuietWhenOff ==
    mpc = "idle" /\ gpsState = "Off" =>
        /\ \A d \in Devices : ~Receiving(d) /\ subs[d] = {} /\ devState[d] = "Off"
        /\ \A u \in Uarts : gpsUart[u] = NoDevice
        /\ fix = NoDevice

(* deviceRecords.clear() destroys the devices: a receiver, which uses its
   device, only runs while that is still recorded.                         *)
ReceiverHasDevice == \A d \in Devices : Receiving(d) => d \in records

(* A receiver never finds the UART of its configuration in use: the one of the
   session before has closed it.                                           *)
UartNeverRefused == refused = {}

(* stopReceiving() ends, unless the one deadlock there is occurs: a receiver in
   a callback waits for the service while the service waits for its device. *)
Deadlocked == /\ mpc \in {"subscribeRmc", "unsubscribeRmc", "remove", "stopDevice"}
              /\ \E d \in Devices : rpc[d] = "callback"
StopEndsOrDeadlocks == mpc = "stopLock" ~> (gpsState = "Off" \/ Deadlocked)
=============================================================================
