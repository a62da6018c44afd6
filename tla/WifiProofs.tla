----------------------------- MODULE WifiProofs -----------------------------
(***************************************************************************)
(* Proofs about Wifi, for any number of calls, requests and registrations, *)
(* and whether or not the driver fails: the type invariant and the safety  *)
(* invariants of Wifi that the run SafeParts checks.                       *)
(***************************************************************************)
EXTENDS Wifi, SequenceTheorems, TLAPS

(* A driver that is initialized has its handlers registered, and the handler runs
   for one of the registrations it was called for.                         *)
HandlersCounted ==
    /\ inited => handlers > 0
    /\ mpc = "enableInit" => handlers < MaxHandlers
    /\ mpc = "disableOff" => inited
    /\ hpc # "idle" => hleft > 0

(* Whoever initializes the driver has created the netif. *)
NetifBeforeDriver == (inited \/ mpc = "enableInit") => netif

(* A driver that is stopped neither scans nor has a station. *)
StoppedIsSilent == ~started => sta = "idle" /\ ~scanning

(* Where the main thread has stopped the driver and not yet said so, and where a
   state that is Off comes from.                                           *)
OffFollowsStop ==
    /\ mpc \in {"disableOff", "disconnectStart"} => ~started
    /\ mpc \in {"idle", "autoReset"} /\ radio = "Off" => ~started
    /\ mpc \in {"scanStarted", "connectClear"} => radio # "Off"

WifiInv == /\ TypeOK /\ HandlersCounted
           /\ NetifIsThere /\ NetifBeforeDriver
           /\ TransientsBelongToMain
           /\ StoppedIsSilent /\ OffFollowsStop

(* The types of the queues and of everything else, for the proofs. *)
QueuesOK == requests \in Seq(Requests) /\ events \in Seq(Events)

BoundsOK == /\ handlers \in 0 .. MaxHandlers
            /\ hleft \in 0 .. MaxHandlers
            /\ stimuli \in 0 .. MaxStimuli

BooleansOK == /\ scanActive \in BOOLEAN /\ pause \in BOOLEAN
              /\ netif \in BOOLEAN /\ scanList \in BOOLEAN
              /\ copied \in BOOLEAN /\ scanning \in BOOLEAN
              /\ inited \in BOOLEAN /\ started \in BOOLEAN
              /\ manual \in BOOLEAN

StatesOK == /\ radio \in RadioStates /\ hstate \in RadioStates
            /\ waitFlags \subseteq Bits /\ bits \subseteq Bits
            /\ mpc \in MainPoints
            /\ hpc \in {"idle", "handle", "react", "setOn", "autoConnect"}
            /\ event \in Events
            /\ sta \in {"idle", "connecting", "connected"}

LEMMA TypeParts == TypeOK <=> QueuesOK /\ BoundsOK /\ BooleansOK /\ StatesOK
  BY DEF TypeOK, QueuesOK, BoundsOK, BooleansOK, StatesOK

(* The invariants of Wifi beside its types. *)
SafeInv == /\ NetifIsThere /\ NetifBeforeDriver
           /\ TransientsBelongToMain
           /\ StoppedIsSilent /\ OffFollowsStop

LEMMA WifiInit == Init => WifiInv
  <1> SUFFICES ASSUME Init
               PROVE  WifiInv
    OBVIOUS
  <1>1. <<"Enable">> \in Seq(Requests) /\ <<>> \in Seq(Requests)
    BY DEF Requests
  <1>2. QueuesOK
    <2>1. requests \in Seq(Requests)
      BY <1>1 DEF Init
    <2>2. events \in Seq(Events)
      BY DEF Init
    <2> QED
      BY <2>1, <2>2 DEF QueuesOK
  <1>3. BoundsOK
    BY WifiAssumption DEF Init, BoundsOK
  <1>4. BooleansOK
    BY DEF Init, BooleansOK
  <1>5. StatesOK
    BY DEF Init, StatesOK, RadioStates, MainPoints, Bits, Events
  <1>6. SafeInv
    BY DEF Init, SafeInv, NetifIsThere, NetifBeforeDriver, TransientsBelongToMain, StoppedIsSilent, OffFollowsStop
  <1>7. HandlersCounted
    BY DEF Init, HandlersCounted
  <1> QED
    BY <1>2, <1>3, <1>4, <1>5, <1>6, <1>7, TypeParts DEF WifiInv, SafeInv

-----------------------------------------------------------------------------
(* The queues *)

LEMMA EventQueue ==
    ASSUME QueuesOK
    PROVE  /\ \A e \in Events : Post(e) => events' \in Seq(Events)
           /\ StopDriver => events' \in Seq(Events)
           /\ StartDriver => events' \in Seq(Events)
  <1>1. \A e \in Events : Post(e) => events' \in Seq(Events)
    BY DEF QueuesOK, Post
  <1>2. ASSUME StopDriver
        PROVE  events' \in Seq(Events)
    <2> DEFINE lost == IF sta # "idle" THEN <<"STA_DISCONNECTED">> ELSE <<>>
               done == IF scanning THEN <<"SCAN_DONE">> ELSE <<>>
    <2>1. <<"STA_DISCONNECTED">> \in Seq(Events) /\ <<"SCAN_DONE">> \in Seq(Events)
      BY DEF Events
    <2>2. lost \in Seq(Events) /\ done \in Seq(Events)
      BY <2>1
    <2>3. events \o lost \in Seq(Events)
      BY <2>2, ConcatProperties DEF QueuesOK
    <2>4. (events \o lost) \o done \in Seq(Events)
      BY <2>2, <2>3, ConcatProperties
    <2> QED
      BY <1>2, <2>4 DEF StopDriver
  <1>3. StartDriver => events' \in Seq(Events)
    BY DEF QueuesOK, StartDriver, Post, Events
  <1> QED
    BY <1>1, <1>2, <1>3

LEMMA RequestQueue ==
    ASSUME QueuesOK
    PROVE  /\ \A r \in Requests : Append(requests, r) \in Seq(Requests)
           /\ requests \o ConnectRequests \in Seq(Requests)
           /\ requests # <<>> => Tail(requests) \in Seq(Requests)
           /\ requests # <<>> => Tail(requests) \o ConnectRequests \in Seq(Requests)
           /\ events # <<>> => Head(events) \in Events /\ Tail(events) \in Seq(Events)
  <1>1. <<"Connect">> \in Seq(Requests) /\ <<"Enable", "Connect">> \in Seq(Requests)
    BY DEF Requests
  <1>2. ConnectRequests \in Seq(Requests)
    BY <1>1 DEF ConnectRequests
  <1>3. requests # <<>> => Tail(requests) \in Seq(Requests)
    BY DEF QueuesOK
  <1> QED
    BY <1>2, <1>3, ConcatProperties DEF QueuesOK

-----------------------------------------------------------------------------
(* The steps: one lemma for each part of the invariant, one case for each group of
   actions.                                                                *)

LEMMA StopDriverDoes ==
    StopDriver => /\ started' = FALSE /\ sta' = "idle" /\ scanning' = FALSE
                  /\ inited' = inited
  BY DEF StopDriver

LEMMA StartDriverDoes ==
    StartDriver => started' = TRUE /\ sta' = sta /\ scanning' = scanning
  BY DEF StartDriver

LEMMA HandlerReturnsDoes ==
    ASSUME BoundsOK, hleft > 0, HandlerReturns
    PROVE  hleft' \in 0 .. MaxHandlers /\ (hpc' # "idle" => hleft' > 0)
  BY WifiAssumption DEF BoundsOK, HandlerReturns

(* Booleans stay Booleans. *)
LEMMA BooleansStep ==
    ASSUME BooleansOK, [Next]_vars
    PROVE  BooleansOK'
  <1> USE DEF BooleansOK, wifiVars, mainVars, loopVars, driverVars, callVars, Begin,
              At, MainGoto, Handling, LoopGoto, HandlerReturns, Call, Stimulus
  <1>1. CASE UserConnect \/ UserDisconnect \/ UserScan
    BY <1>1 DEF UserConnect, UserDisconnect, UserScan
  <1>2. ASSUME NEW r \in {"Enable", "Disable"}, SetEnabled(r)
        PROVE  BooleansOK'
    BY <1>2 DEF SetEnabled
  <1>3. CASE AutoConnectTimer
    BY <1>3 DEF AutoConnectTimer
  <1>4. CASE StationConnects \/ StationFails
    BY <1>4 DEF StationConnects, StationFails, DriverPosts
  <1>5. CASE ScanEnds \/ StationLost
    BY <1>5 DEF ScanEnds, StationLost, DriverPosts
  <1>6. ASSUME NEW r \in Requests, Refuse(r)
        PROVE  BooleansOK'
    BY <1>6 DEF Refuse
  <1>7. CASE Enable
    BY <1>7 DEF Enable
  <1>8. CASE EnableFails
    BY <1>8 DEF EnableFails
  <1>9. CASE EnableOn
    BY <1>9 DEF EnableOn
  <1>10. CASE EnableInit
    BY <1>10, StartDriverDoes DEF EnableInit
  <1>11. CASE Disable
    BY <1>11 DEF Disable
  <1>12. CASE DisableOff
    BY <1>12 DEF DisableOff
  <1>13. CASE DisableStop
    BY <1>13, StopDriverDoes DEF DisableStop
  <1>14. CASE Scan
    BY <1>14 DEF Scan
  <1>15. CASE ScanStarted
    BY <1>15 DEF ScanStarted
  <1>16. CASE Connect
    BY <1>16, StopDriverDoes DEF Connect
  <1>17. CASE ConnectPending \/ ConnectStart \/ ConnectFails
    BY <1>17, StartDriverDoes DEF ConnectPending, ConnectStart, ConnectFails
  <1>18. CASE ConnectWoken \/ ConnectDone \/ ConnectClear
    BY <1>18 DEF ConnectWoken, ConnectDone, ConnectClear
  <1>19. CASE Disconnect \/ DisconnectStart
    BY <1>19, StopDriverDoes, StartDriverDoes
    DEF Disconnect, DisconnectStart
  <1>20. CASE DisconnectFails \/ DisconnectOn
    BY <1>20 DEF DisconnectFails, DisconnectOn
  <1>21. CASE AutoConnect \/ AutoReset
    BY <1>21 DEF AutoConnect, AutoReset
  <1>22. CASE TakeEvent
    BY <1>22 DEF TakeEvent
  <1>23. CASE HandleStart
    BY <1>23 DEF HandleStart
  <1>24. CASE ReadState
    BY <1>24 DEF ReadState
  <1>25. CASE Disconnected
    BY <1>25 DEF Disconnected
  <1>26. CASE DisconnectedSetsOn
    BY <1>26 DEF DisconnectedSetsOn
  <1>27. CASE GotIp
    BY <1>27 DEF GotIp
  <1>28. CASE HandleScanDone
    BY <1>28 DEF HandleScanDone
  <1>29. CASE ScanDone
    BY <1>29 DEF ScanDone
  <1>30. CASE ScanDoneConnects
    BY <1>30 DEF ScanDoneConnects
  <1>31. CASE UNCHANGED vars
    BY <1>31 DEF vars
  <1> QED
    BY <1>1, <1>2, <1>3, <1>4, <1>5, <1>6, <1>7, <1>8, <1>9, <1>10, <1>11, <1>12,
       <1>13, <1>14, <1>15, <1>16, <1>17, <1>18, <1>19, <1>20, <1>21, <1>22, <1>23,
       <1>24, <1>25, <1>26, <1>27, <1>28, <1>29, <1>30, <1>31
    DEF Next, UserStep, DriverStep, MainStep, LoopStep

(* States, bits and program points. *)
LEMMA StatesStep ==
    ASSUME QueuesOK, StatesOK, [Next]_vars
    PROVE  StatesOK'
  <1> USE DEF StatesOK, wifiVars, mainVars, loopVars, driverVars, callVars, Begin,
              At, MainGoto, Handling, LoopGoto, HandlerReturns, Call, Stimulus
  <1>1. CASE UserConnect \/ UserDisconnect \/ UserScan
    BY <1>1 DEF UserConnect, UserDisconnect, UserScan
  <1>2. ASSUME NEW r \in {"Enable", "Disable"}, SetEnabled(r)
        PROVE  StatesOK'
    BY <1>2 DEF SetEnabled
  <1>3. CASE AutoConnectTimer
    BY <1>3 DEF AutoConnectTimer
  <1>4. CASE StationConnects \/ StationFails
    BY <1>4 DEF StationConnects, StationFails, DriverPosts
  <1>5. CASE ScanEnds \/ StationLost
    BY <1>5 DEF ScanEnds, StationLost, DriverPosts
  <1>6. ASSUME NEW r \in Requests, Refuse(r)
        PROVE  StatesOK'
    BY <1>6 DEF Refuse
  <1>7. CASE Enable
    BY <1>7 DEF Enable, RadioStates, MainPoints, Bits
  <1>8. CASE EnableFails
    BY <1>8 DEF EnableFails, RadioStates, MainPoints, Bits
  <1>9. CASE EnableOn
    BY <1>9 DEF EnableOn, RadioStates, MainPoints, Bits
  <1>10. CASE EnableInit
    BY <1>10, StartDriverDoes DEF EnableInit, RadioStates, MainPoints, Bits
  <1>11. CASE Disable
    BY <1>11 DEF Disable, RadioStates, MainPoints, Bits
  <1>12. CASE DisableOff
    BY <1>12 DEF DisableOff, RadioStates, MainPoints, Bits
  <1>13. CASE DisableStop
    BY <1>13, StopDriverDoes DEF DisableStop, RadioStates, MainPoints, Bits
  <1>14. CASE Scan
    BY <1>14 DEF Scan, RadioStates, MainPoints, Bits
  <1>15. CASE ScanStarted
    BY <1>15 DEF ScanStarted, RadioStates, MainPoints, Bits
  <1>16. CASE Connect
    BY <1>16, StopDriverDoes DEF Connect, RadioStates, MainPoints, Bits
  <1>17. CASE ConnectPending \/ ConnectStart \/ ConnectFails
    BY <1>17, StartDriverDoes DEF ConnectPending, ConnectStart, ConnectFails,
                                  RadioStates, MainPoints, Bits
  <1>18. CASE ConnectWoken \/ ConnectDone \/ ConnectClear
    BY <1>18 DEF ConnectWoken, ConnectDone, ConnectClear, RadioStates, MainPoints,
                 Bits
  <1>19. CASE Disconnect \/ DisconnectStart
    BY <1>19, StopDriverDoes, StartDriverDoes
    DEF Disconnect, DisconnectStart, RadioStates, MainPoints, Bits
  <1>20. CASE DisconnectFails \/ DisconnectOn
    BY <1>20 DEF DisconnectFails, DisconnectOn, RadioStates, MainPoints, Bits
  <1>21. CASE AutoConnect \/ AutoReset
    BY <1>21 DEF AutoConnect, AutoReset, RadioStates, MainPoints, Bits
  <1>22. CASE TakeEvent
    BY <1>22 DEF TakeEvent, QueuesOK
  <1>23. CASE HandleStart
    BY <1>23 DEF HandleStart, RadioStates
  <1>24. CASE ReadState
    BY <1>24 DEF ReadState
  <1>25. CASE Disconnected
    BY <1>25 DEF Disconnected, Bits
  <1>26. CASE DisconnectedSetsOn
    BY <1>26 DEF DisconnectedSetsOn, RadioStates
  <1>27. CASE GotIp
    BY <1>27 DEF GotIp, RadioStates, Bits
  <1>28. CASE HandleScanDone
    BY <1>28 DEF HandleScanDone
  <1>29. CASE ScanDone
    BY <1>29 DEF ScanDone
  <1>30. CASE ScanDoneConnects
    BY <1>30 DEF ScanDoneConnects, RadioStates
  <1>31. CASE UNCHANGED vars
    BY <1>31 DEF vars
  <1> QED
    BY <1>1, <1>2, <1>3, <1>4, <1>5, <1>6, <1>7, <1>8, <1>9, <1>10, <1>11, <1>12,
       <1>13, <1>14, <1>15, <1>16, <1>17, <1>18, <1>19, <1>20, <1>21, <1>22, <1>23,
       <1>24, <1>25, <1>26, <1>27, <1>28, <1>29, <1>30, <1>31
    DEF Next, UserStep, DriverStep, MainStep, LoopStep

(* Counters stay in their bounds, and registrations are counted. *)
LEMMA BoundsStep ==
    ASSUME BoundsOK, StatesOK, HandlersCounted, [Next]_vars
    PROVE  (BoundsOK /\ HandlersCounted)'
  <1> USE WifiAssumption DEF BoundsOK, HandlersCounted, wifiVars, mainVars,
                             loopVars, driverVars, callVars, Begin, At, MainGoto,
                             Handling, LoopGoto, Call, Stimulus
  <1>1. CASE UserConnect \/ UserDisconnect \/ UserScan
    BY <1>1 DEF UserConnect, UserDisconnect, UserScan
  <1>2. ASSUME NEW r \in {"Enable", "Disable"}, SetEnabled(r)
        PROVE  (BoundsOK /\ HandlersCounted)'
    BY <1>2 DEF SetEnabled
  <1>3. CASE AutoConnectTimer
    BY <1>3 DEF AutoConnectTimer
  <1>4. CASE StationConnects \/ StationFails
    BY <1>4 DEF StationConnects, StationFails, DriverPosts
  <1>5. CASE ScanEnds \/ StationLost
    BY <1>5 DEF ScanEnds, StationLost, DriverPosts
  <1>6. ASSUME NEW r \in Requests, Refuse(r)
        PROVE  (BoundsOK /\ HandlersCounted)'
    BY <1>6 DEF Refuse
  <1>7. CASE Enable
    BY <1>7 DEF Enable
  <1>8. CASE EnableFails
    BY <1>8 DEF EnableFails, Register
  <1>9. CASE EnableOn
    BY <1>9 DEF EnableOn
  <1>10. CASE EnableInit
    BY <1>10, StartDriverDoes DEF EnableInit, Register
  <1>11. CASE Disable
    BY <1>11 DEF Disable
  <1>12. CASE DisableOff
    BY <1>12 DEF DisableOff
  <1>13. CASE DisableStop
    BY <1>13, StopDriverDoes DEF DisableStop
  <1>14. CASE Scan
    BY <1>14 DEF Scan
  <1>15. CASE ScanStarted
    BY <1>15 DEF ScanStarted
  <1>16. CASE Connect
    BY <1>16, StopDriverDoes DEF Connect
  <1>17. CASE ConnectPending \/ ConnectStart \/ ConnectFails
    BY <1>17, StartDriverDoes DEF ConnectPending, ConnectStart, ConnectFails
  <1>18. CASE ConnectWoken \/ ConnectDone \/ ConnectClear
    BY <1>18 DEF ConnectWoken, ConnectDone, ConnectClear
  <1>19. CASE Disconnect \/ DisconnectStart
    BY <1>19, StopDriverDoes, StartDriverDoes
    DEF Disconnect, DisconnectStart
  <1>20. CASE DisconnectFails \/ DisconnectOn
    BY <1>20 DEF DisconnectFails, DisconnectOn
  <1>21. CASE AutoConnect \/ AutoReset
    BY <1>21 DEF AutoConnect, AutoReset
  <1>22. CASE TakeEvent
    BY <1>22 DEF TakeEvent
  <1>23. CASE HandleStart
    BY <1>23, HandlerReturnsDoes DEF HandleStart
  <1>24. CASE ReadState
    BY <1>24 DEF ReadState
  <1>25. CASE Disconnected
    BY <1>25 DEF Disconnected
  <1>26. CASE DisconnectedSetsOn
    BY <1>26, HandlerReturnsDoes DEF DisconnectedSetsOn
  <1>27. CASE GotIp
    BY <1>27, HandlerReturnsDoes DEF GotIp
  <1>28. CASE HandleScanDone
    BY <1>28 DEF HandleScanDone
  <1>29. CASE ScanDone
    BY <1>29 DEF ScanDone
  <1>30. CASE ScanDoneConnects
    BY <1>30, HandlerReturnsDoes DEF ScanDoneConnects
  <1>31. CASE UNCHANGED vars
    BY <1>31 DEF vars
  <1> QED
    BY <1>1, <1>2, <1>3, <1>4, <1>5, <1>6, <1>7, <1>8, <1>9, <1>10, <1>11, <1>12,
       <1>13, <1>14, <1>15, <1>16, <1>17, <1>18, <1>19, <1>20, <1>21, <1>22, <1>23,
       <1>24, <1>25, <1>26, <1>27, <1>28, <1>29, <1>30, <1>31
    DEF Next, UserStep, DriverStep, MainStep, LoopStep

(* The invariants about the driver and the states. *)
LEMMA SafeStep ==
    ASSUME StatesOK, HandlersCounted, SafeInv, [Next]_vars
    PROVE  SafeInv'
  <1> USE DEF SafeInv, HandlersCounted, NetifIsThere, NetifBeforeDriver,
              TransientsBelongToMain, StoppedIsSilent, OffFollowsStop, wifiVars,
              mainVars, loopVars, driverVars, callVars, Begin, At, MainGoto,
              Handling, LoopGoto, HandlerReturns, Call, Stimulus
  <1>1. CASE UserConnect \/ UserDisconnect \/ UserScan
    BY <1>1 DEF UserConnect, UserDisconnect, UserScan
  <1>2. ASSUME NEW r \in {"Enable", "Disable"}, SetEnabled(r)
        PROVE  SafeInv'
    BY <1>2 DEF SetEnabled
  <1>3. CASE AutoConnectTimer
    BY <1>3 DEF AutoConnectTimer
  <1>4. CASE StationConnects \/ StationFails
    BY <1>4 DEF StationConnects, StationFails, DriverPosts
  <1>5. CASE ScanEnds \/ StationLost
    BY <1>5 DEF ScanEnds, StationLost, DriverPosts
  <1>6. ASSUME NEW r \in Requests, Refuse(r)
        PROVE  SafeInv'
    BY <1>6 DEF Refuse, Refused
  <1>7. CASE Enable
    BY <1>7 DEF Enable
  <1>8. CASE EnableFails
    BY <1>8 DEF EnableFails
  <1>9. CASE EnableOn
    BY <1>9 DEF EnableOn
  <1>10. CASE EnableInit
    BY <1>10, StartDriverDoes DEF EnableInit
  <1>11. CASE Disable
    BY <1>11 DEF Disable
  <1>12. CASE DisableOff
    BY <1>12 DEF DisableOff
  <1>13. CASE DisableStop
    BY <1>13, StopDriverDoes DEF DisableStop
  <1>14. CASE Scan
    BY <1>14 DEF Scan, Refused
  <1>15. CASE ScanStarted
    BY <1>15 DEF ScanStarted
  <1>16. CASE Connect
    BY <1>16, StopDriverDoes DEF Connect
  <1>17. CASE ConnectPending \/ ConnectStart \/ ConnectFails
    BY <1>17, StartDriverDoes DEF ConnectPending, ConnectStart, ConnectFails
  <1>18. CASE ConnectWoken \/ ConnectDone \/ ConnectClear
    BY <1>18 DEF ConnectWoken, ConnectDone, ConnectClear
  <1>19. CASE Disconnect \/ DisconnectStart
    BY <1>19, StopDriverDoes, StartDriverDoes
    DEF Disconnect, DisconnectStart
  <1>20. CASE DisconnectFails \/ DisconnectOn
    BY <1>20 DEF DisconnectFails, DisconnectOn
  <1>21. CASE AutoConnect \/ AutoReset
    BY <1>21 DEF AutoConnect, AutoReset
  <1>22. CASE TakeEvent
    BY <1>22 DEF TakeEvent
  <1>23. CASE HandleStart
    BY <1>23 DEF HandleStart
  <1>24. CASE ReadState
    BY <1>24 DEF ReadState
  <1>25. CASE Disconnected
    BY <1>25 DEF Disconnected
  <1>26. CASE DisconnectedSetsOn
    BY <1>26 DEF DisconnectedSetsOn
  <1>27. CASE GotIp
    BY <1>27 DEF GotIp
  <1>28. CASE HandleScanDone
    BY <1>28 DEF HandleScanDone
  <1>29. CASE ScanDone
    BY <1>29 DEF ScanDone
  <1>30. CASE ScanDoneConnects
    BY <1>30 DEF ScanDoneConnects
  <1>31. CASE UNCHANGED vars
    BY <1>31 DEF vars
  <1> QED
    BY <1>1, <1>2, <1>3, <1>4, <1>5, <1>6, <1>7, <1>8, <1>9, <1>10, <1>11, <1>12,
       <1>13, <1>14, <1>15, <1>16, <1>17, <1>18, <1>19, <1>20, <1>21, <1>22, <1>23,
       <1>24, <1>25, <1>26, <1>27, <1>28, <1>29, <1>30, <1>31
    DEF Next, UserStep, DriverStep, MainStep, LoopStep

(* The queues hold requests and events. *)
LEMMA QueuesStep ==
    ASSUME QueuesOK, [Next]_vars
    PROVE  QueuesOK'
  <1> USE EventQueue, RequestQueue DEF QueuesOK
  <1>1. CASE UserStep \/ AutoConnectTimer
    <2> USE DEF Call, driverVars, wifiVars
    <2>1. CASE UserConnect
      BY <2>1 DEF UserConnect
    <2>2. CASE UserDisconnect \/ UserScan
      BY <2>2 DEF UserDisconnect, UserScan, Requests
    <2>3. ASSUME NEW r \in {"Enable", "Disable"}, SetEnabled(r)
          PROVE  QueuesOK'
      BY <2>3 DEF SetEnabled, Requests
    <2>4. CASE AutoConnectTimer
      BY <2>4 DEF AutoConnectTimer, Requests
    <2> QED
      BY <1>1, <2>1, <2>2, <2>3, <2>4 DEF UserStep
  <1>2. CASE DriverStep \/ StationLost
    <2>1. ASSUME NEW a, NEW b, NEW e \in Events, DriverPosts(a, b, e)
          PROVE  QueuesOK'
      BY <2>1 DEF DriverPosts
    <2>2. CASE ScanEnds
      BY <2>2 DEF ScanEnds, Events
    <2> QED
      BY <1>2, <2>1, <2>2
      DEF DriverStep, StationLost, StationConnects, StationFails, Events
  <1>3. ASSUME NEW r \in Requests, Begin(r)
        PROVE  requests' \in Seq(Requests)
    BY <1>3 DEF Begin
  <1>4. CASE MainStep
    <2> USE DEF driverVars, At
    <2>1. CASE \/ \E r \in Requests : Refuse(r)
               \/ Enable \/ Disable \/ Scan
      BY <1>3, <2>1 DEF Refuse, Enable, Disable, Scan, Requests
    <2>2. CASE Connect \/ Disconnect
      BY <1>3, <2>2 DEF Connect, Disconnect, Requests
    <2>3. CASE \/ EnableInit \/ DisableStop \/ ConnectStart \/ DisconnectStart
      BY <2>3 DEF EnableInit, DisableStop, ConnectStart, DisconnectStart
    <2>4. CASE \/ EnableFails \/ EnableOn \/ DisableOff \/ ScanStarted
               \/ ConnectPending \/ ConnectFails \/ ConnectWoken \/ ConnectDone
               \/ ConnectClear \/ DisconnectFails \/ DisconnectOn \/ AutoReset
      BY <2>4 DEF EnableFails, EnableOn, DisableOff, ScanStarted, ConnectPending,
                  ConnectFails, ConnectWoken, ConnectDone, ConnectClear,
                  DisconnectFails, DisconnectOn, AutoReset
    <2>5. CASE AutoConnect
      BY <2>5 DEF AutoConnect
    <2> QED
      BY <1>4, <2>1, <2>2, <2>3, <2>4, <2>5 DEF MainStep
  <1>5. CASE LoopStep
    <2> USE DEF driverVars
    <2>1. CASE TakeEvent
      BY <2>1 DEF TakeEvent
    <2>2. CASE ScanDoneConnects
      BY <2>2 DEF ScanDoneConnects, Requests
    <2>3. CASE \/ HandleStart \/ ReadState \/ Disconnected \/ DisconnectedSetsOn
               \/ GotIp \/ HandleScanDone \/ ScanDone
      BY <2>3 DEF HandleStart, ReadState, Disconnected, DisconnectedSetsOn, GotIp,
                  HandleScanDone, ScanDone
    <2> QED
      BY <1>5, <2>1, <2>2, <2>3 DEF LoopStep
  <1>6. CASE UNCHANGED vars
    BY <1>6 DEF vars, driverVars
  <1> QED
    BY <1>1, <1>2, <1>4, <1>5, <1>6 DEF Next

-----------------------------------------------------------------------------
LEMMA WifiStep == WifiInv /\ [Next]_vars => WifiInv'
  <1> DEFINE Parts == /\ QueuesOK /\ BoundsOK /\ BooleansOK /\ StatesOK
                      /\ HandlersCounted /\ SafeInv
  <1>1. WifiInv <=> Parts
    BY TypeParts DEF WifiInv, SafeInv
  <1>2. Parts /\ [Next]_vars => Parts'
    BY QueuesStep, BoundsStep, BooleansStep, StatesStep, SafeStep
  <1>3. Parts' => WifiInv'
    BY DEF WifiInv, SafeInv, TypeOK, QueuesOK, BoundsOK, BooleansOK, StatesOK
  <1> QED
    BY <1>1, <1>2, <1>3

LEMMA WifiInvariant == Spec => []WifiInv
  BY WifiInit, WifiStep, PTL DEF Spec

(* The state of WifiEsp.cpp, of its threads and of the driver keeps its types, for
   any number of calls and registrations.                                  *)
THEOREM TypeCorrect == Spec => []TypeOK
  <1>1. WifiInv => TypeOK
    BY DEF WifiInv
  <1> QED
    BY <1>1, WifiInvariant, PTL

(* No pending state is left behind: OnPending, OffPending and ConnectionPending are
   seen only while the main thread is inside of the function that set them. *)
THEOREM PendingEnds == Spec => []TransientsBelongToMain
  <1>1. WifiInv => TransientsBelongToMain
    BY DEF WifiInv
  <1> QED
    BY <1>1, WifiInvariant, PTL

(* The assert of dispatchDisable() that there is a netif holds. *)
THEOREM NetifAssertHolds == Spec => []NetifIsThere
  <1>1. WifiInv => NetifIsThere
    BY DEF WifiInv
  <1> QED
    BY <1>1, WifiInvariant, PTL

(* A radio that is Off between two requests has a driver that is stopped, without
   a scan and without a connection.                                        *)
THEOREM OffIsSilent == Spec => []OffMeansSilent
  <1>1. WifiInv => OffMeansSilent
    BY DEF WifiInv, OffFollowsStop, StoppedIsSilent, OffMeansSilent
  <1> QED
    BY <1>1, WifiInvariant, PTL
=============================================================================
