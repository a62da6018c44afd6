---------------------------- MODULE LoaderProofs ----------------------------
(***************************************************************************)
(* The app stack, its hooks and its handlers, for any set of apps and      *)
(* clients and any number of instances and messages.                       *)
(***************************************************************************)
EXTENDS Loader, SequenceTheorems, TLAPS

StackPositions == 1 .. Len(appStack)

Messages == [kind : {"start", "stop"}, app : Apps]

(* What is asked for is an app, and what is on the stack has been created. *)
ArgsAreApps == \A c \in Clients : cpc[c] \in {"post", "postStop"} => carg[c] \in Apps

StackIsCreated == \A i \in StackPositions : appOf[appStack[i]] \in Apps

(* Where a handler works on the top of the stack, there is one. *)
HandlesTop == lpc \in {"create", "hide", "show", "destroy", "result"} => appStack # <<>>

TypeInv == TypeOK /\ ArgsAreApps /\ StackIsCreated /\ HandlesTop

ClientAction(c) ==
    \/ StopApp(c) \/ PostStart(c) \/ GetCurrentApp(c) \/ PostStop(c)
    \/ \E app \in Apps : StartApp(c, app)

(* A step is one of a client, which leaves the loader alone, or one of the
   actions of the dispatcher and the GUI thread.                           *)
LEMMA Steps ==
    ASSUME LoaderAssumption, [Next]_vars
    PROVE  \/ \E c \in Clients : ClientAction(c) /\ UNCHANGED drops
           \/ BootEnds /\ UNCHANGED drops
           \/ Redraw /\ UNCHANGED drops
           \/ DropMessage
           \/ HandlerStep
           \/ UNCHANGED vars
<1>1. BootThread \in Clients /\ Launcher \in Apps
  BY DEF LoaderAssumption, Clients
<1> QED
  BY <1>1 DEF Next, Calling, ClientStep, Posting, ClientAction

LEMMA TypeInvInit == LoaderAssumption /\ Init => TypeInv
<1> SUFFICES ASSUME LoaderAssumption, Init
             PROVE  TypeInv
  OBVIOUS
<1>1. messages \in Seq(Messages)
  <2>1. Message("start", Boot) \in Messages
    BY DEF LoaderAssumption, Message, Messages
  <2>2. messages = Append(<<>>, Message("start", Boot))
    BY DEF Init
  <2> QED
    BY <2>1, <2>2, EmptySeq, AppendProperties
<1>2. ArgsAreApps /\ StackIsCreated /\ HandlesTop
  BY DEF Init, ArgsAreApps, StackIsCreated, HandlesTop, StackPositions
<1>3. asked \in 1 .. MaxInstances /\ drops \in 0 .. MaxDrops
  BY DEF LoaderAssumption, Init
<1>4. appStack \in Seq(Instances)
  BY DEF Init
<1> QED
  BY <1>1, <1>2, <1>3, <1>4 DEF Init, TypeInv, TypeOK, Messages, NoInstance

(* What a client does to the queue and to its own state. *)
LEMMA TypeInvClient ==
    ASSUME LoaderAssumption, TypeInv, NEW c \in Clients, ClientAction(c), UNCHANGED drops
    PROVE  TypeInv'
<1>1. UNCHANGED loaderVars
  BY DEF ClientAction, StopApp, StartApp, PostStart, GetCurrentApp, PostStop
<1>2. StackIsCreated' /\ HandlesTop'
  BY <1>1 DEF TypeInv, StackIsCreated, HandlesTop, StackPositions, loaderVars
<1>3. appStack # <<>> => appOf[Top] \in Apps
  BY DEF TypeInv, TypeOK, StackIsCreated, StackPositions, Top
<1>4. /\ cpc' \in [Clients -> {"idle", "post", "top", "postStop", "undefined"}]
      /\ carg' \in [Clients -> Apps \cup {None}]
      /\ ArgsAreApps'
  BY <1>3 DEF TypeInv, TypeOK, ArgsAreApps, ClientAction, StopApp, StartApp, PostStart,
              GetCurrentApp, PostStop
<1>5. messages' \in Seq(Messages)
  <2>1. messages \in Seq(Messages)
    BY DEF TypeInv, TypeOK, Messages
  <2>2. CASE PostStart(c) \/ PostStop(c)
    <3>1. carg[c] \in Apps
      BY <2>2 DEF TypeInv, ArgsAreApps, PostStart, PostStop
    <3>2. PICK m \in Messages : messages' = Append(messages, m)
      BY <2>2, <3>1 DEF PostStart, PostStop, Message, Messages
    <3> QED
      BY <2>1, <3>2, AppendProperties
  <2> QED
    BY <2>1, <2>2 DEF ClientAction, StopApp, StartApp, GetCurrentApp
<1>6. asked' \in 1 .. MaxInstances
  BY DEF LoaderAssumption, TypeInv, TypeOK, ClientAction, StopApp, StartApp, PostStart,
         GetCurrentApp, PostStop
<1>7. bootPhase' \in {"absent", "splash", "stopped", "started", "ended"}
  BY DEF TypeInv, TypeOK, ClientAction, StopApp, StartApp, PostStart, GetCurrentApp,
         PostStop, BootPhaseFor
<1> QED
  BY <1>1, <1>2, <1>4, <1>5, <1>6, <1>7
  DEF TypeInv, TypeOK, Messages, loaderVars, guiVars

(* The queue after its head was taken. *)
LEMMA TailIsQueue ==
    ASSUME TypeInv, messages # <<>>
    PROVE  /\ Tail(messages) \in Seq([kind : {"start", "stop"}, app : Apps])
           /\ Head(messages) \in [kind : {"start", "stop"}, app : Apps]
BY HeadTailProperties DEF TypeInv, TypeOK

LEMMA TypeInvStart ==
    ASSUME LoaderAssumption, TypeInv, StartMessage, UNCHANGED drops
    PROVE  TypeInv'
<1>1. PICK k \in Instances \ Created :
           /\ appOf' = [appOf EXCEPT ![k] = Head(messages).app]
           /\ appStack' = Append(appStack, k)
  BY DEF StartMessage
<1>2. Head(messages).app \in Apps /\ messages' \in Seq([kind : {"start", "stop"}, app : Apps])
  BY TailIsQueue DEF StartMessage
<1>3. appOf' \in [Instances -> Apps \cup {None}] /\ appStack' \in Seq(Instances)
  BY <1>1, <1>2 DEF TypeInv, TypeOK
<1>4. target' \in Instances \cup {NoInstance}
  BY DEF StartMessage, TypeInv, TypeOK, Top
<1>5. StackIsCreated'
  <2>1. /\ Len(appStack') = Len(appStack) + 1
        /\ appStack'[Len(appStack) + 1] = k
        /\ \A i \in StackPositions : appStack'[i] = appStack[i] /\ appStack[i] \in Instances
    BY <1>1 DEF TypeInv, TypeOK, StackPositions
  <2>2. Len(appStack) \in Nat
    BY DEF TypeInv, TypeOK
  <2> QED
    BY <1>1, <1>2, <2>1, <2>2 DEF TypeInv, TypeOK, StackIsCreated, StackPositions
<1>6. HandlesTop' /\ ArgsAreApps'
  BY <1>1 DEF StartMessage, TypeInv, TypeOK, HandlesTop, ArgsAreApps, clientVars
<1> QED
  BY <1>2, <1>3, <1>4, <1>5, <1>6
  DEF StartMessage, TypeInv, TypeOK, guiVars, clientVars

(* The stack after its top was taken. *)
LEMMA PoppedStack ==
    ASSUME TypeInv, appStack # <<>>
    PROVE  LET rest == SubSeq(appStack, 1, Len(appStack) - 1)
           IN  /\ rest \in Seq(Instances)
               /\ Len(rest) = Len(appStack) - 1 /\ Len(appStack) \in Nat \ {0}
               /\ \A i \in 1 .. Len(appStack) - 1 : rest[i] = appStack[i]
<1>1. appStack \in Seq(Instances) /\ Len(appStack) \in Nat \ {0}
  BY EmptySeq DEF TypeInv, TypeOK
<1>2. \A i \in 1 .. Len(appStack) - 1 : appStack[i] \in Instances
  BY <1>1
<1> DEFINE n == Len(appStack) - 1
           rest == SubSeq(appStack, 1, n)
<1>3. n \in Nat
  BY <1>1
<1> HIDE DEF n
<1>4. \A i \in 1 .. n : appStack[i] \in Instances
  BY <1>2 DEF n
<1>5. /\ rest \in Seq(Instances)
      /\ Len(rest) = IF 1 <= n THEN n - 1 + 1 ELSE 0
      /\ \A i \in 1 .. n - 1 + 1 : rest[i] = appStack[1 + i - 1]
  BY <1>3, <1>4, SubSeqProperties
<1>6. Len(rest) = n /\ \A i \in 1 .. n : rest[i] = appStack[i]
  BY <1>3, <1>5
<1> QED
  BY <1>1, <1>5, <1>6 DEF n

LEMMA TypeInvHandler ==
    ASSUME LoaderAssumption, TypeInv, HandlerStep
    PROVE  TypeInv'
<1>1. CASE UnknownApp \/ StopRefused
  BY <1>1, TailIsQueue
  DEF HandlerStep, UnknownApp, StopRefused, TypeInv, TypeOK, ArgsAreApps, StackIsCreated,
      HandlesTop, StackPositions, loaderVars, guiVars, clientVars
<1>2. CASE StartMessage
  BY <1>2, TypeInvStart DEF HandlerStep
<1>3. CASE AppCreated \/ AppHidden \/ AppShows \/ ResultDelivered
  <2>1. /\ UNCHANGED <<messages, appStack, appOf, stopping, target, drawn, clientVars, drops>>
        /\ mutex' \in {None, LoaderThread}
        /\ lpc' \in {"idle", "hide", "show", "destroy", "result", "crashed"}
        /\ drawPending' \in BOOLEAN
    BY <1>3 DEF HandlerStep, TypeInv, TypeOK, AppCreated, AppHidden, AppShows,
                ResultDelivered, guiVars
  <2>2. appStack # <<>> => Top \in Instances
    BY DEF TypeInv, TypeOK, Top
  <2>3. appState' \in [Instances -> {"Initial", "Started", "Showing", "Hiding", "Stopped"}]
    BY <1>3 DEF TypeInv, TypeOK, AppCreated, AppHidden, AppShows, ResultDelivered
  <2>4. showing' \in Instances \cup {NoInstance}
    BY <1>3, <2>2 DEF TypeInv, TypeOK, HandlesTop, AppCreated, AppHidden, AppShows,
                      ResultDelivered, guiVars
  <2>5. lpc' \in {"hide", "show", "destroy", "result"} => appStack # <<>>
    BY <1>3 DEF TypeInv, HandlesTop, AppCreated, AppHidden, AppShows, ResultDelivered
  <2> QED
    BY <2>1, <2>3, <2>4, <2>5
    DEF TypeInv, TypeOK, ArgsAreApps, StackIsCreated, HandlesTop, StackPositions, clientVars
<1>4. CASE StopMessage
  <2>1. appStack # <<>>
    BY <1>4, TailIsQueue
    DEF LoaderAssumption, StopMessage, Refused, RunningApp
  <2>2. Top \in Instances
    BY <2>1 DEF TypeInv, TypeOK, Top
  <2> QED
    BY <1>4, <2>1, <2>2, TailIsQueue
    DEF HandlerStep, StopMessage, TypeInv, TypeOK, ArgsAreApps, StackIsCreated, HandlesTop,
        StackPositions, guiVars, clientVars
<1>5. CASE AppDestroyed
  <2>1. appStack # <<>>
    BY <1>5 DEF TypeInv, HandlesTop, AppDestroyed
  <2>2. /\ appStack' \in Seq(Instances)
        /\ Len(appStack') = Len(appStack) - 1 /\ Len(appStack) \in Nat \ {0}
        /\ \A i \in 1 .. Len(appStack) - 1 : appStack'[i] = appStack[i]
    BY <1>5, <2>1, PoppedStack DEF AppDestroyed
  <2>3. StackIsCreated'
    BY <1>5, <2>2 DEF TypeInv, StackIsCreated, StackPositions, AppDestroyed
  <2>4. HandlesTop'
    <3>1. lpc' = "idle" \/ (Len(appStack) # 1 /\ lpc' = "show")
      BY <1>5 DEF AppDestroyed
    <3>2. Len(appStack) # 1 => Len(appStack') > 0
      BY <2>2
    <3>3. Len(appStack') > 0 => appStack' # <<>>
      BY <2>2
    <3> QED
      BY <3>1, <3>2, <3>3 DEF HandlesTop
  <2>5. appState' \in [Instances -> {"Initial", "Started", "Showing", "Hiding", "Stopped"}]
    BY <1>5 DEF TypeInv, TypeOK, AppDestroyed
  <2> QED
    BY <1>5, <2>2, <2>3, <2>4, <2>5
    DEF HandlerStep, AppDestroyed, TypeInv, TypeOK, ArgsAreApps, guiVars, clientVars
<1> QED
  BY <1>1, <1>2, <1>3, <1>4, <1>5 DEF HandlerStep, Handling

LEMMA TypeInvStep ==
    ASSUME LoaderAssumption, TypeInv, [Next]_vars
    PROVE  TypeInv'
<1>1. CASE BootEnds /\ UNCHANGED drops
  BY <1>1 DEF BootEnds, TypeInv, TypeOK, ArgsAreApps, StackIsCreated, HandlesTop,
              StackPositions, loaderVars, guiVars
<1>2. CASE Redraw /\ UNCHANGED drops
  BY <1>2 DEF Redraw, TypeInv, TypeOK, ArgsAreApps, StackIsCreated, HandlesTop, StackPositions
<1>3. CASE DropMessage
  <2>1. drops' \in 0 .. MaxDrops
    BY <1>3 DEF DropMessage, TypeInv, TypeOK, LoaderAssumption
  <2> QED
    BY <1>3, <2>1, TailIsQueue
    DEF DropMessage, TypeInv, TypeOK, ArgsAreApps, StackIsCreated, HandlesTop,
        StackPositions, loaderVars, guiVars, clientVars
<1>4. CASE UNCHANGED vars
  BY <1>4 DEF vars, loaderVars, guiVars, clientVars, TypeInv, TypeOK, ArgsAreApps,
              StackIsCreated, HandlesTop, StackPositions
<1> QED
  BY <1>1, <1>2, <1>3, <1>4, Steps, TypeInvClient, TypeInvHandler

(* The loader's variables keep their types; every app that is asked for is one
   of Apps, and the stack holds only instances that were created.          *)
THEOREM TypeCorrect ==
    ASSUME LoaderAssumption
    PROVE  Spec => []TypeOK
<1>1. Init => TypeInv
  BY TypeInvInit
<1>2. TypeInv /\ [Next]_vars => TypeInv'
  BY TypeInvStep
<1>3. TypeInv => TypeOK
  BY DEF TypeInv
<1> QED
  BY <1>1, <1>2, <1>3, PTL DEF Spec
-----------------------------------------------------------------------------
(* All but a few steps leave the stack and the handler where they are. *)
Elsewhere == UNCHANGED <<appStack, appOf, appState, mutex, lpc, stopping, target, showing>>

LEMMA HandlerSteps ==
    ASSUME LoaderAssumption, [Next]_vars
    PROVE  \/ Elsewhere
           \/ StartMessage \/ AppCreated \/ AppHidden \/ AppShows \/ StopMessage
           \/ AppDestroyed \/ ResultDelivered
BY Steps
DEF Elsewhere, ClientAction, StopApp, StartApp, PostStart, GetCurrentApp, PostStop,
    BootEnds, Redraw, DropMessage, HandlerStep, Handling, UnknownApp, StopRefused,
    loaderVars, guiVars, vars

(* No instance is twice on the stack. *)
StackInv == \A i, j \in StackPositions : appStack[i] = appStack[j] => i = j

LEMMA StackInvStep ==
    ASSUME LoaderAssumption, TypeInv, StackInv, [Next]_vars
    PROVE  StackInv'
<1>1. CASE UNCHANGED appStack
  BY <1>1 DEF StackInv, StackPositions
<1>2. CASE StartMessage
  <2>1. PICK k \in Instances \ Created : appStack' = Append(appStack, k)
    BY <1>2 DEF StartMessage
  <2>2. /\ Len(appStack') = Len(appStack) + 1 /\ Len(appStack) \in Nat
        /\ appStack'[Len(appStack) + 1] = k
        /\ \A i \in StackPositions : appStack'[i] = appStack[i]
    BY <2>1, AppendProperties DEF TypeInv, TypeOK, StackPositions
  <2>3. \A i \in StackPositions : appStack[i] # k
    BY DEF TypeInv, TypeOK, StackIsCreated, Created, LoaderAssumption, StackPositions
  <2> QED
    BY <2>2, <2>3 DEF StackInv, StackPositions
<1>3. CASE AppDestroyed
  BY <1>3, PoppedStack DEF TypeInv, HandlesTop, AppDestroyed, StackInv, StackPositions
<1> QED
  BY <1>1, <1>2, <1>3, HandlerSteps
  DEF Elsewhere, AppCreated, AppHidden, AppShows, StopMessage, ResultDelivered

-----------------------------------------------------------------------------
Busy == lpc \in {"create", "hide", "show", "destroy"}

Below == IF Len(appStack) = 1 THEN NoInstance ELSE appStack[Len(appStack) - 1]

(* What each point of a handler knows of the instance it works on and of the one
   that the GUI renders.                                                    *)
HandlerInv ==
    /\ lpc # "crashed"
    /\ mutex = IF Busy THEN LoaderThread ELSE None
    /\ lpc \in {"idle", "result"} =>
         showing = IF appStack = <<>> THEN NoInstance ELSE Top
    /\ lpc = "create" => ~ stopping /\ target = Below /\ showing = target
    /\ lpc = "hide" => /\ showing = target /\ target # NoInstance
                       /\ target = IF stopping THEN Top ELSE Below
    /\ lpc = "show" => showing = NoInstance
    /\ lpc = "destroy" => stopping /\ showing = NoInstance /\ target = Top

LEMMA HandlerInvStep ==
    ASSUME LoaderAssumption, TypeInv, HandlerInv, [Next]_vars
    PROVE  HandlerInv'
<1>0. None # LoaderThread
  BY DEF LoaderAssumption, Clients
<1>1. CASE Elsewhere
  BY <1>1 DEF Elsewhere, HandlerInv, Busy, Below, Top
<1>2. CASE StartMessage
  <2>1. PICK k \in Instances : appStack' = Append(appStack, k)
    BY <1>2 DEF StartMessage
  <2>2. /\ Len(appStack') = Len(appStack) + 1 /\ Len(appStack) \in Nat
        /\ \A i \in StackPositions : appStack'[i] = appStack[i]
        /\ appStack # <<>> => Len(appStack) > 0
        /\ appStack = <<>> => Len(appStack) = 0
    BY <2>1, AppendProperties, EmptySeq DEF TypeInv, TypeOK, StackPositions
  <2>3. target' = Below'
    BY <1>2, <2>2 DEF StartMessage, Below, Top, StackPositions
  <2>4. showing' = target'
    BY <1>2 DEF StartMessage, HandlerInv, guiVars
  <2> QED
    BY <1>2, <2>3, <2>4 DEF StartMessage, HandlerInv, Busy
<1>3. CASE AppCreated
  BY <1>3 DEF AppCreated, HandlerInv, Busy, Below, guiVars
<1>4. CASE AppHidden
  BY <1>4 DEF AppHidden, HandlerInv, Busy, Top
<1>5. CASE AppShows
  <2>1. appStack # <<>>
    BY <1>5 DEF AppShows, TypeInv, HandlesTop
  <2> QED
    BY <1>5, <2>1 DEF AppShows, HandlerInv, Busy, Top
<1>6. CASE StopMessage
  <2>1. appStack # <<>>
    BY <1>6, TailIsQueue DEF LoaderAssumption, StopMessage, Refused, RunningApp
  <2>2. Top # NoInstance
    BY <2>1 DEF TypeInv, TypeOK, Top, Instances, NoInstance
  <2> QED
    BY <1>6, <2>1, <2>2 DEF StopMessage, HandlerInv, Busy, Top, guiVars
<1>7. CASE AppDestroyed
  <2>1. Len(appStack) = 1 => appStack' = <<>>
    BY <1>7, SubSeqEmpty DEF AppDestroyed
  <2> QED
    BY <1>7, <2>1 DEF AppDestroyed, HandlerInv, Busy, guiVars
<1>8. CASE ResultDelivered
  BY <1>8 DEF ResultDelivered, HandlerInv, Busy, Top, guiVars
<1> QED
  BY <1>1, <1>2, <1>3, <1>4, <1>5, <1>6, <1>7, <1>8, HandlerSteps

-----------------------------------------------------------------------------
(* The instance that onStartAppMessage() has put on the stack and not shown yet. *)
Fresh(k) == /\ appStack # <<>> /\ k = Top
            /\ lpc = "create" \/ (lpc \in {"hide", "show"} /\ ~ stopping)

Expected(k) ==
    IF k \notin Created THEN "Initial"
    ELSE IF Fresh(k) THEN IF lpc = "create" THEN "Initial" ELSE "Started"
    ELSE IF k = showing THEN "Showing"
    ELSE IF OnStack(k) THEN "Hiding" ELSE "Stopped"

(* Which state each instance is in follows from the stack and from the handler. *)
StateInv == \A k \in Instances : appState[k] = Expected(k)

IInv == TypeInv /\ StackInv /\ HandlerInv /\ StateInv

LEMMA TopFacts ==
    ASSUME LoaderAssumption, IInv, appStack # <<>>
    PROVE  /\ Top \in Created /\ Top \in Instances /\ OnStack(Top) /\ Top # NoInstance
           /\ Below = NoInstance \/ (Below \in Created /\ OnStack(Below) /\ Below # Top)
<1>1. Len(appStack) \in Nat \ {0} /\ appStack \in Seq(Instances)
  BY EmptySeq DEF IInv, TypeInv, TypeOK
<1>2. \A i \in StackPositions : appStack[i] \in Instances /\ appStack[i] \in Created
  BY <1>1 DEF IInv, TypeInv, TypeOK, StackIsCreated, StackPositions, Created,
              LoaderAssumption
<1>3. Len(appStack) \in StackPositions
  BY <1>1 DEF StackPositions
<1>4. Top \in Created /\ Top \in Instances /\ OnStack(Top)
  BY <1>2, <1>3 DEF Top, OnStack, StackPositions
<1>5. Top # NoInstance
  BY <1>4 DEF Instances, NoInstance
<1>6. Len(appStack) # 1 => Len(appStack) - 1 \in StackPositions
  <2>1. \A n \in Nat \ {0} : n # 1 => n - 1 \in 1 .. n
    OBVIOUS
  <2> QED
    BY <1>1, <2>1 DEF StackPositions
<1>7. ASSUME Len(appStack) # 1
      PROVE  Below \in Created /\ OnStack(Below) /\ Below # Top
  <2>1. Below = appStack[Len(appStack) - 1]
    BY <1>7 DEF Below
  <2>2. Below \in Created /\ OnStack(Below)
    BY <1>2, <1>6, <1>7, <2>1 DEF OnStack, StackPositions
  <2>3. Below # Top
    <3>1. appStack[Len(appStack) - 1] = appStack[Len(appStack)]
          => Len(appStack) - 1 = Len(appStack)
      BY <1>3, <1>6, <1>7 DEF IInv, StackInv
    <3> QED
      BY <1>1, <2>1, <3>1 DEF Top
  <2> QED
    BY <2>2, <2>3
<1>8. Len(appStack) = 1 => Below = NoInstance
  BY DEF Below
<1> QED
  BY <1>4, <1>5, <1>7, <1>8

(* What a step adds to the stack or takes from it, as a set. *)
LEMMA PushedStack ==
    ASSUME LoaderAssumption, IInv, NEW k \in Instances, appStack' = Append(appStack, k)
    PROVE  /\ \A j \in Instances : OnStack(j)' <=> OnStack(j) \/ j = k
           /\ Top' = k /\ appStack' # <<>>
<1>1. /\ Len(appStack') = Len(appStack) + 1 /\ Len(appStack) \in Nat
      /\ appStack' # <<>>
      /\ appStack'[Len(appStack) + 1] = k
      /\ \A i \in 1 .. Len(appStack) : appStack'[i] = appStack[i]
  BY AppendProperties DEF IInv, TypeInv, TypeOK
<1> QED
  BY <1>1 DEF OnStack, Top

LEMMA PoppedInstances ==
    ASSUME LoaderAssumption, IInv, appStack # <<>>,
           appStack' = SubSeq(appStack, 1, Len(appStack) - 1)
    PROVE  \A j \in Instances : OnStack(j)' <=> OnStack(j) /\ j # Top
<1>1. /\ Len(appStack') = Len(appStack) - 1 /\ Len(appStack) \in Nat \ {0}
      /\ \A i \in 1 .. Len(appStack) - 1 : appStack'[i] = appStack[i]
  BY PoppedStack DEF IInv
<1>2. \A i \in 1 .. Len(appStack) : appStack[i] = Top <=> i = Len(appStack)
  BY <1>1 DEF IInv, StackInv, StackPositions, Top
<1> QED
  BY <1>1, <1>2 DEF OnStack

LEMMA StateInvStep ==
    ASSUME LoaderAssumption, IInv, HandlerInv', [Next]_vars
    PROVE  StateInv'
<1> USE DEF IInv
<1>0. appState \in [Instances -> {"Initial", "Started", "Showing", "Hiding", "Stopped"}]
  BY DEF TypeInv, TypeOK
<1>1. CASE Elsewhere
  BY <1>1 DEF Elsewhere, StateInv, Expected, Fresh, Created, OnStack, Top
<1>2. CASE StartMessage
  <2>1. PICK k \in Instances \ Created :
             /\ appOf' = [appOf EXCEPT ![k] = Head(messages).app]
             /\ appStack' = Append(appStack, k)
    BY <1>2 DEF StartMessage
  <2>2. Head(messages).app # None
    BY <1>2 DEF StartMessage, LoaderAssumption
  <2>3. \A j \in Instances : j \in Created' <=> j \in Created \/ j = k
    BY <2>1, <2>2 DEF Created, TypeInv, TypeOK
  <2>4. /\ \A j \in Instances : OnStack(j)' <=> OnStack(j) \/ j = k
        /\ Top' = k /\ appStack' # <<>>
    BY <2>1, PushedStack
  <2>5. /\ lpc = "idle" /\ lpc' = "create" /\ UNCHANGED <<appState, showing>>
    BY <1>2 DEF StartMessage, guiVars
  <2>6. showing # k
    BY <2>1, <2>5, TopFacts DEF HandlerInv, Instances, NoInstance
  <2> QED
    BY <2>1, <2>3, <2>4, <2>5, <2>6 DEF StateInv, Expected, Fresh
<1>3. CASE AppCreated
  <2>1. appStack # <<>>
    BY <1>3 DEF AppCreated, TypeInv, HandlesTop
  <2>2. Top \in Created /\ Top \in Instances
    BY <2>1, TopFacts
  <2> QED
    BY <1>0, <1>3, <2>1, <2>2
    DEF AppCreated, StateInv, Expected, Fresh, Created, OnStack, Top, guiVars, HandlerInv
<1>4. CASE AppHidden
  <2>1. appStack # <<>>
    BY <1>4 DEF AppHidden, TypeInv, HandlesTop
  <2>2. /\ Top \in Created /\ Top \in Instances /\ OnStack(Top)
        /\ Below = NoInstance \/ (Below \in Created /\ OnStack(Below) /\ Below # Top)
    BY <2>1, TopFacts
  <2>3. /\ showing = target /\ target # NoInstance
        /\ target = IF stopping THEN Top ELSE Below
        /\ showing' = NoInstance /\ appState' = [appState EXCEPT ![target] = "Hiding"]
        /\ lpc = "hide" /\ lpc' = IF stopping THEN "destroy" ELSE "show"
        /\ UNCHANGED <<appStack, appOf, stopping>>
    BY <1>4 DEF AppHidden, HandlerInv
  <2>4. \A k \in Instances : k # NoInstance
    BY DEF Instances, NoInstance
  <2> QED
    BY <1>0, <2>1, <2>2, <2>3, <2>4
    DEF StateInv, Expected, Fresh, Created, OnStack, Top
<1>5. CASE AppShows
  <2>1. appStack # <<>>
    BY <1>5 DEF AppShows, TypeInv, HandlesTop
  <2>2. Top \in Created /\ Top \in Instances /\ OnStack(Top) /\ Top # NoInstance
    BY <2>1, TopFacts
  <2>3. /\ showing = NoInstance /\ showing' = Top
        /\ appState' = [appState EXCEPT ![Top] = "Showing"]
        /\ lpc = "show" /\ lpc' = IF stopping THEN "result" ELSE "idle"
        /\ UNCHANGED <<appStack, appOf, stopping>>
    BY <1>5 DEF AppShows, HandlerInv
  <2>4. \A k \in Instances : k # NoInstance
    BY DEF Instances, NoInstance
  <2> QED
    BY <1>0, <2>1, <2>2, <2>3, <2>4
    DEF StateInv, Expected, Fresh, Created, OnStack, Top
<1>6. CASE StopMessage
  <2>1. /\ lpc = "idle" /\ lpc' = "hide" /\ stopping'
        /\ UNCHANGED <<appStack, appOf, appState, showing>>
    BY <1>6 DEF StopMessage, guiVars
  <2> QED
    BY <2>1 DEF StateInv, Expected, Fresh, Created, OnStack, Top
<1>7. CASE AppDestroyed
  <2>1. appStack # <<>>
    BY <1>7 DEF AppDestroyed, TypeInv, HandlesTop
  <2>2. Top \in Created /\ Top \in Instances /\ OnStack(Top) /\ Top # NoInstance
    BY <2>1, TopFacts
  <2>3. \A j \in Instances : OnStack(j)' <=> OnStack(j) /\ j # Top
    BY <1>7, <2>1, PoppedInstances DEF AppDestroyed
  <2>4. /\ stopping /\ stopping' = stopping /\ target = Top
        /\ showing = NoInstance /\ UNCHANGED <<showing, appOf>>
        /\ appState' = [appState EXCEPT ![target] = "Stopped"]
        /\ lpc = "destroy" /\ lpc' \in {"idle", "show"}
    BY <1>7 DEF AppDestroyed, HandlerInv, guiVars
  <2>5. \A k \in Instances : k # NoInstance
    BY DEF Instances, NoInstance
  <2> QED
    BY <1>0, <2>1, <2>2, <2>3, <2>4, <2>5 DEF StateInv, Expected, Fresh, Created
<1>8. CASE ResultDelivered
  BY <1>8 DEF ResultDelivered, StateInv, Expected, Fresh, Created, OnStack, Top, guiVars
<1> QED
  BY <1>1, <1>2, <1>3, <1>4, <1>5, <1>6, <1>7, <1>8, HandlerSteps

LEMMA IInvHolds ==
    ASSUME LoaderAssumption
    PROVE  Spec => []IInv
<1>1. ASSUME Init
      PROVE  IInv
  <2>1. TypeInv
    BY <1>1, TypeInvInit
  <2>2. StackInv /\ HandlerInv
    BY <1>1 DEF Init, StackInv, StackPositions, HandlerInv, Busy
  <2>3. StateInv
    BY <1>1 DEF Init, StateInv, Expected, Created
  <2> QED
    BY <2>1, <2>2, <2>3 DEF IInv
<1>2. ASSUME IInv, [Next]_vars
      PROVE  IInv'
  BY <1>2, TypeInvStep, StackInvStep, HandlerInvStep, StateInvStep DEF IInv
<1> QED
  BY <1>1, <1>2, PTL DEF Spec

(* Between two messages the app on top of the stack, and no other, is Showing,
   those below it are Hiding, and all others that were created are Stopped.  *)
THEOREM TopShown ==
    ASSUME LoaderAssumption
    PROVE  Spec => []TopIsShown
<1>1. ASSUME IInv
      PROVE  TopIsShown
  <2>1. ASSUME mutex = None
        PROVE  lpc \in {"idle", "result"}
    BY <1>1, <2>1 DEF IInv, TypeInv, TypeOK, HandlerInv, Busy, LoaderAssumption, Clients
  <2>2. \A k \in Created : k \in Instances
    BY DEF Created
  <2> QED
    BY <1>1, <2>1, <2>2
    DEF IInv, TopIsShown, HandlerInv, StateInv, Expected, Fresh
<1> QED
  BY <1>1, IInvHolds, PTL

(* The tt_checks of showApp() and hideApp() hold: Showing and Hiding alternate. *)
THEOREM HooksAlternateAlways ==
    ASSUME LoaderAssumption
    PROVE  Spec => []HooksAlternate
<1>1. IInv => HooksAlternate
  BY DEF IInv, HandlerInv, HooksAlternate
<1> QED
  BY <1>1, IInvHolds, PTL

(* onResult() is called for the app that is on top and showing. *)
THEOREM ResultReachesTop ==
    ASSUME LoaderAssumption
    PROVE  Spec => []ResultGoesToTop
<1>1. ASSUME IInv, lpc = "result"
      PROVE  appStack # <<>> /\ showing = Top /\ appState[Top] = "Showing"
  <2>1. appStack # <<>> /\ showing = Top
    BY <1>1 DEF IInv, TypeInv, HandlesTop, HandlerInv
  <2>2. Top \in Created /\ Top \in Instances
    BY <1>1, <2>1, TopFacts
  <2> QED
    BY <1>1, <2>1, <2>2 DEF IInv, StateInv, Expected, Fresh
<1>2. IInv => ResultGoesToTop
  BY <1>1 DEF ResultGoesToTop
<1> QED
  BY <1>2, IInvHolds, PTL

(* Every app goes through its states in the order of its lifecycle. *)
THEOREM LifecycleInOrder ==
    ASSUME LoaderAssumption
    PROVE  Spec => LifecycleOrder
<1> DEFINE A == \A k \in Instances : \/ appState'[k] = appState[k]
                                     \/ <<appState[k], appState'[k]>> \in LifecycleSteps
<1>1. ASSUME IInv, [Next]_vars
      PROVE  A
  <2>0. appState \in [Instances -> {"Initial", "Started", "Showing", "Hiding", "Stopped"}]
    BY <1>1 DEF IInv, TypeInv, TypeOK
  <2>1. CASE Elsewhere \/ StartMessage \/ StopMessage \/ ResultDelivered
    BY <2>1 DEF Elsewhere, StartMessage, StopMessage, ResultDelivered
  <2>2. CASE AppCreated
    <3>1. appStack # <<>>
      BY <1>1, <2>2 DEF AppCreated, IInv, TypeInv, HandlesTop
    <3>2. Top \in Created /\ Top \in Instances
      BY <1>1, <3>1, TopFacts
    <3>3. appState[Top] = "Initial"
      BY <1>1, <2>2, <3>1, <3>2 DEF AppCreated, IInv, StateInv, Expected, Fresh
    <3> QED
      BY <2>0, <2>2, <3>2, <3>3 DEF AppCreated, LifecycleSteps
  <2>3. CASE AppHidden
    <3>1. appStack # <<>>
      BY <1>1, <2>3 DEF AppHidden, IInv, TypeInv, HandlesTop
    <3>2. /\ Top \in Created /\ Top \in Instances
          /\ Below = NoInstance \/ (Below \in Created /\ Below # Top)
      BY <1>1, <3>1, TopFacts
    <3>3. /\ showing = target /\ target # NoInstance
          /\ target = IF stopping THEN Top ELSE Below
          /\ appState' = [appState EXCEPT ![target] = "Hiding"]
      BY <1>1, <2>3 DEF AppHidden, IInv, HandlerInv
    <3>4. target \in Created /\ target \in Instances
      BY <3>2, <3>3 DEF Created
    <3>5. appState[target] = "Showing"
      BY <1>1, <2>3, <3>2, <3>3, <3>4 DEF AppHidden, IInv, StateInv, Expected, Fresh
    <3> QED
      BY <2>0, <3>3, <3>4, <3>5 DEF LifecycleSteps
  <2>4. CASE AppShows
    <3>1. appStack # <<>>
      BY <1>1, <2>4 DEF AppShows, IInv, TypeInv, HandlesTop
    <3>2. Top \in Created /\ Top \in Instances /\ OnStack(Top) /\ Top # NoInstance
      BY <1>1, <3>1, TopFacts
    <3>3. showing = NoInstance /\ appState' = [appState EXCEPT ![Top] = "Showing"]
      BY <1>1, <2>4 DEF AppShows, IInv, HandlerInv
    <3>4. appState[Top] \in {"Started", "Hiding"}
      BY <1>1, <2>4, <3>1, <3>2, <3>3 DEF AppShows, IInv, StateInv, Expected, Fresh
    <3> QED
      BY <2>0, <3>2, <3>3, <3>4 DEF LifecycleSteps
  <2>5. CASE AppDestroyed
    <3>1. appStack # <<>>
      BY <1>1, <2>5 DEF AppDestroyed, IInv, TypeInv, HandlesTop
    <3>2. Top \in Created /\ Top \in Instances /\ OnStack(Top) /\ Top # NoInstance
      BY <1>1, <3>1, TopFacts
    <3>3. /\ stopping /\ target = Top /\ showing = NoInstance
          /\ appState' = [appState EXCEPT ![target] = "Stopped"]
      BY <1>1, <2>5 DEF AppDestroyed, IInv, HandlerInv
    <3>4. appState[Top] = "Hiding"
      BY <1>1, <2>5, <3>2, <3>3 DEF AppDestroyed, IInv, StateInv, Expected, Fresh
    <3> QED
      BY <2>0, <3>2, <3>3, <3>4 DEF LifecycleSteps
  <2> QED
    BY <1>1, <2>1, <2>2, <2>3, <2>4, <2>5, HandlerSteps
<1>2. IInv /\ [Next]_vars => [A]_vars
  BY <1>1
<1>3. [][A]_vars => LifecycleOrder
  BY DEF LifecycleOrder
<1> QED
  BY <1>2, <1>3, IInvHolds, PTL DEF Spec

-----------------------------------------------------------------------------
(* How the boot app hands over, as long as no message was dropped. *)

Asleep == \A c \in Clients \ {BootThread} : cpc[c] = "idle"

PoweredOn ==
    /\ appStack = <<>> /\ lpc = "idle" /\ messages = <<Message("start", Boot)>>
    /\ bootPhase = "absent" /\ cpc[BootThread] = "idle"
    /\ Asleep /\ drawn = NoInstance

(* The stop of Boot is first in the queue, or it is handled and `rest` waits. *)
StopsBoot(queue, rest) == \/ lpc = "idle" /\ messages = queue
                          \/ lpc \in {"hide", "destroy"} /\ stopping /\ messages = rest

StopOfBoot == Message("stop", Boot)

StartOfLauncher == Message("start", Launcher)

BootStarts == /\ bootPhase = "absent" /\ cpc[BootThread] = "idle" /\ messages = <<>>
              /\ lpc = "create" \/ lpc = "idle" \/ (lpc = "show" /\ ~ stopping)

BootAsks == /\ messages = <<>> /\ lpc = "idle" /\ ~ drawPending
            /\ \/ bootPhase = "splash" /\ cpc[BootThread] = "idle"
               \/ bootPhase = "stopped" /\ cpc[BootThread] = "top"
               \/ bootPhase = "stopped" /\ cpc[BootThread] = "postStop"
                    /\ carg[BootThread] = Boot

BootStops ==
    /\ ~ drawPending
    /\ \/ bootPhase = "stopped" /\ cpc[BootThread] = "idle" /\ StopsBoot(<<StopOfBoot>>, <<>>)
       \/ /\ bootPhase = "started" /\ cpc[BootThread] = "post" /\ StopsBoot(<<StopOfBoot>>, <<>>)
          /\ carg[BootThread] = Launcher
       \/ /\ bootPhase \in {"started", "ended"} /\ cpc[BootThread] = "idle"
          /\ StopsBoot(<<StopOfBoot, StartOfLauncher>>, <<StartOfLauncher>>)

BootUp ==
    /\ Len(appStack) = 1 /\ appOf[Top] = Boot
    /\ Asleep /\ drawn \in {NoInstance, Top}
    /\ BootStarts \/ BootAsks \/ BootStops

Between ==
    /\ appStack = <<>> /\ lpc = "idle" /\ messages = <<StartOfLauncher>>
    /\ bootPhase = "ended" /\ cpc[BootThread] = "idle"
    /\ Asleep /\ (drawn = NoInstance \/ appOf[drawn] = Boot)

Running ==
    /\ appStack # <<>> /\ \A i \in StackPositions : appOf[appStack[i]] # Boot
    /\ bootPhase = "ended"
    /\ lpc \in {"hide", "destroy"} /\ stopping => Len(appStack) # 1
    /\ \A i \in 1 .. Len(messages) : messages[i] # Message("start", Boot)
    /\ \A c \in Clients : /\ cpc[c] # "undefined"
                          /\ cpc[c] = "post" => carg[c] # Boot

(* The stack is empty only before Boot is started and between Boot and the
   launcher, and then nobody asks for its top.                             *)
BootInv == drops = 0 => PoweredOn \/ BootUp \/ Between \/ Running

LEMMA ShortQueues ==
    ASSUME NEW a, NEW b
    PROVE  /\ Append(<<>>, a) = <<a>> /\ Append(<<a>>, b) = <<a, b>>
           /\ <<a>> # <<>> /\ Head(<<a>>) = a /\ Tail(<<a>>) = <<>>
           /\ <<a, b>> # <<>> /\ Head(<<a, b>>) = a /\ Tail(<<a, b>>) = <<b>>
<1>1. <<a>> \in Seq({a, b}) /\ <<a, b>> \in Seq({a, b})
  OBVIOUS
<1>2. /\ Append(<<a>>, b) \in Seq({a, b}) /\ Len(Append(<<a>>, b)) = 2
      /\ Append(<<a>>, b)[1] = a /\ Append(<<a>>, b)[2] = b
  BY <1>1, AppendProperties
<1>3. Len(<<a, b>>) = 2 /\ <<a, b>>[1] = a /\ <<a, b>>[2] = b
  OBVIOUS
<1>4. \A i \in 1 .. 2 : Append(<<a>>, b)[i] = <<a, b>>[i]
  BY <1>2, <1>3
<1>5. Append(<<a>>, b) = <<a, b>>
  BY <1>1, <1>2, <1>3, <1>4, SeqEqual
<1> QED
  BY <1>5

(* While only Boot runs, nobody but the boot thread calls the loader. *)
LEMMA OnlyBootThreadCalls ==
    ASSUME LoaderAssumption, IInv, Asleep, drawn = NoInstance \/ appOf[drawn] = Boot,
           appStack # <<>> => appOf[Top] = Boot,
           NEW c \in Clients, ClientAction(c)
    PROVE  c = BootThread
<1>1. ASSUME c # BootThread
      PROVE  cpc[c] = "idle" /\ ~ MayCall(c)
  BY <1>1 DEF Asleep, MayCall, Clients, IInv, TypeInv, HandlesTop, NoInstance
<1> QED
  BY <1>1 DEF ClientAction, StopApp, StartApp, PostStart, GetCurrentApp, PostStop

LEMMA PoweredOnStep ==
    ASSUME LoaderAssumption, IInv, PoweredOn, [Next]_vars
    PROVE  drops' # 0 \/ PoweredOn' \/ BootUp'
<1>1. CASE \E c \in Clients : ClientAction(c)
  <2>1. PICK c \in Clients : ClientAction(c)
    BY <1>1
  <2>2. c = BootThread
    BY <2>1, OnlyBootThreadCalls DEF PoweredOn
  <2> QED
    BY <2>1, <2>2
    DEF PoweredOn, ClientAction, StopApp, StartApp, PostStart, GetCurrentApp, PostStop,
        BootPhaseFor
<1>2. CASE BootEnds
  BY <1>2 DEF BootEnds, PoweredOn
<1>3. CASE Redraw
  <2>1. showing = NoInstance /\ AppShown # Boot
    BY DEF IInv, HandlerInv, PoweredOn, AppShown, LoaderAssumption
  <2> QED
    BY <1>3, <2>1 DEF Redraw, PoweredOn, Asleep
<1>4. CASE DropMessage
  BY <1>4 DEF DropMessage, IInv, TypeInv, TypeOK
<1>5. CASE HandlerStep
  <2>1. Head(messages) = Message("start", Boot) /\ Tail(messages) = <<>>
    BY ShortQueues DEF PoweredOn
  <2>2. StartMessage
    BY <1>5, <2>1
    DEF HandlerStep, Handling, PoweredOn, UnknownApp, AppCreated, AppHidden, AppShows,
        StopRefused, StopMessage, AppDestroyed, ResultDelivered, Message, LoaderAssumption
  <2>3. PICK k \in Instances : /\ appOf' = [appOf EXCEPT ![k] = Boot]
                               /\ appStack' = Append(appStack, k)
    <3>1. Head(messages).app = Boot
      BY <2>1 DEF Message
    <3>2. PICK k \in Instances \ Created :
               /\ appOf' = [appOf EXCEPT ![k] = Head(messages).app]
               /\ appStack' = Append(appStack, k)
      BY <2>2 DEF StartMessage
    <3> QED
      BY <3>1, <3>2
  <2>4. Len(appStack') = 1 /\ Top' = k
    BY <2>3, PushedStack DEF PoweredOn, Top
  <2>5. appOf'[k] = Boot
    BY <2>3 DEF IInv, TypeInv, TypeOK
  <2> QED
    BY <2>1, <2>2, <2>4, <2>5
    DEF StartMessage, PoweredOn, BootUp, BootStarts, Asleep, clientVars, guiVars
<1>6. CASE UNCHANGED vars
  BY <1>6 DEF PoweredOn, Asleep, vars, loaderVars, guiVars, clientVars
<1> QED
  BY <1>1, <1>2, <1>3, <1>4, <1>5, <1>6, Steps

LEMMA BetweenStep ==
    ASSUME LoaderAssumption, IInv, Between, [Next]_vars
    PROVE  drops' # 0 \/ Between' \/ Running'
<1>1. CASE \E c \in Clients : ClientAction(c)
  <2>1. PICK c \in Clients : ClientAction(c)
    BY <1>1
  <2>2. c = BootThread
    BY <2>1, OnlyBootThreadCalls DEF Between
  <2> QED
    BY <2>1, <2>2
    DEF Between, ClientAction, StopApp, StartApp, PostStart, GetCurrentApp, PostStop,
        BootPhaseFor
<1>2. CASE BootEnds
  BY <1>2 DEF BootEnds, Between
<1>3. CASE Redraw
  <2>1. showing = NoInstance /\ AppShown # Boot
    BY DEF IInv, HandlerInv, Between, AppShown, LoaderAssumption
  <2> QED
    BY <1>3, <2>1 DEF Redraw, Between, Asleep
<1>4. CASE DropMessage
  BY <1>4 DEF DropMessage, IInv, TypeInv, TypeOK
<1>5. CASE HandlerStep
  <2>1. Head(messages) = StartOfLauncher /\ Tail(messages) = <<>>
    BY ShortQueues DEF Between
  <2>2. StartMessage
    BY <1>5, <2>1
    DEF HandlerStep, Handling, Between, UnknownApp, AppCreated, AppHidden, AppShows,
        StopRefused, StopMessage, AppDestroyed, ResultDelivered, Message, StartOfLauncher,
        LoaderAssumption
  <2>3. PICK k \in Instances : /\ appOf' = [appOf EXCEPT ![k] = Launcher]
                               /\ appStack' = Append(appStack, k)
    <3>1. Head(messages).app = Launcher
      BY <2>1 DEF Message, StartOfLauncher
    <3>2. PICK k \in Instances \ Created :
               /\ appOf' = [appOf EXCEPT ![k] = Head(messages).app]
               /\ appStack' = Append(appStack, k)
      BY <2>2 DEF StartMessage
    <3> QED
      BY <3>1, <3>2
  <2>4. appStack' = <<k>>
    BY <2>3, ShortQueues DEF Between
  <2>5. appOf'[k] # Boot
    BY <2>3 DEF IInv, TypeInv, TypeOK, LoaderAssumption
  <2>6. appStack' # <<>> /\ \A i \in 1 .. Len(appStack') : appOf'[appStack'[i]] # Boot
    BY <2>4, <2>5
  <2>7. \A c \in Clients : cpc'[c] = "idle"
    BY <2>2 DEF StartMessage, Between, Asleep, clientVars
  <2>8. bootPhase' = "ended" /\ lpc' = "create" /\ messages' = <<>>
    BY <2>1, <2>2 DEF StartMessage, Between, clientVars
  <2> QED
    BY <2>6, <2>7, <2>8 DEF Running, StackPositions
<1>6. CASE UNCHANGED vars
  BY <1>6 DEF Between, Asleep, vars, loaderVars, guiVars, clientVars
<1> QED
  BY <1>1, <1>2, <1>3, <1>4, <1>5, <1>6, Steps

LEMMA BootUpFacts ==
    ASSUME LoaderAssumption, IInv, BootUp
    PROVE  /\ appStack # <<>> /\ lpc \in {"create", "idle", "show", "hide", "destroy"}
           /\ drawn = NoInstance \/ appOf[drawn] = Boot
           /\ Below = NoInstance /\ showing \in {NoInstance, Top}
           /\ lpc \in {"create", "show"} => showing = NoInstance
           /\ \A c \in Clients : ClientAction(c) => c = BootThread
<1>1. appStack # <<>> /\ Below = NoInstance
  BY DEF BootUp, Below
<1>2. drawn = NoInstance \/ appOf[drawn] = Boot
  BY DEF BootUp
<1>3. lpc \in {"create", "idle", "show", "hide", "destroy"}
  BY DEF BootUp, BootStarts, BootAsks, BootStops, StopsBoot
<1>4. showing \in {NoInstance, Top} /\ (lpc \in {"create", "show"} => showing = NoInstance)
  BY <1>1, <1>3 DEF IInv, HandlerInv
<1>5. \A c \in Clients : ClientAction(c) => c = BootThread
  BY <1>1, <1>2, OnlyBootThreadCalls DEF BootUp
<1> QED
  BY <1>1, <1>2, <1>3, <1>4, <1>5

(* The boot thread runs its course. *)
LEMMA BootUpClient ==
    ASSUME LoaderAssumption, IInv, BootUp, ClientAction(BootThread), UNCHANGED drops
    PROVE  BootUp'
<1>1. UNCHANGED loaderVars
  BY DEF ClientAction, StopApp, StartApp, PostStart, GetCurrentApp, PostStop
<1>2. Len(appStack') = 1 /\ appOf'[Top'] = Boot /\ drawn' \in {NoInstance, Top'}
  BY <1>1 DEF BootUp, Top, loaderVars, guiVars
<1>3. BootThread \in Clients /\ appStack # <<>>
  BY BootUpFacts DEF Clients
<1>4. Asleep' /\ cpc' = [cpc EXCEPT ![BootThread] = cpc'[BootThread]]
  BY <1>3 DEF BootUp, Asleep, IInv, TypeInv, TypeOK, ClientAction, StopApp, StartApp,
              PostStart, GetCurrentApp, PostStop
<1>5. CASE StopApp(BootThread)
  <2>1. /\ bootPhase = "splash" /\ bootPhase' = "stopped" /\ cpc'[BootThread] = "top"
        /\ messages' = messages
    BY <1>3, <1>5 DEF StopApp, BootPhaseFor, IInv, TypeInv, TypeOK
  <2> QED
    BY <1>1, <1>2, <1>4, <2>1
    DEF BootUp, BootStarts, BootAsks, BootStops, loaderVars, guiVars
<1>6. CASE GetCurrentApp(BootThread)
  <2>1. /\ cpc[BootThread] = "top" /\ cpc'[BootThread] = "postStop"
        /\ carg'[BootThread] = appOf[Top]
        /\ messages' = messages /\ bootPhase' = bootPhase
    BY <1>3, <1>6 DEF GetCurrentApp, IInv, TypeInv, TypeOK
  <2> QED
    BY <1>1, <1>2, <1>4, <2>1
    DEF BootUp, BootStarts, BootAsks, BootStops, loaderVars, guiVars
<1>7. CASE PostStop(BootThread)
  <2>1. /\ cpc[BootThread] = "postStop" /\ cpc'[BootThread] = "idle"
        /\ messages' = Append(messages, Message("stop", carg[BootThread]))
        /\ bootPhase' = bootPhase
    BY <1>3, <1>7 DEF PostStop, IInv, TypeInv, TypeOK
  <2>2. BootAsks
    BY <2>1 DEF BootUp, BootStarts, BootStops
  <2>3. messages' = <<StopOfBoot>>
    BY <2>1, <2>2, ShortQueues DEF BootAsks, StopOfBoot
  <2> QED
    BY <1>1, <1>2, <1>4, <2>1, <2>2, <2>3
    DEF BootUp, BootAsks, BootStops, StopsBoot, loaderVars, guiVars
<1>8. ASSUME NEW app \in Apps, StartApp(BootThread, app)
      PROVE  BootUp'
  <2>1. /\ bootPhase = "stopped" /\ bootPhase' = "started"
        /\ cpc[BootThread] = "idle" /\ cpc'[BootThread] = "post"
        /\ carg'[BootThread] = Launcher /\ messages' = messages
    BY <1>3, <1>8 DEF StartApp, MayCall, BootPhaseFor, IInv, TypeInv, TypeOK
  <2>2. BootStops
    BY <2>1 DEF BootUp, BootStarts, BootAsks
  <2> QED
    BY <1>1, <1>2, <1>4, <2>1, <2>2
    DEF BootUp, BootStops, StopsBoot, loaderVars, guiVars
<1>9. CASE PostStart(BootThread)
  <2>1. /\ cpc[BootThread] = "post" /\ cpc'[BootThread] = "idle"
        /\ messages' = Append(messages, Message("start", carg[BootThread]))
        /\ bootPhase' = bootPhase
    BY <1>3, <1>9 DEF PostStart, IInv, TypeInv, TypeOK
  <2>2. BootStops /\ StopsBoot(<<StopOfBoot>>, <<>>) /\ bootPhase = "started"
        /\ carg[BootThread] = Launcher
    BY <2>1 DEF BootUp, BootStarts, BootAsks, BootStops
  <2>3. StopsBoot(<<StopOfBoot, StartOfLauncher>>, <<StartOfLauncher>>)'
    <3>1. messages' = Append(messages, StartOfLauncher)
      BY <2>1, <2>2 DEF StartOfLauncher
    <3>2. messages = <<StopOfBoot>> => messages' = <<StopOfBoot, StartOfLauncher>>
      BY <3>1, ShortQueues
    <3>3. messages = <<>> => messages' = <<StartOfLauncher>>
      BY <3>1, ShortQueues
    <3>4. UNCHANGED <<lpc, stopping, StopOfBoot, StartOfLauncher>>
      BY <1>1 DEF loaderVars, StopOfBoot, StartOfLauncher, Message
    <3> QED
      BY <2>2, <3>2, <3>3, <3>4 DEF StopsBoot
  <2> QED
    BY <1>1, <1>2, <1>4, <2>1, <2>2, <2>3 DEF BootUp, BootStops, loaderVars, guiVars
<1> QED
  BY <1>5, <1>6, <1>7, <1>8, <1>9 DEF ClientAction

LEMMA BootUpStep ==
    ASSUME LoaderAssumption, IInv, HandlerInv', BootUp, [Next]_vars
    PROVE  drops' # 0 \/ BootUp' \/ Between'
<1>0. /\ appStack # <<>> /\ lpc \in {"create", "idle", "show", "hide", "destroy"}
      /\ Below = NoInstance /\ showing \in {NoInstance, Top}
      /\ lpc \in {"create", "show"} => showing = NoInstance
  BY BootUpFacts
<1>1. CASE \E c \in Clients : ClientAction(c) /\ UNCHANGED drops
  BY <1>1, BootUpFacts, BootUpClient
<1>2. CASE BootEnds
  BY <1>2 DEF BootEnds, BootUp, BootStarts, BootAsks, BootStops, StopsBoot, Asleep,
              loaderVars, guiVars, Top
<1>3. CASE Redraw
  <2>1. /\ Len(appStack') = 1 /\ appOf'[Top'] = Boot /\ drawn' \in {NoInstance, Top'}
        /\ Asleep'
    BY <1>0, <1>3 DEF Redraw, BootUp, Asleep, Top
  <2>2. BootStarts
    BY <1>3 DEF Redraw, BootUp, BootAsks, BootStops
  <2>3. CASE bootPhase' = bootPhase
    BY <1>3, <2>1, <2>2, <2>3 DEF Redraw, BootUp, BootStarts
  <2>4. CASE bootPhase' # bootPhase
    <3>1. bootPhase' = "splash" /\ AppShown = Boot
      BY <1>3, <2>4 DEF Redraw
    <3>2. lpc = "idle"
      BY <1>0, <2>2, <3>1 DEF AppShown, BootStarts, LoaderAssumption
    <3> QED
      BY <1>3, <2>1, <2>2, <3>1, <3>2 DEF Redraw, BootUp, BootStarts, BootAsks
  <2> QED
    BY <2>3, <2>4
<1>4. CASE DropMessage
  BY <1>4 DEF DropMessage, IInv, TypeInv, TypeOK
<1>5. CASE HandlerStep
  <2>0. Asleep' /\ UNCHANGED <<bootPhase, cpc, carg, drops, drawn>>
    BY <1>5 DEF HandlerStep, Handling, UnknownApp, StartMessage, AppCreated, AppHidden,
                AppShows, StopRefused, StopMessage, AppDestroyed, ResultDelivered, BootUp,
                Asleep, clientVars, loaderVars, guiVars
  <2>1. CASE BootStarts
    <3>1. AppCreated \/ AppShows
      BY <1>5, <2>1 DEF HandlerStep, Handling, UnknownApp, StartMessage, AppHidden,
                        StopRefused, StopMessage, AppDestroyed, ResultDelivered, BootStarts
    <3>2. AppCreated => lpc' = "show" /\ ~ stopping'
      BY <1>0 DEF AppCreated, IInv, HandlerInv
    <3>3. AppShows => lpc' = "idle"
      BY <1>0, <2>1 DEF AppShows, BootStarts
    <3>4. UNCHANGED <<messages, appStack, appOf>>
      BY <3>1 DEF AppCreated, AppShows
    <3> QED
      BY <2>0, <2>1, <3>1, <3>2, <3>3, <3>4 DEF BootUp, BootStarts, Top
  <2>2. CASE BootAsks
    BY <1>5, <2>2 DEF HandlerStep, Handling, UnknownApp, StartMessage, AppCreated, AppHidden,
                      AppShows, StopRefused, StopMessage, AppDestroyed, ResultDelivered,
                      BootAsks
  <2>3. CASE BootStops /\ lpc = "idle"
    <3>1. /\ messages \in {<<StopOfBoot>>, <<StopOfBoot, StartOfLauncher>>}
      BY <2>3 DEF BootStops, StopsBoot
    <3>2. /\ Head(messages) = StopOfBoot /\ Len(appStack) = 1 /\ RunningApp = Boot
      BY <1>0, <3>1, ShortQueues DEF BootUp, RunningApp
    <3>3. StopMessage
      BY <1>5, <2>3, <3>2
      DEF HandlerStep, Handling, UnknownApp, StartMessage, AppCreated, AppHidden, AppShows,
          StopRefused, AppDestroyed, ResultDelivered, Refused, StopOfBoot, Message
    <3>4. /\ messages = <<StopOfBoot>> => messages' = <<>>
          /\ messages = <<StopOfBoot, StartOfLauncher>> => messages' = <<StartOfLauncher>>
      BY <3>3, ShortQueues DEF StopMessage
    <3>5. /\ lpc' = "hide" /\ stopping' /\ UNCHANGED <<appStack, appOf, drawPending>>
          /\ UNCHANGED <<StopOfBoot, StartOfLauncher>>
      BY <3>3 DEF StopMessage, guiVars, StopOfBoot, StartOfLauncher, Message
    <3>6. BootStops'
      BY <2>0, <2>3, <3>4, <3>5 DEF BootStops, StopsBoot
    <3> QED
      BY <2>0, <3>5, <3>6 DEF BootUp, Top
  <2>4. CASE BootStops /\ lpc = "hide"
    <3>1. AppHidden
      BY <1>5, <2>4 DEF HandlerStep, Handling, UnknownApp, StartMessage, AppCreated, AppShows,
                        StopRefused, StopMessage, AppDestroyed, ResultDelivered
    <3>2. /\ lpc' = "destroy" /\ stopping /\ stopping' = stopping
          /\ UNCHANGED <<messages, appStack, appOf, drawPending>>
          /\ UNCHANGED <<StopOfBoot, StartOfLauncher>>
      BY <2>4, <3>1 DEF AppHidden, HandlerInv, BootStops, StopsBoot, StopOfBoot,
                        StartOfLauncher, Message
    <3> QED
      BY <2>0, <2>4, <3>2 DEF BootUp, BootStops, StopsBoot, Top
  <2>5. CASE BootStops /\ lpc = "destroy"
    <3>1. AppDestroyed
      BY <1>5, <2>5 DEF HandlerStep, Handling, UnknownApp, StartMessage, AppCreated, AppHidden,
                        AppShows, StopRefused, StopMessage, ResultDelivered
    <3>2. bootPhase = "ended"
      BY <2>5, <3>1 DEF AppDestroyed, BootStops, BootUp, IInv, HandlerInv
    <3>3. messages = <<StartOfLauncher>> /\ cpc[BootThread] = "idle"
      BY <2>5, <3>2 DEF BootStops, StopsBoot
    <3>4. appStack' = <<>> /\ lpc' = "idle"
      BY <3>1, SubSeqEmpty DEF AppDestroyed, BootUp
    <3>5. UNCHANGED <<messages, appOf, StartOfLauncher>>
      BY <3>1 DEF AppDestroyed, StartOfLauncher, Message
    <3>6. drawn = NoInstance \/ appOf[drawn] = Boot
      BY DEF BootUp
    <3> QED
      BY <2>0, <3>2, <3>3, <3>4, <3>5, <3>6 DEF Between
  <2> QED
    BY <2>1, <2>2, <2>3, <2>4, <2>5 DEF BootUp, BootStops, StopsBoot
<1>6. CASE UNCHANGED vars
  BY <1>6 DEF BootUp, BootStarts, BootAsks, BootStops, StopsBoot, Asleep, Top, vars,
              loaderVars, guiVars, clientVars, StopOfBoot, StartOfLauncher, Message
<1> QED
  BY <1>1, <1>2, <1>3, <1>4, <1>5, <1>6, Steps

LEMMA RunningStep ==
    ASSUME LoaderAssumption, IInv, Running, [Next]_vars
    PROVE  drops' # 0 \/ Running'
<1>0. messages \in Seq(Messages)
  BY DEF IInv, TypeInv, TypeOK, Messages
<1>1. ASSUME NEW c \in Clients, ClientAction(c)
      PROVE  Running'
  <2>1. UNCHANGED loaderVars /\ bootPhase' = bootPhase
    BY <1>1 DEF ClientAction, StopApp, StartApp, PostStart, GetCurrentApp, PostStop,
                BootPhaseFor, Running
  <2>2. \A d \in Clients : /\ cpc'[d] # "undefined"
                           /\ cpc'[d] = "post" => carg'[d] # Boot
    BY <1>1 DEF ClientAction, StopApp, StartApp, PostStart, GetCurrentApp, PostStop, Running,
                IInv, TypeInv, TypeOK
  <2>3. \A i \in 1 .. Len(messages') : messages'[i] # Message("start", Boot)
    <3>1. CASE messages' = messages
      BY <3>1 DEF Running
    <3>2. CASE PostStart(c) \/ PostStop(c)
      <4>1. PICK m \in Messages : /\ messages' = Append(messages, m)
                                  /\ m # Message("start", Boot)
        BY <3>2 DEF PostStart, PostStop, Running, Message, Messages, IInv, TypeInv,
                    ArgsAreApps
      <4> QED
        BY <1>0, <4>1, AppendProperties DEF Running
    <3> QED
      BY <1>1, <3>1, <3>2 DEF ClientAction, StopApp, StartApp, GetCurrentApp
  <2> QED
    BY <2>1, <2>2, <2>3 DEF Running, StackPositions, loaderVars
<1>2. CASE BootEnds
  BY <1>2 DEF BootEnds, Running
<1>3. CASE Redraw
  <2>1. AppShown # Boot
    <3>1. showing \in {NoInstance, Top, Below}
      BY DEF IInv, HandlerInv, Running, TypeInv, TypeOK
    <3>2. appOf[Top] # Boot
      BY EmptySeq DEF Running, Top, StackPositions, IInv, TypeInv, TypeOK
    <3>3. Below # NoInstance => appOf[Below] # Boot
      <4>1. Below # NoInstance => OnStack(Below)
        BY TopFacts DEF Running
      <4> QED
        BY <4>1 DEF Running, OnStack, StackPositions
    <3> QED
      BY <3>1, <3>2, <3>3 DEF AppShown, LoaderAssumption
  <2> QED
    BY <1>3, <2>1 DEF Redraw, Running, StackPositions
<1>4. CASE DropMessage
  BY <1>4 DEF DropMessage, IInv, TypeInv, TypeOK
<1>5. CASE HandlerStep
  <2>1. UNCHANGED <<bootPhase, cpc, carg>>
    BY <1>5 DEF HandlerStep, Handling, UnknownApp, StartMessage, AppCreated, AppHidden,
                AppShows, StopRefused, StopMessage, AppDestroyed, ResultDelivered, clientVars
  <2>2. messages' = messages \/ (messages # <<>> /\ messages' = Tail(messages))
    BY <1>5 DEF HandlerStep, Handling, UnknownApp, StartMessage, AppCreated, AppHidden,
                AppShows, StopRefused, StopMessage, AppDestroyed, ResultDelivered
  <2>3. \A i \in 1 .. Len(messages') : messages'[i] # Message("start", Boot)
    <3>1. CASE messages' = messages
      BY <3>1 DEF Running
    <3>2. CASE messages # <<>> /\ messages' = Tail(messages)
      <4>1. /\ Len(messages') = Len(messages) - 1 /\ Len(messages) \in Nat
            /\ \A i \in 1 .. Len(messages') : messages'[i] = messages[i + 1]
        BY <1>0, <3>2, HeadTailProperties
      <4>2. \A i \in 1 .. Len(messages') : i + 1 \in 1 .. Len(messages)
        BY <4>1
      <4> QED
        BY <4>1, <4>2 DEF Running
    <3> QED
      BY <2>2, <3>1, <3>2
  <2>4. /\ appStack' # <<>> /\ \A i \in 1 .. Len(appStack') : appOf'[appStack'[i]] # Boot
        /\ lpc' \in {"hide", "destroy"} /\ stopping' => Len(appStack') # 1
    <3>1. CASE UnknownApp \/ StopRefused
      BY <3>1 DEF UnknownApp, StopRefused, Running, StackPositions, loaderVars
    <3>2. CASE AppCreated \/ AppHidden \/ AppShows \/ ResultDelivered
      <4>1. UNCHANGED <<appStack, appOf, stopping>>
        BY <3>2 DEF AppCreated, AppHidden, AppShows, ResultDelivered
      <4>2. lpc' \in {"hide", "destroy"} /\ stopping => lpc \in {"hide", "destroy"}
        BY <3>2 DEF AppCreated, AppHidden, AppShows, ResultDelivered, IInv, HandlerInv
      <4> QED
        BY <4>1, <4>2 DEF Running, StackPositions
    <3>3. CASE StartMessage
      <4>1. PICK k \in Instances \ Created :
                 /\ appOf' = [appOf EXCEPT ![k] = Head(messages).app]
                 /\ appStack' = Append(appStack, k)
        BY <3>3 DEF StartMessage
      <4>2. Head(messages).app # Boot
        <5>1. Head(messages) = messages[1] /\ 1 \in 1 .. Len(messages)
          BY <1>0, <3>3, EmptySeq DEF StartMessage
        <5>2. Head(messages) # Message("start", Boot) /\ Head(messages) \in Messages
          BY <1>0, <3>3, <5>1, HeadTailProperties DEF Running, StartMessage
        <5> QED
          BY <3>3, <5>2 DEF StartMessage, Message, Messages
      <4>3. /\ Len(appStack') = Len(appStack) + 1 /\ Len(appStack) \in Nat
            /\ appStack' # <<>> /\ appStack'[Len(appStack) + 1] = k
            /\ \A i \in StackPositions : appStack'[i] = appStack[i]
        BY <4>1, AppendProperties DEF IInv, TypeInv, TypeOK, StackPositions
      <4>4. appOf'[k] # Boot
        BY <4>1, <4>2 DEF IInv, TypeInv, TypeOK
      <4>5. \A i \in StackPositions : appOf'[appStack[i]] # Boot
        BY <4>1, <4>2 DEF Running, IInv, TypeInv, TypeOK
      <4>6. lpc' = "create"
        BY <3>3 DEF StartMessage
      <4> QED
        BY <4>3, <4>4, <4>5, <4>6 DEF StackPositions
    <3>4. CASE StopMessage
      <4>1. appOf[Top] # Boot
        BY EmptySeq DEF Running, Top, StackPositions, IInv, TypeInv, TypeOK
      <4>2. Len(appStack) # 1
        BY <3>4, <4>1 DEF StopMessage, Refused, RunningApp, Running
      <4> QED
        BY <3>4, <4>2 DEF StopMessage, Running, StackPositions
    <3>5. CASE AppDestroyed
      <4>1. Len(appStack) # 1
        BY <3>5 DEF AppDestroyed, Running, IInv, HandlerInv
      <4>2. /\ Len(appStack') = Len(appStack) - 1 /\ Len(appStack) \in Nat \ {0}
            /\ \A i \in 1 .. Len(appStack) - 1 : appStack'[i] = appStack[i]
        BY <3>5, PoppedStack DEF AppDestroyed, Running, IInv
      <4>3. appStack' # <<>>
        BY <4>1, <4>2
      <4>4. lpc' = "show" /\ UNCHANGED appOf
        BY <3>5, <4>1 DEF AppDestroyed
      <4> QED
        BY <4>2, <4>3, <4>4 DEF Running, StackPositions
    <3> QED
      BY <1>5, <3>1, <3>2, <3>3, <3>4, <3>5 DEF HandlerStep, Handling
  <2> QED
    BY <2>1, <2>3, <2>4 DEF Running, StackPositions, Message
<1>6. CASE UNCHANGED vars
  BY <1>6 DEF Running, StackPositions, vars, loaderVars, guiVars, clientVars
<1> QED
  BY <1>1, <1>2, <1>3, <1>4, <1>5, <1>6, Steps

(* No check of the loader and the GUI fails, and, unless a message is dropped,
   the top of the stack is not taken when the stack is empty: neither by
   stopApp() nor by a hook, whatever users ask for while the boot app hands
   over to the launcher.                                                    *)
THEOREM ChecksAlwaysHold ==
    ASSUME LoaderAssumption
    PROVE  Spec => []ChecksHold
<1>1. Init => BootInv
  <2>1. BootThread \in Clients /\ Clients \ {BootThread} \subseteq Clients
    BY DEF Clients
  <2> QED
    BY <2>1 DEF Init, BootInv, PoweredOn, Asleep
<1>2. ASSUME IInv, IInv', BootInv, [Next]_vars
      PROVE  BootInv'
  <2>1. drops # 0 => drops' # 0
    BY <1>2, Steps
    DEF DropMessage, HandlerStep, vars, IInv, TypeInv, TypeOK
  <2>2. HandlerInv'
    BY <1>2 DEF IInv
  <2> QED
    BY <1>2, <2>1, <2>2, PoweredOnStep, BootUpStep, BetweenStep, RunningStep DEF BootInv
<1>3. ASSUME IInv, BootInv
      PROVE  ChecksHold
  <2>1. ASSUME drops = 0, NEW c \in Clients
        PROVE  cpc[c] # "undefined"
    BY <1>3, <2>1
    DEF BootInv, PoweredOn, BootUp, BootStarts, BootAsks, BootStops, Between, Running, Asleep
  <2> QED
    BY <1>3, <2>1
    DEF ChecksHold, HooksAlternate, NoTopOfEmptyStack, IInv, HandlerInv
<1> QED
  BY <1>1, <1>2, <1>3, IInvHolds, PTL DEF Spec
=============================================================================
