------------------------------- MODULE Loader -------------------------------
(***************************************************************************)
(* Tactility/Source/service/loader/Loader.cpp: the app stack.  Clients     *)
(* (the boot thread, the LVGL task that handles clicks, app hooks that run *)
(* on the loader's own dispatcher thread) post start and stop messages; the*)
(* dispatcher thread handles them one by one, in order (module Dispatcher).*)
(* Only that thread changes the stack, and it publishes Showing and Hiding *)
(* events that Gui.cpp handles synchronously, on the same thread.          *)
(***************************************************************************)
EXTENDS Naturals, Sequences

CONSTANTS Apps,          \* the ids clients may ask for
          Registered,    \* the ids findAppById() knows
          Boot,          \* the manifest of type Type::Boot
          Launcher,      \* config->launcherAppId
          BootThread,    \* the thread of the Boot app
          LoaderThread,  \* the thread of dispatcherThread
          Users,         \* other client threads
          None,
          MaxInstances,  \* bound on the app instances asked for
          MaxMessages,   \* bound on the messages waiting
          MaxDrops       \* bound on the messages for which LOADER_TIMEOUT passes

Clients == Users \cup {BootThread, LoaderThread}

ASSUME LoaderAssumption ==
    /\ {Boot, Launcher} \subseteq Registered
    /\ Registered \subseteq Apps
    /\ Boot # Launcher
    /\ None \notin Clients \cup Apps
    /\ BootThread # LoaderThread /\ {BootThread, LoaderThread} \cap Users = {}
    /\ MaxInstances \in Nat \ {0} /\ MaxMessages \in Nat /\ MaxDrops \in Nat

Instances == 1 .. MaxInstances
NoInstance == 0

VARIABLES
    messages,      \* queue of dispatcherThread
    asked,         \* number of calls of startApp(), bounded
    appStack,      \* LoaderService::appStack: instances, the top last
    appOf,         \* appOf[k]: the app id of instance k, None if not created
    appState,      \* appState[k]: AppInstance::state
    mutex,         \* owner of LoaderService::mutex
    lpc,           \* where the dispatcher thread is in a handler
    stopping,      \* whether that handler is onStopAppMessage()
    target,        \* the instance the next Hiding/Stopped transition is for
    showing,       \* Gui::appToRender, set and reset by the events
    cpc,           \* cpc[c]: where client c is in startApp() or stopApp()
    carg,          \* carg[c]: the app id c asks for
    bootPhase,     \* where the boot thread is in bootThreadCallback()
    drawPending,   \* GUI_THREAD_FLAG_DRAW: redraw() is still to come
    drawn,         \* the instance whose widgets are on the screen
    drops          \* history: number of messages dropped, bounded

guiVars == <<showing, drawPending, drawn>>
loaderVars == <<appStack, appOf, appState, mutex, lpc, stopping, target, guiVars>>
clientVars == <<cpc, carg, asked, bootPhase>>
vars == <<messages, loaderVars, clientVars, drops>>

Message(kind, app) == [kind |-> kind, app |-> app]
Top == appStack[Len(appStack)]
Created == {k \in Instances : appOf[k] # None}
AppShown == IF showing = NoInstance THEN None ELSE appOf[showing]

(* Tactility.cpp: run() has posted the start of Boot before it dispatches. *)
Init == /\ messages = <<Message("start", Boot)>>
        /\ asked = 1
        /\ appStack = <<>>
        /\ appOf = [k \in Instances |-> None]
        /\ appState = [k \in Instances |-> "Initial"]
        /\ mutex = None
        /\ lpc = "idle"
        /\ stopping = FALSE
        /\ target = NoInstance
        /\ showing = NoInstance
        /\ cpc = [c \in Clients |-> "idle"]
        /\ carg = [c \in Clients |-> None]
        /\ bootPhase = "absent"
        /\ drawPending = FALSE
        /\ drawn = NoInstance
        /\ drops = 0

-----------------------------------------------------------------------------
(* Clients *)

(* When client c may call the loader: the boot thread as its callback says, a
   user while the screen has the controls of an app, which may have been hidden
   meanwhile, and the dispatcher thread from inside of an app's hook.      *)
MayCall(c) ==
    /\ cpc[c] = "idle"
    /\ Len(messages) < MaxMessages
    /\ c \in Users => drawn # NoInstance /\ appOf[drawn] # Boot
    /\ c = LoaderThread => /\ lpc \in {"create", "destroy", "result"}
                           /\ appOf[Top] # Boot

(* The GUI thread redraws once for the Showing events since it last did: the old
   widgets go, those of the app to render come if there is one.  onShow() of
   Boot starts the boot thread if that is Stopped.                         *)
Redraw == /\ drawPending
          /\ drawPending' = FALSE
          /\ drawn' = showing
          /\ bootPhase' = IF AppShown = Boot /\ bootPhase \in {"absent", "ended"}
                          THEN "splash" ELSE bootPhase
          /\ UNCHANGED <<messages, appStack, appOf, appState, mutex, lpc, stopping,
                         target, showing, cpc, carg, asked>>

(* bootThreadCallback(): stopApp(), then startNextApp(), then the thread ends. *)
BootPhaseFor(c, from, to) ==
    IF c = BootThread THEN bootPhase = from /\ bootPhase' = to
                      ELSE UNCHANGED bootPhase

BootEnds == /\ bootPhase = "started"
            /\ cpc[BootThread] = "idle"
            /\ bootPhase' = "ended"
            /\ UNCHANGED <<messages, loaderVars, cpc, carg, asked>>

(* startApp(id).  Launch ids are not modelled: the loader only hands them back. *)
StartApp(c, app) ==
    /\ MayCall(c)
    /\ asked < MaxInstances
    /\ app # Boot
    /\ c = BootThread => app = Launcher
    /\ BootPhaseFor(c, "stopped", "started")
    /\ asked' = asked + 1
    /\ cpc' = [cpc EXCEPT ![c] = "post"]
    /\ carg' = [carg EXCEPT ![c] = app]
    /\ UNCHANGED <<messages, loaderVars>>

(* Mutation of PostStart: the id is moved before it is captured. *)
PostMovedId(c) ==
    /\ cpc[c] = "post"
    /\ messages' = Append(messages, Message("start", None))
    /\ cpc' = [cpc EXCEPT ![c] = "idle"]
    /\ carg' = [carg EXCEPT ![c] = None]
    /\ UNCHANGED <<loaderVars, asked, bootPhase>>

(* The message is dispatched without a time limit. *)
PostStart(c) ==
    /\ cpc[c] = "post"
    /\ messages' = Append(messages, Message("start", carg[c]))
    /\ cpc' = [cpc EXCEPT ![c] = "idle"]
    /\ carg' = [carg EXCEPT ![c] = None]
    /\ UNCHANGED <<loaderVars, asked, bootPhase>>

(* stopApp(): the id of the app on top now, ... *)
StopApp(c) ==
    /\ MayCall(c)
    /\ BootPhaseFor(c, "splash", "stopped")
    /\ cpc' = [cpc EXCEPT ![c] = "top"]
    /\ UNCHANGED <<messages, loaderVars, carg, asked>>

(* getCurrentAppContext(): lock, top() and unlock.  The mutex is recursive. *)
GetCurrentApp(c) ==
    /\ cpc[c] = "top"
    /\ mutex = None \/ (mutex = LoaderThread /\ c = LoaderThread)
    /\ IF appStack = <<>>
       THEN /\ cpc' = [cpc EXCEPT ![c] = "undefined"]
            /\ UNCHANGED carg
       ELSE /\ cpc' = [cpc EXCEPT ![c] = "postStop"]
            /\ carg' = [carg EXCEPT ![c] = appOf[Top]]
    /\ UNCHANGED <<messages, loaderVars, asked, bootPhase>>

(* ... is what the message asks to stop. *)
PostStop(c) ==
    /\ cpc[c] = "postStop"
    /\ messages' = Append(messages, Message("stop", carg[c]))
    /\ cpc' = [cpc EXCEPT ![c] = "idle"]
    /\ carg' = [carg EXCEPT ![c] = None]
    /\ UNCHANGED <<loaderVars, asked, bootPhase>>

Posting(c) == PostStart(c) \/ GetCurrentApp(c) \/ PostStop(c)

-----------------------------------------------------------------------------
(* The dispatcher thread *)

(* mutex.lock(LOADER_TIMEOUT) fails: the message is dropped. *)
DropMessage == /\ lpc = "idle"
               /\ messages # <<>>
               /\ drops < MaxDrops
               /\ drops' = drops + 1
               /\ messages' = Tail(messages)
               /\ UNCHANGED <<loaderVars, clientVars>>

UnknownApp == /\ lpc = "idle"
              /\ messages # <<>>
              /\ Head(messages).kind = "start"
              /\ Head(messages).app \notin Registered
              /\ messages' = Tail(messages)
              /\ UNCHANGED <<loaderVars, clientVars>>

(* onStartAppMessage(): up to the call of onCreate(). *)
StartMessage ==
    /\ lpc = "idle"
    /\ messages # <<>>
    /\ Head(messages).kind = "start"
    /\ Head(messages).app \in Registered
    /\ mutex = None
    /\ \E k \in Instances \ Created :
         /\ \A j \in Instances \ Created : k <= j
         /\ appOf' = [appOf EXCEPT ![k] = Head(messages).app]
         /\ appStack' = Append(appStack, k)
    /\ target' = IF appStack = <<>> THEN NoInstance ELSE Top
    /\ messages' = Tail(messages)
    /\ mutex' = LoaderThread
    /\ lpc' = "create"
    /\ stopping' = FALSE
    /\ UNCHANGED <<appState, guiVars, clientVars>>

(* Mutation of AppCreated: the previous app is not hidden. *)
CreatedOnTop ==
    /\ lpc = "create"
    /\ cpc[LoaderThread] = "idle"
    /\ appState' = [appState EXCEPT ![Top] = "Started"]
    /\ lpc' = "show"
    /\ UNCHANGED <<messages, appStack, appOf, mutex, stopping, target, guiVars,
                   clientVars>>

(* onCreate() has returned. *)
AppCreated ==
    /\ lpc = "create"
    /\ cpc[LoaderThread] = "idle"
    /\ appState' = [appState EXCEPT ![Top] = "Started"]
    /\ lpc' = IF target = NoInstance THEN "show" ELSE "hide"
    /\ UNCHANGED <<messages, appStack, appOf, mutex, stopping, target, guiVars,
                   clientVars>>

(* Mutation of AppHidden: the state of the app on top is set. *)
HidesTop ==
    /\ lpc = "hide"
    /\ showing' = NoInstance
    /\ appState' = [appState EXCEPT ![Top] = "Hiding"]
    /\ lpc' = IF stopping THEN "destroy" ELSE "show"
    /\ UNCHANGED <<messages, appStack, appOf, mutex, stopping, target, drawPending,
                   drawn, clientVars>>

(* The Hiding event: Gui.cpp hideApp() checks that an app is shown. *)
AppHidden ==
    /\ lpc = "hide"
    /\ IF showing = NoInstance
       THEN lpc' = "crashed" /\ UNCHANGED <<showing, appState>>
       ELSE /\ showing' = NoInstance
            /\ appState' = [appState EXCEPT ![target] = "Hiding"]
            /\ lpc' = IF stopping THEN "destroy" ELSE "show"
    /\ UNCHANGED <<messages, appStack, appOf, mutex, stopping, target, drawPending,
                   drawn, clientVars>>

(* Mutation of AppShows: showApp() does not request a redraw. *)
ShowsUndrawn ==
    /\ lpc = "show"
    /\ showing' = Top
    /\ appState' = [appState EXCEPT ![Top] = "Showing"]
    /\ lpc' = IF stopping THEN "result" ELSE "idle"
    /\ mutex' = None
    /\ UNCHANGED <<messages, appStack, appOf, stopping, target, drawPending, drawn,
                   clientVars>>

(* The Showing event: showApp() checks that no app is shown and takes the one
   that getCurrentAppContext() returns.                                    *)
AppShows ==
    /\ lpc = "show"
    /\ IF showing # NoInstance
       THEN /\ lpc' = "crashed"
            /\ UNCHANGED <<guiVars, appState, mutex>>
       ELSE /\ showing' = Top
            /\ drawPending' = TRUE
            /\ UNCHANGED drawn
            /\ appState' = [appState EXCEPT ![Top] = "Showing"]
            /\ lpc' = IF stopping THEN "result" ELSE "idle"
            /\ mutex' = None
    /\ UNCHANGED <<messages, appStack, appOf, stopping, target, clientVars>>

(* onStopAppMessage(): nothing runs, another app is on top, or it is the root. *)
RunningApp == IF appStack = <<>> THEN None ELSE appOf[Top]

(* Mutation of Refused: the root app may be stopped. *)
RefusedUnlessTop(app) == RunningApp # app

Refused(app) == RunningApp # app \/ (Len(appStack) = 1 /\ RunningApp # Boot)

StopRefused ==
    /\ lpc = "idle"
    /\ messages # <<>>
    /\ Head(messages).kind = "stop"
    /\ mutex = None
    /\ Refused(Head(messages).app)
    /\ messages' = Tail(messages)
    /\ UNCHANGED <<loaderVars, clientVars>>

StopMessage ==
    /\ lpc = "idle"
    /\ messages # <<>>
    /\ Head(messages).kind = "stop"
    /\ mutex = None
    /\ ~Refused(Head(messages).app)
    /\ messages' = Tail(messages)
    /\ mutex' = LoaderThread
    /\ target' = Top
    /\ stopping' = TRUE
    /\ lpc' = "hide"
    /\ UNCHANGED <<appStack, appOf, appState, guiVars, clientVars>>

(* Mutations of AppDestroyed: the app below is not resumed, and onResult() does
   not depend on there being one.                                          *)
DestroyedOnly ==
    /\ lpc = "destroy"
    /\ cpc[LoaderThread] = "idle"
    /\ appState' = [appState EXCEPT ![target] = "Stopped"]
    /\ appStack' = SubSeq(appStack, 1, Len(appStack) - 1)
    /\ lpc' = "idle" /\ mutex' = None
    /\ UNCHANGED <<messages, appOf, stopping, target, guiVars, clientVars>>

DestroyedWithResult ==
    /\ lpc = "destroy"
    /\ cpc[LoaderThread] = "idle"
    /\ appState' = [appState EXCEPT ![target] = "Stopped"]
    /\ appStack' = SubSeq(appStack, 1, Len(appStack) - 1)
    /\ IF Len(appStack) = 1 THEN lpc' = "result" /\ mutex' = None
                            ELSE lpc' = "show" /\ UNCHANGED mutex
    /\ UNCHANGED <<messages, appOf, stopping, target, guiVars, clientVars>>

(* onDestroy() has returned; that of Boot joins the boot thread. *)
AppDestroyed ==
    /\ lpc = "destroy"
    /\ cpc[LoaderThread] = "idle"
    /\ appOf[target] = Boot => bootPhase \in {"absent", "ended"}
    /\ appState' = [appState EXCEPT ![target] = "Stopped"]
    /\ appStack' = SubSeq(appStack, 1, Len(appStack) - 1)
    /\ IF Len(appStack) = 1 THEN lpc' = "idle" /\ mutex' = None
                            ELSE lpc' = "show" /\ UNCHANGED mutex
    /\ UNCHANGED <<messages, appOf, stopping, target, guiVars, clientVars>>

(* onResult() of the resumed app has returned; the mutex is not held. *)
ResultDelivered ==
    /\ lpc = "result"
    /\ cpc[LoaderThread] = "idle"
    /\ lpc' = "idle"
    /\ UNCHANGED <<messages, appStack, appOf, appState, mutex, stopping, target,
                   guiVars, clientVars>>

Handling == \/ UnknownApp \/ StartMessage \/ AppCreated \/ AppHidden \/ AppShows
            \/ StopRefused \/ StopMessage \/ AppDestroyed \/ ResultDelivered

HandlerStep == Handling /\ UNCHANGED drops

BootStep == /\ \/ Redraw \/ BootEnds
               \/ StopApp(BootThread) \/ StartApp(BootThread, Launcher)
            /\ UNCHANGED drops

ClientStep(c) == Posting(c) /\ UNCHANGED drops

Calling == /\ \/ Redraw \/ BootEnds
              \/ \E c \in Clients : StopApp(c) \/ \E app \in Apps : StartApp(c, app)
           /\ UNCHANGED drops

Next == \/ HandlerStep
        \/ DropMessage
        \/ Calling
        \/ \E c \in Clients : ClientStep(c)

Spec == Init /\ [][Next]_vars

(* The dispatcher thread and the clients that are inside of the loader's
   interface are scheduled, hooks return and the boot thread runs its course. *)
Fairness == /\ WF_vars(HandlerStep)
            /\ WF_vars(BootStep)
            /\ \A c \in Clients : WF_vars(ClientStep(c))

FairSpec == Spec /\ Fairness

-----------------------------------------------------------------------------
TypeOK ==
    /\ messages \in Seq([kind : {"start", "stop"}, app : Apps])
    /\ asked \in 1 .. MaxInstances
    /\ appStack \in Seq(Instances)
    /\ appOf \in [Instances -> Apps \cup {None}]
    /\ appState \in [Instances -> {"Initial", "Started", "Showing", "Hiding", "Stopped"}]
    /\ mutex \in {None, LoaderThread}
    /\ lpc \in {"idle", "create", "hide", "show", "destroy", "result", "crashed"}
    /\ stopping \in BOOLEAN
    /\ target \in Instances \cup {NoInstance}
    /\ showing \in Instances \cup {NoInstance}
    /\ cpc \in [Clients -> {"idle", "post", "top", "postStop", "undefined"}]
    /\ carg \in [Clients -> Apps \cup {None}]
    /\ bootPhase \in {"absent", "splash", "stopped", "started", "ended"}
    /\ drawPending \in BOOLEAN
    /\ drawn \in Instances \cup {NoInstance}
    /\ drops \in 0 .. MaxDrops

OnStack(k) == \E i \in 1 .. Len(appStack) : appStack[i] = k

(* Between two messages exactly the app on top is Showing and is the one the GUI
   renders, the others on the stack are Hiding, and all the others created are
   Stopped: no app is forgotten in another state.                          *)
TopIsShown ==
    mutex = None =>
        /\ showing = IF appStack = <<>> THEN NoInstance ELSE Top
        /\ \A k \in Created :
             appState[k] = IF k = showing THEN "Showing"
                           ELSE IF OnStack(k) THEN "Hiding" ELSE "Stopped"

(* The tt_checks of showApp() and hideApp(): Showing and Hiding events alternate
   whatever mixture of messages the handlers see.                          *)
HooksAlternate == lpc # "crashed"

(* stopApp() and getCurrentAppContext() never take the top of an empty stack:
   the stack is empty only while nobody asks, as long as no start of an app has
   been dropped.                                                           *)
NoTopOfEmptyStack == drops = 0 => \A c \in Clients : cpc[c] # "undefined"

(* No tt_check fails, and none is missing where top() needs one. *)
ChecksHold == HooksAlternate /\ NoTopOfEmptyStack

(* onResult() is called without the lock, yet the app that receives it is still
   on top and showing.                                                     *)
ResultGoesToTop ==
    lpc = "result" => appStack # <<>> /\ showing = Top /\ appState[Top] = "Showing"

(* An app goes through its states in order: it is created once, hidden before
   it is destroyed or covered, and not touched after it is Stopped.        *)
LifecycleSteps == {<<"Initial", "Started">>, <<"Started", "Showing">>,
                   <<"Showing", "Hiding">>, <<"Hiding", "Showing">>,
                   <<"Hiding", "Stopped">>}

LifecycleOrder ==
    [][\A k \in Instances : \/ appState'[k] = appState[k]
                            \/ <<appState[k], appState'[k]>> \in LifecycleSteps]_vars

(* The boot app hands over to the launcher: the launcher is shown in the end,
   although its start and the stop of Boot are only posted.  Nothing repeats a
   message that was dropped.                                               *)
BootCompletes == <>(AppShown = Launcher \/ drops > 0)
=============================================================================
