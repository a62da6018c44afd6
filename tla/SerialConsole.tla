---------------------------- MODULE SerialConsole ----------------------------
(***************************************************************************)
(* Tactility/.../app/serialconsole (SerialConsole.cpp, ConnectView.h,      *)
(* ConsoleView.h) with the usage marks of hal/uart/Uart.cpp.  The handlers *)
(* and hooks hold the LVGL lock; ConsoleView has a thread that reads the   *)
(* UART and one that updates the text.  The view's recursive mutex is only *)
(* held for steps that do not wait, except that the view thread takes it   *)
(* with LVGL held.                                                         *)
(***************************************************************************)
EXTENDS Naturals

CONSTANT BufferSize   \* receiveBufferSize

ConsoleParameters == BufferSize \in Nat \ {0}

VARIABLES
    activeView,  \* "none" (hidden), "connect" or "console"
    consPc,      \* where the handler is; it has LVGL unless "idle"
    nextView,    \* what the handler shows when the console has stopped
    uartOpen,    \* the UART is in use: its Uart object exists
    uartOn,      \* Uart::isStarted()
    readerPc,    \* the UART thread
    readerStop,  \* uartThreadInterrupted
    drawerPc,    \* the view thread
    drawerStop,  \* viewThreadInterrupted
    position,    \* receiveBufferPosition
    stored,      \* history: bytes stored since startLogic(), up to BufferSize
    fresh        \* history: bytes stored since the last update that showed any

consUart == <<uartOpen, uartOn>>
receiveVars == <<position, stored, fresh>>
readerVars == <<readerPc, readerStop, receiveVars>>
drawerVars == <<drawerPc, drawerStop>>
handlerVars == <<activeView, consPc, nextView>>
vars == <<handlerVars, consUart, readerVars, drawerVars>>

Init == /\ activeView = "none" /\ nextView = "none"
        /\ consPc = "idle"
        /\ uartOpen = FALSE /\ uartOn = FALSE
        /\ readerPc = "none" /\ readerStop = FALSE
        /\ drawerPc = "none" /\ drawerStop = FALSE
        /\ position = 0 /\ stored = 0
        /\ fresh = FALSE

LvglFree == consPc = "idle" /\ drawerPc # "draw"
Ended(pc) == pc \in {"none", "ended"}

-----------------------------------------------------------------------------
(* The handlers, with LVGL *)

(* onShow() shows the view to connect. *)
Show == /\ LvglFree
        /\ activeView = "none"
        /\ activeView' = "connect"
        /\ UNCHANGED <<consPc, nextView, consUart, readerVars, drawerVars>>

(* onConnect(): what fails before the UART is handed over closes it. *)
ConnectFail == LvglFree /\ activeView = "connect" /\ UNCHANGED vars

(* open(), start() and setBaudRate() succeed, and the console starts with a
   buffer of zeroes; the position is where the last console left it.       *)
Connect == /\ LvglFree
           /\ activeView = "connect"
           /\ ~uartOpen
           /\ uartOpen' = TRUE /\ uartOn' = TRUE
           /\ readerPc' = "check" /\ readerStop' = FALSE
           /\ drawerPc' = "check" /\ drawerStop' = FALSE
           /\ stored' = 0 /\ fresh' = FALSE
           /\ activeView' = "console"
           /\ UNCHANGED <<consPc, nextView, position>>

(* onDisconnect() and onHide() stop the active view ... *)
Leave(view) == /\ LvglFree
               /\ activeView # "none"
               /\ view # activeView
               /\ IF activeView = "console"
                  THEN consPc' = "stopViews" /\ nextView' = view /\ UNCHANGED activeView
                  ELSE activeView' = view /\ UNCHANGED <<consPc, nextView>>
               /\ UNCHANGED <<consUart, readerVars, drawerVars>>

Handler(here, there) == consPc = here /\ consPc' = there

(* ... onStop(): stopViews() ... *)
StopViews == /\ Handler("stopViews", "joinViews")
             /\ drawerStop' = TRUE
             /\ UNCHANGED <<activeView, nextView, consUart, readerVars, drawerPc>>

(* Mutation of JoinViews: the view thread is not waited for. *)
ViewsUnjoined == /\ Handler("joinViews", "stopLogic")
                 /\ UNCHANGED <<activeView, nextView, consUart, readerVars, drawerVars>>

JoinViews == /\ Handler("joinViews", "stopLogic")
             /\ Ended(drawerPc)
             /\ UNCHANGED <<activeView, nextView, consUart, readerVars, drawerVars>>

(* ... stopLogic() ... *)
StopLogic == /\ Handler("stopLogic", "joinLogic")
             /\ readerStop' = TRUE
             /\ UNCHANGED <<activeView, nextView, consUart, readerPc, receiveVars, drawerVars>>

JoinLogic == /\ Handler("joinLogic", "stopUart")
             /\ Ended(readerPc)
             /\ UNCHANGED <<activeView, nextView, consUart, readerVars, drawerVars>>

(* Mutation of StopUart: the driver is stopped, and its object kept. *)
StopUartKept == /\ Handler("stopUart", "idle")
                /\ uartOn' = FALSE
                /\ activeView' = nextView
                /\ nextView' = "none"
                /\ UNCHANGED <<uartOpen, readerVars, drawerVars>>

(* ... and stopUart(); then the widgets are deleted and the next view shown. *)
StopUart == /\ Handler("stopUart", "idle")
            /\ uartOn' = FALSE
            /\ uartOpen' = (uartOpen /\ ~uartOn)
            /\ activeView' = nextView
            /\ nextView' = "none"
            /\ UNCHANGED <<readerVars, drawerVars>>

-----------------------------------------------------------------------------
(* uartThreadMain() *)

Reader(here, there) == readerPc = here /\ readerPc' = there

ReaderCheck == /\ Reader("check", IF readerStop THEN "ended" ELSE "read")
               /\ UNCHANGED <<handlerVars, consUart, readerStop, receiveVars, drawerVars>>

(* readByte(): a byte, or the time limit; then the flag is read once more. *)
ReaderRead == /\ readerPc = "read"
              /\ readerPc' \in IF readerStop THEN {"ended"} ELSE {"store", "check"}
              /\ UNCHANGED <<handlerVars, consUart, readerStop, receiveVars, drawerVars>>

Counted == IF stored < BufferSize THEN stored + 1 ELSE stored

(* Mutation of ReaderStore: the position wraps one byte late. *)
ReaderStoreLate == /\ Reader("store", "check")
                   /\ position' = IF position = BufferSize THEN 0 ELSE position + 1
                   /\ stored' = Counted
                   /\ fresh' = TRUE
                   /\ UNCHANGED <<handlerVars, consUart, readerStop, drawerVars>>

ReaderStore == /\ Reader("store", "check")
               /\ position' = (position + 1) % BufferSize
               /\ stored' = Counted
               /\ fresh' = TRUE
               /\ UNCHANGED <<handlerVars, consUart, readerStop, drawerVars>>

-----------------------------------------------------------------------------
(* viewThreadMain() *)

Drawer(here, there) == drawerPc = here /\ drawerPc' = there

DrawerCheck == /\ Drawer("check", IF drawerStop THEN "ended" ELSE "lock")
               /\ UNCHANGED <<handlerVars, consUart, readerVars, drawerStop>>

DrawerLock == /\ Drawer("lock", "draw")
              /\ LvglFree
              /\ UNCHANGED <<handlerVars, consUart, readerVars, drawerStop>>

(* Mutation of DrawerTimeout: a view thread that does not get LVGL ends. *)
DrawerGivesUp == /\ Drawer("lock", "ended")
                 /\ UNCHANGED <<handlerVars, consUart, readerVars, drawerStop>>

(* Mutation of DrawerTimeout: LVGL is waited for without a time limit. *)
DrawerPatient == FALSE /\ UNCHANGED vars

(* The handler, or somebody outside of this module, holds LVGL for too long. *)
DrawerTimeout == /\ Drawer("lock", "check")
                 /\ UNCHANGED <<handlerVars, consUart, readerVars, drawerStop>>

(* updateViews(): the text is copied from receiveBuffer[position] on, and is
   empty while that place still holds the zero of startLogic().            *)
DrawerDraw == /\ Drawer("draw", "check")
              /\ fresh' = (fresh /\ stored < BufferSize)
              /\ UNCHANGED <<handlerVars, consUart, readerPc, readerStop, position, stored,
                             drawerStop>>

HandlerStep == StopViews \/ JoinViews \/ StopLogic \/ JoinLogic \/ StopUart
ReaderStep == ReaderCheck \/ ReaderRead \/ ReaderStore
DrawerStep == DrawerCheck \/ DrawerLock \/ DrawerTimeout \/ DrawerDraw

Next == \/ Show \/ Connect \/ ConnectFail
        \/ \E view \in {"none", "connect"} : Leave(view)
        \/ HandlerStep \/ ReaderStep \/ DrawerStep

Spec == Init /\ [][Next]_vars

(* The threads run, and get the lock they wait for in the end. *)
Fairness == /\ WF_vars(HandlerStep)
            /\ WF_vars(ReaderStep)
            /\ SF_vars(DrawerStep) /\ SF_vars(DrawerLock)

FairSpec == Spec /\ Fairness

-----------------------------------------------------------------------------
ConsoleTypeOK ==
    /\ activeView \in {"none", "connect", "console"}
    /\ nextView \in {"none", "connect"}
    /\ consPc \in {"idle", "stopViews", "joinViews", "stopLogic", "joinLogic", "stopUart"}
    /\ readerPc \in {"none", "check", "read", "store", "ended"}
    /\ drawerPc \in {"none", "check", "lock", "draw", "ended"}
    /\ {uartOpen, uartOn, readerStop, drawerStop, fresh} \subseteq BOOLEAN
    /\ position \in 0 .. BufferSize - 1 /\ stored \in 0 .. BufferSize

(* The threads work on what exists: the UART is on while it is read, and the
   widgets are there while the text is set.                                *)
ThreadsUseLiveObjects == /\ readerPc \in {"read", "store"} => uartOn
                         /\ drawerPc = "draw" => activeView = "console"

(* Without a console the UART is free for others, and no thread runs. *)
QuietUnlessConsole == activeView # "console" => ~uartOpen /\ Ended(readerPc) /\ Ended(drawerPc)

(* Leaving the console ends, although the view thread waits for the lock that
   the handler holds.                                                      *)
LeaveEnds == consPc # "idle" ~> consPc = "idle"

(* Once the buffer has been filled since the console was started, a stored byte
   is followed by an update that shows what the buffer holds, unless the
   console is left.  Before that the updates show an empty text.           *)
ReceivedIsRendered ==
    (fresh /\ stored = BufferSize) ~> (~fresh \/ activeView # "console" \/ consPc # "idle")
=============================================================================
