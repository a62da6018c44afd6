# Tactility: specification and verification

Tactility is an operating environment for ESP32 devices with a touch screen: apps with a
life cycle, services, an LVGL user interface and a hardware layer, on FreeRTOS (and on
POSIX, for the simulator). This directory holds TLA+ specifications of its core and of
the services and apps around it, the TLC configurations that model-check them and TLAPS
proofs about them. `PROJECT.json` lists the runs, the source lines each definition stands
for, the theorems, the hazards and the findings.

    tlc -workers 2 -config Loader.cfg MCLoader.tla     # a run: see PROJECT.json for all
    tlapm DispatcherProofs.tla                         # a proof

## The system

### Parts, state and operations

| Part | State | Operations | Hard because |
|---|---|---|---|
| **Dispatcher** (`TactilityCore/Source/Dispatcher.cpp`, `EventFlag.cpp`) | queue of functions, mutex, event flag | `dispatch(f, timeout)` by any thread, `consume(timeout)` by one | the flag is set outside of the lock, functions run without it and may dispatch, both calls time out |
| **Thread** (`Thread.cpp`) | `state`, `taskHandle`, thread flags (the FreeRTOS notification value) | `start`, `join`, free; `setFlags`, `clearFlags`, `awaitFlags` | two cores; the state says Stopped before the handle is gone; `clearFlags()` is a read and a write |
| **DispatcherThread** (`DispatcherThread.cpp`) | a Thread, a Dispatcher, `interruptThread` | `start`, `stop`, `dispatch` | restart with functions left over, stop against a blocked `consume()` |
| **Mutex**, **ScopedLock** (`Mutex.cpp`, `Lock.h`) | a FreeRTOS mutex, normal or recursive | `lock` with and without a time limit, `unlock`, the destructor | the destructor unlocks whatever became of the lock |
| **Timer** (`Timer.cpp`) and the apps that own one | a FreeRTOS timer and its command queue | `start`, `stop`, free; the callback | `stop()` only posts a command; the callback may run after it, on an app that is hidden or gone |
| **PubSub** (`PubSub.cpp`) and its subscribers | subscriptions, a mutex | `subscribe`, `unsubscribe`, `publish` | callbacks run with the mutex held and want the locks of those who unsubscribe |
| **Loader** (`service/loader/Loader.cpp`, `app/boot/Boot.cpp`, `app/AppInstance.h`) | app stack, state of each app, recursive mutex, dispatcher thread | `startApp`, `stopApp`, `getCurrentAppContext`; messages handled by the dispatcher thread; hooks of apps; the `Showing` and `Hiding` events | a request is decided on one state and worked off in another; hooks call back; the Boot app stops itself, starts the next app and is joined |
| **Gui** (`service/gui/*.cpp`, `lvgl/LvglSync.cpp`) | `appToRender`, gui mutex, LVGL lock, thread flags | `showApp`, `hideApp`, `requestDraw`, `redraw`, the keyboard functions, start and stop | three mutexes, four threads, draw requests as flags |
| **Wifi** (`service/wifi/WifiEsp.cpp`) | radio state, `scan_active`, `pause_auto_connect`, wait flags, netif, handlers, the ESP-IDF driver | `connect`, `disconnect`, `setEnabled`, `scan`, a timer, six dispatched functions, the event handler | the event loop writes the state that the main thread is in the middle of changing; driver calls fail half-way |
| **ESP-NOW** (`service/espnow`) and the Chat app | `enabled`, subscriptions, the radio's driver | `enable`, `disable`, `send`, subscriptions; the hooks of Chat | jobs of the main dispatcher that wait for another job of it; the radio is shared with Wifi |
| **GPS** (`service/gps`, `hal/gps`) | devices, subscriptions, receiver threads, a file of configurations, records of satellites | start and stop of service and devices, callbacks; probing and configuring; reading and writing the file | callbacks under two locks; receivers that lose, refuse or answer late; power loss while a file is written |
| **Screenshot** (`service/screenshot`, its app) | a task with a thread, the button | start by time or by app, stop | the press handler joins a thread that needs the locks it holds |
| **Statusbar** (`lvgl/Statusbar.cpp`, `service/statusbar`) | a pool of icons, the widget, two timers | add, set image and visibility, update | what is remembered as shown may not have been drawn |
| **SD card** (`hal/sdcard`, `service/sdcard`) | the card, its mount, the bus it shares with the display | mount, unmount, poll, `withSdCardLock` | polling against users of the bus |
| **Boot**, **USB**, **panic handler** | flags and crash data in memory that survives a restart | reboot into mass storage, panic, boot | a restart between any two steps |
| **Serial console**, **I2C scanner**, **Time zone**, **Files**, **Calculator** (`app/...`) | views, threads, timers, lists | the handlers, hooks and callbacks of each app | handlers, timer task, loader thread and own threads on one state |
| **Registries** (services, apps, devices), **SystemEvents** | maps and their mutexes | register, find, start, stop | one map is read under the mutex of another |
| **UART, I2C, SPI, USB** drivers, kernel wrappers | driver handles | open, close, read, write | mostly one driver call each |
| **Files, bundles, strings, cryptography**, other apps, boards, C API | | | sequential, or user interface |

### How they interact

* `Tactility.cpp` runs the main loop: a Dispatcher consumed by the main thread. Wifi posts
  its requests there. A function that blocks, blocks all of the main work.
* The loader has a DispatcherThread. Its handlers publish `Showing` and `Hiding` through
  a PubSub; Gui handles them on the same thread, synchronously, with the loader mutex held.
* Gui's thread redraws when the DRAW flag is set. It takes the gui mutex, then the LVGL
  lock, and calls `onShow()`.
* The LVGL task runs event handlers with the LVGL lock held. They call the loader
  (`startApp`, `stopApp`, `getCurrentAppContext`) and the keyboard functions of Gui.
* The ESP-IDF event loop calls Wifi's `eventHandler()` on a thread of its own.
* The FreeRTOS timer task runs the callbacks of every Timer (`Gpio`, `Power`, `Screenshot`,
  `I2cScanner`, `TimeZone`, the statusbar, the SD card service), one after another.
* GPS receivers publish what they parse to the GPS service, which keeps the last position.
* Boot reads what the last run left in RTC memory, then starts the services and the first app.

### What makes each part correct

* Dispatcher: it is a serial FIFO executor. Nothing accepted is lost, repeated, reordered
  or left waiting.
* Thread and DispatcherThread: an object outlives its tasks, `stop()` returns, and
  nothing runs afterwards.
* Loader: exactly the app on top is showing and is what Gui renders; hooks follow the
  life cycle; the launcher comes up after boot.
* Gui: hooks exclude each other, a hidden app is not drawn, and a shown one is unless LVGL is
  busy. The timed locks with a `tt_check` around them should be obtained, and are not (finding 2).
* Wifi: a pending state ends, On and Off mean what they say, the asserts hold, and the
  main thread does not wait for ever.
* Mutex: one thread is inside. Timer, PubSub: a callback finds what it was registered for.
* ESP-NOW, GPS, Serial console: what was switched off has let go of radio, UART and
  threads, which never have two users; requests end.
* GPS: an Ok is an answer to the command it is taken for; the file of configurations
  holds as many entries as the answers promised, but for those lost to a failure that no
  answer told, and these very ones as long as nothing failed.
* Statusbar, SD card, Screenshot, Boot and the apps: what is shown catches up with what is
  so, and what is selected is what is acted on.

## The modules

Every action is a step between two points where another thread can see the difference: a
lock taken, a critical section with its release, a flag set, waited for or cleared, a
hook or driver call that returns. Definitions with a comment "Mutation of ..." or "A
mutation" belong to no specification: each breaks one definition the way a bug in that
code would, and makes one property of a run fail.

| Module | Models | Uses |
|---|---|---|
| `FifoExecutor` | what a Dispatcher promises (abstract) | |
| `Dispatcher`, `MCDispatcher` | `dispatch()`, `consume()` | refines `FifoExecutor` |
| `Thread` | `start()`, `join()`, `~Thread()`, `mainBody()` | |
| `DispatcherThread`, `MCDispatcherThread` | `start()`, `stop()`, `threadMain()` | instances of `Dispatcher` and `Thread`; refines `FifoExecutor` |
| `Loader`, `MCLoader` | the loader, its clients, the Boot app, the part of Gui the events reach | |
| `Gui` | `showApp()`, `hideApp()`, `guiMain()`, `redraw()`, thread flags, keyboard, stop | |
| `Wifi` | the public functions, the dispatched functions, the event handler, the driver | |
| `Mutex` | `lock()`, `unlock()`, `ScopedLock` | |
| `AppTimer` | `Timer`, and the hooks and callbacks of `Gpio`, `Power`, `Screenshot` | |
| `PubSub` | `publish()`, `subscribe()`, `unsubscribe()`, and the apps WifiManage, WifiConnect, GpsSettings | |
| `EspNow` | `EspNowService`, `EspNowWifi`, `ChatApp` | |
| `Gps` | `GpsService`, `GpsDevice`, the usage marks of `Uart` | |
| `AckFrames` | the three readers of answers in `Ublox.cpp` and `GpsInit.cpp` | |
| `GpsInit` | `initUblox6()`, `initUblox789()`, `initUblox10()` | |
| `Satellites` | `SatelliteStorage` | |
| `ObjectFile` | `ObjectFileReader`, `ObjectFileWriter`, `GpsConfiguration.cpp`, `AddGps` | |
| `Screenshot` | service, task and app | |
| `Statusbar` | widget, icons, clock, service | |
| `SdCard` | `SpiSdCardDevice`, the SD card service, `withSdCardLock()` | |
| `Restart` | `Boot.cpp`, `Usb.cpp`, `PanicHandler.cpp`: what a restart keeps | |
| `SerialConsole` | `ConnectView`, `ConsoleView`, the app | |
| `I2cScanner`, `TimeZone`, `FileBrowser`, `Calculator` | the app of that name | |
| `MCSafeParts` | ten of these in one run, for safety | `Wifi`, `Gui`, `AckFrames`, `AppTimer`, `FileBrowser`, `Calculator`, `GpsInit`, `Mutex`, `ObjectFile`, `Satellites` |
| `MCLiveParts` | twelve of these in one run, for safety and liveness | `Thread`, `Gui`, `EspNow`, `Gps`, `I2cScanner`, `PubSub`, `Restart`, `Screenshot`, `SdCard`, `SerialConsole`, `Statusbar`, `TimeZone` |
| `DispatcherProofs`, `ThreadProofs`, `DispatcherThreadProofs`, `LoaderProofs`, `GuiProofs`, `WifiProofs`, `SafePartsProofs`, `LivePartsProofs` | proofs | the module of that name (the last two: `MCSafeParts`, `MCLiveParts` and all their parts) |

**Dispatcher.** `queue`, `mutex` and `eventFlag` are the members; `dpc` and `cpc` are the
program points of `dispatch()` and `consume()`; `accepted`, `started` and `dropped` are
histories. `EventFlag::wait` clears the flag on exit and `consume()` clears it again
(`ConsumeWoken`, `ConsumeClear`). `processing` is computed before the function runs, as
in the code. A lock of 10 ticks that times out in `consume()` is tried again with nothing
changed, so it is a stuttering step. A function dispatches through the same actions, with
`Consumer` as the calling thread.

**Thread.** `body[i]` is the place of the i-th task in `mainBody()`. `Discipline` is how
an owner finds out that its thread has ended: `"join"` (Gui, Screenshot, Boot,
DispatcherThread) or `"state"` (`GpsDevice.cpp`, `ConsoleView.h`). A failed assert is
`opc = "crashed"` or `"freedEarly"`.

**DispatcherThread.** The task of the Thread is the consumer of the Dispatcher.
`T!TaskReturn` is only possible through `LoopExit`, which is the loop's condition.

**Loader.** `lpc` is the place of the dispatcher thread in a handler: `create`, `hide`,
`show`, `destroy` and `result` are where hooks or events run, and in `create`, `destroy`
and `result` a hook may call the loader. The queue is that of a DispatcherThread, FIFO
and serial, which the modules above establish. A client reads the top of the stack under
the mutex and posts afterwards (`GetCurrentApp`, `PostStop`). `drawn` is the app whose
widgets are on the screen; its handlers may call although it has been hidden since.
Launch ids, parameters and results are data that is handed on, and are left out.
`LOADER_TIMEOUT` dropping a message is `DropMessage`.

**Gui.** `owner` has the three mutexes. The loader thread shows and hides in the order that
`Loader` checks (`ChecksHold`, `LifecycleOrder`). The thread flags are FreeRTOS's value
and pending state (`notified`, `received`), with `clearFlags()` as a query and a write.
A lock with a `tt_check` around it fails in the model exactly when the waiting threads form a
cycle, so that only the limit can end the wait: that a thread is merely slow for a whole
second is not modelled there. A redraw gives up (`RedrawGivesUp`) whenever somebody has LVGL;
`givenUp` remembers for which app, since nothing asks again.

**Wifi.** The state is accessed under `dataMutex` one access at a time; each access is a
step. `mpc` is the place of the main thread in a dispatched function and `hpc` that of
the event loop in `eventHandler()`, which is called once for each registration
(`handlers`, `hleft`). The driver is external and modelled from how the code uses it: it
accepts calls after init, posts events, ends an attempt to connect and a scan, and its
init, start and configuration may fail. When a radio is enabled whose driver is started
already, these calls have nothing to do and succeed. Each enabling registers the handlers
once more, and `MaxHandlers` bounds that (a guard of `Enable`).

**Mutex.** `use` is how the code uses the mutex: its type, with or without a time limit, left
by hand before the destructor or not, nested or not. A scoped lock that failed, or was
left by hand, unlocks once more (`LeaveUnlocked`), as `Lock.h` does. A normal mutex is
given by whoever calls, a recursive one by its holder only: that is FreeRTOS's doing.

**AppTimer.** `queue` holds the commands for the timer task, which `start()`, `stop()` and the
deleter only post, and `ticking` what the task calls back; a task that has fallen behind
executes a command after one more callback. An app that was hidden is shown again when the one
above it ends. `hits` records what a callback got wrong. Which hits occur is checked
(`OnlyKnownHits`), and those that do are under "Seen while modelling".

**PubSub.** One app of each kind, its life and its locks, against a publisher. A callback waits
for the mutex of the app and, with a limit, for LVGL.

**EspNow.** `jobs` is the queue of the main dispatcher. `enable()` polls there for
two seconds until Wi-Fi is off, while the job that turns it off may wait behind it in the same
queue: `PollEnd` goes on if the radio is off by then, and gives up if not. Every call of the
driver may fail, on both sides; `leftOn` says that one has left it to ESP-NOW. The receiver
delivers on the driver's thread; `msgList` is the list of Chat that it draws on.

**Gps.** A device is a configuration and the number of the `startReceiving()` that made it.
`stop()` detaches the thread and unlocks before it joins. Start and stop both run on the
thread of the main dispatcher, and each start makes new devices, so the `start()` between detach
and join that `GpsDevice` alone would allow does not occur. `open()` is one step (see below).

**AckFrames, GpsInit.** The first reads bytes as the three functions do, with their three ways
of starting over and the exit of `getAck()` for the text of frame errors. What a receiver sends
(`Streams`) and that text (`ErrorText`) are constants: any sequences in the proofs, and in the
run answers, other messages, noise, and `cas` frames with a wrong length or checksum, which
`getACKCas()` does not look at. The second is the sequence of commands of each receiver over an
order of messages that may lose, refuse and delay; an answer names the id of its command only,
and the text of frame errors ends a wait. A receiver is a model (6 to 10) together with
whether `protocol_version` is 18 or more: a model that was configured is not probed
(`GpsDevice.cpp:32`), so that number may be 0 for each of them.

**Satellites.** The ticks count modulo `Wrap`; `hasTimeElapsed()` is the difference of unsigned
numbers. `time` and `heardAt` are what really passed. A record as old as a turn of the counter
looks new; when one is given up beside such a record the choice may be wrong for as long as the
others live. `crowded` says that this, or more satellites than slots, has happened. Without an
expired record `findRecordToRecycle()` compares the ticks themselves, so right after they began
anew it gives up the newest of those records; `AssertFails` is its assert.

**ObjectFile.** The file is its headers and its records; a record may be written in part. The
writer and the reader are threads of their own, `fopen()` and each write may fail, and power may
be lost between any two. `goal` is the list that the call under way is to leave, and becomes
`promised` with its answer; `missed` counts what of it was lost to a failure that no answer
tells. They belong to no code. Removing what is not in the list writes the file anew, too.

**Screenshot, SerialConsole, SdCard, Statusbar, Restart.** Each thread has a program counter,
each object that may be freed a variable that says it exists, and each lock an owner. A press of
the screenshot button first asks the loader for the current app (`Asked`), with LVGL held.
`stored` counts the bytes that the console got since its start, up to the size of the buffer:
as long as `position` has not come round, the text begins with a NUL, or with a line break
and a NUL. `Statusbar` tells three kinds of losses apart: `iconLost` and `tickLost`, a change
and a tick that did not get the mutex, and `undrawn`, a drawing that did not get LVGL. A restart
by a watchdog, in the panic handler or without it, is not reported by Boot (`resetReason`).

**I2cScanner, TimeZone.** The handlers are actions of the LVGL thread, which holds the lock all
along; timer callbacks are split where they give the lock up.

**FileBrowser.** A handler of the LVGL thread (`press`) and the loader's `onResult()` (`resultPc`) are
each one step for every write of the shared state and every read of it:
`setSelectedChildEntry()` writes the selection and then the action, without the mutex, and
`onResult()` reads path, selection, action and path again. `half` says that what it read first
was half written. `scandir()` may fail, which leaves an empty list under the old path.

**Calculator.** A formula is a sequence of keys, numbers are exact fractions. `InfixToRPN` and
`EvaluateRPN` follow the two functions over the two stacks. The reference definition
(`Values`) is the usual grammar of expressions: its values for all spans of a formula are one
function, defined by recursion on the span.

Loops over data (`Scanned`, `Evaluated`, `Without`, `Listing`, `Found`) are recursive functions of
the number of turns, so that they can be proved about.

## The runs

| Run | Question | Instance | States |
|---|---|---|---|
| `Dispatcher` | Is the dispatcher a fair FIFO executor, with no lost wake-up? | 2 callers and the consumer, 3 functions, 1 with a time limit | 4 750 |
| `DispatcherThread` | Does `stop()` return, with nothing running afterwards, are leftovers run by the next start, and is the whole still a FIFO executor? | 1 caller, 2 functions, 2 starts | 1 929 |
| `Loader` | Do stack, app states and screen agree, and does boot complete? | Boot, launcher, 1 app, 1 unknown id; boot thread, LVGL task, hooks; 4 instances, 3 messages, 1 dropped | 868 210 |
| `SafeParts` | Are ten components safe? | below | 1 481 594 |
| `LiveParts` | Are twelve components safe, and do they go on? | below | 52 739 |
| `Thread_stopped` | *violation*: is freeing a thread seen Stopped safe? | 2 starts | |
| `Gui_click` | *violation*: are locks obtained when a handler asks for the current app? | 2 shows | |
| `Wifi_zombie`, `Wifi_pause`, `Wifi_wait` | *violation*: findings 3 to 5 | 3 calls, 3 requests, 3 registrations | |
| `Mutex_scoped` | *violation*: does every use of a scoped lock exclude? | 2 threads, depth 2 | |
| `SdCard_lock` | *violation*: is the bus used by one at a time while `withSdCardLock()` runs its function? | | |

`Dispatcher`, `DispatcherThread` and the runs that end with a violation take seconds, `Loader`,
`SafeParts` and `LiveParts` two to three minutes each with two workers.

**Parts.** `SafeParts` and `LiveParts` are sums: a variable `part`, chosen in the initial state and
never changed, says which component moves, and all others keep one initial state (so the
states of the sum are those of the components, added up, not multiplied). The components share
nothing, and what they have in common (Dispatcher, Thread, Loader with its hooks)
has runs of its own. A property of such a run joins what its components promise of one
kind: for example `OnlyLiveIsUsed` is that no thread, callback or job uses an object that is
gone, in `EspNow`, `Gps`, `PubSub`, `Screenshot` and `SerialConsole`. Each conjunct is a property
of the component's module, with a comment there, and each has a mutation that breaks it
alone.

| Property | Components | Says |
|---|---|---|
| `TransientsBelongToMain`, `NetifIsThere`, `OffMeansSilent` | Wifi | a pending state is being worked on; the netif is there when it is used; an Off radio is silent |
| `HooksApart` | Gui | hooks and handlers exclude each other, no hidden app is drawn |
| `AnswersAreReal` | AckFrames, Calculator | what is taken for an answer was sent as far as the reader looks at it, and none is missed but in the listed cases; a result is the value of its formula, and only an unbalanced parenthesis takes from an empty stack |
| `CallbacksHitTheRight` | AppTimer, FileBrowser | an app shown is refreshed, callbacks do it no harm while it is shown for the first time, and afterwards only the listed harm; the answer of a dialog acts on what the dialog named, but in the two listed cases |
| `ConfigurationInForce` | GpsInit | a command answered with Ok is in force, the save comes last |
| `CarefulUseExcludes` | Mutex | which uses of a mutex exclude |
| `FileKeepsPromises`, `OldIsKept` | ObjectFile, Satellites | the file lists as many entries as promised but for the losses no answer tells, and just those promised if nothing failed; adding takes nothing old away, whatever fails; an expired satellite is given up, or else the oldest of the current turn of the clock |
| `RecordsAreRecent` | Satellites | one record each, the recent ones listed, across the wrap of the clock |
| `StateMatchesBody` | Thread | the asserts of `mainBody()`, for every owner |
| `OnlyLiveIsUsed`, `UsedAlone`, `OffIsQuiet` | EspNow, Gps, PubSub, Screenshot, SdCard, SerialConsole | no app, device, thread object or view that is gone is used (the list of Chat only while Chat is shown); radio, UART and bus have one user; what is off has let go, but where the driver refused |
| `ShownIsTrue` | I2cScanner, Restart, Statusbar, TimeZone | the screen tells what is so, but for updates that lost a lock |
| `BegunEnds` | Thread, EspNow, Gps, I2cScanner, PubSub, Screenshot, SerialConsole | what was begun ends, but for the deadlocks named in the formulas |
| `StateCatchesUp` | Gui, Restart, Screenshot, SdCard, SerialConsole, Statusbar, TimeZone | what is shown follows what is so, but for the losses and deadlocks named in the formulas |

**Bounds.** Two callers and the consumer are the fewest threads with which pushes, signals and
the consumer's clear interleave in every order; the third function lets a push fall
between `processing` and the next lock. Two starts show a stop followed by a restart with
leftovers. Four instances let Boot, the launcher, an app and one more be asked for, so
stops meet stacks of every depth that the handler tells apart (empty, root, deeper).
Three shows (in `SafeParts`) let a request be overtaken twice, two (in `LiveParts`) once. Three Wifi calls cover every pair of
requests with a third in the middle of either. Two GPS sessions of two UARTs let a
receiver of the first meet one of the second. Three users and nesting of two are the least
with which a stranger's `unlock()` lets a third in. Four changes of the file with two
faults let a torn file be appended to and rewritten. `Wrap` = 8 with 14 ticks passes the
wrap with records on both sides, and three satellites do not fit into two slots. Seven keys
hold two operators with a pair of parentheses around one of them, or a nested pair.
The bounds are constants named `Max...`; where a proof exists it holds for all their values.

**Fairness.** Threads that are ready are scheduled, and functions and hooks return (weak
fairness of their steps). No client is ever made to call. A mutex is handed to a waiter
in the end: FreeRTOS wakes the waiter with the highest priority when a mutex is given,
which is strong fairness of taking a lock where another thread retakes it again and again.
The Wi-Fi driver answers an attempt to connect and ends a scan. In `LiveParts` the fairness
conditions of the components are joined: since `part` never changes, `Weak1` with one
disjunct for each component is fair exactly if the disjunct of the part that moves is.

**Deadlock** is checked in `Dispatcher`, whose consumer never stops. The other models may
stop: the bounds are used up, or an app is shown and nobody acts. Waits that must end are
liveness properties or, in `Gui`, the explicit cycle of waits.

## The proofs

TLAPS checks the following for every value of the constants, under named assumptions on
constants only: `DispatcherAssumption`, `ThreadAssumption`, `PartsAssumption` (both),
`LoaderAssumption`, `WifiAssumption`, and for the components of the two sums `InstanceParameters`,
which joins the `...Parameters` that their modules define. These say that bounds are natural
numbers, that two names differ, or that times are in the order they have in the code. TLC
evaluates each in a run.

**`DispatcherProofs`**: `TypeCorrect`, `NoWakeupIsLost`, `RunInOrderOnce`,
`FunctionsRunUnlocked`, and `RefinesExecutor`: every step is a step of `FifoExecutor` or
leaves it alone. `NoLostWakeup` is not inductive: it speaks of a consumer that waits,
while the danger arises earlier. The invariant adds
* `WakeupOwed`: the same already from the moment when `consume()` will not look at the queue
  again, that is while it runs the function it took for the last one;
* `ConsumerHolds`: a consumer that holds the mutex is in one of its critical sections;
* `ArgumentSet` and `CurrentSet`: a thread inside of `dispatch()` has a function, and the
  consumer has one exactly while it runs it.

**`ThreadProofs`**: `BodyFindsItsState` holds for every owner. Its invariant says that at most
one task is between creation and the end of its main function, and none when `start()`
is about to create one, which is what `assert(state == Stopped)` buys. `JoinersAreSafe`
holds for owners that join. Its invariant adds that the handle is null while the owner
takes the thread for ended, and that a thread that is not Stopped has a task at work. The
run `Thread_stopped` shows that the assumption about the owner is needed.

**`WifiProofs`**: `TypeCorrect`, `PendingEnds`, `NetifAssertHolds` and `OffIsSilent`. The invariant
adds who has created the netif (`NetifBeforeDriver`), that a stopped driver is silent
(`StoppedIsSilent`), where the driver has been stopped and where Off can come from
(`OffFollowsStop`), and that an initialized driver has registered handlers
(`HandlersCounted`). One lemma for each part takes the actions case by case.

**`DispatcherThreadProofs`**: `TypeCorrect`, `StoppedIsQuiet`, `ThreadIsSafe` and `RefinesExecutor`. Each
step of the composition is a step (or a stutter) of both parts, so the invariants of
`DispatcherProofs` and of `ThreadProofs`, for an owner that joins, hold in it without
being proved again. What is added relates the two: the task consumes only in its main
function (`ConsumesInMain`), it ends only when interrupted (`Interrupted`), and functions
dispatch only while one of them runs (`DispatchesInRun`).

**`LoaderProofs`**: `TopShown`, `HooksAlternateAlways`, `ResultReachesTop`, `LifecycleInOrder`,
`ChecksAlwaysHold`. `TopIsShown` speaks of the time between two handlers, so the invariant
says for each place in a handler what the stack, the states of the instances on it
(`StackInv`, `StateInv`) and the handler's locals (`HandlerInv`) are. `ChecksHold` needs more,
because an empty stack is allowed for a while: `BootInv` follows the device through four
phases, before Boot is there, while it runs, between Boot and the launcher, and for good
after that, and says in each which messages and clients there can be. It holds while no
message was dropped, which is the condition `ChecksHold` has.

**`GuiProofs`**: `TypeCorrect`, `HooksNeverMeet` and `HiddenIsNotDrawn`, whatever locks handlers take. The
invariant says which locks each thread has at each of its places (`LocksHeld`), what the loader
thread knows of the app it shows or hides, and that an app that is hidden is on its way out of
`appToRender`. That locks with a `tt_check` are obtained is no theorem: see finding 2.

**`SafePartsProofs`** covers every property of the run `SafeParts`, for the behaviours that run has: a
behaviour of the sum, seen through the variables of one component, is a behaviour of it.
`TypesStayOK` joins the types. The theorems and the invariants behind them:

* `HooksStayApart` is `GuiProofs`, `OkMeansInForce` is `OkIsInForce`: for each script of a u-blox receiver
  (models 6 to 10, with a protocol version of 18 or not) and any number of faults, both directions keep the order of the commands (`InOrder`), so a
  late confirmation that is taken for another's has left an earlier command with the same
  id without its own (`LateAnswers`), and this stays so (`AppliedInv`). That the save is the
  only command of its id, and the last, is `SaveIsLast`; hence `SavedIsFinal`.
* `CareAlwaysExcludes`: the holder of a mutex is in as many sections as it has to leave
  (`HolderIsInside`).
* `CallbacksHit`: `TimerInv` says which Timer and widgets there are at each place of the hooks
  (`TimerHooks`), and what the queue of the timer task will make of the active timer
  (`TimerQueued`). `BrowserInv`: as long as no dialog was asked for
  before another was dealt with, there is one at most, and it is about what is selected, or
  the handler that changed the selection is about to clear the action (`OneDialog`); an answer that was
  not read half-way acts on what it names (`AnswerInv`).
* `RecordsStayRecent`, `OldestGoesFirst`: ticks, slots and satellites are unbounded here. A difference
  of two tick counts modulo `Wrap` is the time between them if that is less than a turn
  (`Elapsed`, `SameTurn`), so a record tells its age (`ElapsedIsAge`). That no record was needed when
  one is given up is counted: the satellites heard lately would be more than the slots (`Crowd`).
  `HeardInv` says of each record whose satellite it is and when that was heard, and that a
  satellite without a record was heard too long ago to matter. `OldestGoesFirst` compares by turns of
  the counter: within a turn the lower tick is the earlier time, and a record of the current turn is
  below all of the turn before (see "Comments that differ").
* `FileKeepsItsPromises`, `AddingKeepsTheOthers`, `OldStaysKept`: `StoreInv` says for each place of the
  writer what the header is (`StoreHeads`) and that it never counts more than there is
  (`StoreWhole`); that the records counted and those lost are as many as promised, whatever fails
  (`StoreLengths`); what the records written and those to come make together, where nothing
  failed or was left behind (`StoreLists`, `StoreFaultless`); and what a reader has seen of a file
  that was not begun anew (`StoreReads`). The lemmas `TakenType`, `TakenWhole` and `TakenGrows` say what a
  reader makes of the records when some were cut short.
* `AnswersAreSent`: `AckInv` says which bytes a reader must have read to be at the index it is at, in the
  answer and in the text of errors (`Matched`), that it is on track if no false start hid the answer
  (`UbxOnTrack`, `CasOnTrack`), and that what it accepted is in the stream.
* `AnswersStayReal` adds the calculator. `Parsed`: if the grammar gives a span of the formula a
  value, then going over that span changes the two stacks as it should. What holds
  before (`Before`: only weaker operators are waiting on top) and after (`After`: the pending operators of the
  span, once moved, leave the value on top of the stack of values, and below them is what
  was there) is stated for each of the three kinds of a span, and shown for sums and
  products (`ReadsJoined`), parentheses (`ReadsParens`) and numbers (`ReadsNumber`). `PopsEmptyUnbalanced`:
  the opening parentheses on the stack are those of the formula that were not closed.

These need induction over data (lengths of formulas, loops). The library's theorems about induction
take an operator and cannot be used here, but the least element of a set of numbers can
(`LeastOf`, from the well-foundedness of `<`): `UpTo` is induction as a statement about sets, `Folds` and `FoldExists` say that a
loop has a result, and `GrammarExists` does the same for the recursion of the grammar over spans.

**`LivePartsProofs`** covers every invariant of the run `LiveParts` in the same way: `LiveThingsAreUsed`, `NothingIsShared`, `WhatIsOffIsQuiet`, `WhatIsShownIsTrue` and `TypesAreKept`. One invariant for each component:

* `NowInv` (ESP-NOW): as long as Chat was not closed before its `enable()` was executed, an
  `enable` in the queue of the main dispatcher is not followed by a job that turns Wi-Fi on, and while
  ESP-NOW is on such a job comes after one that disables (`NowQueue`).
* `SatInv` (GPS): which devices may be doing anything at each place of the main thread (`SatBusy`), and
  that a UART belongs to the device whose thread has opened it (`SatUarts`).
* `PubInv`: who has which lock at each place of the hooks and of the callback (`PubLocks`), and that during a
  callback its subscription and, with LVGL, the views stay (`PubCalls`).
* `ScanInv`: while the scan that is shown is the only one, the addresses are all that answer up to the
  one that is probed, in order (`ScanComplete`, `ScanOrder`).
* `ShotInv`: only the task that the service has, or the one that the press handler waits for, has a running
  thread. `ConsInv`: which threads have ended at each place of `stop()`. `SdInv`: the bus belongs to
  whoever is at a place that uses it.
* `BootInv`: each boot into mass storage uses up one request or one flag that was found. `BarInv`: who has
  the LVGL lock draws. `ZoneTypes`: the list is made of names of the file, no more than fit.

**Model-checked only**: liveness (`PatientJobsRun`, `ImpatientJobsResolved`, `StopReturns`, `RunsUnlessStopped`,
`BootCompletes`, `BegunEnds`, `StateCatchesUp`, and the fair half of `ImplementsFairExecutor`): fairness and
ENABLED are beyond the prover. Every invariant and every action property of the passing runs is
the subject of a theorem.

## Findings

Each is a run that TLC ends with the property violated; `PROJECT.json` quotes the lines.

1. `Thread_stopped`: `Thread.cpp:82` says "Ensure that use join before free". `GpsDevice::stop()`
   and the serial console skip `join()` when the state is Stopped, which is set before the
   task's last access to the object.
2. `Gui_click`: a handler with the LVGL lock that asks for the current app, and `hideApp()`
   with the loader mutex, wait for each other. The `tt_check` at `Gui.cpp:112` crashes.
3. `Wifi_zombie`: a connect that is worked off after a disable leaves the state On
   without a driver, and from there neither enable nor disable has an effect.
4. `Wifi_pause`: the event of a manual disconnect itself may end the pause of
   auto-connection that the disconnect began.
5. `Wifi_wait`: `eventHandler()` sets On after the next connection attempt has set
   ConnectionPending; the driver is not told to connect, and the main thread waits for ever.
6. `Mutex_scoped`: the destructor of `ScopedLock` (`Lock.h:70`) unlocks although its lock timed out or
   was unlocked early; a normal mutex then lets a second thread in.
7. `SdCard_lock`: the scoped lock of `withSdCardLock()` (`SdCardDevice.h:59`) ends with its block,
   before the function runs, which uses the bus while the display does.

Seen while modelling, without a run. Deadlocks that the liveness formulas name:
* `Gps!Deadlocked`: a receiver in a callback, with its device's mutex, waits for the service,
  whose `stopReceiving()` waits for the device (`GpsService.cpp:88`).
* `PubSub!CrossedLocks`: `onHide()` of WifiManage unsubscribes with its mutex held, while the
  callback that `publish()` runs waits for that mutex.
* `Screenshot!AskMeetsLoader`: the press handler, with LVGL held, asks for the current app
  (`optApp()`) and waits for the mutex of a loader that waits for LVGL. `Screenshot!ThreeWait`: it joins
  the task, which waits for the loader. The loader's `tt_check` ends both, with a crash.
* `EspNow!SendMeetsReceive`: `send` and the receiver take the service's mutex and the LVGL lock in
  opposite orders (`ChatApp.cpp:73`).
* `softwareKeyboardShow()` and `softwareKeyboardHide()` (`Keyboard.cpp:27`, `:38`), called by handlers,
  take the gui mutex inside of the LVGL lock, the opposite order of `redraw()` (see `Gui`).

What `CallbacksHitTheRight`, `ShownIsTrue` and others leave out because it does happen:
* The callback of a Timer works on an app that is freed (`Gpio`, `Screenshot`), on a Timer that
  is freed, on widgets that are gone, or (`Power`) without the LVGL lock. A `Screenshot` app that is shown
  again is not refreshed: `onShow()` stops the timer, finds it running still, and does not start it.
* `FileBrowser`: if a second dialog is started before the first is dealt with, the answer of the
  first is applied to what was selected for the second. If `onResult()` reads path or selection
  when a press has written it and not yet cleared the action (`State.h:54-57`, the two
  writes without the mutex; `State.cpp:89-95`), a file is deleted or renamed that no dialog named.
  `rename()` takes the new name in the directory that is current by then, and overwrites what is
  there; a list made by `onResult()` may bring back the directory that was just left.
  `onResult()` may update widgets that the redraw has deleted.
* `TimeZone`: between the two turns of a callback a click picks an entry of the new list by its
  index in the old one.
* `I2cScanner`: a scan that is started while the callback of another is running is ended by it. `onHide()`
  stops only a timer that has not fired: a callback that runs by then uses deleted widgets.
* `EspNow`: Chat that is closed before its `enable()` was executed leaves ESP-NOW on. What is received
  while Chat was created and is not yet shown, or was hidden, is drawn on a `msg_list` that was never
  set, or on one that was deleted (`ChatApp.cpp:28`, `:73-75`: it unsubscribes in `onDestroy()` only).
* `GpsInit`: a refusal does not say of what, so a late one is taken for the answer of the next command.
* `AckFrames`: a first byte (`B5`), or a header, right before the real one hides the answer.
  `getACKCas()` takes frames with a wrong length or checksum for answers (`GpsInit.cpp:102-122`).
* `Statusbar`: a change of an icon that does not get the mutex in time is remembered as made
  (`service/statusbar/Statusbar.cpp:191`), and no later update repairs it; a drawing that does not get
  LVGL is repaired by the next. The icon of the SD card keeps its image for a state Unknown (line 205).
* `ObjectFile`: `addGpsConfiguration()` answers true although `close()` could not write the header, so the entry
  is not counted. A failure while a list is rewritten costs all of it, and may leave a file that
  cannot be read, or appended to, any more; a list read meanwhile may be short or mixed, and is answered as complete.
* `SerialConsole`: the text stays empty, or a single line break, until as many bytes were received as the
  buffer has (`ConsoleView.h:58-69`: it is copied from `receiveBuffer[position]` on, where the zeros of line
  159 are). Later the separator is put at the index `receiveBufferPosition` instead of `first_part_size`, in
  the place of a byte; the place between the halves keeps what an earlier update left there, and the mark of
  the end (line 63) cuts the two newest bytes off, unless the position is 0.
* `Calculator`: "=" pressed again evaluates "1+2 = 3" as one formula; a closing parenthesis too
  many pops an empty stack; the room check of `Calculator.cpp:45` comes before the reset.
* `Notes` (no module): `onResult()` runs on the loader's thread and writes to widgets that the redraw
  makes and deletes on another; after a file dialog that is cancelled or fails the view is
  made anew, empty, while `filePath` stays, so that Save overwrites the file with nothing.

Comments that differ from the code:
* `Gui.h:56` promises "always at least 1 app running", which is untrue between the end of
  Boot and the launcher, and for good if the launcher's start message is dropped.
* `AppInstance.h:19` says of Hiding "App view is destroyed"; the widgets live until the redraw.
* `Dispatcher.h:45` says `consume()` goes on "until the queue is empty"; a function pushed
  while the last one runs is left to the next call.
* `Wifi.h:95` and `Wifi.h:124` (scan active, disconnect) are stronger than lines 690-696 and
  798 of `WifiEsp.cpp`, which set the flag after the start and do not look at the state.
* `Satellites.h:44` says that the oldest record is recycled; `Satellites.cpp:60` compares wrapped ticks, so
  without an expired record the newest is given up right after the ticks began anew. The
  assert of line 67 fails if every record was heard of in the last tick of a turn.
* `GpsInit.cpp:100` says that all 14 bytes of a frame were read; the test below it holds after 13.
* `PanicHandler.cpp:14` says that the crash data "is reset by the Boot app"; nothing resets it
  until the next panic overwrites it.

## What is not modelled

Parts of modelled components:
* Gui: creation and destruction of the service. The stop is modelled up to `join()` (`Gui.cpp:162`).
* Loader: its own `onStart()` and `onStop()`; clicks on a hidden app's widgets (`Loader.cpp:247`)
  are modelled as calls, their effect on the app is not.
* Wifi: settings, RSSI, access point records, `onStop()` of the service. That a scan may be
  over before it is marked active (`WifiEsp.cpp:696`), that an error path keeps the handlers
  registered and enabling again registers them once more (line 552), and that a connection is lost before ConnectionActive is set (line 775) are in the model; no
  property says that the flags are then right, because they are not.
* Dispatcher: the destructor against a thread that has yet to set the flag (`Dispatcher.cpp:14`).
* Thread: the arithmetic of the timeout of `awaitFlags()` (`Thread.cpp:330`), suspend, resume, priorities.
* GPS: `open()` and `++lastUartId` of `Uart.cpp` (lines 30, 103-126, 168) have no lock. Two receivers that open at
  once may get the same number, and `close()` of the first then frees the mark of the other; `Gps!Open` is one step,
  as splitting it makes the states too many for a run. A UART that a receiver and the console both want. `Probe.cpp` and the receivers that are not u-blox (written to without waiting for an answer);
  that a whole buffer is sent and not only the message in it (`Ublox.cpp:17`); `extensionNo`, which
  is never set back (line 251); the parsers (minmea). SatelliteStorage has no user in this repository.
* ScreenshotTask: file names, the snapshot itself, a picture that is lost when LVGL is busy
  (lines 74 to 76), and the conversion of the interval to 8 bits in the app (line 116).
* Statusbar: one generic icon instead of the pool; the visibility of the Wi-Fi icon.
* SD card: `SdmmcDevice`; a file that is open when its card is unmounted.
* Restart: the stack unwinding of the panic handler and its QR code; the result of
  `startMassStorageWithSdmmc()` (`Boot.cpp:64`), which nobody looks at after the mode was reset;
  the least time of the splash.
* Serial console: writing; the text that is shown beyond whether it is empty; received zeros, which end the text.
* Files: which viewer opens a file; renaming a directory; a string that is read while another thread
  assigns it, which is taken to be the old or the new one; `remove()` of the directory itself with an
  empty selection, which is taken to fail.
* Time zone: closing by the toolbar while a pick is under way, so that a click after `stopApp()` may get
  another app from `getCurrentApp()`.
* Calculator: decimal points, the rounding of doubles, the text of a result.

Whole components:
* Service registry: `findServiceInstanceById()` reads one map under the mutex of the other
  (`ServiceRegistry.cpp:56`). That is a data race on an `std::unordered_map`, whose outcomes are
  not states that a model can list; everything else is one locked access.
* App and device registries, settings, SystemEvents, preferences, bundles: a map, a list or a
  file behind a mutex, with one access per call; PubSub stands for the lists.
* Notes, GpsSettings (`GpsSettings.cpp:102` counts one too far), Chat's text, Launcher and the
  other apps: user interface over the components above; what they do to Loader and Gui is
  the environment of those modules.
* Drivers of buses and boards (`I2cDevice.cpp:46`: `bitOn()` reads, changes and writes without a
  lock around the three; touch, keyboards, UnPhone's power), of interest together with
  the hardware only. ElfApp, C API, drivers and libraries of third parties, the simulator.
* Files, strings, cryptography, logging: sequential code over bytes.

The larger part of the repository's lines is in the last two: board definitions, drivers, LVGL
ports, libraries and user interface, of which a model would restate the text.

## What is left to do

1. `Loader` with `Gui`'s locks in one module, in place of the assumption of each about the other.
2. The parts of modelled components that the last section names, first `Probe.cpp`.
