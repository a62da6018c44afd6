---------------------------- MODULE MCSafeParts -----------------------------
(***************************************************************************)
(* Small instances of the components of which only safety is checked and   *)
(* that share nothing with each other, in one run: `part` says which of    *)
(* them moves, the others stay in one initial state.  Each property joins  *)
(* what its components promise in their own modules.  Wifi is extended, so *)
(* that TLC evaluates its assumption; the others are instances.            *)
(***************************************************************************)
EXTENDS Wifi

CONSTANTS MaxShows, ClicksAskLoader, SoftKeyboard, MayStop, Streams, ErrorText,
          TimerApps, TimerQueue, SubDir, NoName, MaxDialogs, MaxFaults, Users, NoUser, MaxDepth, Configs, MaxChanges,
          Numbers, Slots, Wrap, RecycleTicks, RecentTicks, NoNumber, MaxTime, Keys,
          MaxKeys, NoResult

(* What receivers send: up to three bytes of all kinds, and then a message. *)
Noise == [ubx |-> {"B5", "62", "05", "M", "or"}, mon |-> {"B5", "62", "cl", "xx"},
          cas |-> {"BA", "CE", "05", "xx"}]
UbxFrame(kind, id) == <<"B5", "62", "05", kind, "02", "00", "cl", id, "ck", "ck">>
MonFrame(high) == <<"B5", "62", "cl", "id", "01", high, "xx", "ck", "ck">>
CasFrame(kind, id) == <<"BA", "CE", "04", "00", "05", kind, "cl", id, "00", "00",
                        "ck", "ck", "ck", "ck">>
CasBroken == <<"BA", "CE", "ff", "ff", "05", "01", "cl", "id", "ff", "ff", "xx", "xx", "xx", "xx">>
Messages == [ubx |-> {UbxFrame(k, i) : k \in {"00", "01"}, i \in {"id", "xx"}},
             mon |-> {MonFrame("00"), MonFrame("ff")},
             cas |-> {CasFrame(k, i) : k \in {"00", "01"}, i \in {"id", "xx"}} \union {CasBroken}]
MCStreams == [r \in {"ubx", "mon", "cas"} |->
                 {n \o m : n \in UNION {[1..k -> Noise[r]] : k \in 0..3}, m \in Messages[r]}]
MCErrorText == <<"M", "or">>

Names == <<"d", "a", "b">>
Files == [path \in {"top", "sub"} |-> IF path = "top" THEN {"a", "d"} ELSE {}]

VARIABLES
    part,
    \* Gui
    owner, pc, appToRender, shows, drawn, hidden, givenUp, notified, received, flags,
    cflags,
    \* AckFrames
    reader, sent, taken, matched, errors, casBuffer, found,
    \* AppTimer
    tKind, tLife, again, widgets, timerObj, ticking, queue, hookPc, tickPc, tickApp,
    tLvgl, hits,
    \* FileBrowser
    fs, fbPath, entries, selected, action, fbList, menu, fbView, press, asked, dialogs,
    topDrawn, resultPc, answer, filepath, relist, overlap, starts,
    \* Calculator
    formula, newInput, result, crashed,
    \* GpsInit
    ublox, command, initPc, toReceiver, toDriver, results, applied, faults,
    \* Mutex
    use, holder, count, inside, at,
    \* ObjectFile
    head, held, recs, wPc, wOp, todo, recordsWritten, wOk, rPc, recordCount, got, opened,
    renewed, readOk, promised, goal, missed, cut, failures, changes,
    \* Satellites
    records, time, heardAt, crowded, aborted

guiVars == <<owner, pc, appToRender, shows, drawn, hidden, givenUp, notified, received,
             flags, cflags>>
ackVars == <<reader, sent, taken, matched, errors, casBuffer, found>>
timerVars == <<tKind, tLife, again, widgets, timerObj, ticking, queue, hookPc, tickPc,
               tickApp, tLvgl, hits>>
browserVars == <<fs, fbPath, entries, selected, action, fbList, menu, fbView, press, asked,
                 dialogs, topDrawn, resultPc, answer, filepath, relist, overlap, starts>>
calcVars == <<formula, newInput, result, crashed>>
confVars == <<ublox, command, initPc, toReceiver, toDriver, results, applied, faults>>
mutexVars == <<use, holder, count, inside, at>>
storeVars == <<head, held, recs, wPc, wOp, todo, recordsWritten, wOk, rPc, recordCount,
               got, opened, renewed, readOk, promised, goal, missed, cut, failures,
               changes>>
heardVars == <<records, time, heardAt, crowded, aborted>>
allVars == <<part, vars, guiVars, ackVars, timerVars, browserVars, calcVars, confVars,
             mutexVars, storeVars, heardVars>>

Gui1 == INSTANCE Gui
Ack == INSTANCE AckFrames
Timer == INSTANCE AppTimer
Browser == INSTANCE FileBrowser
Calc == INSTANCE Calculator
Conf == INSTANCE GpsInit
Mtx == INSTANCE Mutex
Store == INSTANCE ObjectFile
Heard == INSTANCE Satellites

ASSUME InstanceParameters ==
    Gui1!GuiParameters /\ Ack!AckFramesParameters /\ Mtx!MutexParameters /\ Heard!SatelliteParameters
    /\ Store!ObjectFileParameters /\ Calc!CalculatorParameters
    /\ Timer!AppTimerParameters /\ Browser!FileBrowserParameters

PartsInit ==
    /\ part \in {"wifi", "gui", "frames", "timer", "browser", "calculator", "conf",
                "mutex", "file", "satellites"}
    /\ Init /\ (part # "wifi" => requests = <<>>)
    /\ Gui1!Init
    /\ Ack!Init /\ (part # "frames" => reader = "ubx" /\ sent = CHOOSE s \in Streams.ubx : TRUE)
    /\ Timer!Init /\ (part # "timer" => tKind = "gpio")
    /\ Browser!Init
    /\ Calc!Init
    /\ Conf!Init /\ (part # "conf" => ublox = [model |-> "ublox6", modern |-> FALSE])
    /\ Mtx!Init /\ (part # "mutex" => use = CHOOSE u \in Mtx!Uses : TRUE)
    /\ Store!Init
    /\ Heard!Init

(* Of the components only the one that `part` names moves. *)
Rest ==
    /\ UNCHANGED part
    /\ IF part = "wifi" THEN TRUE ELSE UNCHANGED vars
    /\ IF part = "gui" THEN TRUE ELSE UNCHANGED guiVars
    /\ IF part = "frames" THEN TRUE ELSE UNCHANGED ackVars
    /\ IF part = "timer" THEN TRUE ELSE UNCHANGED timerVars
    /\ IF part = "browser" THEN TRUE ELSE UNCHANGED browserVars
    /\ IF part = "calculator" THEN TRUE ELSE UNCHANGED calcVars
    /\ IF part = "conf" THEN TRUE ELSE UNCHANGED confVars
    /\ IF part = "mutex" THEN TRUE ELSE UNCHANGED mutexVars
    /\ IF part = "file" THEN TRUE ELSE UNCHANGED storeVars
    /\ IF part = "satellites" THEN TRUE ELSE UNCHANGED heardVars

PartsNext ==
    \/ part = "wifi" /\ Next /\ Rest
    \/ part = "gui" /\ Gui1!Next /\ Rest
    \/ part = "frames" /\ Ack!Next /\ Rest
    \/ part = "timer" /\ Timer!Next /\ Rest
    \/ part = "browser" /\ Browser!Next /\ Rest
    \/ part = "calculator" /\ Calc!Next /\ Rest
    \/ part = "conf" /\ Conf!Next /\ Rest
    \/ part = "mutex" /\ Mtx!Next /\ Rest
    \/ part = "file" /\ Store!Next /\ Rest
    \/ part = "satellites" /\ Heard!Next /\ Rest

PartsSpec == PartsInit /\ [][PartsNext]_allVars

-----------------------------------------------------------------------------
(* The types of the variables of the component that moves; the others stay as they
   began. *)
TypesOK ==
    /\ (part = "wifi" => TypeOK)
    /\ (part = "gui" => Gui1!TypeOK)
    /\ (part = "frames" => Ack!AckFramesTypeOK)
    /\ (part = "timer" => Timer!AppTimerTypeOK)
    /\ (part = "browser" => Browser!FileBrowserTypeOK)
    /\ (part = "calculator" => Calc!CalculatorTypeOK)
    /\ (part = "conf" => Conf!GpsInitTypeOK)
    /\ (part = "mutex" => Mtx!MutexTypeOK)
    /\ (part = "file" => Store!ObjectFileTypeOK)
    /\ (part = "satellites" => Heard!SatellitesTypeOK)

(* The hooks of apps and event handlers never run at the same time, and no
   hidden app is drawn (GuiService, redraw()). *)
HooksApart ==
    /\ Gui1!NeverDrawsHidden
    /\ Gui1!HooksExclusive

(* No answer of a GPS receiver is made up, and none is missed but one that
   comes right behind the beginning of another (getAck(), getACKCas(), which
   takes a frame for an answer whatever its length and its checksum are); the
   calculator answers with the value of its formula, and only a parenthesis
   too many can break it (infixToRPN(), evaluateRPN()). *)
AnswersAreReal ==
    /\ Ack!NoAnswerMadeUp
    /\ Ack!NoAnswerMissed
    /\ Calc!ResultIsTheValue
    /\ Calc!CrashesOnlyUnbalanced

(* The timer callback of an app gets wrong only what is listed, nothing but a
   missed lock while the app is shown for the first time, a freed timer that
   is active has a command to delete it in the queue, and the app that is
   shown is refreshed (Timer, Gpio, Power, Screenshot); the file that is
   renamed or deleted is the one the dialog named, but where its formula says
   that it may not be (file browser). *)
CallbacksHitTheRight ==
    /\ Timer!OnlyKnownHits
    /\ Timer!LiveTimerUnlessStopping
    /\ Timer!ShownIsRefreshed
    /\ Browser!ActsOnWhatWasAsked

(* A command answered with Ok is in force, and what was saved is final
   (initUblox6(), initUblox789(), initUblox10()). *)
ConfigurationInForce ==
    /\ Conf!OkMeansApplied
    /\ Conf!SavedIsFinal

(* A mutex that is only used by scoped locks that succeed and are not unlocked
   early excludes (Mutex, ScopedLock). *)
CarefulUseExcludes == Mtx!CarefulUseExcludes

(* The file lists as many configurations as the answers promised, but for
   those lost to a failure that no answer told, and these very ones unless a
   failure left something behind them; it is unreadable only if it was cut
   short; and a list that is read is the one there was when the reading began,
   unless the file was begun anew (GpsConfiguration, ObjectFile). *)
FileKeepsPromises ==
    /\ Store!ListIsPromised
    /\ Store!UnreadableWasCut
    /\ Store!ReadsAreWhole

(* Each satellite has one record, those heard in the last minute are listed
   and no others, none is lost but where the storage was too small or the
   ticks had come round, and the assert fails only at the last tick of a turn
   (SatelliteStorage). *)
RecordsAreRecent ==
    /\ Heard!OneRecordEach
    /\ Heard!ListsTheRecent
    /\ Heard!RecentAreKept
    /\ Heard!AssertsAtLastTickOnly

(* A step that adds something keeps what was there: a configuration that is
   appended takes none of the others away, whatever fails, and the satellite
   whose record is given up is the oldest of those heard since the tick
   counter began anew, if it is not old enough to be recycled anyway
   (GpsConfiguration, SatelliteStorage). *)
OldIsKept ==
    [][/\ Store!AddKeepsListed
       /\ Heard!OldestIsRecycled]_allVars
=============================================================================
