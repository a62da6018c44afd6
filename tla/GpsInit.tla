------------------------------ MODULE GpsInit ------------------------------
(***************************************************************************)
(* The configuration of a u-blox receiver (initUblox6(), initUblox789()    *)
(* and initUblox10() of hal/gps/Ublox.cpp): one command after another, and *)
(* after each a wait for an answer.  A command that is not answered in     *)
(* time is logged and the next one is sent; the late answer then meets the *)
(* wait of a later command, and all that an answer tells is the id of its  *)
(* command (class 06 in all of them) -- or, a refusal, nothing at all,     *)
(* because getAck() stops at the fourth byte of it (see AckFrames).        *)
(* The receiver is external: it carries out what is written to it in that  *)
(* order, refuses some of it, and may lose a command or be late.           *)
(***************************************************************************)
EXTENDS Naturals, Sequences, SequencesExt

CONSTANT MaxFaults   \* bound on commands lost or refused, late answers and frame errors

VARIABLES
    ublox,     \* the receiver: [model, modern]
    command,   \* the number of the command that is being sent
    initPc,    \* "flush", "write", "await", "done"
    toReceiver,   \* commands that the receiver has not carried out
    toDriver,  \* its answers that were not read: [id, for, ok]
    results,   \* what getAck() returned, for each command so far
    applied,   \* the commands that the receiver has carried out
    faults

vars == <<ublox, command, initPc, toReceiver, toDriver, results, applied, faults>>

(* The id of each command, and whether the input is flushed before it. *)
Sends(ids) == [n \in DOMAIN ids |-> [id |-> ids[n], flush |-> FALSE]]
FlushThen(ids) == [n \in DOMAIN ids |-> [id |-> ids[n], flush |-> n = 1]]
NmeaMessages == <<"08", "01", "01", "01", "01", "01", "01">>

Script6 == FlushThen(<<"02", "39", "23">> \o NmeaMessages)
               \o FlushThen(<<"11", "3B", "01">>) \o Sends(<<"09">>)
Script10 == [n \in 1..12 |-> [id |-> "8A", flush |-> n <= 4]] \o Sends(<<"09">>)

(* Only the 8 gets its input flushed again, and NMEA 4.10. *)
Interference(eight) == IF eight THEN FlushThen(<<"39">>) \o FlushThen(<<"23">>)
                                ELSE Sends(<<"39", "23">>)
PowerSave(eight, modern) ==
    CASE modern /\ eight -> FlushThen(<<"86", "3B">>) \o FlushThen(<<"17">>)
      [] modern /\ ~eight -> FlushThen(<<"86", "3B">>)
      [] OTHER -> Sends(<<"11", "3B">>)
Script789(eight, modern) ==
    Sends(<<"3E">>) \o FlushThen(<<"02">>) \o Interference(eight) \o Sends(NmeaMessages)
        \o PowerSave(eight, modern) \o Sends(<<"09">>)

(* The model is the configured one or the one that probe() found, and `modern`
   says that ublox_info.protocol_version is 18 or more: it is 0 until a probe
   writes it, and a probe of another receiver may have left either.  The 6 and
   the 10 do not look at it. *)
Receivers == [model : {"ublox6", "ublox10"}, modern : {FALSE}]
                 \union [model : {"ublox7", "ublox8", "ublox9"}, modern : BOOLEAN]
Script == [r \in Receivers |->
    CASE r.model = "ublox6" -> Script6
      [] r.model = "ublox10" -> Script10
      [] OTHER -> Script789(r.model = "ublox8", r.modern)]

Commands == DOMAIN Script[ublox]
Id(c) == Script[ublox][c].id
Save == Len(Script[ublox])

Init == /\ ublox \in DOMAIN Script
        /\ command = 1 /\ initPc = "flush"
        /\ toReceiver = <<>> /\ toDriver = <<>> /\ results = <<>>
        /\ applied = {} /\ faults = 0

-----------------------------------------------------------------------------
(* The receiver. *)
Fault(is) == IF is THEN faults < MaxFaults /\ faults' = faults + 1 ELSE UNCHANGED faults

CarryOut(ok) ==
    /\ toReceiver # <<>>
    /\ Fault(~ok)
    /\ LET c == Head(toReceiver)
       IN  /\ toDriver' = Append(toDriver, [id |-> Id(c), for |-> c, ok |-> ok])
           /\ applied' = IF ok THEN applied \cup {c} ELSE applied
    /\ toReceiver' = Tail(toReceiver)
    /\ UNCHANGED <<ublox, command, initPc, results>>

LoseCommand == /\ toReceiver # <<>>
               /\ Fault(TRUE)
               /\ toReceiver' = Tail(toReceiver)
               /\ UNCHANGED <<ublox, command, initPc, toDriver, results, applied>>

-----------------------------------------------------------------------------
(* The driver. *)
Flush == /\ initPc = "flush"
         /\ initPc' = "write"
         /\ toDriver' = IF Script[ublox][command].flush THEN <<>> ELSE toDriver
         /\ UNCHANGED <<ublox, command, toReceiver, results, applied, faults>>

Write == /\ initPc = "write"
         /\ initPc' = "await"
         /\ toReceiver' = Append(toReceiver, command)
         /\ UNCHANGED <<ublox, command, toDriver, results, applied, faults>>

(* The init functions go on whatever the answer was, and return true. *)
NextCommand(result) == /\ results' = Append(results, result)
                       /\ command' = IF command = Save THEN command ELSE command + 1
                       /\ initPc' = IF command = Save THEN "done" ELSE "flush"

(* Mutation of Matches: the id of the message is not looked at. *)
MatchesAny(a) == a.ok

(* getAck() passes over the confirmation of another command. *)
Matches(a) == a.ok /\ a.id = Id(command)

GetAck ==
    /\ initPc = "await" /\ toDriver # <<>>
    /\ toDriver' = Tail(toDriver)
    /\ CASE Matches(Head(toDriver)) -> NextCommand("Ok")
         [] ~Head(toDriver).ok -> NextCommand("NotAck")
         [] OTHER -> UNCHANGED <<command, initPc, results>>
    /\ UNCHANGED <<ublox, toReceiver, applied, faults>>

(* The text of frame errors, sent ahead of what was not read yet, ends the wait. *)
GetFrameErrors ==
    /\ initPc = "await"
    /\ Fault(TRUE)
    /\ NextCommand("FrameErrors")
    /\ UNCHANGED <<ublox, toReceiver, toDriver, applied>>

(* Nothing in time: the command was lost, or its answer is late. *)
AckTimeout ==
    /\ initPc = "await" /\ toDriver = <<>>
    /\ IF command \in {toReceiver[n] : n \in DOMAIN toReceiver}
       THEN Fault(TRUE) ELSE UNCHANGED faults
    /\ NextCommand("None")
    /\ UNCHANGED <<ublox, toReceiver, toDriver, applied>>

Next == \/ \E ok \in BOOLEAN : CarryOut(ok)
        \/ LoseCommand
        \/ Flush \/ Write \/ GetAck \/ GetFrameErrors \/ AckTimeout

Spec == Init /\ [][Next]_vars

-----------------------------------------------------------------------------
GpsInitTypeOK ==
    /\ ublox \in DOMAIN Script
    /\ command \in Commands
    /\ initPc \in {"flush", "write", "await", "done"}
    /\ ToSet(toReceiver) \subseteq Commands
    /\ \A n \in DOMAIN toDriver : toDriver[n].for \in Commands
    /\ Len(results) = IF initPc = "done" THEN Save ELSE command - 1
    /\ applied \subseteq Commands
    /\ faults \in 0..MaxFaults

(* A command that was answered with Ok is in force, unless an earlier one with
   the same id, or one whose refusal was taken for another's, was left without
   its own answer.                                                          *)
OkMeansApplied ==
    \A c \in DOMAIN results :
        results[c] = "Ok" /\ c \notin applied =>
            \E b \in 1..c - 1 : Id(b) = Id(c) /\ b \in applied /\ results[b] # "Ok"

(* "GNSS module configuration saved!" means that the receiver had every
   earlier command behind it when it saved: none is carried out later and
   lost at the next power off.                                              *)
SavedIsFinal ==
    Len(results) = Save /\ results[Save] = "Ok" =>
        toReceiver = <<>> /\ Save \in applied
=============================================================================
