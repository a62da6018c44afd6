----------------------------- MODULE AckFrames -----------------------------
(***************************************************************************)
(* How the GPS driver finds an answer in the bytes that a receiver sends:  *)
(*   "ubx"  getAck() of hal/gps/Ublox.cpp, for ACK-ACK and ACK-NAK         *)
(*   "mon"  the other getAck() of Ublox.cpp, which returns a payload       *)
(*   "cas"  getACKCas() of hal/gps/GpsInit.cpp                             *)
(* All of them take byte by byte.  They start again after a wrong byte, in *)
(* three different ways.  Bytes are strings, of which "cl" and "id" are    *)
(* the class and the id that are asked for.                                *)
(***************************************************************************)
EXTENDS Naturals, Sequences

CONSTANTS
    Streams,   \* for each reader the bytes that a receiver may send, any sequences
    ErrorText  \* `frame_errors`, 26 bytes in the code

Readers == {"ubx", "mon", "cas"}

AckFramesParameters ==
    /\ \A r \in Readers : \A s \in Streams[r] : s \in Seq(STRING)
    /\ ErrorText \in Seq(STRING) /\ ErrorText # <<>>

VARIABLES
    reader,    \* which of the three reads
    sent,      \* what the receiver sends, answers and other messages
    taken,     \* the number of bytes read
    matched,   \* `ack`, `ubxFrameCounter` or `bufferPos`
    errors,    \* `sCounter`
    casBuffer, \* `buffer` of getACKCas()
    found      \* the result: "reading", "Ok", "NotAck", "FrameErrors" or "None"

vars == <<reader, sent, taken, matched, errors, casBuffer, found>>

UbxAck == <<"B5", "62", "05", "01", "02", "00", "cl", "id", "ck", "ck">>
UbxNak == <<"B5", "62", "05", "00">>
MonHead == <<"B5", "62", "cl", "id">>
CasSize == 14

Init == /\ reader \in Readers
        /\ sent \in Streams[reader]
        /\ taken = 0 /\ matched = 0 /\ errors = 0
        /\ casBuffer = [n \in 0..CasSize - 1 |-> "00"]
        /\ found = "reading"

Byte == sent[taken + 1]
Reading(r) == /\ reader = r /\ found = "reading"
              /\ taken < Len(sent)
              /\ UNCHANGED <<reader, sent>>

-----------------------------------------------------------------------------
(* One more byte of the text, or the first is looked for after a wrong one. *)
ErrorsNow == IF Byte = ErrorText[errors + 1] THEN errors + 1 ELSE 0

(* Mutation of MatchUbx: which message is acknowledged is not compared. *)
MatchUbxAny ==
    IF Byte = UbxAck[matched + 1] \/ matched \in {6, 7}
    THEN /\ matched' = matched + 1
         /\ found' \in IF matched = 9 THEN {"Ok", "None"} ELSE {"reading"}
    ELSE /\ matched' = 0
         /\ found' = IF matched = 3 /\ Byte = "00" THEN "NotAck" ELSE "reading"

(* A wrong byte starts again after it: it is not looked at as a first one.
   The third byte decides what 00 in the fourth place means, whatever the
   message is that is not acknowledged.  That all ten have come is seen
   after a look at the clock.                                              *)
MatchUbx ==
    IF Byte = UbxAck[matched + 1]
    THEN /\ matched' = matched + 1
         /\ found' \in IF matched = 9 THEN {"Ok", "None"} ELSE {"reading"}
    ELSE /\ matched' = 0
         /\ found' = IF matched = 3 /\ Byte = "00" THEN "NotAck" ELSE "reading"

(* The text of frame errors is looked for first and ends the reading. *)
ReadUbx ==
    /\ Reading("ubx")
    /\ taken' = taken + 1
    /\ errors' = ErrorsNow
    /\ IF ErrorsNow = Len(ErrorText)
       THEN found' = "FrameErrors" /\ UNCHANGED matched
       ELSE MatchUbx
    /\ UNCHANGED casBuffer

(* After the length the payload is read at once.  One that is too long for
   the buffer starts again; so does one that is not complete in time, of
   which all that came is lost.                                            *)
ReadMon ==
    /\ Reading("mon")
    /\ \/ /\ matched < 4
          /\ matched' = IF Byte = MonHead[matched + 1] THEN matched + 1 ELSE 0
          /\ found' = "reading" /\ taken' = taken + 1
       \/ /\ matched = 4
          /\ matched' = 5
          /\ found' = "reading" /\ taken' = taken + 1
       \/ /\ matched = 5
          /\ matched' = 0
          /\ \/ found' = "reading" /\ taken' = taken + 1
             \/ Byte = "00" /\ found' \in {"Ok", "reading"} /\ taken' \in taken + 1..Len(sent)
    /\ UNCHANGED <<errors, casBuffer>>

(* Mutation of CasStore: a wrong header is dropped as a whole. *)
CasStoreDrop(b) ==
    LET buffer == [casBuffer EXCEPT ![matched] = b]
        wrong == matched = 1 /\ ~(buffer[0] = "BA" /\ buffer[1] = "CE")
    IN  IF wrong THEN [buffer |-> buffer, pos |-> 0]
                 ELSE [buffer |-> buffer, pos |-> matched + 1]

(* Two bytes that are no header: the second may be the first of one. *)
CasStore(b) ==
    LET buffer == [casBuffer EXCEPT ![matched] = b]
        wrong == matched = 1 /\ ~(buffer[0] = "BA" /\ buffer[1] = "CE")
    IN  IF wrong THEN [buffer |-> [buffer EXCEPT ![0] = b, ![1] = "00"], pos |-> 1]
                 ELSE [buffer |-> buffer, pos |-> matched + 1]

(* The frame is judged one byte before its end, by its header and the four
   bytes from the fifth on: not by its length, reserved bytes or checksum. *)
ReadCas ==
    /\ Reading("cas")
    /\ taken' = taken + 1
    /\ LET s == CasStore(Byte)
           full == s.pos = CasSize - 1
           mine == s.buffer[4] = "05" /\ s.buffer[6] = "cl" /\ s.buffer[7] = "id"
       IN  /\ matched' = IF full THEN 0 ELSE s.pos
           /\ casBuffer' = IF full THEN [n \in 0..CasSize - 1 |-> "00"] ELSE s.buffer
           /\ found' = CASE full /\ mine /\ s.buffer[5] = "01" -> "Ok"
                         [] full /\ mine /\ s.buffer[5] = "00" -> "NotAck"
                         [] OTHER -> "reading"
    /\ UNCHANGED errors

Timeout == /\ found = "reading"
           /\ found' = "None"
           /\ UNCHANGED <<reader, sent, taken, matched, errors, casBuffer>>

Next == ReadUbx \/ ReadMon \/ ReadCas \/ Timeout

Spec == Init /\ [][Next]_vars

-----------------------------------------------------------------------------
AckFramesTypeOK ==
    /\ reader \in Readers
    /\ sent \in Streams[reader]
    /\ taken \in 0..Len(sent)
    /\ matched \in 0..CasSize
    /\ errors \in 0..Len(ErrorText)
    /\ found \in {"reading", "Ok", "NotAck", "FrameErrors", "None"}

(* `bytes` was read, in one piece, after the first n bytes. *)
At(n, bytes) == /\ n + Len(bytes) <= taken
                /\ \A i \in 1..Len(bytes) : sent[n + i] = bytes[i]
WasRead(bytes) == \E n \in 0..taken : At(n, bytes)

MonHeadWasRead == \E n \in 0..taken : At(n, MonHead) /\ n + 6 <= taken /\ sent[n + 6] = "00"

(* What getACKCas() takes for an answer, whatever its other bytes are. *)
CasAt(n, kind) == /\ At(n, <<"BA", "CE">>) /\ n + CasSize - 1 <= taken
                  /\ sent[n + 5] = "05" /\ sent[n + 6] = kind
                  /\ sent[n + 7] = "cl" /\ sent[n + 8] = "id"

(* No answer is made up.  For "ubx" Ok means that each byte of the answer was
   sent, in one piece, NotAck only that some message was refused, and
   FrameErrors that the text was sent; for "mon" that the header and a length
   came; for "cas" that a frame came whose header and kind are right, which
   need not be a whole one.                                                 *)
NoAnswerMadeUp ==
    /\ reader = "ubx" => /\ found = "Ok" => WasRead(UbxAck)
                         /\ found = "NotAck" => WasRead(UbxNak)
                         /\ found = "FrameErrors" => WasRead(ErrorText)
    /\ reader = "mon" => /\ found = "Ok" => MonHeadWasRead
                         /\ found \notin {"NotAck", "FrameErrors"}
    /\ reader = "cas" => /\ found = "Ok" => \E n \in 0..taken : CasAt(n, "01")
                         /\ found = "NotAck" => \E n \in 0..taken : CasAt(n, "00")
                         /\ found # "FrameErrors"

(* Who still reads has missed no answer, but one of "ubx" that came directly
   behind the beginning of another, and one of "cas" of which the beginning
   came before the 13 bytes behind some header were over.                   *)
NoAnswerMissed ==
    found = "reading" =>
      /\ reader = "ubx" => \A n \in 0..taken : At(n, UbxAck) =>
             \E k \in 1..9 : k <= n /\ At(n - k, SubSeq(UbxAck, 1, k))
      /\ reader = "cas" => \A n \in 0..taken : CasAt(n, "01") =>
             \E k \in 2..CasSize - 2 : k <= n /\ At(n - k, <<"BA", "CE">>)
=============================================================================
