------------------------------ MODULE ObjectFile ------------------------------
(***************************************************************************)
(* The file in which the GpsService keeps its configurations: a file       *)
(* header, a content header with the number of records, and the records.   *)
(* The LVGL task adds (AddGps) and removes (GpsSettings) configurations,   *)
(* the main thread reads them when the service starts to receive, and      *)
(* nothing keeps the two apart.  Every write may fail for want of space,   *)
(* and the device may lose its power between any two of them.              *)
(*                                                                         *)
(* A configuration stands for its UART, by which AddGps tells two apart.   *)
(***************************************************************************)
EXTENDS Naturals, FiniteSets, Sequences, SequencesExt

CONSTANTS
    Configs,     \* The configurations that are added.
    MaxChanges,  \* Bounds the calls that add and remove.
    MaxFaults    \* Bounds the failures: of a write, or of the power.

(* What a record is that was written in part, and what is read from there on. *)
Part == "part"
Garbage == "garbage"

VARIABLES
    head,        \* What the file begins with: "nofile", "empty", "short" (the
                 \* file header alone), "hole" (records, but no content header)
                 \* or "whole" (both headers).
    held,        \* The number of records in the content header.
    recs,        \* The records in the file.
    wPc,         \* Where the LVGL task is.
    wOp,         \* What it does: "add" or "remove".
    todo,        \* ObjectFileWriter: the records it has not yet written.
    recordsWritten,
    wOk,         \* What the call will answer.
    rPc,         \* Where the main thread is in getGpsConfigurations().
    recordCount, \* ObjectFileReader::recordCount
    got,         \* The records it has read.
    opened,      \* What was listed when it opened the file.
    renewed,     \* A new file was begun since then.
    readOk,      \* Did the last read that succeeded, and that no new file
                 \* disturbed, give what was listed when it began?
    promised,    \* The list the answers promise since the file was begun.
    goal,        \* The list that the call under way is to leave.
    missed,      \* How many of the entries promised since the file was begun
                 \* were lost to a write whose failure no answer told.
    cut,         \* A failure hit a writer that had begun the file.
    failures, changes

file == <<head, held, recs>>
vars == <<head, held, recs, wPc, wOp, todo, recordsWritten, wOk, rPc, recordCount, got,
          opened, renewed, readOk, promised, goal, missed, cut, failures, changes>>

ObjectFileParameters ==
    /\ MaxChanges \in Nat /\ MaxFaults \in Nat
    /\ {Part, Garbage} \cap Configs = {}

-----------------------------------------------------------------------------
(* What `n` calls of readNext() give, up to the first that fails.  A record
   written in part shifts all that follow.                                  *)
Taken(n) ==
    LET whole == Cardinality({i \in DOMAIN recs : recs[i] # Part})
    IN  [i \in 1 .. (IF n < whole THEN n ELSE whole) |->
            IF \E j \in 1 .. i : recs[j] = Part THEN Garbage ELSE recs[i]]

(* What ObjectFileReader::open() accepts. *)
Readable == head = "whole"

(* getGpsConfigurations() in one go: the list, and whether it is complete. *)
Listed == IF Readable THEN Taken(held) ELSE <<>>
ListOk == Readable /\ Len(Listed) = held

Init ==
    /\ head = "nofile" /\ held = 0 /\ recs = <<>>
    /\ wPc = "idle" /\ wOp = "add" /\ todo = <<>> /\ recordsWritten = 0 /\ wOk = FALSE
    /\ rPc = "idle" /\ recordCount = 0 /\ got = <<>> /\ opened = <<>>
    /\ renewed = FALSE /\ readOk = TRUE
    /\ promised = <<>> /\ goal = <<>> /\ missed = 0 /\ cut = FALSE
    /\ failures = 0 /\ changes = 0

writer == <<wPc, wOp, todo, recordsWritten, wOk>>
reader == <<rPc, recordCount, got, opened, renewed, readOk>>
ghosts == <<promised, goal, missed, cut>>

Fault ==
    /\ failures < MaxFaults
    /\ failures' = failures + 1

-----------------------------------------------------------------------------
(* AddGps refuses a UART that is in the list, as far as the list can be read. *)
AddConfig(c) ==
    /\ wPc = "idle" /\ changes < MaxChanges
    /\ ~ Contains(Listed, c)
    /\ wPc' = "append" /\ wOp' = "add" /\ todo' = <<c>> /\ wOk' = FALSE
    /\ goal' = Append(promised, c)
    /\ changes' = changes + 1
    /\ UNCHANGED <<file, recordsWritten, reader, promised, missed, cut, failures>>

(* What std::erase_if() leaves of `list`: `kept[n]` is what it leaves of the
   first n.                                                                  *)
Without(list, c) ==
    LET kept[n \in 0 .. Len(list)] ==
            IF n = 0 THEN <<>>
            ELSE IF list[n] = c THEN kept[n - 1] ELSE Append(kept[n - 1], list[n])
    IN  kept[Len(list)]

(* removeGpsConfiguration(): what is left of the list is written to a new file, even
   if the configuration is not in it.                                             *)
RemoveConfig(c) ==
    /\ wPc = "idle" /\ changes < MaxChanges
    /\ ListOk
    /\ wPc' = "create" /\ wOp' = "remove" /\ wOk' = Contains(Listed, c)
    /\ todo' = Without(Listed, c) /\ goal' = todo'
    /\ recordsWritten' = 0
    /\ changes' = changes + 1
    /\ UNCHANGED <<file, reader, promised, missed, cut, failures>>

(* fopen() fails, and the call with it. *)
OpenFails ==
    /\ wPc \in {"append", "create"}
    /\ Fault
    /\ wPc' = "idle"
    /\ UNCHANGED <<file, wOp, todo, recordsWritten, wOk, reader, ghosts, changes>>

(* A mutation: the end of the file is not sought, and the record comes to lie
   on the first one.                                                         *)
OpenAppendAtStart ==
    /\ wPc = "append"
    /\ IF head = "whole"
       THEN /\ wPc' = "write" /\ recordsWritten' = held
            /\ recs' = IF recs = <<>> THEN recs ELSE Tail(recs)
       ELSE /\ wPc' = IF head \in {"nofile", "empty"} THEN "create" ELSE "idle"
            /\ recordsWritten' = 0 /\ recs' = recs
    /\ UNCHANGED <<head, held, wOp, todo, wOk, reader, ghosts, failures, changes>>

(* ObjectFileWriter::open() to append: a file with both headers is continued
   at its end, one that is missing or empty is begun, any other is refused.  *)
OpenAppend ==
    /\ wPc = "append"
    /\ wPc' = CASE head = "whole" -> "write"
                [] head \in {"nofile", "empty"} -> "create"
                [] OTHER -> "idle"
    /\ recordsWritten' = IF head = "whole" THEN held ELSE 0
    /\ UNCHANGED <<file, wOp, todo, wOk, reader, ghosts, failures, changes>>

(* ObjectFileWriter::open() for a new file: fopen() leaves nothing of the old one. *)
Create ==
    /\ wPc = "create"
    /\ head' = "empty" /\ held' = 0 /\ recs' = <<>>
    /\ wPc' = "header"
    /\ promised' = <<>> /\ goal' = todo /\ missed' = 0
    /\ renewed' = TRUE
    /\ UNCHANGED <<wOp, todo, recordsWritten, wOk, rPc, recordCount, got, opened, readOk,
                   cut, failures, changes>>

(* A mutation: room is made for the content header by writing an empty one. *)
WriteHeaderZero ==
    /\ wPc = "header"
    /\ head' = "whole" /\ wPc' = "write"
    /\ UNCHANGED <<held, recs, wOp, todo, recordsWritten, wOk, reader, ghosts, failures, changes>>

(* The file header is written, and the room for the content header skipped. *)
WriteHeader ==
    /\ wPc = "header"
    /\ head' = "short" /\ wPc' = "write"
    /\ UNCHANGED <<held, recs, wOp, todo, recordsWritten, wOk, reader, ghosts, failures, changes>>

(* It cannot be written: open() fails, and the call with it. *)
HeaderFails ==
    /\ wPc = "header"
    /\ Fault
    /\ wPc' = "idle" /\ wOk' = FALSE
    /\ cut' = TRUE
    /\ UNCHANGED <<file, wOp, todo, recordsWritten, reader, promised, goal, missed, changes>>

(* ObjectFileWriter::write() *)
Write ==
    /\ wPc = "write" /\ todo # <<>>
    /\ head' = IF head = "short" THEN "hole" ELSE head
    /\ recs' = Append(recs, Head(todo))
    /\ todo' = Tail(todo)
    /\ recordsWritten' = recordsWritten + 1
    /\ wOk' = (wOp = "add" \/ wOk)
    /\ UNCHANGED <<held, wPc, wOp, reader, ghosts, failures, changes>>

(* write() fails, with a part of the record in the file or without.  Adding
   answers that; removing goes on with the next record.                      *)
WriteFails ==
    /\ wPc = "write" /\ todo # <<>>
    /\ Fault
    /\ \/ UNCHANGED file
       \/ /\ head' = IF head = "short" THEN "hole" ELSE head
          /\ recs' = Append(recs, Part)
          /\ UNCHANGED held
    /\ todo' = Tail(todo)
    /\ missed' = IF wOp = "remove" THEN missed + 1 ELSE missed
    /\ UNCHANGED <<wPc, wOp, recordsWritten, wOk, reader, promised, goal, cut, changes>>

(* What the answer promises: that the configuration was added; and, whether one was
   found or not, that what a removal has read is there but for it.                 *)
Promise == promised' = IF wOk \/ wOp = "remove" THEN goal ELSE promised

(* A mutation: nothing was written, so no header seems needed. *)
CloseUnlessEmpty ==
    /\ wPc = "write" /\ todo = <<>>
    /\ head' = IF recordsWritten = 0 THEN head ELSE "whole"
    /\ held' = recordsWritten
    /\ wPc' = "idle"
    /\ Promise
    /\ cut' = FALSE
    /\ UNCHANGED <<recs, wOp, todo, recordsWritten, wOk, reader, goal, missed, failures, changes>>

(* ObjectFileWriter::close(): the content header. *)
Close ==
    /\ wPc = "write" /\ todo = <<>>
    /\ head' = "whole" /\ held' = recordsWritten
    /\ wPc' = "idle"
    /\ Promise
    /\ cut' = FALSE
    /\ UNCHANGED <<recs, wOp, todo, recordsWritten, wOk, reader, goal, missed, failures, changes>>

(* The content header cannot be written; only the log says so. *)
CloseFails ==
    /\ wPc = "write" /\ todo = <<>>
    /\ Fault
    /\ wPc' = "idle"
    /\ cut' = (cut \/ head \in {"short", "hole"})
    /\ missed' = IF wOk /\ wOp = "add" THEN missed + 1 ELSE missed
    /\ Promise
    /\ UNCHANGED <<file, wOp, todo, recordsWritten, wOk, reader, goal, changes>>

-----------------------------------------------------------------------------
(* getGpsConfigurations() on the main thread: ObjectFileReader::open() ... *)
ReadOpen ==
    /\ rPc = "idle" /\ Readable
    /\ rPc' = "read" /\ recordCount' = held
    /\ got' = <<>> /\ opened' = Listed /\ renewed' = FALSE
    /\ UNCHANGED <<file, writer, readOk, ghosts, failures, changes>>

(* ... readNext(), which fails where the file has no record more ... *)
ReadRecord ==
    /\ rPc = "read" /\ Len(got) < recordCount
    /\ LET more == Taken(Len(got) + 1)
       IN  IF Len(more) > Len(got)
           THEN got' = Append(got, Last(more)) /\ rPc' = rPc
           ELSE rPc' = "idle" /\ got' = got
    /\ UNCHANGED <<file, writer, recordCount, opened, renewed, readOk, ghosts, failures, changes>>

(* ... and the end of the list. *)
ReadEnds ==
    /\ rPc = "read" /\ Len(got) = recordCount
    /\ rPc' = "idle"
    /\ readOk' = (renewed \/ got = opened)
    /\ UNCHANGED <<file, writer, recordCount, got, opened, renewed, ghosts, failures, changes>>

(* The power is lost: the file stays as it is, and nothing else does. *)
PowerLoss ==
    /\ wPc \notin {"idle", "append"}
    /\ Fault
    /\ cut' = (cut \/ head \in {"empty", "short", "hole"})
    /\ wPc' = "idle" /\ wOp' = "add" /\ todo' = <<>> /\ recordsWritten' = 0 /\ wOk' = FALSE
    /\ rPc' = "idle" /\ recordCount' = 0 /\ got' = <<>> /\ opened' = <<>>
    /\ renewed' = FALSE /\ readOk' = TRUE
    /\ UNCHANGED <<file, promised, goal, missed, changes>>

WriterStep ==
    \/ \E c \in Configs : AddConfig(c) \/ RemoveConfig(c)
    \/ OpenAppend \/ OpenFails \/ Create \/ WriteHeader \/ HeaderFails \/ Write \/ WriteFails
    \/ Close \/ CloseFails

Next == WriterStep \/ ReadOpen \/ ReadRecord \/ ReadEnds \/ PowerLoss

Spec == Init /\ [][Next]_vars

-----------------------------------------------------------------------------
Lists == Seq(Configs \cup {Garbage})

ObjectFileTypeOK ==
    /\ head \in {"nofile", "empty", "short", "hole", "whole"}
    /\ held \in 0 .. MaxChanges
    /\ recs \in Seq(Configs \cup {Part, Garbage})
    /\ wPc \in {"idle", "append", "create", "header", "write"}
    /\ wOp \in {"add", "remove"}
    /\ todo \in Lists /\ promised \in Lists /\ goal \in Lists
    /\ got \in Lists /\ opened \in Lists
    /\ recordsWritten \in 0 .. MaxChanges /\ recordCount \in 0 .. MaxChanges
    /\ rPc \in {"idle", "read"}
    /\ wOk \in BOOLEAN /\ renewed \in BOOLEAN /\ readOk \in BOOLEAN /\ cut \in BOOLEAN
    /\ missed \in 0 .. MaxFaults
    /\ failures \in 0 .. MaxFaults /\ changes \in 0 .. MaxChanges

(* Nothing was left behind the records that the content header counts. *)
Clean == Len(recs) = held

(* The file lists as many configurations as the answers since it was begun promise,
   but for those lost to a failure that no answer told: an addition answered with true
   although the content header was not written, or a record that a removal could not
   write.  It lists these very ones, in their order, unless a failure left something
   behind them; and without failures it always does.                               *)
ListIsPromised ==
    /\ Readable => Len(Listed) + missed = Len(promised)
    /\ Readable /\ wPc = "idle" /\ Clean /\ missed = 0 => Listed = promised
    /\ failures = 0 =>
          missed = 0 /\ (wPc = "idle" => Clean /\ (Readable \/ promised = <<>>))

(* Whatever fails, adding a configuration leaves what was listed before where it
   was: a failure can cost the new one, and those after it, but none of the old. *)
AddKeepsListed == wOp = "add" /\ wPc # "idle" => IsPrefix(Listed, Listed')
AddsKeepListed == [][AddKeepsListed]_vars

(* A file that cannot be read, and to which nothing can be added any more
   unless it is empty, is left only by a failure while it was written anew.  *)
UnreadableWasCut == wPc = "idle" /\ head \in {"empty", "short", "hole"} => cut

(* Although nothing excludes the writer, and whatever fails, a read that succeeds gives
   the list as it was when it began, unless the file was begun anew meanwhile: a read
   across a removal may miss configurations and answer true.                       *)
ReadsAreWhole == readOk
=============================================================================
