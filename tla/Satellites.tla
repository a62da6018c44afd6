------------------------------ MODULE Satellites ------------------------------
(***************************************************************************)
(* SatelliteStorage: a fixed number of records of the satellites that were *)
(* heard, the time of which is a tick counter that wraps.  Each operation  *)
(* holds the mutex of the storage, and is one step here.                   *)
(***************************************************************************)
EXTENDS Integers, FiniteSets

CONSTANTS
    Numbers,       \* The satellites.
    Slots,         \* recordCount (32)
    Wrap,          \* The ticks count modulo Wrap (2^32).
    RecycleTicks,  \* recycleTimeSeconds (120) in ticks
    RecentTicks,   \* recentTimeSeconds (60) in ticks
    NoNumber,      \* The number in a record that was never used.
    MaxTime        \* Bounds the run.

VARIABLES
    records,       \* Of each slot: nr, lastUpdated and inUse.
    time,          \* The ticks since the start, not wrapped.
    heardAt,       \* When each satellite was last heard; -1: never.
    crowded,       \* Once more satellites than slots were heard within RecycleTicks,
                   \* or a record was given up while another looked new because it
                   \* was as old as a turn of the ticks.
    aborted        \* The assert of findRecordToRecycle() has failed.

vars == <<records, time, heardAt, crowded, aborted>>

(* The times are those of the code, in this order: a minute, two minutes, and the
   49 days after which a tick counter of 32 bits comes round.                    *)
SatelliteParameters ==
    /\ Slots \in Nat /\ MaxTime \in Nat
    /\ RecentTicks \in Nat /\ RecycleTicks \in Nat /\ Wrap \in Nat \ {0}
    /\ RecentTicks <= RecycleTicks /\ RecycleTicks <= Wrap
    /\ IsFiniteSet(Numbers) /\ NoNumber \notin Numbers

Init ==
    /\ records = [i \in 1 .. Slots |-> [nr |-> NoNumber, lastUpdated |-> 0, inUse |-> FALSE]]
    /\ time = 0
    /\ heardAt = [n \in Numbers |-> -1]
    /\ crowded = FALSE /\ aborted = FALSE

-----------------------------------------------------------------------------
(* kernel::getTicks() *)
Now == time % Wrap

(* A mutation: the end of the period is computed, and wraps by itself. *)
TimeElapsedEnd(past, ticks) == Now >= past + ticks

(* hasTimeElapsed(), on unsigned numbers. *)
TimeElapsed(past, ticks) == (Now - past) % Wrap >= ticks

First(S) == CHOOSE i \in S : \A j \in S : i <= j

(* A mutation: a record that is free is taken before one that has the number. *)
FindUnknown(n) == {}

(* findRecord() *)
FindRecord(n) == {i \in 1 .. Slots : records[i].inUse /\ records[i].nr = n}

(* findUnusedRecord() *)
Unused == {i \in 1 .. Slots : ~ records[i].inUse}

(* A mutation: those of the tick that is now are not looked at. *)
BelowNow == {i \in 1 .. Slots : records[i].inUse /\ records[i].lastUpdated < Now}

(* findRecordToRecycle(): the first that is old enough; or else the first with
   the lowest tick below the highest there is, which may not exist.           *)
Expired == {i \in 1 .. Slots : TimeElapsed(records[i].lastUpdated, RecycleTicks)}
Below == {i \in 1 .. Slots : records[i].inUse /\ records[i].lastUpdated < Wrap - 1}
Oldest ==
    {i \in Below : \A j \in Below : records[i].lastUpdated <= records[j].lastUpdated}

(* A mutation: the first record of all is recycled. *)
RecycledFirst == {1}

Recycled == IF Expired # {} THEN Expired ELSE Oldest

(* findWithFallback() *)
WithFallback(n) ==
    CASE FindRecord(n) # {} -> FindRecord(n)
      [] FindRecord(n) = {} /\ Unused # {} -> Unused
      [] OTHER -> Recycled

Within(ticks, heard) == {n \in Numbers : heard[n] # -1 /\ time - heard[n] < ticks}

InUse == {i \in 1 .. Slots : records[i].inUse}
Age(i) == time - heardAt[records[i].nr]

(* A record is given up while there is one as old as a turn. *)
GivesUpUnsure(n) ==
    /\ FindRecord(n) = {} /\ Unused = {}
    /\ \E i \in InUse : Age(i) >= Wrap

(* notify() *)
Notify(n) ==
    /\ ~ aborted
    /\ WithFallback(n) # {}
    /\ records' = [records EXCEPT ![First(WithFallback(n))] =
                      [nr |-> n, lastUpdated |-> Now, inUse |-> TRUE]]
    /\ heardAt' = [heardAt EXCEPT ![n] = time]
    /\ crowded' = (\/ crowded \/ GivesUpUnsure(n)
                   \/ Cardinality(Within(RecycleTicks, heardAt')) > Slots)
    /\ UNCHANGED <<time, aborted>>

(* findRecordToRecycle() asserts that it found one. *)
AssertFails(n) ==
    /\ ~ aborted
    /\ WithFallback(n) = {}
    /\ aborted' = TRUE
    /\ UNCHANGED <<records, time, heardAt, crowded>>

Tick ==
    /\ ~ aborted
    /\ time < MaxTime
    /\ time' = time + 1
    /\ UNCHANGED <<records, heardAt, crowded, aborted>>

Next == Tick \/ \E n \in Numbers : Notify(n) \/ AssertFails(n)

Spec == Init /\ [][Next]_vars

-----------------------------------------------------------------------------
(* getRecords() *)
Listed == {i \in 1 .. Slots :
              records[i].inUse /\ ~ TimeElapsed(records[i].lastUpdated, RecentTicks)}

SatellitesTypeOK ==
    /\ records \in [1 .. Slots -> [nr : Numbers \cup {NoNumber},
                                   lastUpdated : 0 .. Wrap - 1, inUse : BOOLEAN]]
    /\ time \in 0 .. MaxTime
    /\ heardAt \in [Numbers -> -1 .. MaxTime]
    /\ crowded \in BOOLEAN /\ aborted \in BOOLEAN

(* No satellite has two records: the list would show it twice. *)
OneRecordEach == \A i, j \in InUse : records[i].nr = records[j].nr => i = j

(* Across the wrap of the ticks the list shows those heard in the last minute,
   and no others; only a record that is as old as a whole turn of the counter
   (49 days) comes back as if it were new.                                   *)
ListsTheRecent == \A i \in InUse : Age(i) < Wrap => (i \in Listed <=> Age(i) < RecentTicks)

(* As long as no more satellites are heard within the time after which records
   are recycled than there are records, none heard in the last minute is
   missing, unless one was given up beside a record as old as a turn of the
   counter.                                                                   *)
RecentAreKept ==
    ~ crowded => \A n \in Within(RecentTicks, heardAt) : \E i \in Listed : records[i].nr = n

(* The assert fails only if every record was heard of in the last tick of a turn of
   the counter, which no record is below.                                         *)
AssertsAtLastTickOnly ==
    aborted => \A i \in 1 .. Slots : records[i].inUse /\ records[i].lastUpdated = Wrap - 1

(* It was heard of since the counter last began anew. *)
ThisTurn(i) == heardAt[records[i].nr] \div Wrap = time \div Wrap

(* A record that is given up for another satellite is old enough to be recycled, if one
   is.  If none is, it is the oldest -- of those heard of since the counter last began
   anew, if there are any: then the older ones from before stay.  (A record as old as
   a turn of the counter looks like a new one; nothing is said beside one.)         *)
OldestIsRecycled ==
    \A i \in InUse :
        records'[i].nr # records[i].nr /\ (\A j \in InUse : Age(j) < Wrap)
        => IF \E j \in InUse : Age(j) >= RecycleTicks
           THEN Age(i) >= RecycleTicks
           ELSE \A j \in InUse : /\ ThisTurn(j) => ThisTurn(i)
                                 /\ ThisTurn(i) = ThisTurn(j) => Age(i) >= Age(j)
RecyclesTheOldest == [][OldestIsRecycled]_vars
=============================================================================
