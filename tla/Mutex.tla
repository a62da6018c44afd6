-------------------------------- MODULE Mutex --------------------------------
(***************************************************************************)
(* TactilityCore Mutex.cpp, and the ScopedLock of Lock.h around it: the    *)
(* destructor calls unlock() whether or not lock() succeeded, and once more*)
(* when the mutex was unlocked by hand.                                    *)
(*                                                                         *)
(* What the calls do is FreeRTOS's doing: a recursive mutex is only given  *)
(* by its holder, a normal one by whoever calls (with configASSERT on, the *)
(* firmware stops there).                                                  *)
(***************************************************************************)
EXTENDS Naturals

CONSTANTS Users,      \* the threads
          NoUser,     \* "no thread"
          MaxDepth    \* bound on nested sections of a thread

MutexParameters == NoUser \notin Users /\ MaxDepth \in Nat \ {0}

(* How code uses a mutex: its type, whether lock() has a time limit, whether a
   section is left by hand before the destructor, whether sections nest.   *)
Uses == [type : {"Normal", "Recursive"}, timed : BOOLEAN, early : BOOLEAN, nested : BOOLEAN]

VARIABLES
    use,      \* the use that the code makes of the mutex
    holder,   \* the thread that holds it, or NoUser
    count,    \* how often the holder has to give it
    inside,   \* inside[t]: sections that thread t is in
    at        \* at[t]: where t is: "out", "lock", "in", "failed" or "early"

vars == <<use, holder, count, inside, at>>

Init == /\ use \in Uses
        /\ holder = NoUser
        /\ count = 0
        /\ inside = [t \in Users |-> 0]
        /\ at = [t \in Users |-> "out"]

-----------------------------------------------------------------------------
Free(t) == holder = NoUser \/ (use.type = "Recursive" /\ holder = t)

(* Mutation of Give: unlock() does not look at the holder. *)
GiveAnyway(t) == /\ count' = IF count > 1 THEN count - 1 ELSE 0
                 /\ holder' = IF count > 1 THEN holder ELSE NoUser

(* unlock() *)
Give(t) ==
    IF holder = t \/ use.type = "Normal"
    THEN /\ count' = IF count > 1 THEN count - 1 ELSE 0
         /\ holder' = IF count > 1 THEN holder ELSE NoUser
    ELSE UNCHANGED <<holder, count>>

(* asScopedLock(): a normal mutex is not taken twice by a thread. *)
Construct(t) == /\ \/ at[t] = "out"
                   \/ at[t] = "in" /\ use.nested /\ use.type = "Recursive" /\ inside[t] < MaxDepth
                /\ at' = [at EXCEPT ![t] = "lock"]
                /\ UNCHANGED <<use, holder, count, inside>>

(* lock() *)
TakeMutex(t) == /\ at[t] = "lock"
                /\ Free(t)
                /\ holder' = t
                /\ count' = count + 1
                /\ inside' = [inside EXCEPT ![t] = @ + 1]
                /\ at' = [at EXCEPT ![t] = "in"]
                /\ UNCHANGED use

LockTimeout(t) == /\ at[t] = "lock"
                  /\ use.timed
                  /\ ~Free(t)
                  /\ at' = [at EXCEPT ![t] = "failed"]
                  /\ UNCHANGED <<use, holder, count, inside>>

(* lock.unlock() before the end of the scope *)
UnlockEarly(t) == /\ at[t] = "in"
                  /\ use.early
                  /\ Give(t)
                  /\ inside' = [inside EXCEPT ![t] = @ - 1]
                  /\ at' = [at EXCEPT ![t] = "early"]
                  /\ UNCHANGED use

Outside(t) == IF inside'[t] = 0 THEN "out" ELSE "in"

(* ~ScopedLock() at the end of a section ... *)
Leave(t) == /\ at[t] = "in"
            /\ Give(t)
            /\ inside' = [inside EXCEPT ![t] = @ - 1]
            /\ at' = [at EXCEPT ![t] = Outside(t)]
            /\ UNCHANGED use

(* ... after a lock() that failed, or one that was unlocked by hand. *)
LeaveUnlocked(t) == /\ at[t] \in {"failed", "early"}
                    /\ Give(t)
                    /\ inside' = inside
                    /\ at' = [at EXCEPT ![t] = Outside(t)]
                    /\ UNCHANGED use

Next == \E t \in Users : \/ Construct(t) \/ TakeMutex(t) \/ LockTimeout(t)
                         \/ UnlockEarly(t) \/ Leave(t) \/ LeaveUnlocked(t)

Spec == Init /\ [][Next]_vars

-----------------------------------------------------------------------------
MutexTypeOK == /\ use \in Uses
               /\ holder \in Users \cup {NoUser}
               /\ count \in Nat
               /\ inside \in [Users -> Nat]
               /\ at \in [Users -> {"out", "lock", "in", "failed", "early"}]

(* At most one thread is in a section of the mutex. *)
MutualExclusion == \A t, u \in Users : inside[t] > 0 /\ inside[u] > 0 => t = u

(* The uses that keep every mutex a mutex: a normal one is locked without a
   time limit and left by the destructor alone; a recursive one may time out,
   and may be unlocked by hand where sections do not nest.                 *)
Careful == \/ use.type = "Recursive" /\ ~(use.early /\ use.nested)
           \/ use.type = "Normal" /\ ~use.timed /\ ~use.early

(* With those uses, at most one thread is in a section. *)
CarefulUseExcludes == Careful => MutualExclusion
=============================================================================
