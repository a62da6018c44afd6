---------------------------- MODULE FifoExecutor ----------------------------
(***************************************************************************)
(* What a Dispatcher promises to the threads that use it: every function   *)
(* it accepts is started exactly once, in the order of acceptance, one at  *)
(* a time.  Abstract specification of TactilityCore's Dispatcher.          *)
(***************************************************************************)
EXTENDS Naturals, Sequences

CONSTANTS Jobs,   \* the functions that may be dispatched
          None    \* "no function is running"

VARIABLES accepted,   \* the functions accepted so far, in order
          started,    \* the functions started so far, in order
          running     \* the function being run, or None

vars == <<accepted, started, running>>

Init == /\ accepted = <<>>
        /\ started = <<>>
        /\ running = None

Accept(j) == /\ accepted' = Append(accepted, j)
             /\ UNCHANGED <<started, running>>

Start == /\ running = None
         /\ Len(started) < Len(accepted)
         /\ running' = accepted[Len(started) + 1]
         /\ started' = Append(started, running')
         /\ UNCHANGED accepted

Finish == /\ running # None
          /\ running' = None
          /\ UNCHANGED <<accepted, started>>

Next == (\E j \in Jobs : Accept(j)) \/ Start \/ Finish

Spec == Init /\ [][Next]_vars

(* The executor never leaves an accepted function waiting for ever. *)
Fairness == WF_vars(Start) /\ WF_vars(Finish)

FairSpec == Spec /\ Fairness
=============================================================================
