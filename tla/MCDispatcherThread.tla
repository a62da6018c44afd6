------------------------- MODULE MCDispatcherThread -------------------------
(* A thread started at most twice, one calling thread, two functions. *)
EXTENDS DispatcherThread

CONSTANTS c1, j1, j2

MCCallers == {c1}
MCJobs == {j1, j2}
MCPatient == {j1}
=============================================================================
