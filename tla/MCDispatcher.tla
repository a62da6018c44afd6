---------------------------- MODULE MCDispatcher ----------------------------
(* A small instance of Dispatcher: two calling threads and the consumer,    *)
(* whose functions dispatch too.                                           *)
EXTENDS Dispatcher

CONSTANTS c1, c2, j1, j2, j3

MCCallers == {c1, c2}
MCJobs == {j1, j2, j3}
MCPatient == {j1, j2}
=============================================================================
