------------------------------ MODULE MCLoader ------------------------------
(* The boot app, the launcher, one app started from it and one id that is not
   registered; one user beside the boot thread and the app hooks.           *)
EXTENDS Loader

CONSTANTS files, ghost, lvglTask

MCApps == {Boot, Launcher, files, ghost}
MCRegistered == {Boot, Launcher, files}
MCUsers == {lvglTask}
=============================================================================
