---------------------------- MODULE MCStartupLock ----------------------------
(* StartupLock for TLC: the processes are model values of the .cfg files. *)
EXTENDS StartupLock
=============================================================================
