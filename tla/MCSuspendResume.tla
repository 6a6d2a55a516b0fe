-------------------------- MODULE MCSuspendResume --------------------------
(* Small instances of SuspendResume for TLC.                               *)
EXTENDS SuspendResume
CONSTANTS am, m1
=============================================================================
