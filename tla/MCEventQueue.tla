---------------------------- MODULE MCEventQueue ----------------------------
(* Small instances of EventQueue for TLC.                                  *)
EXTENDS EventQueue
CONSTANTS A, B, n1, n2, n3, j1, c1, c2

\* Two event types, so that events of one type and of two types meet.
MCTypeOf == [e \in NativeEvents \cup JavaEvents |->
               IF e \in {n2} THEN "command" ELSE "key"]
\* Everybody shuts down the AMS isolate's queue.
MCCallerIso == [c \in Callers |-> A]
=============================================================================
