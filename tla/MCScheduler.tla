---------------------------- MODULE MCScheduler ----------------------------
(* Small instances of Scheduler for TLC.                                   *)
EXTENDS Scheduler, TLC
CONSTANTS k1, k2, t1, t2, t3, a, b

\* t3 is alone in its task when there are two tasks.
MCTaskOf == [t \in Threads |-> IF t = t3 /\ k2 \in Tasks THEN k2 ELSE k1]
MCHomeOf == [o \in Objects |-> k1]
\* Somebody may join t1: its Thread object is a.
MCThreadObj == [t \in Threads |-> IF t = t1 THEN a ELSE Null]
\* t2 and t3 are alike where both start later and belong to one task.
Twins == Permutations({t2, t3})
=============================================================================
