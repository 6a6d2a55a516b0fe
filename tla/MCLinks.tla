------------------------------ MODULE MCLinks ------------------------------
(* Small instances of Links for TLC: two isolates, A with two threads.     *)
EXTENDS Links
CONSTANTS A, B, a1, a2, b1, la1, la2, lb1, lb2, r1, r2, m1, m2

\* Which isolate each thread and each Link object of the pool belongs to.
MCThreadIso == [t \in Threads |-> IF t \in {a1, a2} THEN A ELSE B]
MCLinkIso == [l \in LinkObjs |-> IF l \in {la1, la2} THEN A ELSE B]
\* Links from A to B.
AtoB == {<<A, B>>}
\* A link of an isolate with itself.
AtoA == {<<A, A>>}
=============================================================================
