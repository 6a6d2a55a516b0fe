------------------------------- MODULE Lists --------------------------------
(***************************************************************************)
(* An operator on lists that several components use.                       *)
(***************************************************************************)
EXTENDS Integers, Sequences

(* The elements of the list q that are in xs, in their order.  (A function,*)
(* not SelectSeq, whose recursive definition the provers do not have.)     *)
Among(q, xs) ==
  LET upTo[n \in 0 .. Len(q)] ==
        IF n = 0 THEN <<>>
        ELSE IF q[n] \in xs THEN Append(upTo[n - 1], q[n]) ELSE upTo[n - 1]
  IN  upTo[Len(q)]
=============================================================================
