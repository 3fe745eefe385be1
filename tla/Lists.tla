-------------------------------- MODULE Lists --------------------------------
(* The elements of a sequence and those of them that a loop keeps, as Go's  *)
(* filtering loops do.  What is kept is a set of indices, where SelectSeq   *)
(* takes an operator: a fact about Picked is stated once, for all of them.  *)
EXTENDS Naturals, Sequences, FiniteSets

InSeq(q) == {q[i] : i \in DOMAIN q}

(* The element of a set of one.  In a recursive function, x \in {...} below *)
(* Only has TLC compute what stands in the braces once.                     *)
Only(S) == CHOOSE x \in S : TRUE

(* The elements of s at the indices I, in the order they have in s.         *)
Picked(s, I) ==
  LET picked[n \in 0 .. Len(s)] ==
        IF n = 0 THEN <<>>
        ELSE IF n \in I THEN Append(picked[n - 1], s[n]) ELSE picked[n - 1]
  IN  picked[Len(s)]
=============================================================================
