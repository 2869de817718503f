-------------------------------- MODULE Arith --------------------------------
(* Integer helpers shared by the modules.                                   *)
EXTENDS Integers, Sequences

CeilDiv(a, b) == (a + b - 1) \div b
Larger(a, b) == IF a >= b THEN a ELSE b
Smaller(a, b) == IF a <= b THEN a ELSE b

\* The sums of a sequence's first elements, by how many.
PartialSums(s) == LET f[i \in 0 .. Len(s)] == IF i = 0 THEN 0 ELSE f[i - 1] + s[i] IN f
==============================================================================
