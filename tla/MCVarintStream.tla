--------------------------- MODULE MCVarintStream ---------------------------
(* Model-checking instance of VarintStream: the values around every power   *)
(* of two of both widths, where the length and the shifts change, and raw   *)
(* inputs with every first byte length and extreme continuations.           *)
EXTENDS VarintStream

Ones(u, a, b) == [i \in 0..Width(u) - 1 |-> IF i \in a..b THEN 1 ELSE 0]

MCValue(u) ==
  LET top == Width(u) - 1
  IN UNION {{Ones(u, 0, k - 1), Ones(u, k, k), Ones(u, k, top)} : k \in 0..top}

\* Followed by nothing, or by a byte that would change any value it got into.
MCFollower == { << >>, <<ByteOf(255)>> }

MCRawInput ==
  { << >> } \cup
  { <<ByteOf(f)>> \o [j \in 1..n |-> IF j = n THEN last ELSE Zero] :
      f \in {0, 1, 2, 3, 4, 8, 16, 32, 64, 128, 240, 255}, n \in 0..8,
      last \in {Zero, ByteOf(1), ByteOf(16), ByteOf(255)} }

=============================================================================
