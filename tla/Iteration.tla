----------------------------- MODULE Iteration -----------------------------
(* Loops as functions.                                                      *)
EXTENDS Integers

\* What a loop has computed after each of its first n rounds, of which step[i] is
\* the i-th.
Iterate(first, step, n) ==
  LET at[i \in 0 .. n] == IF i = 0 THEN first ELSE step[i][at[i - 1]] IN at

Power(b, n) == Iterate(1, [i \in 1 .. n |-> [p \in Nat |-> p * b]], n)[n]
=============================================================================
