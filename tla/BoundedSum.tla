------------------------------ MODULE BoundedSum ------------------------------
(***************************************************************************)
(* The sum of an integer function over 1..n.  The program keeps running    *)
(* totals (total_weighted_stake, the staking vault's balance, the reward   *)
(* reserve); the invariants compare them with the sums of the accounts     *)
(* they stand for.  Owners of positions are numbered, and the recursion is *)
(* a recursive function, so that facts about sums can be proved: they are  *)
(* in BoundedSumTheorems.                                                  *)
(***************************************************************************)
EXTENDS Integers

\* f[1] + ... + f[n], and 0 for n = 0.
SumTo(f, n) ==
  LET partial[i \in 0..n] == IF i = 0 THEN 0 ELSE partial[i-1] + f[i]
  IN  partial[n]
=============================================================================
