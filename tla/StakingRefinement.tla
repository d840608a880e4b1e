-------------------------- MODULE StakingRefinement --------------------------
(***************************************************************************)
(* The SOL side as a share ledger: a launch is a ledger, its owners are    *)
(* the members, a lamport is a coin of Precision parts, and what a member  *)
(* is owed is what its weight has accrued beyond its debt.                 *)
(***************************************************************************)
EXTENDS StakingProperties

Shares == INSTANCE ShareLedger WITH
  Ledgers    <- Launches,
  NumMembers <- NumOwners,
  Unit       <- Precision,
  weight     <- [l \in Launches |-> Weights(l)],
  owed       <- [l \in Launches |-> Owed(l)],
  reserve    <- [l \in Launches |-> launch[l].rewardReserve]

\* Accumulator, debts and totals together implement the share ledger: every
\* transaction of any signer, and everything that happens around the program,
\* is for each launch a credit shared by weight, the settlement of one
\* position, or nothing.
ImplementsShareLedger == Shares!Spec
=============================================================================
