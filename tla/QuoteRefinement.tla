---------------------------- MODULE QuoteRefinement ----------------------------
(***************************************************************************)
(* The quote side as pool ledgers: each pool is a ledger, its members are  *)
(* the owners with the weights their quote stakes have recorded, and the   *)
(* total is the launch's total_weighted_stake, which the SOL side moves.   *)
(***************************************************************************)
EXTENDS QuoteProperties

Pools == INSTANCE PoolLedger WITH
  Ledgers    <- Launches \X Quotes,
  NumMembers <- NumOwners,
  Unit       <- Precision,
  weight     <- [lq \in Launches \X Quotes |-> Recorded(lq[1], lq[2])],
  owed       <- [lq \in Launches \X Quotes |-> QuoteOwed(lq[1], lq[2])],
  reserve    <- [lq \in Launches \X Quotes |-> quotePool[lq[1]][lq[2]].rewardReserve],
  total      <- [lq \in Launches \X Quotes |-> launch[lq[1]].totalWeightedStake]

\* A pool's accumulator, debts and reserve implement the pool ledger: a claim of
\* quote fees gives each recorded unit of weight the same part of the credit,
\* divided by all the weight in the launch, and a quote stake is paid every whole
\* token it is owed before it takes over the weight of its position.
ImplementsPoolLedger == Pools!PoolSpec
=============================================================================
