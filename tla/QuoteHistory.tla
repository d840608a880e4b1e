----------------------------- MODULE QuoteHistory -----------------------------
(***************************************************************************)
(* The quote side with a memory.  History variables record, beside the     *)
(* program's own state and from it alone, what each pool has               *)
(* been credited, what each owner's recorded weight earned of it and what  *)
(* each owner has been paid, over all the positions the owner ever had.    *)
(* A quote stake outlives its position and its weight lags behind: only    *)
(* over a lifetime can one say what its owner is entitled to.              *)
(***************************************************************************)
EXTENDS QuoteRefinement

VARIABLES
  quoteCredited,   \* tokens that claims have put into each reward vault
  quoteReceived,   \* tokens paid out of it to each owner
  quoteAccrued,    \* each owner's share of the credits, in 1/Precision tokens
  quoteReweighed,  \* how often an owner's recorded weight has changed
  sharedTwice      \* parts of credits that went to weight beyond the total they
                   \* were divided by, in 1/Precision tokens

memoryVars == <<allVars, quoteCredited, quoteReceived, quoteAccrued, quoteReweighed,
                sharedTwice>>

PerMember(value) == PerPool([o \in Owners |-> value])

QuoteHistoryInit ==
  /\ QuoteInit
  /\ quoteCredited = PerPool(0)
  /\ quoteReceived = PerMember(0)
  /\ quoteAccrued = PerMember(0)
  /\ quoteReweighed = PerMember(0)
  /\ sharedTwice = PerPool(0)

\* What a step adds to a pool's accumulator, and what it takes from its vault or,
\* with an addition to the accumulator, puts there.  Other tokens that reach the
\* vault are donations.
QuoteIncrement(l, q) ==
  quotePool'[l][q].accRewardPerWeight - quotePool[l][q].accRewardPerWeight
QuoteInflow(l, q) ==
  IF QuoteIncrement(l, q) > 0 THEN quoteVault'[l][q] - quoteVault[l][q] ELSE 0
QuoteOutflow(l, q) == Larger(quoteVault[l][q] - quoteVault'[l][q], 0)

\* The part of a credit that goes to recorded weight beyond the total it is divided by.
QuoteExcess(l, q) ==
  IF QuoteIncrement(l, q) > 0
  THEN QuoteIncrement(l, q)
         * Larger(SumTo(Recorded(l, q), NumOwners) - launch[l].totalWeightedStake, 0)
  ELSE 0

QuoteRecord ==
  /\ quoteCredited' = [l \in Launches |-> [q \in Quotes |->
       quoteCredited[l][q] + QuoteInflow(l, q)]]
  /\ sharedTwice' = [l \in Launches |-> [q \in Quotes |->
       sharedTwice[l][q] + QuoteExcess(l, q)]]
  /\ quoteReceived' = [l \in Launches |-> [q \in Quotes |-> [o \in Owners |->
       quoteReceived[l][q][o]
         + (IF quoteStake'[l][o][q] # quoteStake[l][o][q] THEN QuoteOutflow(l, q) ELSE 0)]]]
  /\ quoteAccrued' = [l \in Launches |-> [q \in Quotes |-> [o \in Owners |->
       quoteAccrued[l][q][o] + QuoteIncrement(l, q) * quoteStake[l][o][q].recordedWeight]]]
  /\ quoteReweighed' = [l \in Launches |-> [q \in Quotes |-> [o \in Owners |->
       quoteReweighed[l][q][o]
         + (IF quoteStake'[l][o][q].recordedWeight # quoteStake[l][o][q].recordedWeight
            THEN 1 ELSE 0)]]]

QuoteHistoryNext == QuoteNext /\ QuoteRecord

QuoteHistorySpec == QuoteHistoryInit /\ [][QuoteHistoryNext]_memoryVars

-----------------------------------------------------------------------------
(***************************************************************************)
(* Invariants.                                                             *)
(***************************************************************************)
\* Every token a claim put into a reward vault is in the pool's reserve or was
\* paid to an owner, whatever became of the positions and whoever sent other
\* tokens to the vault.
QuoteCreditsConserved ==
  \A l \in Launches, q \in Quotes :
    quoteCredited[l][q]
      = quotePool[l][q].rewardReserve + SumTo(quoteReceived[l][q], NumOwners)

\* Over any lifetime an owner is paid what its recorded weight earned: exits and
\* re-entries of the position, late enrolments and claims at any time cost or
\* gain it less than one token each time another weight is recorded.
QuoteLifetimeShare ==
  \A l \in Launches, q \in Quotes, o \in Owners :
    LET settled == Precision * quoteReceived[l][q][o] + QuoteOwed(l, q)[o]
        slack   == (Precision - 1) * quoteReweighed[l][q][o]
    IN  /\ quoteAccrued[l][q][o] <= settled + slack
        /\ settled <= quoteAccrued[l][q][o] + slack

\* How short a pool can be.  unstake leaves recorded weight behind that the total
\* no longer counts; what later credits give to weight beyond the total they are
\* divided by is all that a pool can owe beyond its reserve, but for less than one
\* token for each weight recorded.
ShortageExplained ==
  \A l \in Launches, q \in Quotes :
    SumTo(QuoteOwed(l, q), NumOwners)
      <= Precision * quotePool[l][q].rewardReserve
           + (Precision - 1) * quoteEntries[l][q] + sharedTwice[l][q]
=============================================================================
