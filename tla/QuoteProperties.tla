--------------------------- MODULE QuoteProperties ---------------------------
(***************************************************************************)
(* What the quote-token side keeps, and what the documents promise of it   *)
(* and it does not keep.                                                   *)
(***************************************************************************)
EXTENDS QuoteRewards

\* What each quote stake has accrued and not been paid, before rounding, in
\* 1/Precision tokens.
QuoteOwed(l, q) ==
  [o \in Owners |-> quoteStake[l][o][q].recordedWeight * quotePool[l][q].accRewardPerWeight
                      - Precision * quoteStake[l][o][q].rewardDebt]

\* The reserve covers what the quote stakes are owed, but for less than one
\* token per weight ever recorded.
OwedIsReserved(l, q) ==
  SumTo(QuoteOwed(l, q), NumOwners)
    <= Precision * quotePool[l][q].rewardReserve + (Precision - 1) * quoteEntries[l][q]

-----------------------------------------------------------------------------
(***************************************************************************)
(* Invariants.                                                             *)
(***************************************************************************)
\* The reward vault always holds the reward_reserve, whatever is claimed,
\* credited or donated: pay_quote_rewards' transfer cannot fail for lack of
\* tokens once its check of the reserve has passed.
QuoteReserveBacked ==
  \A l \in Launches, q \in Quotes : quotePool[l][q].rewardReserve <= quoteVault[l][q]

\* The protocol fee vault always holds the protocol_fee_reserve, so the
\* saturating subtraction of claim_quote_protocol_fees never hides a shortage:
\* the two drift only by what others have transferred in.
QuoteFeeReserveBacked ==
  \A l \in Launches, q \in Quotes : quotePool[l][q].protocolFeeReserve <= quoteFeeVault[l][q]

\* pending_quote_reward's checked_sub never fails, whatever happened to the
\* position (increase, exit, re-entry) since its weight was recorded.
QuoteDebtCovered ==
  \A l \in Launches, o \in Owners, q \in Quotes :
    PendingQuoteReward(quoteStake[l][o][q], quotePool[l][q]) >= 0

\* As long as a pool was never credited while its recorded weights exceeded
\* total_weighted_stake, its reserve covers its quote stakes.  The condition is what unstake does
\* not maintain: it takes the position's weight out of the total and leaves the
\* recorded weight in the pool.
QuoteOwedBounded ==
  \A l \in Launches, q \in Quotes : <<l, q>> \notin overcommitted => OwedIsReserved(l, q)

-----------------------------------------------------------------------------
(***************************************************************************)
(* Action properties.                                                      *)
(***************************************************************************)
\* Whenever a quote stake changes, exactly what was pending on it at its old
\* recorded weight leaves the reserve, and leaves the vault: a first enrolment,
\* however late, pays nothing, and a change of weight forfeits nothing.
QuoteSettledInFullStep ==
  \A l \in Launches, o \in Owners, q \in Quotes :
    quoteStake'[l][o][q] # quoteStake[l][o][q] =>
      LET due == PendingQuoteReward(quoteStake[l][o][q], quotePool[l][q])
      IN  /\ quotePool[l][q].rewardReserve - quotePool'[l][q].rewardReserve = due
          /\ quoteVault[l][q] - quoteVault'[l][q] = due

QuoteSettledInFull == [][QuoteSettledInFullStep]_allVars

\* Only a claim on the quote stake itself lowers what is pending on it: no
\* step of the SOL side, of another owner or of another pool does.
QuoteNeverDilutedStep ==
  \A l \in Launches, o \in Owners, q \in Quotes :
    quoteStake'[l][o][q] = quoteStake[l][o][q] =>
      PendingQuoteReward(quoteStake[l][o][q], quotePool'[l][q])
        >= PendingQuoteReward(quoteStake[l][o][q], quotePool[l][q])

QuoteNeverDiluted == [][QuoteNeverDilutedStep]_allVars

-----------------------------------------------------------------------------
(***************************************************************************)
(* What the repository's documents say and the code does not keep.         *)
(***************************************************************************)
\* "quote_stake.recorded_weight == stake_position.weight": an open position
\* with a quote stake is rewarded by its own weight.
RecordedWeightCurrent ==
  \A l \in Launches, o \in Owners, q \in Quotes :
    HasPosition(l, o) /\ Enrolled(l, o, q) =>
      quoteStake[l][o][q].recordedWeight = position[l][o].weight

\* "Rewards are distributed by weighted stake: reward_share = position_weight /
\* total_weighted_stake": shares of one total never hand out more than came in,
\* so the reserve covers every quote stake of every pool.
SharesAreReserved ==
  \A l \in Launches, q \in Quotes : OwedIsReserved(l, q)
=============================================================================
