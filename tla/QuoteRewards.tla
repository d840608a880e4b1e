----------------------------- MODULE QuoteRewards -----------------------------
(***************************************************************************)
(* The quote-token side of the program, on top of the SOL side.  A reward  *)
(* pool per launch and quote mint is fed from the creator fees paid in     *)
(* that mint; a quote stake per position and pool records the weight the   *)
(* position had when the stake was opened or last claimed.  The pool is    *)
(* credited over the launch's total_weighted_stake, and nothing in stake,  *)
(* increase_stake or unstake looks at it: the two ledgers meet only where  *)
(* a quote claim reads the position.                                       *)
(*                                                                         *)
(* A pool exists iff it is in quotePools; a quote stake exists iff its     *)
(* recorded weight is positive, since every position weighs at least 1.    *)
(* Quotes are mints other than wrapped SOL, which the program refuses.     *)
(***************************************************************************)
EXTENDS Staking

CONSTANTS
  Quotes,           \* quote mints
  QuoteAmounts,     \* the amounts of quote tokens that arrive
  MaxQuoteArrivals  \* bound on the number of arrivals

ASSUME QuoteAssumption ==
  /\ QuoteAmounts \subseteq Nat \ {0}
  /\ MaxQuoteArrivals \in Nat

VARIABLES
  quotePools,         \* the pools initialize_quote_rewards has created
  quotePool,          \* the QuoteRewardPool of each launch and quote
  quoteStake,         \* the QuoteStakeState of each launch, owner and quote
  quoteVault,         \* tokens in each pool's reward vault
  quoteFeeVault,      \* tokens in each pool's protocol fee vault
  quoteCreatorVault,  \* tokens waiting at each venue and route
  quoteArrivals,      \* number of arrivals so far
  quoteEntries,       \* history: weights recorded so far in each pool
  overcommitted       \* history: pools credited while the recorded weights
                      \* exceeded total_weighted_stake

historyVars == <<quoteEntries, overcommitted>>
quoteVars == <<quotePools, quotePool, quoteStake, quoteVault, quoteFeeVault,
               quoteCreatorVault, quoteArrivals, historyVars>>
allVars == <<vars, quoteVars>>

EmptyPool       == [accRewardPerWeight |-> 0, rewardReserve |-> 0, protocolFeeReserve |-> 0]
EmptyQuoteStake == [recordedWeight |-> 0, rewardDebt |-> 0]

QuoteRewardPool == [accRewardPerWeight : U128, rewardReserve : U64, protocolFeeReserve : U64]
QuoteStakeState == [recordedWeight : U128, rewardDebt : U128]

Enrolled(l, o, q) == quoteStake[l][o][q].recordedWeight > 0

\* Every field of every account keeps the width the code gives it.
QuoteTypeOK ==
  /\ quotePools \subseteq Launches \X Quotes
  /\ quotePool \in [Launches -> [Quotes -> QuoteRewardPool]]
  /\ quoteStake \in [Launches -> [Owners -> [Quotes -> QuoteStakeState]]]
  /\ quoteVault \in [Launches -> [Quotes -> Nat]]
  /\ quoteFeeVault \in [Launches -> [Quotes -> Nat]]
  /\ quoteCreatorVault \in [Launches -> [Quotes -> [Venues -> [Routes -> Nat]]]]
  /\ quoteArrivals \in 0..MaxQuoteArrivals
  /\ quoteEntries \in [Launches -> [Quotes -> Nat]]
  /\ overcommitted \subseteq Launches \X Quotes

PerPool(value) == [l \in Launches |-> [q \in Quotes |-> value]]

QuoteInit ==
  /\ Init
  /\ quotePools = {}
  /\ quotePool = PerPool(EmptyPool)
  /\ quoteStake = [l \in Launches |-> [o \in Owners |-> [q \in Quotes |-> EmptyQuoteStake]]]
  /\ quoteVault = PerPool(0)
  /\ quoteFeeVault = PerPool(0)
  /\ quoteCreatorVault = PerPool([v \in Venues |-> [r \in Routes |-> 0]])
  /\ quoteArrivals = 0
  /\ quoteEntries = PerPool(0)
  /\ overcommitted = {}

\* The weights a pool's quote stakes have recorded.
Recorded(l, q) == [o \in Owners |-> quoteStake[l][o][q].recordedWeight]

-----------------------------------------------------------------------------
(***************************************************************************)
(* Pieces of the handlers (rewards.rs).                                    *)
(***************************************************************************)
\* What pending_quote_reward pays: by the weight recorded, not the position's.
PendingQuoteReward(qs, pool) ==
  RewardDebt(qs.recordedWeight, pool.accRewardPerWeight) - qs.rewardDebt

PendingQuoteIsComputable(qs, pool) ==
  /\ qs.recordedWeight * pool.accRewardPerWeight \in U128
  /\ PendingQuoteReward(qs, pool) \in U64

\* Mutant: the debt is set against an accumulator of zero.
QuoteStakeWithoutDebt(pos, pool) == [recordedWeight |-> pos.weight, rewardDebt |-> 0]

\* Mutant: a unit of debt too much.
QuoteStakeDebtUp(pos, pool) ==
  [recordedWeight |-> pos.weight,
   rewardDebt     |-> RewardDebt(pos.weight, pool.accRewardPerWeight) + 1]

\* What a quote stake says once it is brought up to date with its position.
SyncedQuoteStake(pos, pool) ==
  [recordedWeight |-> pos.weight,
   rewardDebt     |-> RewardDebt(pos.weight, pool.accRewardPerWeight)]

\* pay_quote_rewards needs the reserve and the vault to cover the payment.
CanPayQuoteRewards(l, q, amount) ==
  /\ quotePool[l][q].rewardReserve >= amount
  /\ quoteVault[l][q] >= amount

CanApplyQuoteRewards(pool, total, amount) ==
  /\ amount > 0
  /\ amount * Precision \in U128
  /\ RewardIncrement(amount, total) > 0
  /\ pool.accRewardPerWeight + RewardIncrement(amount, total) \in U128
  /\ pool.rewardReserve + amount \in U64

\* Mutant: the accumulator forgets what it held.
ApplyQuoteRewardsOverwrites(pool, total, amount) ==
  [pool EXCEPT !.accRewardPerWeight = RewardIncrement(amount, total),
               !.rewardReserve = @ + amount]

ApplyQuoteRewards(pool, total, amount) ==
  [pool EXCEPT !.accRewardPerWeight = @ + RewardIncrement(amount, total),
               !.rewardReserve = @ + amount]

\* Mutant: the accumulator moves before the fee is taken off.
CreditedPoolBeforeFee(pool, total, reward, fee) ==
  [ApplyQuoteRewards(pool, total, reward + fee)
     EXCEPT !.rewardReserve = pool.rewardReserve + reward, !.protocolFeeReserve = @ + fee]

\* What a claim's two parts make of the pool.
CreditedPool(pool, total, reward, fee) ==
  [ApplyQuoteRewards(pool, total, reward) EXCEPT !.protocolFeeReserve = @ + fee]

\* Mutant: the two vaults are swapped.
TransferToOtherVault(l, q, reward, fee) ==
  /\ quoteVault' = [quoteVault EXCEPT ![l][q] = @ + fee]
  /\ quoteFeeVault' = [quoteFeeVault EXCEPT ![l][q] = @ + reward]

\* fee_owner passes on what it collected.
TransferCollected(l, q, reward, fee) ==
  /\ quoteVault' = [quoteVault EXCEPT ![l][q] = @ + reward]
  /\ quoteFeeVault' = [quoteFeeVault EXCEPT ![l][q] = @ + fee]

\* apply_quote_rewards_with_protocol_fee.
ApplyQuoteRewardsWithProtocolFee(l, q, collected) ==
  LET fee    == ProtocolFeeAmount(collected)
      reward == collected - fee
      total  == launch[l].totalWeightedStake
  IN  /\ collected * ProtocolFeeBps \in U64
      /\ quotePool[l][q].protocolFeeReserve + fee \in U64
      /\ CanApplyQuoteRewards(quotePool[l][q], total, reward)
      /\ TransferCollected(l, q, reward, fee)
      /\ quotePool' = [quotePool EXCEPT ![l][q] = CreditedPool(@, total, reward, fee)]
      /\ overcommitted' = IF SumTo(Recorded(l, q), NumOwners) > total
                          THEN overcommitted \union {<<l, q>>} ELSE overcommitted

\* A new weight is recorded.
RecordWeight(l, o, q, qs) ==
  /\ quoteStake' = [quoteStake EXCEPT ![l][o][q] = qs]
  /\ quoteEntries' = [quoteEntries EXCEPT ![l][q] =
                        IF qs.recordedWeight = quoteStake[l][o][q].recordedWeight
                        THEN @ ELSE @ + 1]

-----------------------------------------------------------------------------
(***************************************************************************)
(* instructions/rewards.rs, the quote handlers.                            *)
(***************************************************************************)
\* Anyone may open a pool for a launch.
InitializeQuoteRewards(l, q) ==
  /\ l \in live
  /\ <<l, q>> \notin quotePools
  /\ quotePools' = quotePools \union {<<l, q>>}
  /\ quotePool' = [quotePool EXCEPT ![l][q] = EmptyPool]
  /\ UNCHANGED <<quoteStake, quoteVault, quoteFeeVault, quoteCreatorVault,
                 quoteArrivals, historyVars>>

\* The quote stake's address depends on the position's address only, and no
\* instruction closes it: one left by an earlier position is still there.
InitializeQuoteStake(l, o, q) ==
  LET qs == SyncedQuoteStake(position[l][o], quotePool[l][q])
  IN  /\ <<l, q>> \in quotePools
      /\ HasPosition(l, o)
      /\ ~ Enrolled(l, o, q)
      /\ qs.recordedWeight * quotePool[l][q].accRewardPerWeight \in U128
      /\ RecordWeight(l, o, q, qs)
      /\ UNCHANGED <<quotePools, quotePool, quoteVault, quoteFeeVault,
                     quoteCreatorVault, quoteArrivals, overcommitted>>

\* Mutant: what is paid is not booked.
PayQuoteRewardsUnbooked(l, q, amount) ==
  /\ quoteVault' = [quoteVault EXCEPT ![l][q] = @ - amount]
  /\ UNCHANGED quotePool

PayQuoteRewards(l, q, amount) ==
  /\ quotePool' = [quotePool EXCEPT ![l][q].rewardReserve = @ - amount]
  /\ quoteVault' = [quoteVault EXCEPT ![l][q] = @ - amount]

\* claim_quote_rewards_from_remaining: the payment goes by the recorded weight,
\* then the position's weight is recorded.  Nothing pending is no error: the
\* call then only brings the quote stake up to date.
ClaimQuoteRewards(l, o, q) ==
  LET pending == PendingQuoteReward(quoteStake[l][o][q], quotePool[l][q])
      qs      == SyncedQuoteStake(position[l][o], quotePool[l][q])
  IN  /\ HasPosition(l, o)
      /\ Enrolled(l, o, q)
      /\ PendingQuoteIsComputable(quoteStake[l][o][q], quotePool[l][q])
      /\ CanPayQuoteRewards(l, q, pending)
      /\ qs.recordedWeight * quotePool[l][q].accRewardPerWeight \in U128
      /\ PayQuoteRewards(l, q, pending)
      /\ RecordWeight(l, o, q, qs)
      /\ UNCHANGED <<quotePools, quoteFeeVault, quoteCreatorVault, quoteArrivals,
                     overcommitted>>

-----------------------------------------------------------------------------
(***************************************************************************)
(* instructions/fees.rs, the four quote claims.  Anyone may call them.     *)
(***************************************************************************)
Waiting(l, q, v, r) == quoteCreatorVault[l][q][v][r]

FeeOwnerPart(amount) == (amount * FeeOwnerShareBps) \div 10000

\* What fee_owner's token account gained by the collection is split; what it
\* held before stays where it is.
ClaimQuoteFees(l, q, venues, r, collected) ==
  /\ HasActiveStake(l)
  /\ <<l, q>> \in quotePools
  /\ collected > 0
  /\ ApplyQuoteRewardsWithProtocolFee(l, q, collected)
  /\ quoteCreatorVault' = [quoteCreatorVault EXCEPT ![l][q] =
                             [v \in Venues |-> IF v \in venues
                                               THEN [@[v] EXCEPT ![r] = 0] ELSE @[v]]]
  /\ UNCHANGED <<quotePools, quoteStake, quoteArrivals, quoteEntries>>

ClaimPumpQuoteCreatorFees(l, q) ==
  /\ creator[l] = "direct"
  /\ ClaimQuoteFees(l, q, {"pump"}, "direct", Waiting(l, q, "pump", "direct"))

ClaimPumpSharedQuoteCreatorFees(l, q) ==
  /\ creator[l] = "shared"
  /\ ClaimQuoteFees(l, q, {"pump"}, "shared",
                    FeeOwnerPart(Waiting(l, q, "pump", "shared")))

\* The direct PumpSwap claim does not read the bonding curve.
ClaimPumpSwapQuoteCreatorFees(l, q) ==
  ClaimQuoteFees(l, q, {"amm"}, "direct", Waiting(l, q, "amm", "direct"))

\* PumpSwap's fees are moved into Pump.fun's account, and all that is there,
\* earlier Pump.fun fees included, is distributed.
ClaimPumpSwapSharedQuoteCreatorFees(l, q) ==
  /\ creator[l] = "shared"
  /\ ClaimQuoteFees(l, q, Venues, "shared",
                    FeeOwnerPart(Waiting(l, q, "amm", "shared")
                                   + Waiting(l, q, "pump", "shared")))

-----------------------------------------------------------------------------
(***************************************************************************)
(* instructions/protocol.rs: the upgrade authority takes the whole balance *)
(* of the fee vault; the reserve that stands for it stops at zero.         *)
(***************************************************************************)
\* Mutant: a plain subtraction.
ReserveAfterSweepUnsaturated(pool, amount) == pool.protocolFeeReserve - amount

\* Mutant: the reserve is left as it was.
ReserveAfterSweepKept(pool, amount) == pool.protocolFeeReserve

ReserveAfterSweep(pool, amount) ==
  IF pool.protocolFeeReserve >= amount THEN pool.protocolFeeReserve - amount ELSE 0

ClaimQuoteProtocolFees(l, q) ==
  /\ <<l, q>> \in quotePools
  /\ quoteFeeVault[l][q] > 0
  /\ quoteFeeVault' = [quoteFeeVault EXCEPT ![l][q] = 0]
  /\ quotePool' = [quotePool EXCEPT ![l][q].protocolFeeReserve =
                     ReserveAfterSweep(quotePool[l][q], quoteFeeVault[l][q])]
  /\ UNCHANGED <<quotePools, quoteStake, quoteVault, quoteCreatorVault,
                 quoteArrivals, historyVars>>

-----------------------------------------------------------------------------
(***************************************************************************)
(* The world: fees reach a creator vault, and anyone may transfer tokens   *)
(* to the program's own token accounts.                                    *)
(***************************************************************************)
QuoteArrival ==
  /\ quoteArrivals < MaxQuoteArrivals
  /\ quoteArrivals' = quoteArrivals + 1
  /\ UNCHANGED <<quotePools, quotePool, quoteStake, historyVars>>

QuoteFeesArrive(l, q, v, r, amount) ==
  /\ QuoteArrival
  /\ quoteCreatorVault' = [quoteCreatorVault EXCEPT ![l][q][v][r] = @ + amount]
  /\ UNCHANGED <<quoteVault, quoteFeeVault>>

QuoteVaultReceives(l, q, amount) ==
  /\ QuoteArrival
  /\ quoteVault' = [quoteVault EXCEPT ![l][q] = @ + amount]
  /\ UNCHANGED <<quoteFeeVault, quoteCreatorVault>>

QuoteFeeVaultReceives(l, q, amount) ==
  /\ QuoteArrival
  /\ quoteFeeVault' = [quoteFeeVault EXCEPT ![l][q] = @ + amount]
  /\ UNCHANGED <<quoteVault, quoteCreatorVault>>

QuoteWorld(l, q) ==
  \E amount \in QuoteAmounts :
    \/ \E v \in Venues, r \in FeeRoutes : QuoteFeesArrive(l, q, v, r, amount)
    \/ QuoteVaultReceives(l, q, amount)
    \/ QuoteFeeVaultReceives(l, q, amount)

QuoteFeeStep(l, q) ==
  \/ ClaimPumpQuoteCreatorFees(l, q)
  \/ ClaimPumpSharedQuoteCreatorFees(l, q)
  \/ ClaimPumpSwapQuoteCreatorFees(l, q)
  \/ ClaimPumpSwapSharedQuoteCreatorFees(l, q)
  \/ ClaimQuoteProtocolFees(l, q)

QuoteStep(l, q) ==
  \/ InitializeQuoteRewards(l, q)
  \/ \E o \in Owners : InitializeQuoteStake(l, o, q) \/ ClaimQuoteRewards(l, o, q)
  \/ QuoteFeeStep(l, q)
  \/ QuoteWorld(l, q)

\* A step is one of the SOL side or one of the quote side.
QuoteNext ==
  \/ Next /\ UNCHANGED quoteVars
  \/ \E l \in Launches, q \in Quotes : QuoteStep(l, q) /\ UNCHANGED vars

QuoteSpec == QuoteInit /\ [][QuoteNext]_allVars
=============================================================================
