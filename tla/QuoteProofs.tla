------------------------------ MODULE QuoteProofs ------------------------------
(***************************************************************************)
(* The quote ledger, for any number of launches, owners and quote mints,   *)
(* any precision and any amounts.  The SOL side is part of every behaviour *)
(* of the whole (QuoteIncludesStaking), so its theorems hold there too;    *)
(* of them the quote ledger needs only that weights keep their type.       *)
(*                                                                         *)
(* The argument is that of StakingLedgerProofs: seen from one pool, a step *)
(* leaves it, moves tokens and protocol fees only, credits it, or settles  *)
(* one of its quote stakes.  What is missing, compared with the SOL side,  *)
(* is that the weights a credit is divided by are the weights recorded: it *)
(* is the condition of QuoteOwedBounded.                                   *)
(***************************************************************************)
EXTENDS QuoteRefinement, StakingLedgerProofs

USE DEF Owners, U64, U128

\* The books of one pool are in order.
QuoteLedger(l, q) ==
  /\ quotePool[l][q].rewardReserve <= quoteVault[l][q]
  /\ quotePool[l][q].protocolFeeReserve <= quoteFeeVault[l][q]
  /\ \A o \in Owners : PendingQuoteReward(quoteStake[l][o][q], quotePool[l][q]) >= 0
  /\ <<l, q>> \notin overcommitted => OwedIsReserved(l, q)

\* The inductive invariant: a pool that does not exist is empty.
QuoteInv ==
  /\ QuoteTypeOK
  /\ \A l \in Launches, q \in Quotes :
       <<l, q>> \notin quotePools => quotePool[l][q] = EmptyPool
  /\ \A l \in Launches, q \in Quotes : QuoteLedger(l, q)

-----------------------------------------------------------------------------
(***************************************************************************)
(* Types.                                                                  *)
(***************************************************************************)
\* The fields of a pool are naturals.
LEMMA QuotePoolTypes ==
  ASSUME QuoteTypeOK, NEW l \in Launches, NEW q \in Quotes
  PROVE  /\ quotePool[l][q] \in QuoteRewardPool
         /\ quotePool[l][q].accRewardPerWeight \in Nat
         /\ quotePool[l][q].rewardReserve \in Nat
         /\ quotePool[l][q].protocolFeeReserve \in Nat
         /\ quoteVault[l][q] \in Nat
         /\ quoteFeeVault[l][q] \in Nat
         /\ quoteEntries[l][q] \in Nat
<1>1. quotePool[l][q] \in QuoteRewardPool
  BY DEF QuoteTypeOK
<1>2. \A pool \in QuoteRewardPool :
        /\ pool.accRewardPerWeight \in Nat /\ pool.rewardReserve \in Nat
        /\ pool.protocolFeeReserve \in Nat
  BY RewardMathAssumption DEF QuoteRewardPool
<1> QED BY <1>1, <1>2 DEF QuoteTypeOK

\* The fields of a quote stake are naturals.
LEMMA QuoteStakeTypes ==
  ASSUME QuoteTypeOK, NEW l \in Launches, NEW o \in Owners, NEW q \in Quotes
  PROVE  /\ quoteStake[l][o][q] \in QuoteStakeState
         /\ quoteStake[l][o][q].recordedWeight \in Nat
         /\ quoteStake[l][o][q].rewardDebt \in Nat
<1>1. quoteStake[l][o][q] \in QuoteStakeState
  <2>1. quoteStake[l] \in [Owners -> [Quotes -> QuoteStakeState]]
    BY DEF QuoteTypeOK
  <2>2. quoteStake[l][o] \in [Quotes -> QuoteStakeState]
    BY <2>1
  <2> QED BY <2>2
<1>2. \A qs \in QuoteStakeState : qs.recordedWeight \in Nat /\ qs.rewardDebt \in Nat
  BY RewardMathAssumption DEF QuoteStakeState
<1> QED BY <1>1, <1>2

\* A quote stake brought up to date keeps its fields in width.
LEMMA SyncedType ==
  ASSUME TypeOK, QuoteTypeOK, NEW l \in Launches, NEW o \in Owners, NEW q \in Quotes,
         position[l][o].weight * quotePool[l][q].accRewardPerWeight \in U128
  PROVE  SyncedQuoteStake(position[l][o], quotePool[l][q]) \in QuoteStakeState
<1>1. PICK w, acc : w = position[l][o].weight /\ acc = quotePool[l][q].accRewardPerWeight
  OBVIOUS
<1>2. w \in Nat /\ acc \in Nat /\ w \in U128
  BY <1>1, PositionTypes, QuotePoolTypes DEF StakePosition
<1>3. RewardDebt(w, acc) \in Nat /\ RewardDebt(w, acc) <= w * acc
  BY <1>2, RewardDebtBounds
<1>4. RewardDebt(w, acc) \in U128
  <2>1. PICK x, y : x = RewardDebt(w, acc) /\ y = w * acc
    OBVIOUS
  <2>2. x \in Nat /\ x <= y /\ y \in U128
    BY <1>1, <1>3, <2>1
  <2> QED BY <2>1, <2>2, RewardMathAssumption
<1> QED BY <1>1, <1>2, <1>4 DEF SyncedQuoteStake, QuoteStakeState

\* Recording a weight keeps the types of the quote stakes and of the count.
LEMMA RecordWeightType ==
  ASSUME QuoteTypeOK, NEW l \in Launches, NEW o \in Owners, NEW q \in Quotes,
         NEW qs \in QuoteStakeState, RecordWeight(l, o, q, qs)
  PROVE  /\ quoteStake' \in [Launches -> [Owners -> [Quotes -> QuoteStakeState]]]
         /\ quoteEntries' \in [Launches -> [Quotes -> Nat]]
<1>1. quoteStake' \in [Launches -> [Owners -> [Quotes -> QuoteStakeState]]]
  BY DEF RecordWeight, QuoteTypeOK
<1>2. quoteEntries[l][q] \in Nat /\ quoteEntries[l][q] + 1 \in Nat
  BY QuotePoolTypes
<1>3. quoteEntries' \in [Launches -> [Quotes -> Nat]]
  BY <1>2 DEF RecordWeight, QuoteTypeOK
<1> QED BY <1>1, <1>3

\* A claim's two parts are naturals that add up to what was collected.
LEMMA CollectedParts ==
  ASSUME NEW collected \in Nat
  PROVE  /\ ProtocolFeeAmount(collected) \in Nat
         /\ collected - ProtocolFeeAmount(collected) \in Nat
  BY DEF ProtocolFeeAmount, BpsDenominator, ProtocolFeeBps

\* fee_owner's part of a distribution is a natural.
LEMMA FeeOwnerPartNat ==
  ASSUME NEW amount \in Nat
  PROVE  FeeOwnerPart(amount) \in Nat
<1>1. FeeOwnerShareBps \in Nat
  BY CreatorVaultsAssumption
<1>2. amount * FeeOwnerShareBps \in Nat
  BY <1>1, ProductNat
<1> QED BY <1>2, DivBounds DEF FeeOwnerPart

\* A claim of quote fees, in plain terms: a part of what was collected is
\* credited, the rest is the protocol's.
LEMMA ClaimedQuoteFees ==
  ASSUME TypeOK, QuoteTypeOK, NEW l \in Launches, NEW q \in Quotes, NEW venues, NEW r \in Routes,
         NEW collected \in Nat, ClaimQuoteFees(l, q, venues, r, collected)
  PROVE  \E reward \in Nat, fee \in Nat, total \in Nat \ {0}, pool \in QuoteRewardPool :
           /\ total = launch[l].totalWeightedStake
           /\ RewardIncrement(reward, total) > 0
           /\ pool.accRewardPerWeight
                = quotePool[l][q].accRewardPerWeight + RewardIncrement(reward, total)
           /\ pool.rewardReserve = quotePool[l][q].rewardReserve + reward
           /\ pool.protocolFeeReserve = quotePool[l][q].protocolFeeReserve + fee
           /\ quotePool' = [quotePool EXCEPT ![l][q] = pool]
           /\ quoteVault' = [quoteVault EXCEPT ![l][q] = @ + reward]
           /\ quoteFeeVault' = [quoteFeeVault EXCEPT ![l][q] = @ + fee]
           /\ overcommitted' = IF SumTo(Recorded(l, q), NumOwners) > total
                               THEN overcommitted \union {<<l, q>>} ELSE overcommitted
<1>1. PICK fee, reward, total, old, pool :
        /\ fee = ProtocolFeeAmount(collected) /\ reward = collected - fee
        /\ total = launch[l].totalWeightedStake /\ old = quotePool[l][q]
        /\ pool = CreditedPool(quotePool[l][q], total, reward, fee)
  OBVIOUS
<1>2. reward \in Nat /\ fee \in Nat
  BY <1>1, CollectedParts
<1>3. total \in Nat \ {0}
  BY <1>1, LaunchTypes DEF ClaimQuoteFees, HasActiveStake
<1>4. /\ CanApplyQuoteRewards(old, total, reward)
      /\ old.protocolFeeReserve + fee \in U64
      /\ quotePool' = [quotePool EXCEPT ![l][q] = CreditedPool(quotePool[l][q], total, reward, fee)]
      /\ quoteVault' = [quoteVault EXCEPT ![l][q] = @ + reward]
      /\ quoteFeeVault' = [quoteFeeVault EXCEPT ![l][q] = @ + fee]
      /\ overcommitted' = IF SumTo(Recorded(l, q), NumOwners) > total
                          THEN overcommitted \union {<<l, q>>} ELSE overcommitted
  BY <1>1 DEF ClaimQuoteFees, ApplyQuoteRewardsWithProtocolFee, TransferCollected
<1>5. old \in QuoteRewardPool
  BY <1>1, QuotePoolTypes
<1>6. PICK inc, base : /\ inc = RewardIncrement(reward, total)
                       /\ base = [old EXCEPT !.accRewardPerWeight = old.accRewardPerWeight + inc,
                                             !.rewardReserve = old.rewardReserve + reward]
  OBVIOUS
<1>7. base \in QuoteRewardPool /\ base.protocolFeeReserve = old.protocolFeeReserve
      /\ base.accRewardPerWeight = old.accRewardPerWeight + inc
      /\ base.rewardReserve = old.rewardReserve + reward
  BY <1>4, <1>5, <1>6 DEF CanApplyQuoteRewards, QuoteRewardPool
<1>8. pool = [base EXCEPT !.protocolFeeReserve = base.protocolFeeReserve + fee]
  BY <1>1, <1>6 DEF CreditedPool, ApplyQuoteRewards
<1>9. /\ pool \in QuoteRewardPool
      /\ pool.accRewardPerWeight = old.accRewardPerWeight + inc
      /\ pool.rewardReserve = old.rewardReserve + reward
      /\ pool.protocolFeeReserve = old.protocolFeeReserve + fee
  BY <1>4, <1>7, <1>8 DEF QuoteRewardPool
<1>10. inc > 0
  BY <1>4, <1>6 DEF CanApplyQuoteRewards
<1> QED BY <1>1, <1>2, <1>3, <1>4, <1>6, <1>9, <1>10

-----------------------------------------------------------------------------
(***************************************************************************)
(* The kinds of steps, seen from pool p of launch m.                       *)
(***************************************************************************)
StakesSame(m, p) == \A o \in Owners : quoteStake'[m][o][p] = quoteStake[m][o][p]

SettledStakesSame(m, p, o) ==
  \A x \in Owners : x # o => quoteStake'[m][x][p] = quoteStake[m][x][p]

OvercommittedSame(m, p) == <<m, p>> \in overcommitted' <=> <<m, p>> \in overcommitted

\* Tokens or protocol fees move, or nothing does.
QuoteMoved(m, p) ==
  /\ quotePool'[m][p].accRewardPerWeight = quotePool[m][p].accRewardPerWeight
  /\ quotePool'[m][p].rewardReserve = quotePool[m][p].rewardReserve
  /\ quotePool'[m][p].protocolFeeReserve <= quoteFeeVault'[m][p]
  /\ quoteVault'[m][p] >= quoteVault[m][p]
  /\ StakesSame(m, p)
  /\ quoteEntries'[m][p] = quoteEntries[m][p]
  /\ OvercommittedSame(m, p)

\* A reward is credited over the launch's total, and a fee set aside.
QuoteCredited(m, p, reward, fee, total) ==
  /\ total = launch[m].totalWeightedStake
  /\ RewardIncrement(reward, total) > 0
  /\ quotePool'[m][p].accRewardPerWeight
       = quotePool[m][p].accRewardPerWeight + RewardIncrement(reward, total)
  /\ quotePool'[m][p].rewardReserve = quotePool[m][p].rewardReserve + reward
  /\ quotePool'[m][p].protocolFeeReserve = quotePool[m][p].protocolFeeReserve + fee
  /\ quoteVault'[m][p] = quoteVault[m][p] + reward
  /\ quoteFeeVault'[m][p] = quoteFeeVault[m][p] + fee
  /\ StakesSame(m, p)
  /\ quoteEntries'[m][p] = quoteEntries[m][p]
  /\ <<m, p>> \notin overcommitted' =>
       <<m, p>> \notin overcommitted /\ ~ (SumTo(Recorded(m, p), NumOwners) > total)

\* Quote stake o is paid what is pending on it and brought up to date with its
\* position.
QuoteSettled(m, p, o) ==
  LET old  == quoteStake[m][o][p]
      new  == quoteStake'[m][o][p]
      paid == PendingQuoteReward(old, quotePool[m][p])
  IN  /\ paid >= 0
      /\ quotePool'[m][p].accRewardPerWeight = quotePool[m][p].accRewardPerWeight
      /\ quotePool'[m][p].rewardReserve = quotePool[m][p].rewardReserve - paid
      /\ quotePool'[m][p].protocolFeeReserve = quotePool[m][p].protocolFeeReserve
      /\ quoteVault'[m][p] = quoteVault[m][p] - paid
      /\ quoteFeeVault'[m][p] = quoteFeeVault[m][p]
      /\ SettledStakesSame(m, p, o)
      /\ new.recordedWeight \in Nat
      /\ new.rewardDebt = RewardDebt(new.recordedWeight, quotePool[m][p].accRewardPerWeight)
      /\ quoteEntries'[m][p] = IF new.recordedWeight = old.recordedWeight
                              THEN quoteEntries[m][p] ELSE quoteEntries[m][p] + 1
      /\ OvercommittedSame(m, p)

QuoteKind(m, p) ==
  \/ QuoteMoved(m, p)
  \/ \E reward \in Nat, fee \in Nat, total \in Nat \ {0} :
        QuoteCredited(m, p, reward, fee, total)
  \/ \E o \in Owners : QuoteSettled(m, p, o)

\* The functions the pool's books sum over are integer functions.
LEMMA QuoteLedgerTypes ==
  ASSUME QuoteTypeOK, NEW m \in Launches, NEW p \in Quotes
  PROVE  /\ Recorded(m, p) \in [1..NumOwners -> Nat]
         /\ QuoteOwed(m, p) \in [1..NumOwners -> Int]
<1>1. ASSUME NEW o \in Owners
      PROVE  /\ quoteStake[m][o][p].recordedWeight \in Nat
             /\ quoteStake[m][o][p].recordedWeight * quotePool[m][p].accRewardPerWeight
                  - Precision * quoteStake[m][o][p].rewardDebt \in Int
  BY QuotePoolTypes, QuoteStakeTypes, RewardMathAssumption
<1> QED BY <1>1 DEF Recorded, QuoteOwed

\* What each quote stake is owed and records, before and after a step.
LEMMA MappedQuoteOwed ==
  ASSUME NEW m \in Launches, NEW p \in Quotes, NEW o \in Owners
  PROVE  /\ QuoteOwed(m, p)[o]
              = quoteStake[m][o][p].recordedWeight * quotePool[m][p].accRewardPerWeight
                  - Precision * quoteStake[m][o][p].rewardDebt
         /\ QuoteOwed(m, p)'[o]
              = quoteStake'[m][o][p].recordedWeight * quotePool'[m][p].accRewardPerWeight
                  - Precision * quoteStake'[m][o][p].rewardDebt
         /\ Recorded(m, p)[o] = quoteStake[m][o][p].recordedWeight
         /\ Recorded(m, p)'[o] = quoteStake'[m][o][p].recordedWeight
  BY DEF QuoteOwed, Recorded

\* What a credit adds to what each quote stake is owed, and to the sum.
LEMMA QuoteCreditParts ==
  ASSUME QuoteTypeOK, NEW m \in Launches, NEW p \in Quotes,
         NEW reward \in Nat, NEW fee \in Nat, NEW total \in Nat \ {0},
         QuoteCredited(m, p, reward, fee, total),
         NEW inc, inc = RewardIncrement(reward, total)
  PROVE  /\ reward > 0 /\ inc \in Nat /\ inc > 0 /\ inc * total <= Precision * reward
         /\ Recorded(m, p)' = Recorded(m, p)
         /\ \A o \in Owners : QuoteOwed(m, p)'[o] = QuoteOwed(m, p)[o] + inc * Recorded(m, p)[o]
         /\ SumTo(QuoteOwed(m, p)', NumOwners)
              = inc * SumTo(Recorded(m, p), NumOwners) + SumTo(QuoteOwed(m, p), NumOwners)
<1>1. PICK acc, n, weights, owed, owed2 :
        /\ acc = quotePool[m][p].accRewardPerWeight /\ n = NumOwners
        /\ weights = Recorded(m, p) /\ owed = QuoteOwed(m, p) /\ owed2 = QuoteOwed(m, p)'
  OBVIOUS
<1>2. /\ acc \in Nat /\ n \in Nat /\ Precision \in Nat \ {0} /\ inc > 0
      /\ quotePool'[m][p].accRewardPerWeight = acc + inc
  BY <1>1, QuotePoolTypes, StakingAssumption, RewardMathAssumption DEF QuoteCredited
<1>3. reward > 0 /\ inc \in Nat /\ inc * total <= Precision * reward
  BY <1>2, IncrementParts
<1>4. weights \in [1..n -> Int] /\ owed \in [1..n -> Int]
  BY <1>1, QuoteLedgerTypes
<1>5. ASSUME NEW o \in 1..n
      PROVE  /\ owed2[o] \in Int
             /\ owed2[o] = inc * weights[o] + owed[o]
             /\ owed2[o] = owed[o] + inc * weights[o]
  <2>1. PICK w, d : w = quoteStake[m][o][p].recordedWeight /\ d = quoteStake[m][o][p].rewardDebt
    OBVIOUS
  <2>2. w \in Nat /\ d \in Nat
    BY <1>1, <2>1, QuoteStakeTypes
  <2>3. /\ owed[o] = w * acc - Precision * d
        /\ owed2[o] = w * (acc + inc) - Precision * d
        /\ weights[o] = w
    BY <1>1, <1>2, <2>1, MappedQuoteOwed DEF QuoteCredited, StakesSame
  <2>4. /\ w * (acc + inc) - Precision * d \in Int
        /\ w * (acc + inc) - Precision * d = inc * w + (w * acc - Precision * d)
        /\ w * (acc + inc) - Precision * d = (w * acc - Precision * d) + inc * w
    BY <1>2, <1>3, <2>2
  <2> QED BY <2>3, <2>4
<1>6. owed2 \in [1..n -> Int] /\ IsCombination(owed2, inc, weights, owed, n)
  <2>1. owed2 = [o \in 1..n |-> owed2[o]]
    BY <1>1 DEF QuoteOwed
  <2> QED BY <1>5, <2>1 DEF IsCombination
<1>7. SumTo(owed2, n) = inc * SumTo(weights, n) + SumTo(owed, n)
  <2>1. PICK c \in Int : c = inc
    BY <1>3
  <2>2. SumTo(owed2, n) = c * SumTo(weights, n) + SumTo(owed, n)
    <3>1. n \in Nat /\ weights \in [1..n -> Int] /\ owed \in [1..n -> Int]
          /\ owed2 \in [1..n -> Int]
      BY <1>2, <1>4, <1>6
    <3>2. IsCombination(owed2, c, weights, owed, n)
      BY <1>6, <2>1
    <3> QED BY <3>1, <3>2, SumToLinear, SMTT(60)
  <2> QED BY <2>1, <2>2
<1>8. Recorded(m, p)' = Recorded(m, p)
  BY DEF QuoteCredited, StakesSame, Recorded
<1> QED BY <1>1, <1>2, <1>3, <1>5, <1>7, <1>8

\* What a quote stake brought up to date is paid, and what it leaves owed to each.
LEMMA QuoteSettlementParts ==
  ASSUME QuoteTypeOK, NEW m \in Launches, NEW p \in Quotes, NEW o \in Owners,
         QuoteSettled(m, p, o),
         NEW paid, paid = PendingQuoteReward(quoteStake[m][o][p], quotePool[m][p])
  PROVE  /\ paid \in Nat
         /\ QuoteOwed(m, p)[o] \in Int
         /\ Precision * paid <= QuoteOwed(m, p)[o]
         /\ QuoteOwed(m, p)[o] < Precision * paid + Precision
         /\ QuoteOwed(m, p)'[o] \in 0..(Precision - 1)
         /\ Recorded(m, p)'[o] = Recorded(m, p)[o]
              => QuoteOwed(m, p)'[o] = QuoteOwed(m, p)[o] - Precision * paid
         /\ \A x \in Owners \ {o} : /\ Recorded(m, p)'[x] = Recorded(m, p)[x]
                                    /\ QuoteOwed(m, p)'[x] = QuoteOwed(m, p)[x]
<1>1. PICK w, d, w2, acc, floor, floor2 :
        /\ w = quoteStake[m][o][p].recordedWeight /\ d = quoteStake[m][o][p].rewardDebt
        /\ w2 = quoteStake'[m][o][p].recordedWeight
        /\ acc = quotePool[m][p].accRewardPerWeight
        /\ floor = RewardDebt(w, acc) /\ floor2 = RewardDebt(w2, acc)
  OBVIOUS
<1>2. w \in Nat /\ d \in Nat /\ w2 \in Nat /\ acc \in Nat /\ Precision \in Nat \ {0}
  BY <1>1, QuoteStakeTypes, QuotePoolTypes, RewardMathAssumption DEF QuoteSettled
<1>3. /\ floor \in Nat /\ Precision * floor <= w * acc
      /\ w * acc <= Precision * floor + (Precision - 1)
      /\ floor2 \in Nat /\ Precision * floor2 <= w2 * acc
      /\ w2 * acc <= Precision * floor2 + (Precision - 1)
      /\ w2 = w => floor2 = floor
  BY <1>1, <1>2, RewardDebtBounds
<1>4. paid \in Nat /\ paid = floor - d
  <2>1. paid = floor - d /\ paid >= 0
    BY <1>1 DEF QuoteSettled, PendingQuoteReward
  <2> QED BY <1>2, <1>3, <2>1
<1>5. /\ QuoteOwed(m, p)[o] = w * acc - Precision * d
      /\ QuoteOwed(m, p)'[o] = w2 * acc - Precision * floor2
      /\ Recorded(m, p)[o] = w /\ Recorded(m, p)'[o] = w2
  BY <1>1, MappedQuoteOwed DEF QuoteSettled
<1>6. /\ Precision * paid <= QuoteOwed(m, p)[o]
      /\ QuoteOwed(m, p)[o] < Precision * paid + Precision
      /\ QuoteOwed(m, p)'[o] \in 0..(Precision - 1)
      /\ w2 = w => QuoteOwed(m, p)'[o] = QuoteOwed(m, p)[o] - Precision * paid
  BY <1>2, <1>3, <1>4, <1>5, SettledParts
<1>7. ASSUME NEW x \in Owners \ {o}
      PROVE  /\ Recorded(m, p)'[x] = Recorded(m, p)[x]
             /\ QuoteOwed(m, p)'[x] = QuoteOwed(m, p)[x]
  BY MappedQuoteOwed DEF QuoteSettled, SettledStakesSame
<1>8. QuoteOwed(m, p)[o] \in Int
  BY <1>2, <1>5
<1> QED BY <1>4, <1>5, <1>6, <1>7, <1>8

\* A settlement takes what it pays from the sum owed, and adds less than a token
\* when another weight is recorded.
LEMMA QuoteSettledSum ==
  ASSUME QuoteTypeOK, NEW m \in Launches, NEW p \in Quotes, NEW o \in Owners,
         QuoteSettled(m, p, o),
         NEW paid, paid = PendingQuoteReward(quoteStake[m][o][p], quotePool[m][p])
  PROVE  /\ SumTo(QuoteOwed(m, p)', NumOwners) \in Int
         /\ SumTo(QuoteOwed(m, p)', NumOwners) + Precision * paid
                + (Precision - 1) * quoteEntries[m][p]
              <= SumTo(QuoteOwed(m, p), NumOwners) + (Precision - 1) * quoteEntries'[m][p]
<1>1. PICK n, ow, ow2, e, e2, pp :
        /\ n = NumOwners /\ ow = QuoteOwed(m, p) /\ ow2 = QuoteOwed(m, p)'
        /\ e = quoteEntries[m][p] /\ e2 = quoteEntries'[m][p] /\ pp = Precision * paid
  OBVIOUS
<1>2. /\ paid \in Nat /\ ow[o] \in Int /\ pp <= ow[o] /\ ow2[o] \in 0..(Precision - 1)
      /\ Recorded(m, p)'[o] = Recorded(m, p)[o] => ow2[o] = ow[o] - pp
      /\ \A x \in 1..n : x # o => ow2[x] = ow[x]
  BY <1>1, QuoteSettlementParts
<1>3. n \in Nat /\ o \in 1..n /\ Precision \in Nat \ {0} /\ e \in Nat /\ pp \in Nat
  BY <1>1, <1>2, QuotePoolTypes, StakingAssumption, RewardMathAssumption
<1>4. ow \in [1..n -> Int]
  BY <1>1, QuoteLedgerTypes
<1>5. ow2 \in [1..n -> Int]
  <2>1. ow2 = [x \in 1..n |-> ow2[x]]
    BY <1>1 DEF QuoteOwed
  <2>2. ow2[o] \in Int
    BY <1>2, <1>3
  <2>3. ASSUME NEW x \in 1..n, x # o PROVE ow2[x] \in Int
    BY <1>2, <1>4, <2>3
  <2> QED BY <2>1, <2>2, <2>3
<1>6. /\ SumTo(ow2, n) = SumTo(ow, n) - ow[o] + ow2[o]
      /\ SumTo(ow, n) \in Int /\ SumTo(ow2, n) \in Int
  BY <1>2, <1>3, <1>4, <1>5, SumToChange, SumToInt
<1>7. PICK s, ee : s = SumTo(ow, n) /\ ee = (Precision - 1) * e
  OBVIOUS
<1>8. s \in Int /\ ee \in Int /\ ow2[o] \in Int
  BY <1>2, <1>3, <1>6, <1>7
<1>9. s - ow[o] + ow2[o] + pp + ee <= s + (Precision - 1) * e2
  <2>1. CASE Recorded(m, p)'[o] = Recorded(m, p)[o]
    <3>1. e2 = e
      BY <1>1, <2>1, MappedQuoteOwed DEF QuoteSettled
    <3>2. ow2[o] = ow[o] - pp
      BY <1>2, <2>1
    <3>3. s - ow[o] + ow2[o] + pp + ee = s + ee
      BY <1>2, <1>3, <1>8, <3>2
    <3> QED BY <1>7, <1>8, <3>1, <3>3
  <2>2. CASE Recorded(m, p)'[o] # Recorded(m, p)[o]
    <3>1. e2 = e + 1
      BY <1>1, <2>2, MappedQuoteOwed DEF QuoteSettled
    <3>2. (Precision - 1) * e2 = ee + (Precision - 1)
      BY <1>3, <1>7, <3>1
    <3>3. s - ow[o] + ow2[o] + pp + ee <= s + (ee + (Precision - 1))
      BY <1>2, <1>3, <1>8
    <3> QED BY <3>2, <3>3
  <2> QED BY <2>1, <2>2
<1> QED BY <1>1, <1>6, <1>7, <1>9

-----------------------------------------------------------------------------
(***************************************************************************)
(* Each kind keeps the books of the pool.                                  *)
(***************************************************************************)
\* What moves tokens only keeps the books.
LEMMA MovedKeeps ==
  ASSUME QuoteTypeOK, QuoteTypeOK', NEW m \in Launches, NEW p \in Quotes,
         QuoteLedger(m, p), QuoteMoved(m, p)
  PROVE  QuoteLedger(m, p)'
<1>1. quotePool'[m][p].rewardReserve <= quoteVault'[m][p]
  <2>1. PICK a, b, c, d : a = quotePool[m][p].rewardReserve /\ b = quoteVault[m][p]
                          /\ c = quoteVault'[m][p] /\ d = quotePool'[m][p].rewardReserve
    OBVIOUS
  <2>2. a \in Nat /\ b \in Nat /\ c \in Nat /\ a <= b /\ c >= b /\ d = a
    BY <2>1, QuotePoolTypes DEF QuoteLedger, QuoteMoved, QuoteTypeOK
  <2>3. d <= c
    BY <2>2
  <2> QED BY <2>1, <2>3
<1>2. \A o \in Owners : PendingQuoteReward(quoteStake'[m][o][p], quotePool'[m][p]) >= 0
  BY DEF QuoteLedger, QuoteMoved, StakesSame, PendingQuoteReward
<1>3. QuoteOwed(m, p)' = QuoteOwed(m, p)
  BY DEF QuoteMoved, StakesSame, QuoteOwed
<1>4. OwedIsReserved(m, p)' <=> OwedIsReserved(m, p)
  BY <1>3 DEF OwedIsReserved, QuoteMoved
<1> QED BY <1>1, <1>2, <1>4 DEF QuoteLedger, QuoteMoved, OvercommittedSame

\* A credit keeps the books, as long as the weights recorded do not exceed the
\* total it is divided by.
LEMMA QuoteCreditedKeeps ==
  ASSUME QuoteTypeOK, NEW m \in Launches, NEW p \in Quotes,
         NEW reward \in Nat, NEW fee \in Nat, NEW total \in Nat \ {0},
         QuoteLedger(m, p), QuoteCredited(m, p, reward, fee, total)
  PROVE  QuoteLedger(m, p)'
<1>1. PICK acc, res, inc, n, weights, owed, owed2, e :
        /\ acc = quotePool[m][p].accRewardPerWeight /\ res = quotePool[m][p].rewardReserve
        /\ inc = RewardIncrement(reward, total) /\ n = NumOwners
        /\ weights = Recorded(m, p) /\ owed = QuoteOwed(m, p) /\ owed2 = QuoteOwed(m, p)'
        /\ e = quoteEntries[m][p]
  OBVIOUS
<1>2. /\ acc \in Nat /\ res \in Nat /\ e \in Nat /\ n \in Nat /\ Precision \in Nat \ {0}
      /\ inc \in Nat /\ inc * total <= Precision * reward
      /\ SumTo(owed2, n) = inc * SumTo(weights, n) + SumTo(owed, n)
  BY <1>1, QuotePoolTypes, StakingAssumption, RewardMathAssumption, QuoteCreditParts
<1>3. weights \in [1..n -> Int] /\ owed \in [1..n -> Int]
  BY <1>1, QuoteLedgerTypes
<1>4. <<m, p>> \notin overcommitted' =>
        SumTo(owed2, n) <= Precision * (res + reward) + (Precision - 1) * e
  <2> SUFFICES ASSUME <<m, p>> \notin overcommitted'
               PROVE  SumTo(owed2, n) <= Precision * (res + reward) + (Precision - 1) * e
    OBVIOUS
  <2>1. PICK sw, s, r, ra, ee, iw, it :
          /\ sw = SumTo(weights, n) /\ s = SumTo(owed, n) /\ r = Precision * res
          /\ ra = Precision * reward /\ ee = (Precision - 1) * e
          /\ iw = inc * SumTo(weights, n) /\ it = inc * total
    OBVIOUS
  <2>2. sw \in Int /\ s \in Int
    BY <1>2, <1>3, <2>1, SumToInt
  <2>3. r \in Int /\ ra \in Int /\ ee \in Int /\ iw \in Int /\ it \in Int
    BY <1>2, <2>1, <2>2
  <2>4. s <= r + ee /\ sw <= total
    <3>1. <<m, p>> \notin overcommitted /\ ~ (sw > total)
      BY <1>1, <2>1 DEF QuoteCredited
    <3>2. s <= r + ee
      BY <1>1, <2>1, <3>1 DEF QuoteLedger, OwedIsReserved
    <3> QED BY <2>2, <3>1, <3>2
  <2>5. iw <= it
    <3>1. iw = inc * sw
      BY <2>1
    <3> QED BY <1>2, <2>1, <2>2, <2>4, <3>1, ProductMonotone
  <2>6. it <= ra
    BY <1>2, <2>1
  <2>7. Precision * (res + reward) = r + ra
    BY <1>2, <2>1
  <2>8. iw + s <= r + ra + ee
    BY <2>2, <2>3, <2>4, <2>5, <2>6
  <2> QED BY <1>2, <2>1, <2>7, <2>8
<1>5. <<m, p>> \notin overcommitted' => OwedIsReserved(m, p)'
  BY <1>1, <1>4 DEF OwedIsReserved, QuoteCredited
<1>6. /\ quotePool'[m][p].rewardReserve <= quoteVault'[m][p]
      /\ quotePool'[m][p].protocolFeeReserve <= quoteFeeVault'[m][p]
  <2>1. PICK a, b, f, g : /\ a = quotePool[m][p].rewardReserve /\ b = quoteVault[m][p]
                          /\ f = quotePool[m][p].protocolFeeReserve /\ g = quoteFeeVault[m][p]
    OBVIOUS
  <2>2. a \in Nat /\ b \in Nat /\ f \in Nat /\ g \in Nat /\ a <= b /\ f <= g
    BY <2>1, QuotePoolTypes DEF QuoteLedger
  <2>3. a + reward <= b + reward /\ f + fee <= g + fee
    BY <2>2
  <2> QED BY <2>1, <2>3 DEF QuoteCredited
<1>7. ASSUME NEW o \in Owners
      PROVE  PendingQuoteReward(quoteStake'[m][o][p], quotePool'[m][p]) >= 0
  <2>1. PICK w, d, x, y : /\ w = quoteStake[m][o][p].recordedWeight
                          /\ d = quoteStake[m][o][p].rewardDebt
                          /\ x = RewardDebt(w, acc) /\ y = RewardDebt(w, acc + inc)
    OBVIOUS
  <2>2. w \in Nat /\ d \in Nat
    BY <2>1, QuoteStakeTypes
  <2>3. x \in Nat /\ y \in Nat /\ x <= y
    <3>1. acc + inc \in Nat /\ acc <= acc + inc
      BY <1>2
    <3> QED BY <1>2, <2>1, <2>2, <3>1, RewardDebtNat, RewardDebtMonotone
  <2>4. x - d >= 0
    BY <1>1, <2>1 DEF QuoteLedger, PendingQuoteReward
  <2>5. PendingQuoteReward(quoteStake'[m][o][p], quotePool'[m][p]) = y - d
    BY <1>1, <2>1 DEF QuoteCredited, StakesSame, PendingQuoteReward
  <2> QED BY <2>2, <2>3, <2>4, <2>5
<1> QED BY <1>5, <1>6, <1>7 DEF QuoteLedger

\* A settlement keeps the books.
LEMMA QuoteSettledKeeps ==
  ASSUME QuoteTypeOK, NEW m \in Launches, NEW p \in Quotes, NEW o \in Owners,
         QuoteLedger(m, p), QuoteSettled(m, p, o)
  PROVE  QuoteLedger(m, p)'
<1>1. PICK w2, d2, paid, acc, res, e, e2, s, s2 :
        /\ w2 = quoteStake'[m][o][p].recordedWeight /\ d2 = quoteStake'[m][o][p].rewardDebt
        /\ paid = PendingQuoteReward(quoteStake[m][o][p], quotePool[m][p])
        /\ acc = quotePool[m][p].accRewardPerWeight /\ res = quotePool[m][p].rewardReserve
        /\ e = quoteEntries[m][p] /\ e2 = quoteEntries'[m][p]
        /\ s = SumTo(QuoteOwed(m, p), NumOwners) /\ s2 = SumTo(QuoteOwed(m, p)', NumOwners)
  OBVIOUS
<1>2. /\ w2 \in Nat /\ acc \in Nat /\ res \in Nat /\ e \in Nat /\ e2 \in Nat
      /\ Precision \in Nat \ {0} /\ paid \in Nat /\ s \in Int
  <2>1. w2 \in Nat /\ paid \in Nat
    BY <1>1, QuoteSettlementParts DEF QuoteSettled
  <2>2. e2 = e \/ e2 = e + 1
    BY <1>1 DEF QuoteSettled
  <2>3. s \in Int
    BY <1>1, QuoteLedgerTypes, StakingAssumption, SumToInt
  <2> QED BY <1>1, <2>1, <2>2, <2>3, QuotePoolTypes, RewardMathAssumption
<1>3. d2 = RewardDebt(w2, acc) /\ d2 \in Nat
  <2>1. d2 = RewardDebt(w2, acc)
    BY <1>1 DEF QuoteSettled
  <2> QED BY <1>2, <2>1, RewardDebtNat
<1>4. OwedIsReserved(m, p) => s2 <= Precision * (res - paid) + (Precision - 1) * e2
  <2> SUFFICES ASSUME OwedIsReserved(m, p)
               PROVE  s2 <= Precision * (res - paid) + (Precision - 1) * e2
    OBVIOUS
  <2>1. PICK r, pp, ee, ee2 : /\ r = Precision * res /\ pp = Precision * paid
                              /\ ee = (Precision - 1) * e /\ ee2 = (Precision - 1) * e2
    OBVIOUS
  <2>2. r \in Int /\ pp \in Int /\ ee \in Int /\ ee2 \in Int /\ Precision * (res - paid) = r - pp
    BY <1>2, <2>1
  <2>3. s <= r + ee
    BY <1>1, <2>1 DEF OwedIsReserved
  <2>4. s2 + pp + ee <= s + ee2
    BY <1>1, <2>1, QuoteSettledSum
  <2>5. s2 \in Int
    BY <1>1, QuoteSettledSum
  <2> QED BY <1>2, <2>1, <2>2, <2>3, <2>4, <2>5
<1>5. <<m, p>> \notin overcommitted' => OwedIsReserved(m, p)'
  <2>1. quotePool'[m][p].rewardReserve = res - paid
    BY <1>1 DEF QuoteSettled
  <2>2. <<m, p>> \notin overcommitted' => OwedIsReserved(m, p)
    BY DEF QuoteSettled, OvercommittedSame, QuoteLedger
  <2> QED BY <1>1, <1>4, <2>1, <2>2 DEF OwedIsReserved
<1>6. ASSUME NEW x \in Owners
      PROVE  PendingQuoteReward(quoteStake'[m][x][p], quotePool'[m][p]) >= 0
  <2>1. CASE x = o
    <3>1. PendingQuoteReward(quoteStake'[m][x][p], quotePool'[m][p]) = d2 - d2
      BY <1>1, <1>3, <2>1 DEF QuoteSettled, PendingQuoteReward
    <3> QED BY <1>3, <3>1
  <2>2. CASE x # o
    BY <2>2 DEF QuoteSettled, SettledStakesSame, QuoteLedger, PendingQuoteReward
  <2> QED BY <2>1, <2>2
<1>7. /\ quotePool'[m][p].rewardReserve <= quoteVault'[m][p]
      /\ quotePool'[m][p].protocolFeeReserve <= quoteFeeVault'[m][p]
  <2>1. PICK b : b = quoteVault[m][p]
    OBVIOUS
  <2>2. b \in Nat /\ res <= b
    BY <1>1, <2>1, QuotePoolTypes DEF QuoteLedger
  <2>3. res - paid <= b - paid
    BY <1>2, <2>2
  <2> QED BY <1>1, <2>1, <2>3 DEF QuoteSettled, QuoteLedger
<1> QED BY <1>5, <1>6, <1>7 DEF QuoteLedger

\* Every kind keeps the books.
LEMMA KindKeeps ==
  ASSUME QuoteTypeOK, QuoteTypeOK', NEW m \in Launches, NEW p \in Quotes,
         QuoteLedger(m, p), QuoteKind(m, p)
  PROVE  QuoteLedger(m, p)'
  BY MovedKeeps, QuoteCreditedKeeps, QuoteSettledKeeps DEF QuoteKind

-----------------------------------------------------------------------------
(***************************************************************************)
(* Every step keeps the types and is of one of the kinds for every pool.   *)
(***************************************************************************)
\* A pool that does not exist is empty.
EmptyUntilOpened(m, p) == <<m, p>> \notin quotePools => quotePool[m][p] = EmptyPool

SamePool(m, p) ==
  /\ quotePool'[m][p] = quotePool[m][p]
  /\ quoteVault'[m][p] = quoteVault[m][p]
  /\ quoteFeeVault'[m][p] = quoteFeeVault[m][p]
  /\ StakesSame(m, p)
  /\ quoteEntries'[m][p] = quoteEntries[m][p]
  /\ OvercommittedSame(m, p)

\* What a step has to establish of pool p of launch m.
PoolStep(m, p) == QuoteKind(m, p) /\ EmptyUntilOpened(m, p)'

\* A pool a step leaves alone is moved by nothing.
LEMMA SamePoolStep ==
  ASSUME QuoteInv, NEW m \in Launches, NEW p \in Quotes, SamePool(m, p),
         quotePools \subseteq quotePools'
  PROVE  PoolStep(m, p)
<1>1. QuoteMoved(m, p)
  <2>1. quotePool[m][p].protocolFeeReserve <= quoteFeeVault[m][p]
    BY DEF QuoteInv, QuoteLedger
  <2>2. quoteVault[m][p] \in Nat
    BY QuotePoolTypes DEF QuoteInv
  <2> QED BY <2>1, <2>2 DEF SamePool, QuoteMoved
<1>2. EmptyUntilOpened(m, p)'
  BY DEF QuoteInv, SamePool, EmptyUntilOpened
<1> QED BY <1>1, <1>2 DEF PoolStep, QuoteKind

\* initialize_quote_rewards writes zeros where there were zeros.
LEMMA InitializeQuoteRewardsStep ==
  ASSUME QuoteInv, NEW l \in Launches, NEW q \in Quotes, InitializeQuoteRewards(l, q)
  PROVE  QuoteTypeOK' /\ \A m \in Launches, p \in Quotes : PoolStep(m, p)
<1>1. EmptyPool \in QuoteRewardPool
  BY RewardMathAssumption DEF EmptyPool, QuoteRewardPool
<1>2. QuoteTypeOK'
  BY <1>1 DEF InitializeQuoteRewards, QuoteInv, QuoteTypeOK, historyVars
<1>3. ASSUME NEW m \in Launches, NEW p \in Quotes PROVE PoolStep(m, p)
  <2>1. quotePool'[m][p] = quotePool[m][p]
    BY DEF InitializeQuoteRewards, QuoteInv, QuoteTypeOK
  <2>2. SamePool(m, p) /\ quotePools \subseteq quotePools'
    BY <2>1 DEF InitializeQuoteRewards, SamePool, StakesSame, OvercommittedSame, historyVars
  <2> QED BY <2>2, SamePoolStep
<1> QED BY <1>2, <1>3

\* Recording a weight changes one quote stake of the pool.
LEMMA RecordWeightStakes ==
  ASSUME QuoteTypeOK, NEW l \in Launches, NEW o \in Owners, NEW q \in Quotes, NEW qs,
         RecordWeight(l, o, q, qs)
  PROVE  quoteStake'[l][o][q] = qs /\ SettledStakesSame(l, q, o)
<1>1. PICK row : row = [quoteStake[l] EXCEPT ![o][q] = qs]
  OBVIOUS
<1>2. /\ DOMAIN quoteStake = Launches
      /\ quoteStake[l] \in [Owners -> [Quotes -> QuoteStakeState]]
  BY DEF QuoteTypeOK
<1>3. quoteStake'[l] = row
  BY <1>1, <1>2 DEF RecordWeight
<1>4. DOMAIN quoteStake[l] = Owners /\ DOMAIN quoteStake[l][o] = Quotes
  BY <1>2
<1>5. row[o][q] = qs
  BY <1>1, <1>4
<1>6. \A x \in Owners : x # o => row[x][q] = quoteStake[l][x][q]
  BY <1>1, <1>4
<1> QED BY <1>3, <1>5, <1>6 DEF SettledStakesSame

\* ... and leaves the stakes and the entries of every other pool alone.
LEMMA RecordWeightElsewhere ==
  ASSUME QuoteTypeOK, NEW l \in Launches, NEW o \in Owners, NEW q \in Quotes, NEW qs,
         RecordWeight(l, o, q, qs),
         NEW m \in Launches, NEW p \in Quotes, m # l \/ p # q
  PROVE  StakesSame(m, p) /\ quoteEntries'[m][p] = quoteEntries[m][p]
<1>1. ASSUME NEW x \in Owners PROVE quoteStake'[m][x][p] = quoteStake[m][x][p]
  <2>1. /\ DOMAIN quoteStake = Launches
        /\ quoteStake[l] \in [Owners -> [Quotes -> QuoteStakeState]]
    BY DEF QuoteTypeOK
  <2>2. CASE m # l
    BY <2>1, <2>2 DEF RecordWeight
  <2>3. CASE m = l /\ p # q
    <3>1. DOMAIN quoteStake[l] = Owners /\ DOMAIN quoteStake[l][o] = Quotes
      BY <2>1
    <3> QED BY <2>1, <2>3, <3>1 DEF RecordWeight
  <2> QED BY <2>2, <2>3
<1>2. quoteEntries'[m][p] = quoteEntries[m][p]
  BY DEF RecordWeight, QuoteTypeOK
<1> QED BY <1>1, <1>2 DEF StakesSame

\* A quote stake opened late starts with nothing pending.
LEMMA InitializeQuoteStakeStep ==
  ASSUME TypeOK, QuoteInv, NEW l \in Launches, NEW o \in Owners, NEW q \in Quotes,
         InitializeQuoteStake(l, o, q)
  PROVE  QuoteTypeOK' /\ \A m \in Launches, p \in Quotes : PoolStep(m, p)
<1>1. QuoteTypeOK
  BY DEF QuoteInv
<1>2. PICK qs, acc : /\ qs = SyncedQuoteStake(position[l][o], quotePool[l][q])
                     /\ acc = quotePool[l][q].accRewardPerWeight
  OBVIOUS
<1>3. /\ qs.recordedWeight = position[l][o].weight
      /\ qs.rewardDebt = RewardDebt(qs.recordedWeight, acc)
  BY <1>2 DEF SyncedQuoteStake
<1>4. RecordWeight(l, o, q, qs) /\ qs.recordedWeight * acc \in U128
  BY <1>2 DEF InitializeQuoteStake
<1>5. qs \in QuoteStakeState
  BY <1>1, <1>2, <1>3, <1>4, SyncedType
<1>6. QuoteTypeOK'
  <2>1. /\ quoteStake' \in [Launches -> [Owners -> [Quotes -> QuoteStakeState]]]
        /\ quoteEntries' \in [Launches -> [Quotes -> Nat]]
    BY <1>1, <1>4, <1>5, RecordWeightType
  <2> QED BY <1>1, <2>1 DEF InitializeQuoteStake, QuoteTypeOK
<1>7. ASSUME NEW m \in Launches, NEW p \in Quotes PROVE PoolStep(m, p)
  <2>1. /\ quotePool' = quotePool /\ quotePools' = quotePools /\ quoteVault' = quoteVault
        /\ quoteFeeVault' = quoteFeeVault /\ overcommitted' = overcommitted
    BY DEF InitializeQuoteStake
  <2>2. CASE m # l \/ p # q
    <3>1. SamePool(m, p)
      BY <1>1, <1>4, <2>1, <2>2, RecordWeightElsewhere DEF SamePool, OvercommittedSame
    <3> QED BY <2>1, <3>1, SamePoolStep
  <2>3. CASE m = l /\ p = q
    <3>1. PICK old : old = quoteStake[l][o][q]
      OBVIOUS
    <3>2. old.rewardDebt \in Nat /\ acc \in Nat /\ old.recordedWeight \in Nat
      BY <1>1, <1>2, <3>1, QuoteStakeTypes, QuotePoolTypes
    <3>3. PICK paid : paid = PendingQuoteReward(old, quotePool[l][q])
      OBVIOUS
    <3>4. paid = 0
      <4>1. old.recordedWeight = 0
        BY <3>1, <3>2 DEF InitializeQuoteStake, Enrolled
      <4>2. RewardDebt(0, acc) = 0
        BY <3>2, RewardDebtZero
      <4>3. paid >= 0
        BY <3>1, <3>3 DEF QuoteInv, QuoteLedger
      <4>4. paid = 0 - old.rewardDebt
        BY <1>2, <3>3, <4>1, <4>2 DEF PendingQuoteReward
      <4> QED BY <3>2, <4>3, <4>4
    <3>5. quoteStake'[l][o][q] = qs /\ SettledStakesSame(l, q, o)
      BY <1>1, <1>4, RecordWeightStakes
    <3>6. quoteEntries'[l][q] = IF qs.recordedWeight = old.recordedWeight
                                THEN quoteEntries[l][q] ELSE quoteEntries[l][q] + 1
      BY <1>1, <1>4, <3>1 DEF RecordWeight, QuoteTypeOK
    <3>7. qs.recordedWeight \in Nat
      BY <1>3, PositionTypes
    <3>8. /\ quotePool[l][q].rewardReserve = quotePool[l][q].rewardReserve - paid
          /\ quoteVault[l][q] = quoteVault[l][q] - paid
      BY <1>1, <3>4, QuotePoolTypes
    <3>9. QuoteSettled(l, q, o)
      BY <1>2, <1>3, <2>1, <3>1, <3>3, <3>4, <3>5, <3>6, <3>7, <3>8
         DEF QuoteSettled, OvercommittedSame
    <3>10. EmptyUntilOpened(l, q)'
      BY <2>1 DEF QuoteInv, EmptyUntilOpened
    <3> QED BY <2>3, <3>9, <3>10 DEF PoolStep, QuoteKind
  <2> QED BY <2>2, <2>3
<1> QED BY <1>6, <1>7

\* A claim on a quote stake settles it.
LEMMA ClaimQuoteRewardsStep ==
  ASSUME TypeOK, QuoteInv, NEW l \in Launches, NEW o \in Owners, NEW q \in Quotes,
         ClaimQuoteRewards(l, o, q)
  PROVE  QuoteTypeOK' /\ \A m \in Launches, p \in Quotes : PoolStep(m, p)
<1>1. QuoteTypeOK
  BY DEF QuoteInv
<1>2. PICK qs, acc, old, paid, pool :
        /\ qs = SyncedQuoteStake(position[l][o], quotePool[l][q])
        /\ acc = quotePool[l][q].accRewardPerWeight
        /\ old = quoteStake[l][o][q]
        /\ paid = PendingQuoteReward(quoteStake[l][o][q], quotePool[l][q])
        /\ pool = [quotePool[l][q] EXCEPT !.rewardReserve = quotePool[l][q].rewardReserve - paid]
  OBVIOUS
<1>3. /\ qs.recordedWeight = position[l][o].weight
      /\ qs.rewardDebt = RewardDebt(qs.recordedWeight, acc)
  BY <1>2 DEF SyncedQuoteStake
<1>4. /\ RecordWeight(l, o, q, qs) /\ qs.recordedWeight * acc \in U128
      /\ paid \in U64 /\ CanPayQuoteRewards(l, q, paid)
      /\ quotePool' = [quotePool EXCEPT ![l][q] = pool]
      /\ quoteVault' = [quoteVault EXCEPT ![l][q] = quoteVault[l][q] - paid]
  BY <1>1, <1>2 DEF ClaimQuoteRewards, PendingQuoteIsComputable, PayQuoteRewards, QuoteTypeOK
<1>5. qs \in QuoteStakeState
  BY <1>1, <1>2, <1>3, <1>4, SyncedType
<1>6. /\ paid \in Nat /\ quotePool[l][q] \in QuoteRewardPool
      /\ quoteVault[l][q] \in Nat /\ quoteVault[l][q] - paid \in Nat
      /\ quotePool[l][q].rewardReserve - paid \in U64
  BY <1>1, <1>4, QuotePoolTypes, RewardMathAssumption DEF CanPayQuoteRewards, QuoteRewardPool
<1>7. /\ pool \in QuoteRewardPool
      /\ pool.accRewardPerWeight = acc
      /\ pool.rewardReserve = quotePool[l][q].rewardReserve - paid
      /\ pool.protocolFeeReserve = quotePool[l][q].protocolFeeReserve
  BY <1>2, <1>6 DEF QuoteRewardPool
<1>8. QuoteTypeOK'
  <2>1. /\ quoteStake' \in [Launches -> [Owners -> [Quotes -> QuoteStakeState]]]
        /\ quoteEntries' \in [Launches -> [Quotes -> Nat]]
    BY <1>1, <1>4, <1>5, RecordWeightType
  <2>2. /\ quotePool' \in [Launches -> [Quotes -> QuoteRewardPool]]
        /\ quoteVault' \in [Launches -> [Quotes -> Nat]]
    BY <1>1, <1>4, <1>6, <1>7 DEF QuoteTypeOK
  <2> QED BY <1>1, <2>1, <2>2 DEF ClaimQuoteRewards, QuoteTypeOK
<1>9. ASSUME NEW m \in Launches, NEW p \in Quotes PROVE PoolStep(m, p)
  <2>1. /\ quotePools' = quotePools /\ quoteFeeVault' = quoteFeeVault
        /\ overcommitted' = overcommitted
    BY DEF ClaimQuoteRewards
  <2>2. CASE m # l \/ p # q
    <3>1. SamePool(m, p)
      <4>1. quotePool'[m][p] = quotePool[m][p] /\ quoteVault'[m][p] = quoteVault[m][p]
        BY <1>1, <1>4, <2>2 DEF QuoteTypeOK
      <4> QED BY <1>1, <1>4, <2>1, <2>2, <4>1, RecordWeightElsewhere
              DEF SamePool, OvercommittedSame
    <3> QED BY <2>1, <3>1, SamePoolStep
  <2>3. CASE m = l /\ p = q
    <3>1. quoteStake'[l][o][q] = qs /\ SettledStakesSame(l, q, o)
      BY <1>1, <1>4, RecordWeightStakes
    <3>2. quoteEntries'[l][q] = IF qs.recordedWeight = old.recordedWeight
                                THEN quoteEntries[l][q] ELSE quoteEntries[l][q] + 1
      BY <1>1, <1>2, <1>4 DEF RecordWeight, QuoteTypeOK
    <3>3. qs.recordedWeight \in Nat
      BY <1>3, PositionTypes
    <3>4. quotePool'[l][q] = pool /\ quoteVault'[l][q] = quoteVault[l][q] - paid
      BY <1>1, <1>4 DEF QuoteTypeOK
    <3>5. paid >= 0
      BY <1>6
    <3>6. QuoteSettled(l, q, o)
      BY <1>2, <1>3, <1>7, <2>1, <3>1, <3>2, <3>3, <3>4, <3>5
         DEF QuoteSettled, OvercommittedSame
    <3>7. EmptyUntilOpened(l, q)'
      <4>1. SUFFICES ASSUME <<l, q>> \notin quotePools PROVE pool = EmptyPool
        BY <2>1, <3>4 DEF EmptyUntilOpened
      <4>2. quotePool[l][q] = EmptyPool
        BY <4>1 DEF QuoteInv
      <4>3. 0 >= paid
        BY <1>4, <4>2 DEF CanPayQuoteRewards, EmptyPool
      <4>4. 0 - paid = 0
        BY <1>6, <4>3
      <4> QED BY <1>2, <4>2, <4>4 DEF EmptyPool
    <3> QED BY <2>3, <3>6, <3>7 DEF PoolStep, QuoteKind
  <2> QED BY <2>2, <2>3
<1> QED BY <1>8, <1>9

\* A claim of quote fees credits one pool.
LEMMA ClaimQuoteFeesStep ==
  ASSUME TypeOK, QuoteInv, NEW l \in Launches, NEW q \in Quotes, NEW venues, NEW r \in Routes,
         NEW collected \in Nat, ClaimQuoteFees(l, q, venues, r, collected)
  PROVE  QuoteTypeOK' /\ \A m \in Launches, p \in Quotes : PoolStep(m, p)
<1>1. QuoteTypeOK
  BY DEF QuoteInv
<1>2. PICK reward \in Nat, fee \in Nat, total \in Nat \ {0}, pool \in QuoteRewardPool :
        /\ total = launch[l].totalWeightedStake
        /\ RewardIncrement(reward, total) > 0
        /\ pool.accRewardPerWeight
             = quotePool[l][q].accRewardPerWeight + RewardIncrement(reward, total)
        /\ pool.rewardReserve = quotePool[l][q].rewardReserve + reward
        /\ pool.protocolFeeReserve = quotePool[l][q].protocolFeeReserve + fee
        /\ quotePool' = [quotePool EXCEPT ![l][q] = pool]
        /\ quoteVault' = [quoteVault EXCEPT ![l][q] = @ + reward]
        /\ quoteFeeVault' = [quoteFeeVault EXCEPT ![l][q] = @ + fee]
        /\ overcommitted' = IF SumTo(Recorded(l, q), NumOwners) > total
                            THEN overcommitted \union {<<l, q>>} ELSE overcommitted
  BY <1>1, ClaimedQuoteFees
<1>3. /\ <<l, q>> \in quotePools /\ quotePools' = quotePools /\ quoteStake' = quoteStake
      /\ quoteArrivals' = quoteArrivals /\ quoteEntries' = quoteEntries
      /\ quoteCreatorVault' = [quoteCreatorVault EXCEPT ![l][q] =
                                 [v \in Venues |-> IF v \in venues
                                                   THEN [quoteCreatorVault[l][q][v] EXCEPT ![r] = 0]
                                                   ELSE quoteCreatorVault[l][q][v]]]
  BY <1>1 DEF ClaimQuoteFees, QuoteTypeOK
<1>4. QuoteTypeOK'
  <2>1. quoteVault[l][q] + reward \in Nat /\ quoteFeeVault[l][q] + fee \in Nat
    BY <1>1, QuotePoolTypes
  <2>2. /\ quotePool' \in [Launches -> [Quotes -> QuoteRewardPool]]
        /\ quoteVault' \in [Launches -> [Quotes -> Nat]]
        /\ quoteFeeVault' \in [Launches -> [Quotes -> Nat]]
    BY <1>1, <1>2, <2>1 DEF QuoteTypeOK
  <2>3. ASSUME NEW v \in Venues
        PROVE  /\ quoteCreatorVault[l][q][v] \in [Routes -> Nat]
               /\ [quoteCreatorVault[l][q][v] EXCEPT ![r] = 0] \in [Routes -> Nat]
    <3>1. quoteCreatorVault[l] \in [Quotes -> [Venues -> [Routes -> Nat]]]
      BY <1>1 DEF QuoteTypeOK
    <3>2. quoteCreatorVault[l][q] \in [Venues -> [Routes -> Nat]]
      BY <3>1
    <3>3. quoteCreatorVault[l][q][v] \in [Routes -> Nat]
      BY <3>2
    <3> QED BY <3>3
  <2>4. PICK emptied :
          emptied = [v \in Venues |-> IF v \in venues
                                      THEN [quoteCreatorVault[l][q][v] EXCEPT ![r] = 0]
                                      ELSE quoteCreatorVault[l][q][v]]
    OBVIOUS
  <2>5. emptied \in [Venues -> [Routes -> Nat]]
    BY <2>3, <2>4
  <2>6. quoteCreatorVault' \in [Launches -> [Quotes -> [Venues -> [Routes -> Nat]]]]
    BY <1>1, <1>3, <2>4, <2>5 DEF QuoteTypeOK
  <2>7. overcommitted' \subseteq Launches \X Quotes
    BY <1>1, <1>2 DEF QuoteTypeOK
  <2> QED BY <1>1, <1>3, <2>2, <2>6, <2>7 DEF QuoteTypeOK
<1>5. ASSUME NEW m \in Launches, NEW p \in Quotes PROVE PoolStep(m, p)
  <2>1. CASE m # l \/ p # q
    <3>1. <<m, p>> # <<l, q>>
      BY <2>1
    <3>2. OvercommittedSame(m, p)
      BY <1>2, <3>1 DEF OvercommittedSame
    <3>3. SamePool(m, p)
      <4>1. /\ quotePool'[m][p] = quotePool[m][p]
            /\ quoteVault'[m][p] = quoteVault[m][p]
            /\ quoteFeeVault'[m][p] = quoteFeeVault[m][p]
        BY <1>1, <1>2, <2>1 DEF QuoteTypeOK
      <4> QED BY <1>3, <3>2, <4>1 DEF SamePool, StakesSame
    <3> QED BY <1>3, <3>3, SamePoolStep
  <2>2. CASE m = l /\ p = q
    <3>1. /\ quotePool'[l][q] = pool
          /\ quoteVault'[l][q] = quoteVault[l][q] + reward
          /\ quoteFeeVault'[l][q] = quoteFeeVault[l][q] + fee
      BY <1>1, <1>2 DEF QuoteTypeOK
    <3>2. <<l, q>> \notin overcommitted' =>
            <<l, q>> \notin overcommitted /\ ~ (SumTo(Recorded(l, q), NumOwners) > total)
      BY <1>2
    <3>3. QuoteCredited(l, q, reward, fee, total)
      BY <1>2, <1>3, <3>1, <3>2 DEF QuoteCredited, StakesSame
    <3>4. EmptyUntilOpened(l, q)'
      BY <1>3 DEF EmptyUntilOpened
    <3> QED BY <2>2, <3>3, <3>4 DEF PoolStep, QuoteKind
  <2> QED BY <2>1, <2>2
<1> QED BY <1>4, <1>5

\* What waits at a venue is a natural.
LEMMA WaitingNat ==
  ASSUME QuoteTypeOK, NEW l \in Launches, NEW q \in Quotes, NEW v \in Venues, NEW r \in Routes
  PROVE  Waiting(l, q, v, r) \in Nat
<1>1. quoteCreatorVault[l] \in [Quotes -> [Venues -> [Routes -> Nat]]]
  BY DEF QuoteTypeOK
<1>2. quoteCreatorVault[l][q] \in [Venues -> [Routes -> Nat]]
  BY <1>1
<1>3. quoteCreatorVault[l][q][v] \in [Routes -> Nat]
  BY <1>2
<1>4. quoteCreatorVault[l][q][v][r] \in Nat
  BY <1>3
<1> QED BY <1>4 DEF Waiting

\* The upgrade authority's claim moves protocol fees out of one pool: what it
\* leaves in the reserve is nothing, since the vault held all of it.
LEMMA ClaimQuoteProtocolFeesStep ==
  ASSUME QuoteInv, NEW l \in Launches, NEW q \in Quotes, ClaimQuoteProtocolFees(l, q)
  PROVE  QuoteTypeOK' /\ \A m \in Launches, p \in Quotes : PoolStep(m, p)
<1>1. QuoteTypeOK
  BY DEF QuoteInv
<1>2. PICK old, left, pool :
        /\ old = quotePool[l][q]
        /\ left = ReserveAfterSweep(quotePool[l][q], quoteFeeVault[l][q])
        /\ pool = [old EXCEPT !.protocolFeeReserve = left]
  OBVIOUS
<1>3. /\ old \in QuoteRewardPool /\ old.protocolFeeReserve \in Nat
      /\ quoteFeeVault[l][q] \in Nat /\ old.protocolFeeReserve <= quoteFeeVault[l][q]
      /\ quoteVault[l][q] \in Nat
  BY <1>1, <1>2, QuotePoolTypes DEF QuoteInv, QuoteLedger
<1>4. left = 0
  BY <1>2, <1>3 DEF ReserveAfterSweep
<1>5. pool \in QuoteRewardPool
  BY <1>2, <1>3, <1>4, RewardMathAssumption DEF QuoteRewardPool
<1>6. /\ quotePool' = [quotePool EXCEPT ![l][q] = pool]
      /\ quoteFeeVault' = [quoteFeeVault EXCEPT ![l][q] = 0]
      /\ <<l, q>> \in quotePools /\ quotePools' = quotePools /\ quoteStake' = quoteStake
      /\ quoteVault' = quoteVault /\ quoteCreatorVault' = quoteCreatorVault
      /\ quoteArrivals' = quoteArrivals /\ quoteEntries' = quoteEntries
      /\ overcommitted' = overcommitted
  BY <1>1, <1>2 DEF ClaimQuoteProtocolFees, QuoteTypeOK, historyVars
<1>7. QuoteTypeOK'
  BY <1>1, <1>5, <1>6 DEF QuoteTypeOK
<1>8. ASSUME NEW m \in Launches, NEW p \in Quotes PROVE PoolStep(m, p)
  <2>1. CASE m # l \/ p # q
    <3>1. SamePool(m, p)
      BY <1>1, <1>6, <2>1 DEF QuoteTypeOK, SamePool, StakesSame, OvercommittedSame
    <3> QED BY <1>6, <3>1, SamePoolStep
  <2>2. CASE m = l /\ p = q
    <3>1. quotePool'[l][q] = pool /\ quoteFeeVault'[l][q] = 0
      BY <1>1, <1>6 DEF QuoteTypeOK
    <3>2. pool.protocolFeeReserve = 0 /\ pool.accRewardPerWeight = old.accRewardPerWeight
          /\ pool.rewardReserve = old.rewardReserve
      BY <1>2, <1>3, <1>4 DEF QuoteRewardPool
    <3>3. QuoteMoved(l, q)
      <4>1. /\ quotePool'[l][q].accRewardPerWeight = quotePool[l][q].accRewardPerWeight
            /\ quotePool'[l][q].rewardReserve = quotePool[l][q].rewardReserve
            /\ quotePool'[l][q].protocolFeeReserve <= quoteFeeVault'[l][q]
        BY <1>2, <3>1, <3>2
      <4>2. quoteVault'[l][q] >= quoteVault[l][q]
        BY <1>3, <1>6
      <4> QED BY <1>6, <4>1, <4>2 DEF QuoteMoved, StakesSame, OvercommittedSame
    <3>4. EmptyUntilOpened(l, q)'
      BY <1>6 DEF EmptyUntilOpened
    <3> QED BY <2>2, <3>3, <3>4 DEF PoolStep, QuoteKind
  <2> QED BY <2>1, <2>2
<1> QED BY <1>7, <1>8

\* Tokens that arrive from outside move no book.
LEMMA QuoteWorldStep ==
  ASSUME QuoteInv, NEW l \in Launches, NEW q \in Quotes, QuoteWorld(l, q)
  PROVE  QuoteTypeOK' /\ \A m \in Launches, p \in Quotes : PoolStep(m, p)
<1>1. QuoteTypeOK
  BY DEF QuoteInv
<1>2. PICK amount \in QuoteAmounts :
        \/ \E v \in Venues, r \in FeeRoutes : QuoteFeesArrive(l, q, v, r, amount)
        \/ QuoteVaultReceives(l, q, amount)
        \/ QuoteFeeVaultReceives(l, q, amount)
  BY DEF QuoteWorld
<1>3. /\ amount \in Nat /\ quoteVault[l][q] \in Nat /\ quoteFeeVault[l][q] \in Nat
      /\ quoteVault[l][q] + amount \in Nat /\ quoteFeeVault[l][q] + amount \in Nat
      /\ quoteVault[l][q] + amount >= quoteVault[l][q]
      /\ quotePool[l][q].protocolFeeReserve <= quoteFeeVault[l][q]
      /\ quotePool[l][q].protocolFeeReserve \in Nat
  <2>1. amount \in Nat
    BY QuoteAssumption
  <2>2. /\ quoteVault[l][q] \in Nat /\ quoteFeeVault[l][q] \in Nat
        /\ quotePool[l][q].protocolFeeReserve \in Nat
    BY <1>1, QuotePoolTypes
  <2>3. quotePool[l][q].protocolFeeReserve <= quoteFeeVault[l][q]
    BY DEF QuoteInv, QuoteLedger
  <2> QED BY <2>1, <2>2, <2>3
<1>4. QuoteArrival
  BY <1>2 DEF QuoteFeesArrive, QuoteVaultReceives, QuoteFeeVaultReceives
<1>5. /\ quotePools' = quotePools /\ quotePool' = quotePool /\ quoteStake' = quoteStake
      /\ quoteEntries' = quoteEntries /\ overcommitted' = overcommitted
      /\ quoteArrivals' \in 0..MaxQuoteArrivals
  BY <1>1, <1>4, QuoteAssumption DEF QuoteArrival, historyVars, QuoteTypeOK
<1>6. /\ quoteVault' \in [Launches -> [Quotes -> Nat]]
      /\ quoteFeeVault' \in [Launches -> [Quotes -> Nat]]
      /\ \A m \in Launches, p \in Quotes :
           /\ quoteVault'[m][p] >= quoteVault[m][p]
           /\ quoteFeeVault'[m][p] >= quoteFeeVault[m][p]
  <2>1. \A m \in Launches, p \in Quotes : quoteVault[m][p] \in Nat /\ quoteFeeVault[m][p] \in Nat
    BY <1>1, QuotePoolTypes
  <2>2. CASE quoteVault' = quoteVault /\ quoteFeeVault' = quoteFeeVault
    BY <1>1, <2>1, <2>2 DEF QuoteTypeOK
  <2>3. CASE QuoteVaultReceives(l, q, amount)
    <3>1. PICK sum : sum = quoteVault[l][q] + amount
      OBVIOUS
    <3>2. /\ quoteVault' = [quoteVault EXCEPT ![l][q] = sum]
          /\ quoteFeeVault' = quoteFeeVault
      BY <1>1, <2>3, <3>1 DEF QuoteVaultReceives, QuoteTypeOK
    <3>3. sum \in Nat /\ sum >= quoteVault[l][q]
      BY <1>3, <3>1
    <3> QED BY <1>1, <2>1, <3>2, <3>3 DEF QuoteTypeOK
  <2>4. CASE QuoteFeeVaultReceives(l, q, amount)
    <3>1. PICK sum : sum = quoteFeeVault[l][q] + amount
      OBVIOUS
    <3>2. /\ quoteFeeVault' = [quoteFeeVault EXCEPT ![l][q] = sum]
          /\ quoteVault' = quoteVault
      BY <1>1, <2>4, <3>1 DEF QuoteFeeVaultReceives, QuoteTypeOK
    <3>3. sum \in Nat /\ sum >= quoteFeeVault[l][q]
      BY <1>3, <3>1
    <3> QED BY <1>1, <2>1, <3>2, <3>3 DEF QuoteTypeOK
  <2>5. CASE \E v \in Venues, r \in FeeRoutes : QuoteFeesArrive(l, q, v, r, amount)
    BY <2>2, <2>5 DEF QuoteFeesArrive
  <2> QED BY <1>2, <2>3, <2>4, <2>5
<1>7. quoteCreatorVault' \in [Launches -> [Quotes -> [Venues -> [Routes -> Nat]]]]
  <2>1. CASE quoteCreatorVault' = quoteCreatorVault
    BY <1>1, <2>1 DEF QuoteTypeOK
  <2>2. CASE \E v \in Venues, r \in FeeRoutes : QuoteFeesArrive(l, q, v, r, amount)
    <3>1. PICK v \in Venues, r \in FeeRoutes : QuoteFeesArrive(l, q, v, r, amount)
      BY <2>2
    <3>2. r \in Routes
      BY CreatorVaultsAssumption
    <3>3. PICK sum : sum = quoteCreatorVault[l][q][v][r] + amount
      OBVIOUS
    <3>4. sum \in Nat
      BY <1>1, <1>3, <3>2, <3>3, WaitingNat DEF Waiting
    <3>5. quoteCreatorVault' = [quoteCreatorVault EXCEPT ![l][q][v][r] = sum]
      BY <1>1, <3>1, <3>3 DEF QuoteFeesArrive, QuoteTypeOK
    <3>6. PICK venues : venues = [quoteCreatorVault[l][q] EXCEPT ![v][r] = sum]
      OBVIOUS
    <3>7. /\ quoteCreatorVault \in [Launches -> [Quotes -> [Venues -> [Routes -> Nat]]]]
          /\ quoteCreatorVault[l] \in [Quotes -> [Venues -> [Routes -> Nat]]]
          /\ quoteCreatorVault[l][q] \in [Venues -> [Routes -> Nat]]
      BY <1>1 DEF QuoteTypeOK
    <3>8. venues \in [Venues -> [Routes -> Nat]]
      BY <3>2, <3>4, <3>6, <3>7
    <3>9. quoteCreatorVault' = [quoteCreatorVault EXCEPT ![l][q] = venues]
      BY <3>5, <3>6, <3>7
    <3> QED BY <3>7, <3>8, <3>9
  <2> QED BY <1>2, <2>1, <2>2 DEF QuoteVaultReceives, QuoteFeeVaultReceives
<1>8. QuoteTypeOK'
  BY <1>1, <1>5, <1>6, <1>7 DEF QuoteTypeOK
<1>9. ASSUME NEW m \in Launches, NEW p \in Quotes PROVE PoolStep(m, p)
  <2>1. /\ quotePool[m][p].protocolFeeReserve \in Nat
        /\ quoteFeeVault[m][p] \in Nat /\ quoteFeeVault'[m][p] \in Nat
        /\ quotePool[m][p].protocolFeeReserve <= quoteFeeVault[m][p]
        /\ quoteFeeVault'[m][p] >= quoteFeeVault[m][p]
    BY <1>1, <1>6, QuotePoolTypes DEF QuoteInv, QuoteLedger
  <2>2. quotePool[m][p].protocolFeeReserve <= quoteFeeVault'[m][p]
    BY <2>1
  <2>3. QuoteMoved(m, p)
    BY <1>5, <1>6, <2>2 DEF QuoteMoved, StakesSame, OvercommittedSame
  <2>4. EmptyUntilOpened(m, p)'
    BY <1>5 DEF QuoteInv, EmptyUntilOpened
  <2> QED BY <2>3, <2>4 DEF PoolStep, QuoteKind
<1> QED BY <1>8, <1>9

\* Each claim of quote fees at each venue is a claim of a natural amount.
LEMMA QuoteFeeStepStep ==
  ASSUME TypeOK, QuoteInv, NEW l \in Launches, NEW q \in Quotes, QuoteFeeStep(l, q)
  PROVE  QuoteTypeOK' /\ \A m \in Launches, p \in Quotes : PoolStep(m, p)
<1>1. QuoteTypeOK
  BY DEF QuoteInv
<1>2. "direct" \in Routes /\ "shared" \in Routes /\ "pump" \in Venues /\ "amm" \in Venues
  BY DEF Routes, Venues
<1>3. \A v \in Venues, r \in Routes : Waiting(l, q, v, r) \in Nat
  BY <1>1, WaitingNat
<1>4. CASE ClaimPumpQuoteCreatorFees(l, q)
  BY <1>2, <1>3, <1>4, ClaimQuoteFeesStep DEF ClaimPumpQuoteCreatorFees
<1>5. CASE ClaimPumpSharedQuoteCreatorFees(l, q)
  <2>1. FeeOwnerPart(Waiting(l, q, "pump", "shared")) \in Nat
    BY <1>2, <1>3, FeeOwnerPartNat
  <2> QED BY <1>2, <1>5, <2>1, ClaimQuoteFeesStep DEF ClaimPumpSharedQuoteCreatorFees
<1>6. CASE ClaimPumpSwapQuoteCreatorFees(l, q)
  BY <1>2, <1>3, <1>6, ClaimQuoteFeesStep DEF ClaimPumpSwapQuoteCreatorFees
<1>7. CASE ClaimPumpSwapSharedQuoteCreatorFees(l, q)
  <2>1. Waiting(l, q, "amm", "shared") + Waiting(l, q, "pump", "shared") \in Nat
    BY <1>2, <1>3
  <2>2. FeeOwnerPart(Waiting(l, q, "amm", "shared") + Waiting(l, q, "pump", "shared")) \in Nat
    BY <2>1, FeeOwnerPartNat
  <2> QED BY <1>2, <1>7, <2>2, ClaimQuoteFeesStep DEF ClaimPumpSwapSharedQuoteCreatorFees
<1>8. CASE ClaimQuoteProtocolFees(l, q)
  BY <1>8, ClaimQuoteProtocolFeesStep
<1> QED BY <1>4, <1>5, <1>6, <1>7, <1>8 DEF QuoteFeeStep

\* Every step of the whole.
LEMMA QuoteStepKinds ==
  ASSUME TypeOK, QuoteInv, [QuoteNext]_allVars
  PROVE  QuoteTypeOK' /\ \A m \in Launches, p \in Quotes : PoolStep(m, p)
<1>1. CASE UNCHANGED quoteVars
  <2>1. /\ quotePools' = quotePools /\ quotePool' = quotePool /\ quoteStake' = quoteStake
        /\ quoteVault' = quoteVault /\ quoteFeeVault' = quoteFeeVault
        /\ quoteCreatorVault' = quoteCreatorVault /\ quoteArrivals' = quoteArrivals
        /\ quoteEntries' = quoteEntries /\ overcommitted' = overcommitted
    BY <1>1 DEF quoteVars, historyVars
  <2>2. QuoteTypeOK'
    BY <2>1 DEF QuoteInv, QuoteTypeOK
  <2>3. ASSUME NEW m \in Launches, NEW p \in Quotes PROVE PoolStep(m, p)
    <3>1. SamePool(m, p)
      BY <2>1 DEF SamePool, StakesSame, OvercommittedSame
    <3> QED BY <2>1, <3>1, SamePoolStep
  <2> QED BY <2>2, <2>3
<1>2. ASSUME NEW l \in Launches, NEW q \in Quotes, QuoteStep(l, q)
      PROVE  QuoteTypeOK' /\ \A m \in Launches, p \in Quotes : PoolStep(m, p)
  BY <1>2, InitializeQuoteRewardsStep, InitializeQuoteStakeStep, ClaimQuoteRewardsStep,
     QuoteFeeStepStep, QuoteWorldStep DEF QuoteStep
<1> QED BY <1>1, <1>2 DEF QuoteNext, allVars

-----------------------------------------------------------------------------
(***************************************************************************)
(* The invariant.                                                          *)
(***************************************************************************)
\* Before any pool exists nothing is recorded, owed or reserved.
LEMMA QuoteInitInv == QuoteInit => QuoteInv
<1> SUFFICES ASSUME QuoteInit PROVE QuoteInv
  OBVIOUS
<1>1. EmptyPool \in QuoteRewardPool /\ EmptyQuoteStake \in QuoteStakeState
  BY RewardMathAssumption DEF EmptyPool, QuoteRewardPool, EmptyQuoteStake, QuoteStakeState
<1>2. QuoteTypeOK
  BY <1>1, QuoteAssumption DEF QuoteInit, PerPool, QuoteTypeOK
<1>3. ASSUME NEW m \in Launches, NEW p \in Quotes
      PROVE  /\ quotePool[m][p] = EmptyPool /\ quoteVault[m][p] = 0 /\ quoteFeeVault[m][p] = 0
             /\ quoteEntries[m][p] = 0
             /\ \A o \in Owners : quoteStake[m][o][p] = EmptyQuoteStake
  BY DEF QuoteInit, PerPool
<1>4. ASSUME NEW m \in Launches, NEW p \in Quotes PROVE QuoteLedger(m, p)
  <2>1. ASSUME NEW o \in Owners PROVE PendingQuoteReward(quoteStake[m][o][p], quotePool[m][p]) = 0
    BY <1>3, RewardDebtZero DEF PendingQuoteReward, EmptyPool, EmptyQuoteStake
  <2>2. SumTo(QuoteOwed(m, p), NumOwners) = 0
    <3>1. PICK ow, n : ow = QuoteOwed(m, p) /\ n = NumOwners
      OBVIOUS
    <3>2. n \in Nat /\ ow \in [1..n -> Int]
      BY <1>2, <3>1, QuoteLedgerTypes, StakingAssumption
    <3>3. \A o \in 1..n : ow[o] = 0
      <4>1. 0 * 0 - Precision * 0 = 0
        BY RewardMathAssumption
      <4> QED BY <1>3, <3>1, <4>1 DEF QuoteOwed, EmptyPool, EmptyQuoteStake
    <3> QED BY <3>1, <3>2, <3>3, SumToZero
  <2>3. Precision * 0 + (Precision - 1) * 0 = 0
    BY RewardMathAssumption
  <2> QED BY <1>3, <2>1, <2>2, <2>3 DEF QuoteLedger, OwedIsReserved, EmptyPool
<1> QED BY <1>2, <1>3, <1>4 DEF QuoteInv

\* Every step keeps the invariant.
LEMMA QuoteInvStep == TypeOK /\ QuoteInv /\ [QuoteNext]_allVars => QuoteInv'
<1> SUFFICES ASSUME TypeOK, QuoteInv, [QuoteNext]_allVars PROVE QuoteInv'
  OBVIOUS
<1>1. QuoteTypeOK' /\ \A m \in Launches, p \in Quotes : PoolStep(m, p)
  BY QuoteStepKinds
<1>2. ASSUME NEW m \in Launches, NEW p \in Quotes PROVE QuoteLedger(m, p)'
  BY <1>1, KindKeeps DEF QuoteInv, PoolStep
<1>3. \A m \in Launches, p \in Quotes : EmptyUntilOpened(m, p)'
  BY <1>1 DEF PoolStep
<1> QED BY <1>1, <1>2, <1>3 DEF QuoteInv, EmptyUntilOpened

-----------------------------------------------------------------------------
(***************************************************************************)
(* The refinement: each kind of step of a pool is one of its ledger.       *)
(***************************************************************************)
\* What moves tokens only rests the ledger.
LEMMA MovedRests ==
  ASSUME NEW m \in Launches, NEW p \in Quotes, QuoteMoved(m, p)
  PROVE  Pools!Rest(<<m, p>>)
<1>1. /\ Recorded(m, p)' = Recorded(m, p) /\ QuoteOwed(m, p)' = QuoteOwed(m, p)
      /\ quotePool'[m][p].rewardReserve = quotePool[m][p].rewardReserve
  BY DEF QuoteMoved, StakesSame, Recorded, QuoteOwed
<1> QED BY <1>1 DEF Pools!Rest

\* A credit is shared out by recorded weight, over the launch's total.
LEMMA QuoteCreditIsShared ==
  ASSUME QuoteTypeOK, NEW m \in Launches, NEW p \in Quotes,
         NEW reward \in Nat, NEW fee \in Nat, NEW total \in Nat \ {0},
         QuoteCredited(m, p, reward, fee, total)
  PROVE  Pools!PoolCredit(<<m, p>>)
<1>1. PICK inc, res : inc = RewardIncrement(reward, total) /\ res = quotePool[m][p].rewardReserve
  OBVIOUS
<1>2. /\ reward > 0 /\ inc > 0
      /\ Recorded(m, p)' = Recorded(m, p)
      /\ \A o \in Owners : QuoteOwed(m, p)'[o] = QuoteOwed(m, p)[o] + inc * Recorded(m, p)[o]
  BY <1>1, QuoteCreditParts
<1>3. quotePool'[m][p].rewardReserve - quotePool[m][p].rewardReserve = reward
  <2>1. res \in Nat /\ quotePool'[m][p].rewardReserve = res + reward
    BY <1>1, QuotePoolTypes DEF QuoteCredited
  <2> QED BY <1>1, <2>1
<1>4. total = launch[m].totalWeightedStake
  BY DEF QuoteCredited
<1>5. (Precision * reward) \div total = inc /\ total > 0
  BY <1>1, IncrementQuotient
<1> QED BY <1>2, <1>3, <1>4, <1>5 DEF Pools!PoolCredit, Pools!CreditOver, Pools!Members, Owners

\* A quote stake brought up to date is paid all the whole tokens it is owed.
LEMMA QuoteSettlementPaysOut ==
  ASSUME QuoteTypeOK, QuoteTypeOK', NEW m \in Launches, NEW p \in Quotes, NEW o \in Owners,
         QuoteSettled(m, p, o)
  PROVE  Pools!Settle(<<m, p>>, o)
<1>1. PICK paid, res : /\ paid = PendingQuoteReward(quoteStake[m][o][p], quotePool[m][p])
                       /\ res = quotePool[m][p].rewardReserve
  OBVIOUS
<1>2. /\ quotePool'[m][p].rewardReserve = quotePool[m][p].rewardReserve - paid
      /\ paid \in 0..quotePool[m][p].rewardReserve
  <2>1. quotePool'[m][p].rewardReserve = res - paid
    BY <1>1 DEF QuoteSettled
  <2>2. quotePool'[m][p].rewardReserve \in Nat
    <3>1. quotePool'[m][p] \in QuoteRewardPool
      BY DEF QuoteTypeOK
    <3> QED BY <3>1, RewardMathAssumption DEF QuoteRewardPool
  <2>3. res \in Nat /\ paid \in Nat
    BY <1>1, QuotePoolTypes, QuoteSettlementParts
  <2> QED BY <1>1, <2>1, <2>2, <2>3
<1>3. /\ Precision * paid <= QuoteOwed(m, p)[o]
      /\ QuoteOwed(m, p)[o] < Precision * paid + Precision
      /\ QuoteOwed(m, p)'[o] \in 0..(Precision - 1)
      /\ Recorded(m, p)'[o] = Recorded(m, p)[o]
           => QuoteOwed(m, p)'[o] = QuoteOwed(m, p)[o] - Precision * paid
      /\ \A x \in Owners \ {o} : /\ Recorded(m, p)'[x] = Recorded(m, p)[x]
                                 /\ QuoteOwed(m, p)'[x] = QuoteOwed(m, p)[x]
  BY <1>1, QuoteSettlementParts
<1> QED BY <1>2, <1>3 DEF Pools!Settle, Pools!Members

\* Every step of the program is a step of every pool's ledger.
LEMMA PoolSimulation ==
  ASSUME TypeOK, QuoteInv, [QuoteNext]_allVars, NEW m \in Launches, NEW p \in Quotes
  PROVE  Pools!PoolStep(<<m, p>>)
<1>1. QuoteTypeOK /\ QuoteTypeOK' /\ QuoteKind(m, p)
  BY QuoteStepKinds DEF QuoteInv, PoolStep
<1>2. CASE QuoteMoved(m, p)
  BY <1>2, MovedRests DEF Pools!PoolStep
<1>3. ASSUME NEW reward \in Nat, NEW fee \in Nat, NEW total \in Nat \ {0},
             QuoteCredited(m, p, reward, fee, total)
      PROVE  Pools!PoolStep(<<m, p>>)
  BY <1>1, <1>3, QuoteCreditIsShared DEF Pools!PoolStep
<1>4. ASSUME NEW o \in Owners, QuoteSettled(m, p, o) PROVE Pools!PoolStep(<<m, p>>)
  BY <1>1, <1>4, QuoteSettlementPaysOut DEF Pools!PoolStep, Pools!Members
<1> QED BY <1>1, <1>2, <1>3, <1>4 DEF QuoteKind

-----------------------------------------------------------------------------
(***************************************************************************)
(* The theorems.                                                           *)
(***************************************************************************)
\* The quote side never disturbs the SOL side: what holds of every behaviour
\* of Staking, its conservation laws included, holds of the whole program.
THEOREM QuoteIncludesStaking == QuoteSpec => Spec
<1>1. QuoteInit => Init
  BY DEF QuoteInit
<1>2. [QuoteNext]_allVars => [Next]_vars
  <2> SUFFICES ASSUME [QuoteNext]_allVars PROVE [Next]_vars
    OBVIOUS
  <2>1. CASE QuoteNext
    BY <2>1 DEF QuoteNext
  <2>2. CASE UNCHANGED allVars
    BY <2>2 DEF allVars
  <2> QED BY <2>1, <2>2
<1> QED BY <1>1, <1>2, PTL DEF QuoteSpec, Spec

\* The books of every quote pool are in order in every behaviour.
THEOREM QuoteLedgerCorrect == QuoteSpec => []QuoteInv
<1>1. QuoteInit => QuoteInv
  BY QuoteInitInv
<1>2. TypeOK /\ QuoteInv /\ [QuoteNext]_allVars => QuoteInv'
  BY QuoteInvStep
<1>3. QuoteSpec => []TypeOK
  BY QuoteIncludesStaking, TypeCorrect, PTL
<1> QED BY <1>1, <1>2, <1>3, PTL DEF QuoteSpec

\* The fields of the quote accounts keep their widths.
THEOREM QuoteTypeCorrect == QuoteSpec => []QuoteTypeOK
<1>1. QuoteInv => QuoteTypeOK
  BY DEF QuoteInv
<1> QED BY <1>1, QuoteLedgerCorrect, PTL

\* The reward vault of a pool always holds its reward_reserve.
THEOREM QuoteReserveAlwaysBacked == QuoteSpec => []QuoteReserveBacked
<1>1. QuoteInv => QuoteReserveBacked
  BY DEF QuoteInv, QuoteLedger, QuoteReserveBacked
<1> QED BY <1>1, QuoteLedgerCorrect, PTL

\* The protocol fee vault of a pool always holds its protocol_fee_reserve.
THEOREM QuoteFeeReserveAlwaysBacked == QuoteSpec => []QuoteFeeReserveBacked
<1>1. QuoteInv => QuoteFeeReserveBacked
  BY DEF QuoteInv, QuoteLedger, QuoteFeeReserveBacked
<1> QED BY <1>1, QuoteLedgerCorrect, PTL

\* pending_quote_reward never underflows, however stale the recorded weight.
THEOREM QuoteDebtAlwaysCovered == QuoteSpec => []QuoteDebtCovered
<1>1. QuoteInv => QuoteDebtCovered
  BY DEF QuoteInv, QuoteLedger, QuoteDebtCovered
<1> QED BY <1>1, QuoteLedgerCorrect, PTL

\* A pool never credited over less weight than is recorded in it can pay what
\* its quote stakes are owed.
THEOREM QuoteOwedAlwaysBounded == QuoteSpec => []QuoteOwedBounded
<1>1. QuoteInv => QuoteOwedBounded
  BY DEF QuoteInv, QuoteLedger, QuoteOwedBounded
<1> QED BY <1>1, QuoteLedgerCorrect, PTL

\* What is pending on a quote stake is an integer.
LEMMA PendingQuoteInt ==
  ASSUME QuoteTypeOK, NEW l \in Launches, NEW o \in Owners, NEW q \in Quotes
  PROVE  PendingQuoteReward(quoteStake[l][o][q], quotePool[l][q]) \in Int
<1>1. PICK w, d, acc, x : /\ w = quoteStake[l][o][q].recordedWeight
                          /\ d = quoteStake[l][o][q].rewardDebt
                          /\ acc = quotePool[l][q].accRewardPerWeight
                          /\ x = RewardDebt(w, acc)
  OBVIOUS
<1>2. w \in Nat /\ d \in Nat /\ acc \in Nat
  BY <1>1, QuoteStakeTypes, QuotePoolTypes
<1>3. x \in Nat
  BY <1>1, <1>2, RewardDebtNat
<1>4. x - d \in Int
  BY <1>2, <1>3
<1> QED BY <1>1, <1>4 DEF PendingQuoteReward

\* Whenever a quote stake changes, exactly what was pending on it leaves the
\* reserve and the vault.
THEOREM QuoteAlwaysSettledInFull == QuoteSpec => QuoteSettledInFull
<1>1. TypeOK /\ QuoteInv /\ [QuoteNext]_allVars => [QuoteSettledInFullStep]_allVars
  <2> SUFFICES ASSUME TypeOK, QuoteInv, [QuoteNext]_allVars,
                      NEW l \in Launches, NEW o \in Owners, NEW q \in Quotes,
                      quoteStake'[l][o][q] # quoteStake[l][o][q]
               PROVE  /\ quotePool[l][q].rewardReserve - quotePool'[l][q].rewardReserve
                           = PendingQuoteReward(quoteStake[l][o][q], quotePool[l][q])
                      /\ quoteVault[l][q] - quoteVault'[l][q]
                           = PendingQuoteReward(quoteStake[l][o][q], quotePool[l][q])
    BY DEF QuoteSettledInFullStep
  <2>1. QuoteKind(l, q)
    BY QuoteStepKinds DEF PoolStep
  <2>2. PICK x \in Owners : QuoteSettled(l, q, x)
    BY <2>1 DEF QuoteKind, QuoteMoved, QuoteCredited, StakesSame
  <2>3. x = o
    BY <2>2 DEF QuoteSettled, SettledStakesSame
  <2>4. PICK res, vault, due : /\ res = quotePool[l][q].rewardReserve
                               /\ vault = quoteVault[l][q]
                               /\ due = PendingQuoteReward(quoteStake[l][o][q], quotePool[l][q])
    OBVIOUS
  <2>5. res \in Int /\ vault \in Int /\ due \in Int
    BY <2>4, QuotePoolTypes, PendingQuoteInt DEF QuoteInv
  <2>6. quotePool'[l][q].rewardReserve = res - due /\ quoteVault'[l][q] = vault - due
    BY <2>2, <2>3, <2>4 DEF QuoteSettled
  <2>7. res - (res - due) = due /\ vault - (vault - due) = due
    BY <2>5
  <2> QED BY <2>4, <2>6, <2>7
<1>2. QuoteSpec => []TypeOK
  BY QuoteIncludesStaking, TypeCorrect, PTL
<1> QED BY <1>1, <1>2, QuoteLedgerCorrect, PTL DEF QuoteSpec, QuoteSettledInFull

\* No step lowers what is pending on a quote stake it does not touch.
THEOREM QuotePendingNeverDiluted == QuoteSpec => QuoteNeverDiluted
<1>1. TypeOK /\ QuoteInv /\ [QuoteNext]_allVars => [QuoteNeverDilutedStep]_allVars
  <2> SUFFICES ASSUME TypeOK, QuoteInv, [QuoteNext]_allVars,
                      NEW l \in Launches, NEW o \in Owners, NEW q \in Quotes
               PROVE  PendingQuoteReward(quoteStake[l][o][q], quotePool'[l][q])
                        >= PendingQuoteReward(quoteStake[l][o][q], quotePool[l][q])
    BY DEF QuoteNeverDilutedStep
  <2>1. PICK w, d, acc, acc2 :
          /\ w = quoteStake[l][o][q].recordedWeight /\ d = quoteStake[l][o][q].rewardDebt
          /\ acc = quotePool[l][q].accRewardPerWeight
          /\ acc2 = quotePool'[l][q].accRewardPerWeight
    OBVIOUS
  <2>2. w \in Nat /\ d \in Nat /\ acc \in Nat
    BY <2>1, QuoteStakeTypes, QuotePoolTypes DEF QuoteInv
  <2>3. acc2 \in Nat /\ acc <= acc2
    <3>1. QuoteKind(l, q)
      BY QuoteStepKinds DEF PoolStep
    <3>2. CASE QuoteMoved(l, q) \/ \E x \in Owners : QuoteSettled(l, q, x)
      <4>1. acc2 = acc
        BY <2>1, <3>2 DEF QuoteMoved, QuoteSettled
      <4> QED BY <2>2, <4>1
    <3>3. ASSUME NEW reward \in Nat, NEW fee \in Nat, NEW total \in Nat \ {0},
                 QuoteCredited(l, q, reward, fee, total)
          PROVE  acc2 \in Nat /\ acc <= acc2
      <4>1. PICK inc : inc = RewardIncrement(reward, total) /\ inc \in Nat
        BY RewardIncrementBounds
      <4>2. acc2 = acc + inc
        BY <2>1, <3>3, <4>1 DEF QuoteCredited
      <4> QED BY <2>2, <4>1, <4>2
    <3> QED BY <3>1, <3>2, <3>3 DEF QuoteKind
  <2>4. PICK x, y : x = RewardDebt(w, acc) /\ y = RewardDebt(w, acc2)
    OBVIOUS
  <2>5. x \in Nat /\ y \in Nat /\ x <= y
    BY <2>2, <2>3, <2>4, RewardDebtNat, RewardDebtMonotone
  <2>6. y - d >= x - d
    BY <2>2, <2>5
  <2> QED BY <2>1, <2>4, <2>6 DEF PendingQuoteReward
<1>2. QuoteSpec => []TypeOK
  BY QuoteIncludesStaking, TypeCorrect, PTL
<1> QED BY <1>1, <1>2, QuoteLedgerCorrect, PTL DEF QuoteSpec, QuoteNeverDiluted

\* Accumulator, recorded weights, debts and reserve of every pool implement the
\* pool ledger: what initialize_quote_stake, claim_rewards and the four claims of
\* quote fees do to it is a settlement or a credit, and nothing else is anything.
THEOREM QuoteImplementsPoolLedger == QuoteSpec => ImplementsPoolLedger
<1>1. QuoteInit => Pools!Init
  <2> SUFFICES ASSUME QuoteInit PROVE Pools!Init
    OBVIOUS
  <2>1. ASSUME NEW m \in Launches, NEW p \in Quotes
        PROVE  /\ Recorded(m, p) = [o \in Owners |-> 0]
               /\ QuoteOwed(m, p) = [o \in Owners |-> 0]
               /\ quotePool[m][p].rewardReserve = 0
    <3>1. 0 * 0 - Precision * 0 = 0
      BY RewardMathAssumption
    <3> QED BY <3>1 DEF QuoteInit, PerPool, EmptyPool, EmptyQuoteStake, Recorded, QuoteOwed
  <2> QED BY <2>1 DEF Pools!Init, Pools!Members
<1>2. TypeOK /\ QuoteInv /\ [QuoteNext]_allVars => Pools!PoolNext
  <2> SUFFICES ASSUME TypeOK, QuoteInv, [QuoteNext]_allVars, NEW lq \in Launches \X Quotes
               PROVE  Pools!PoolStep(lq)
    BY DEF Pools!PoolNext
  <2>1. PICK m \in Launches, p \in Quotes : lq = <<m, p>>
    OBVIOUS
  <2> QED BY <2>1, PoolSimulation
<1>3. QuoteSpec => []TypeOK
  BY QuoteIncludesStaking, TypeCorrect, PTL
<1> QED BY <1>1, <1>2, <1>3, QuoteLedgerCorrect, PTL
        DEF QuoteSpec, ImplementsPoolLedger, Pools!PoolSpec
=============================================================================
