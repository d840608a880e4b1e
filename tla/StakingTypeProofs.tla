--------------------------- MODULE StakingTypeProofs ---------------------------
(***************************************************************************)
(* Type correctness of Staking: every field of every account keeps its     *)
(* width.  It is inductive because the program's checked operations are    *)
(* guards of the actions.                                                  *)
(*                                                                         *)
(* Before it, what the arithmetic of rewards.rs guarantees, for every      *)
(* precision and every amount: how far a division may round, that rounding *)
(* respects order, and that the split of a fee loses nothing.              *)
(***************************************************************************)
EXTENDS Staking, TLAPS

\* The quotient by a positive number, and how far it rounds down.
LEMMA DivBounds ==
  ASSUME NEW a \in Nat, NEW b \in Nat \ {0}
  PROVE  /\ a \div b \in Nat
         /\ b * (a \div b) <= a
         /\ a < b * (a \div b) + b
  OBVIOUS

\* Products of naturals are naturals.
LEMMA ProductNat ==
  ASSUME NEW a \in Nat, NEW b \in Nat
  PROVE  a * b \in Nat
  OBVIOUS

\* Multiplication by a natural respects order.
LEMMA ProductMonotone ==
  ASSUME NEW c \in Nat, NEW a \in Int, NEW b \in Int, a <= b
  PROVE  c * a <= c * b
  OBVIOUS

\* A common positive factor can be dropped from a strict order.
LEMMA ProductCancel ==
  ASSUME NEW c \in Nat \ {0}, NEW a \in Int, NEW b \in Int, c * a < c * b
  PROVE  a < b
  OBVIOUS

\* Division by a positive number respects order.
LEMMA DivMonotone ==
  ASSUME NEW a \in Nat, NEW c \in Nat, NEW b \in Nat \ {0}, a <= c
  PROVE  a \div b <= c \div b
  OBVIOUS

\* A quotient is at most the dividend.
LEMMA DivAtMost ==
  ASSUME NEW a \in Nat, NEW b \in Nat \ {0}
  PROVE  a \div b <= a
  OBVIOUS

-----------------------------------------------------------------------------
\* A debt is within one lamport below the exact accrual.
THEOREM RewardDebtBounds ==
  ASSUME NEW weight \in Nat, NEW acc \in Nat
  PROVE  /\ RewardDebt(weight, acc) \in Nat
         /\ RewardDebt(weight, acc) <= weight * acc
         /\ Precision * RewardDebt(weight, acc) <= weight * acc
         /\ weight * acc <= Precision * RewardDebt(weight, acc) + (Precision - 1)
<1> DEFINE a == weight * acc
           d == a \div Precision
           p == Precision * d
<1>1. a \in Nat /\ Precision \in Nat \ {0}
  BY ProductNat, RewardMathAssumption
<1>2. d \in Nat /\ d <= a /\ p <= a /\ a < p + Precision
  <2> HIDE DEF a
  <2> QED BY <1>1, DivBounds, DivAtMost
<1>3. p \in Nat
  <2> HIDE DEF d
  <2> QED BY <1>1, <1>2, ProductNat
<1>4. a <= p + (Precision - 1)
  <2> HIDE DEF a, p, d
  <2> QED BY <1>1, <1>2, <1>3
<1> QED BY <1>2, <1>4 DEF RewardDebt

\* A debt is a natural number.
LEMMA RewardDebtNat ==
  ASSUME NEW weight \in Nat, NEW acc \in Nat
  PROVE  RewardDebt(weight, acc) \in Nat
  BY RewardDebtBounds

\* A weight accrues no less as the accumulator grows.
THEOREM RewardDebtMonotone ==
  ASSUME NEW weight \in Nat, NEW a \in Nat, NEW b \in Nat, a <= b
  PROVE  RewardDebt(weight, a) <= RewardDebt(weight, b)
<1>1. weight * a \in Nat /\ weight * b \in Nat /\ weight * a <= weight * b
  BY ProductNat, ProductMonotone
<1> QED BY <1>1, DivMonotone, RewardMathAssumption DEF RewardDebt

\* A weight of zero accrues nothing.
THEOREM RewardDebtZero ==
  ASSUME NEW acc \in Nat
  PROVE  RewardDebt(0, acc) = 0
  BY RewardMathAssumption DEF RewardDebt

\* What an amount adds to the accumulator, summed over all weight, is at most
\* the amount: apply_rewards rounds against the positions.
THEOREM RewardIncrementBounds ==
  ASSUME NEW amount \in Nat, NEW total \in Nat \ {0}
  PROVE  /\ RewardIncrement(amount, total) \in Nat
         /\ RewardIncrement(amount, total) * total <= Precision * amount
<1> DEFINE a == amount * Precision
           d == a \div total
<1>1. a \in Nat /\ a = Precision * amount
  BY ProductNat, RewardMathAssumption
<1>2. d \in Nat /\ total * d <= a
  <2> HIDE DEF a
  <2> QED BY <1>1, DivBounds
<1>3. d * total = total * d
  <2> HIDE DEF d
  <2> QED BY <1>2
<1> QED BY <1>1, <1>2, <1>3 DEF RewardIncrement

\* An increment is the amount, in 1/Precision units, divided by the total.
LEMMA IncrementQuotient ==
  ASSUME NEW amount \in Nat, NEW total \in Nat \ {0}
  PROVE  (Precision * amount) \div total = RewardIncrement(amount, total) /\ total > 0
<1>1. Precision * amount = amount * Precision
  BY RewardMathAssumption
<1> QED BY <1>1 DEF RewardIncrement

\* A positive increment shares out a positive amount, and no more than it.
LEMMA IncrementParts ==
  ASSUME NEW amount \in Nat, NEW total \in Nat \ {0},
         NEW inc, inc = RewardIncrement(amount, total), inc > 0
  PROVE  amount > 0 /\ inc \in Nat /\ inc * total <= Precision * amount
<1>1. inc \in Nat /\ inc * total <= Precision * amount
  BY RewardIncrementBounds
<1>2. amount > 0
  <2>1. SUFFICES ASSUME amount = 0 PROVE FALSE
    OBVIOUS
  <2>2. inc * total <= 0
    BY <1>1, <2>1, RewardMathAssumption
  <2>3. inc <= inc * total
    BY <1>1
  <2> QED BY <1>1, <2>2, <2>3
<1> QED BY <1>1, <1>2

\* What one settled position, of either side, is owed before and after, in 1/Precision lamports.
LEMMA SettledParts ==
  ASSUME NEW P \in Nat \ {0}, NEW acc \in Nat, NEW w \in Nat, NEW d \in Nat, NEW w2 \in Nat,
         NEW floor \in Nat, NEW floor2 \in Nat, NEW paid \in Nat,
         paid = floor - d,
         P * floor <= w * acc, w * acc <= P * floor + (P - 1),
         P * floor2 <= w2 * acc, w2 * acc <= P * floor2 + (P - 1),
         w2 = w => floor2 = floor
  PROVE  /\ P * paid <= w * acc - P * d
         /\ w * acc - P * d < P * paid + P
         /\ w2 * acc - P * floor2 \in 0..(P - 1)
         /\ w2 = w => w2 * acc - P * floor2 = (w * acc - P * d) - P * paid
<1>1. PICK x, y, pd, pf, pf2 : /\ x = w * acc /\ y = w2 * acc
                               /\ pd = P * d /\ pf = P * floor /\ pf2 = P * floor2
  OBVIOUS
<1>2. x \in Nat /\ y \in Nat /\ pd \in Nat /\ pf \in Nat /\ pf2 \in Nat
  BY <1>1, ProductNat
<1>3. P * paid = pf - pd
  BY <1>1
<1>4. pf <= x /\ x <= pf + (P - 1) /\ pf2 <= y /\ y <= pf2 + (P - 1)
  BY <1>1
<1>5. w2 = w => x = y /\ pf = pf2
  BY <1>1
<1>6. /\ pf - pd <= x - pd /\ x - pd < pf - pd + P
      /\ y - pf2 \in 0..(P - 1)
      /\ w2 = w => y - pf2 = (x - pd) - (pf - pd)
  BY <1>2, <1>4, <1>5
<1> QED BY <1>1, <1>3, <1>6, Zenon

\* reward_split_amounts loses nothing, and no part is negative.
THEOREM RewardSplitConserves ==
  ASSUME NEW amount \in Nat
  PROVE  LET split == RewardSplitAmounts(amount)
         IN  /\ split.protocolFee \in Nat
             /\ split.mainReward \in Nat
             /\ split.reward \in Nat
             /\ split.protocolFee + split.mainReward + split.reward = amount
  BY DEF RewardSplitAmounts, ProtocolFeeAmount, BpsDenominator, ProtocolFeeBps, MainRewardBps

\* The protocol takes a quarter, rounded down, and the main launch a twentieth
\* of the rest, rounded down.
THEOREM RewardSplitShares ==
  ASSUME NEW amount \in Nat
  PROVE  LET split == RewardSplitAmounts(amount)
             own   == split.reward
             main  == split.mainReward
             fee   == split.protocolFee
         IN  /\ 19 * main <= own /\ own < 19 * main + 20
             /\ 3 * fee <= own + main /\ own + main < 3 * fee + 4
  BY DEF RewardSplitAmounts, ProtocolFeeAmount, BpsDenominator, ProtocolFeeBps, MainRewardBps

-----------------------------------------------------------------------------
(***************************************************************************)
(* Type correctness.                                                       *)
(***************************************************************************)
USE DEF Owners, U64, U128

\* A new position whose fields fit is a StakePosition.
LEMMA NewPositionType ==
  ASSUME NEW lc \in LaunchConfig, NEW amount \in Nat, NEW lockDays \in LockChoices,
         now \in Nat, FieldsFit(lc, NewPosition(lc, amount, lockDays))
  PROVE  NewPosition(lc, amount, lockDays) \in StakePosition
<1> DEFINE pos == NewPosition(lc, amount, lockDays)
           weight == WeightedAmount(amount, LockMultiplierBps(lockDays))
<1>1. pos.amount \in U64 /\ pos.weight \in U128 /\ pos.weight = weight
  BY DEF FieldsFit, NewPosition
<1>2. lockDays \in Nat
  BY StakingAssumption DEF LockDurations
<1>3. LockUnlockTs(now, lockDays) \in Nat
  BY <1>2, ProductNat, RewardMathAssumption DEF LockUnlockTs
<1> DEFINE accrued == weight * lc.accRewardPerWeight
           debt    == RewardDebt(weight, lc.accRewardPerWeight)
<1>4. accrued \in U128
  BY DEF FieldsFit, NewPosition
<1>5. debt \in Nat /\ debt <= accrued
  <2>1. weight \in Nat /\ lc.accRewardPerWeight \in Nat
    BY <1>1, RewardMathAssumption DEF LaunchConfig
  <2> HIDE DEF weight
  <2> QED BY <2>1, RewardDebtBounds
<1>6. debt \in U128
  <2> HIDE DEF debt, accrued
  <2> QED BY <1>4, <1>5, RewardMathAssumption
<1> QED BY <1>1, <1>3, <1>6 DEF NewPosition, StakePosition

\* Crediting a launch keeps its fields in width.
LEMMA ApplyRewardsType ==
  ASSUME NEW lc \in LaunchConfig, NEW amount, CanApplyRewards(lc, amount)
  PROVE  ApplyRewards(lc, amount) \in LaunchConfig
  BY DEF CanApplyRewards, ApplyRewards, LaunchConfig

\* The launch and the vaults after a distribution.
LEMMA DistributeFeesType ==
  ASSUME TypeOK, NEW l \in Launches, NEW amount \in Nat \ {0}, DistributeFees(l, amount)
  PROVE  /\ launch' \in [Launches -> LaunchConfig]
         /\ lamports' \in [Launches -> Nat]
         /\ protocolVault' \in [Launches -> Nat]
<1> DEFINE split == RewardSplitAmounts(amount)
<1>1. /\ split.protocolFee \in Nat /\ split.mainReward \in Nat /\ split.reward \in Nat
      /\ split.reward + split.mainReward \in Nat \ {0}
  BY DEF RewardSplitAmounts, ProtocolFeeAmount, BpsDenominator, ProtocolFeeBps, MainRewardBps
<1>5. /\ amount - split.protocolFee = split.reward + split.mainReward
      /\ (amount - split.protocolFee) - split.mainReward = split.reward
  BY DEF RewardSplitAmounts, ProtocolFeeAmount, BpsDenominator, ProtocolFeeBps, MainRewardBps
<1>2. MainLaunch \in Launches /\ RentFloor \in Nat
  BY StakingAssumption, CreatorVaultsAssumption
<1>3. CASE l = MainLaunch /\ DistributeToMain(amount)
  <2> DEFINE reward == split.reward + split.mainReward
  <2>1. ApplyRewards(launch[MainLaunch], reward) \in LaunchConfig
    <3>1. CanApplyRewards(launch[MainLaunch], reward)
      BY <1>1, <1>3 DEF DistributeToMain
    <3> HIDE DEF reward
    <3> QED BY <1>2, <3>1, ApplyRewardsType DEF TypeOK
  <2>2. launch' = [launch EXCEPT ![MainLaunch] = ApplyRewards(launch[MainLaunch], reward)]
    BY <1>3 DEF DistributeToMain
  <2>3. lamports' = [lamports EXCEPT ![MainLaunch] = @ + reward]
    <3>1. lamports' = [lamports EXCEPT ![MainLaunch] = @ + (amount - split.protocolFee)]
      BY <1>3 DEF DistributeToMain
    <3> HIDE DEF split
    <3> QED BY <1>1, <1>5, <3>1
  <2>4. protocolVault' \in [Launches -> Nat]
    BY <1>1, <1>2, <1>3 DEF DistributeToMain, FundProtocolVault, Larger, TypeOK
  <2>5. reward \in Nat
    BY <1>1
  <2>6. launch' \in [Launches -> LaunchConfig]
    BY <1>2, <2>1, <2>2 DEF TypeOK
  <2>7. lamports' \in [Launches -> Nat]
    <3> HIDE DEF reward
    <3> QED BY <1>2, <2>3, <2>5 DEF TypeOK
  <2> QED BY <2>4, <2>6, <2>7
<1>4. CASE l # MainLaunch /\ DistributeToOther(l, amount)
  <2> DEFINE own  == IF split.reward > 0 THEN ApplyRewards(launch[l], split.reward)
                                         ELSE launch[l]
             main == IF split.mainReward > 0
                     THEN ApplyRewards(launch[MainLaunch], split.mainReward)
                     ELSE launch[MainLaunch]
  <2>1. own \in LaunchConfig
    <3>1. split.reward > 0 => CanApplyRewards(launch[l], split.reward)
      BY <1>4 DEF DistributeToOther
    <3> HIDE DEF split
    <3> QED BY <3>1, ApplyRewardsType DEF TypeOK
  <2>2. main \in LaunchConfig
    <3>1. split.mainReward > 0 => CanApplyRewards(launch[MainLaunch], split.mainReward)
      BY <1>4 DEF DistributeToOther
    <3> HIDE DEF split
    <3> QED BY <1>2, <3>1, ApplyRewardsType DEF TypeOK
  <2>3. launch' = [launch EXCEPT ![l] = own, ![MainLaunch] = main]
    BY <1>4 DEF DistributeToOther
  <2>4. lamports' = [lamports EXCEPT ![l] = @ + split.reward,
                                     ![MainLaunch] = @ + split.mainReward]
    <3>1. lamports' = [lamports EXCEPT
                         ![l] = @ + ((amount - split.protocolFee) - split.mainReward),
                         ![MainLaunch] = @ + split.mainReward]
      BY <1>4 DEF DistributeToOther, MoveMainLamports
    <3> HIDE DEF split
    <3> QED BY <1>1, <1>5, <3>1
  <2>5. protocolVault' \in [Launches -> Nat]
    BY <1>1, <1>2, <1>4, SMTT(30)
       DEF DistributeToOther, FundProtocolVault, Larger, TypeOK
  <2>6. launch' \in [Launches -> LaunchConfig]
    <3> HIDE DEF own, main
    <3> QED BY <1>2, <2>1, <2>2, <2>3 DEF TypeOK
  <2>7. lamports' \in [Launches -> Nat]
    <3> DEFINE x == split.reward
               y == split.mainReward
    <3>1. x \in Nat /\ y \in Nat
      BY <1>1
    <3>2. lamports' = [lamports EXCEPT ![l] = @ + x, ![MainLaunch] = @ + y]
      BY <2>4
    <3> HIDE DEF x, y
    <3> QED BY <1>2, <3>1, <3>2, SMTT(30) DEF TypeOK
  <2> QED BY <2>5, <2>6, <2>7
<1> QED BY <1>3, <1>4 DEF DistributeFees

\* What a claim sweeps or unwraps is a positive amount, and the fee accounts
\* keep their types.
LEMMA CollectionType ==
  ASSUME CreatorVaultsTypeOK, NEW l \in Launches, NEW r \in Routes
  PROVE  /\ SweptLamports(l, r) \in Nat
         /\ SweepFeeOwner(l, r) => CreatorVaultsTypeOK'
         /\ wsolAta[l] > 0 /\ CollectedWsol(l, r) > 0 => UnwrappedLamports(l, r) \in Nat \ {0}
         /\ UnwrapWsol(l, r) => CreatorVaultsTypeOK'
<1>1. \A v \in Venues : Proceeds(l, v, r) \in Nat
  <2> SUFFICES ASSUME NEW v \in Venues PROVE Proceeds(l, v, r) \in Nat
    OBVIOUS
  <2>1. creatorVault[l][v][r] \in Nat
    BY DEF CreatorVaultsTypeOK
  <2>2. FeeOwnerShareBps \in Nat
    BY CreatorVaultsAssumption
  <2>3. creatorVault[l][v][r] * FeeOwnerShareBps \in Nat
    BY <2>1, <2>2, ProductNat
  <2>4. (creatorVault[l][v][r] * FeeOwnerShareBps) \div 10000 \in Nat
    BY <2>3, DivBounds
  <2> QED BY <2>1, <2>4 DEF Proceeds
<1>2. Proceeds(l, "pump", r) \in Nat /\ Proceeds(l, "amm", r) \in Nat
  BY <1>1 DEF Venues
<1>3. feeOwner[l] \in Nat /\ wsolAta[l] \in Nat
      /\ RentFloor \in Nat \ {0} /\ AtaRent \in Nat \ {0}
  BY CreatorVaultsAssumption DEF CreatorVaultsTypeOK
<1>4. SweptLamports(l, r) \in Nat
  BY <1>2, <1>3 DEF SweptLamports, Larger
<1>5. wsolAta[l] > 0 /\ CollectedWsol(l, r) > 0 => UnwrappedLamports(l, r) \in Nat \ {0}
  BY <1>2, <1>3 DEF CollectedWsol, UnwrappedLamports
<1>6. ASSUME SweepFeeOwner(l, r) PROVE CreatorVaultsTypeOK'
  <2> DEFINE left == Larger(feeOwner[l], RentFloor) + Proceeds(l, "pump", r) - SweptLamports(l, r)
  <2>1. left \in Nat
    BY <1>2, <1>3 DEF SweptLamports, Larger
  <2>2. feeOwner' = [feeOwner EXCEPT ![l] = left]
    BY <1>6 DEF SweepFeeOwner, CreatorVaultsTypeOK
  <2> HIDE DEF left
  <2> QED BY <1>3, <1>6, <2>1, <2>2 DEF SweepFeeOwner, CreatorVaultsTypeOK, Venues
<1>7. ASSUME UnwrapWsol(l, r) PROVE CreatorVaultsTypeOK'
  BY <1>3, <1>7 DEF UnwrapWsol, CreatorVaultsTypeOK, Venues
<1> QED BY <1>4, <1>5, <1>6, <1>7

\* The world keeps the types of the fee accounts.
LEMMA WorldType ==
  ASSUME CreatorVaultsTypeOK, World
  PROVE  CreatorVaultsTypeOK'
<1>0. /\ RentFloor \in Nat /\ AtaRent \in Nat \ {0} /\ MaxArrivals \in Nat
      /\ FeeAmounts \subseteq Nat /\ FeeVenues \subseteq Venues /\ FeeRoutes \subseteq Routes
  BY CreatorVaultsAssumption
<1>1. ASSUME NEW l \in Launches, NEW v \in FeeVenues, NEW r \in FeeRoutes,
             NEW x \in FeeAmounts, FeesArrive(l, v, r, x)
      PROVE  CreatorVaultsTypeOK'
  BY <1>0, <1>1 DEF FeesArrive, CreatorVaultsTypeOK
<1>2. ASSUME NEW l \in Launches, NEW x \in FeeAmounts, FeeOwnerReceives(l, x)
      PROVE  CreatorVaultsTypeOK'
  BY <1>0, <1>2 DEF FeeOwnerReceives, CreatorVaultsTypeOK
<1>3. ASSUME NEW l \in Launches, OpenWsolAta(l)
      PROVE  CreatorVaultsTypeOK'
  BY <1>0, <1>3 DEF OpenWsolAta, CreatorVaultsTypeOK
<1>4. ASSUME NEW l \in Launches, MoveToSharing(l)
      PROVE  CreatorVaultsTypeOK'
  BY <1>0, <1>4 DEF MoveToSharing, CreatorVaultsTypeOK, Creators, Routes
<1> QED BY <1>1, <1>2, <1>3, <1>4 DEF World

-----------------------------------------------------------------------------
\* The initial state is well typed.
LEMMA InitType == Init => TypeOK
<1> SUFFICES ASSUME Init PROVE TypeOK
  OBVIOUS
<1>1. CreatorVaultsTypeOK
  <2>1. creator \in [Launches -> Creators]
    BY CreatorVaultsAssumption DEF Init, CreatorVaultsInit
  <2>2. creatorVault \in [Launches -> [Venues -> [Routes -> Nat]]]
    BY DEF Init, CreatorVaultsInit
  <2>3. feeOwner \in [Launches -> Nat] /\ wsolAta \in [Launches -> Nat]
        /\ \A l \in Launches : wsolAta[l] = 0
    BY DEF Init, CreatorVaultsInit
  <2>4. arrivals \in 0..MaxArrivals
    BY CreatorVaultsAssumption DEF Init, CreatorVaultsInit
  <2> QED BY <2>1, <2>2, <2>3, <2>4 DEF CreatorVaultsTypeOK
<1>2. EmptyLaunch \in LaunchConfig /\ EmptyPosition \in StakePosition
  BY RewardMathAssumption DEF EmptyLaunch, EmptyPosition, LaunchConfig, StakePosition
<1> QED BY <1>1, <1>2, StakingAssumption DEF Init, TypeOK

\* Moving staking tokens keeps the types of the token accounts.
LEMMA TokensType ==
  ASSUME TypeOK, NEW l \in Launches, NEW o \in Owners, NEW amount \in Nat,
         DepositTokens(l, o, amount) \/ WithdrawTokens(l, o, amount)
  PROVE  /\ wallet' \in [Launches -> [Owners -> Nat]]
         /\ stakingVault' \in [Launches -> Nat]
<1>1. wallet[l][o] \in Nat /\ stakingVault[l] \in Nat
  BY DEF TypeOK
<1>2. CASE DepositTokens(l, o, amount)
  <2> DEFINE left == wallet[l][o] - amount
             held == stakingVault[l] + amount
  <2>1. left \in Nat /\ held \in Nat
    BY <1>1, <1>2 DEF DepositTokens
  <2>2. wallet' = [wallet EXCEPT ![l][o] = left] /\ stakingVault' = [stakingVault EXCEPT ![l] = held]
    BY <1>2 DEF DepositTokens
  <2> HIDE DEF left, held
  <2> QED BY <2>1, <2>2 DEF TypeOK
<1>3. CASE WithdrawTokens(l, o, amount)
  <2> DEFINE held == wallet[l][o] + amount
             left == stakingVault[l] - amount
  <2>1. left \in Nat /\ held \in Nat
    BY <1>1, <1>3 DEF WithdrawTokens
  <2>2. wallet' = [wallet EXCEPT ![l][o] = held] /\ stakingVault' = [stakingVault EXCEPT ![l] = left]
    BY <1>3 DEF WithdrawTokens
  <2> HIDE DEF left, held
  <2> QED BY <2>1, <2>2 DEF TypeOK
<1> QED BY <1>2, <1>3

\* The fields of a launch are naturals.
LEMMA LaunchTypes ==
  ASSUME TypeOK, NEW l \in Launches
  PROVE  /\ launch[l] \in LaunchConfig
         /\ launch[l].totalWeightedStake \in Nat
         /\ launch[l].accRewardPerWeight \in Nat
         /\ launch[l].rewardReserve \in Nat
         /\ entries[l] \in Nat
<1>1. launch[l] \in LaunchConfig
  BY DEF TypeOK
<1>2. \A lc \in LaunchConfig : lc.totalWeightedStake \in Nat
                                /\ lc.accRewardPerWeight \in Nat /\ lc.rewardReserve \in Nat
  BY RewardMathAssumption DEF LaunchConfig
<1>3. entries[l] \in 0..MaxEntries /\ MaxEntries \in Nat
  BY StakingAssumption DEF TypeOK
<1> QED BY <1>1, <1>2, <1>3

\* The fields of a position are naturals.
LEMMA PositionTypes ==
  ASSUME TypeOK, NEW l \in Launches, NEW o \in Owners
  PROVE  /\ position[l][o] \in StakePosition
         /\ position[l][o].amount \in Nat
         /\ position[l][o].weight \in Nat
         /\ position[l][o].unlockTs \in Nat
         /\ position[l][o].rewardDebt \in Nat
<1>1. position[l][o] \in StakePosition
  BY DEF TypeOK
<1>2. \A pos \in StakePosition : pos.amount \in Nat /\ pos.weight \in Nat
                                /\ pos.unlockTs \in Nat /\ pos.rewardDebt \in Nat
  BY RewardMathAssumption DEF StakePosition
<1> QED BY <1>1, <1>2

\* The number of entries stays within its bound.
LEMMA EntriesType ==
  ASSUME TypeOK, NEW l \in Launches, CountEntry(l)
  PROVE  entries' \in [Launches -> 0..MaxEntries]
<1> DEFINE next == entries[l] + 1
<1>1. entries[l] \in 0..MaxEntries /\ MaxEntries \in Nat /\ entries[l] < MaxEntries
  BY StakingAssumption DEF TypeOK, CountEntry
<1>2. next \in 0..MaxEntries
  BY <1>1
<1>3. entries' = [entries EXCEPT ![l] = next]
  BY DEF CountEntry
<1> HIDE DEF next
<1> QED BY <1>2, <1>3 DEF TypeOK

\* Writing one position and one launch keeps the types of both.
LEMMA WriteType ==
  ASSUME TypeOK, NEW l \in Launches, NEW o \in Owners,
         NEW pos \in StakePosition, NEW lc \in LaunchConfig
  PROVE  /\ [position EXCEPT ![l][o] = pos] \in [Launches -> [Owners -> StakePosition]]
         /\ [launch EXCEPT ![l] = lc] \in [Launches -> LaunchConfig]
  BY DEF TypeOK

\* Paying from the reserve keeps the launch and its lamports in width.
LEMMA PaymentType ==
  ASSUME TypeOK, NEW l \in Launches, NEW amount \in Nat, NEW total \in U128,
         CanPayRewards(l, amount), PayRewards(l, amount)
  PROVE  /\ lamports' \in [Launches -> Nat]
         /\ AfterPayment(launch[l], amount) \in LaunchConfig
         /\ [AfterPayment(launch[l], amount) EXCEPT !.totalWeightedStake = total] \in LaunchConfig
<1>1. launch[l] \in LaunchConfig
  BY DEF TypeOK
<1>2. launch[l].rewardReserve - amount \in U64
  BY <1>1, RewardMathAssumption DEF CanPayRewards, LaunchConfig
<1>3. AfterPayment(launch[l], amount) \in LaunchConfig
  BY <1>1, <1>2 DEF AfterPayment, LaunchConfig
<1>4. lamports' \in [Launches -> Nat]
  BY DEF CanPayRewards, PayRewards, TypeOK
<1> QED BY <1>3, <1>4 DEF LaunchConfig

\* A computable pending reward is a natural number.
LEMMA PendingType ==
  ASSUME NEW pos, NEW lc, PendingIsComputable(pos, lc)
  PROVE  PendingReward(pos, lc) \in Nat
  BY RewardMathAssumption DEF PendingIsComputable

\* stake keeps every type.
LEMMA StakeType ==
  ASSUME TypeOK, NEW l \in Launches, NEW o \in Owners, NEW amount \in Nat,
         NEW lockDays \in LockChoices, Stake(l, o, amount, lockDays)
  PROVE  TypeOK'
<1> DEFINE pos   == NewPosition(launch[l], amount, lockDays)
           total == launch[l].totalWeightedStake + pos.weight
<1>1. launch[l] \in LaunchConfig /\ now \in Nat
  BY DEF TypeOK
<1>2. pos \in StakePosition
  BY <1>1, NewPositionType DEF Stake
<1>3. [launch[l] EXCEPT !.totalWeightedStake = total] \in LaunchConfig
  <2>1. total \in U128
    BY DEF Stake
  <2> HIDE DEF total
  <2> QED BY <1>1, <2>1 DEF LaunchConfig
<1>4. position' = [position EXCEPT ![l][o] = pos]
      /\ launch' = [launch EXCEPT ![l] = [launch[l] EXCEPT !.totalWeightedStake = total]]
  BY DEF Stake, TypeOK
<1>5. /\ position' \in [Launches -> [Owners -> StakePosition]]
      /\ launch' \in [Launches -> LaunchConfig]
  <2> HIDE DEF pos, total
  <2> QED BY <1>2, <1>3, <1>4, WriteType
<1>6. wallet' \in [Launches -> [Owners -> Nat]] /\ stakingVault' \in [Launches -> Nat]
  BY TokensType DEF Stake
<1>7. entries' \in [Launches -> 0..MaxEntries]
  BY EntriesType DEF Stake
<1>8. /\ UNCHANGED <<now, live, lamports, protocolVault>>
      /\ CreatorVaultsTypeOK'
  BY DEF Stake, creatorVars, TypeOK, CreatorVaultsTypeOK
<1> QED BY <1>5, <1>6, <1>7, <1>8 DEF TypeOK

\* increase_stake keeps every type.
LEMMA IncreaseStakeType ==
  ASSUME TypeOK, NEW l \in Launches, NEW o \in Owners, NEW amount \in Nat,
         NEW lockDays \in LockChoices, IncreaseStake(l, o, amount, lockDays)
  PROVE  TypeOK'
<1> DEFINE old     == position[l][o]
           pending == PendingReward(old, launch[l])
           pos     == NewPosition(launch[l], old.amount + amount, lockDays)
           total   == WeightWithout(launch[l], old) + pos.weight
           lc      == [AfterPayment(launch[l], pending) EXCEPT !.totalWeightedStake = total]
<1>1. launch[l] \in LaunchConfig /\ now \in Nat /\ old.amount + amount \in Nat
  BY LaunchTypes, PositionTypes DEF TypeOK
<1>2. pos \in StakePosition
  BY <1>1, NewPositionType DEF IncreaseStake
<1>3. pending \in Nat
  BY PendingType DEF IncreaseStake
<1>4. total \in U128 /\ CanPayRewards(l, pending) /\ PayRewards(l, pending)
  BY DEF IncreaseStake
<1>5. lc \in LaunchConfig /\ lamports' \in [Launches -> Nat]
  <2> HIDE DEF pending, total
  <2> QED BY <1>3, <1>4, PaymentType
<1>6. position' = [position EXCEPT ![l][o] = pos] /\ launch' = [launch EXCEPT ![l] = lc]
  BY DEF IncreaseStake
<1>7. /\ position' \in [Launches -> [Owners -> StakePosition]]
      /\ launch' \in [Launches -> LaunchConfig]
  <2> HIDE DEF pos, lc
  <2> QED BY <1>2, <1>5, <1>6, WriteType
<1>8. wallet' \in [Launches -> [Owners -> Nat]] /\ stakingVault' \in [Launches -> Nat]
  BY TokensType DEF IncreaseStake
<1>9. entries' \in [Launches -> 0..MaxEntries]
  BY EntriesType DEF IncreaseStake
<1>10. /\ UNCHANGED <<now, live, protocolVault>>
       /\ CreatorVaultsTypeOK'
  BY DEF IncreaseStake, creatorVars, TypeOK, CreatorVaultsTypeOK
<1> QED BY <1>5, <1>7, <1>8, <1>9, <1>10 DEF TypeOK

\* unstake keeps every type.
LEMMA UnstakeType ==
  ASSUME TypeOK, NEW l \in Launches, NEW o \in Owners, Unstake(l, o)
  PROVE  TypeOK'
<1> DEFINE old     == position[l][o]
           pending == PendingReward(old, launch[l])
           rest    == WeightWithout(launch[l], old)
           lc      == [AfterPayment(launch[l], pending) EXCEPT !.totalWeightedStake = rest]
<1>1. pending \in Nat
  BY PendingType DEF Unstake
<1>2. rest \in U128 /\ CanPayRewards(l, pending) /\ PayRewards(l, pending)
  BY DEF Unstake
<1>3. lc \in LaunchConfig /\ lamports' \in [Launches -> Nat]
  <2> HIDE DEF pending, rest
  <2> QED BY <1>1, <1>2, PaymentType
<1>4. EmptyPosition \in StakePosition /\ old.amount \in Nat
  BY LaunchTypes, PositionTypes, RewardMathAssumption DEF EmptyPosition, StakePosition
<1>5. position' = [position EXCEPT ![l][o] = EmptyPosition] /\ launch' = [launch EXCEPT ![l] = lc]
  BY DEF Unstake
<1>6. /\ position' \in [Launches -> [Owners -> StakePosition]]
      /\ launch' \in [Launches -> LaunchConfig]
  <2> HIDE DEF lc
  <2> QED BY <1>3, <1>4, <1>5, WriteType
<1>7. wallet' \in [Launches -> [Owners -> Nat]] /\ stakingVault' \in [Launches -> Nat]
  BY <1>4, TokensType DEF Unstake
<1>8. /\ UNCHANGED <<now, live, entries, protocolVault>>
      /\ CreatorVaultsTypeOK'
  BY DEF Unstake, creatorVars, TypeOK, CreatorVaultsTypeOK
<1> QED BY <1>3, <1>6, <1>7, <1>8 DEF TypeOK

\* claim_rewards keeps every type.
LEMMA ClaimRewardsType ==
  ASSUME TypeOK, NEW l \in Launches, NEW o \in Owners, ClaimRewards(l, o)
  PROVE  TypeOK'
<1> DEFINE old     == position[l][o]
           pending == PendingReward(old, launch[l])
           debt    == RewardDebt(old.weight, launch[l].accRewardPerWeight)
           accrued == old.weight * launch[l].accRewardPerWeight
           pos     == [old EXCEPT !.rewardDebt = debt]
           lc      == AfterPayment(launch[l], pending)
<1>1. pending \in Nat
  BY PendingType DEF ClaimRewards
<1>2. CanPayRewards(l, pending) /\ PayRewards(l, pending)
  BY DEF ClaimRewards
<1>3. lc \in LaunchConfig /\ lamports' \in [Launches -> Nat]
  <2>1. 0 \in U128
    BY RewardMathAssumption
  <2> HIDE DEF pending
  <2> QED BY <1>1, <1>2, <2>1, PaymentType
<1>4. pos \in StakePosition
  <2>1. old \in StakePosition /\ old.weight \in Nat /\ launch[l].accRewardPerWeight \in Nat
    BY LaunchTypes, PositionTypes
  <2>2. accrued \in U128
    BY DEF ClaimRewards, PendingIsComputable
  <2>3. debt \in Nat /\ debt <= accrued
    BY <2>1, RewardDebtBounds
  <2>4. debt \in U128
    <3> HIDE DEF debt, accrued
    <3> QED BY <2>2, <2>3, RewardMathAssumption
  <2> HIDE DEF debt, old
  <2> QED BY <2>1, <2>4 DEF StakePosition
<1>5. position' = [position EXCEPT ![l][o] = pos] /\ launch' = [launch EXCEPT ![l] = lc]
  BY DEF ClaimRewards, TypeOK
<1>6. /\ position' \in [Launches -> [Owners -> StakePosition]]
      /\ launch' \in [Launches -> LaunchConfig]
  <2> HIDE DEF lc, pos
  <2> QED BY <1>3, <1>4, <1>5, WriteType
<1>7. /\ UNCHANGED <<now, live, entries, protocolVault, wallet, stakingVault>>
      /\ CreatorVaultsTypeOK'
  BY DEF ClaimRewards, creatorVars, tokenVars, TypeOK, CreatorVaultsTypeOK
<1> QED BY <1>3, <1>6, <1>7 DEF TypeOK

\* The claims of creator fees and of protocol fees keep every type.
LEMMA FeeStepType ==
  ASSUME TypeOK, NEW l \in Launches, FeeStep(l)
  PROVE  TypeOK'
<1>1. CreatorVaultsTypeOK /\ "direct" \in Routes /\ "shared" \in Routes
  BY DEF TypeOK, Routes
<1>2. ASSUME NEW amount \in Nat \ {0}, DistributeFees(l, amount), CreatorVaultsTypeOK'
      PROVE  TypeOK'
  BY <1>2, DistributeFeesType DEF DistributeFees, tokenVars, TypeOK
<1>3. ASSUME NEW r \in Routes, SweptLamports(l, r) > 0,
             DistributeFees(l, SweptLamports(l, r)), SweepFeeOwner(l, r)
      PROVE  TypeOK'
  <2>1. SweptLamports(l, r) \in Nat \ {0}
    BY <1>1, <1>3, CollectionType
  <2>2. CreatorVaultsTypeOK'
    BY <1>1, <1>3, CollectionType
  <2> QED BY <1>2, <1>3, <2>1, <2>2
<1>4. ASSUME NEW r \in Routes, wsolAta[l] > 0, CollectedWsol(l, r) > 0,
             DistributeFees(l, UnwrappedLamports(l, r)), UnwrapWsol(l, r)
      PROVE  TypeOK'
  <2>1. UnwrappedLamports(l, r) \in Nat \ {0}
    BY <1>1, <1>4, CollectionType
  <2>2. CreatorVaultsTypeOK'
    BY <1>1, <1>4, CollectionType
  <2> QED BY <1>2, <1>4, <2>1, <2>2
<1>5. CASE ClaimPumpCreatorFees(l)
  BY <1>1, <1>3, <1>5 DEF ClaimPumpCreatorFees
<1>6. CASE ClaimPumpSharedCreatorFees(l)
  BY <1>1, <1>3, <1>6 DEF ClaimPumpSharedCreatorFees
<1>7. CASE ClaimPumpSwapCreatorFees(l)
  BY <1>1, <1>4, <1>7 DEF ClaimPumpSwapCreatorFees
<1>8. CASE ClaimPumpSwapSharedCreatorFees(l)
  BY <1>1, <1>4, <1>8 DEF ClaimPumpSwapSharedCreatorFees
<1>9. CASE ClaimProtocolFees(l)
  <2>1. protocolVault' \in [Launches -> Nat]
    BY <1>9, CreatorVaultsAssumption DEF ClaimProtocolFees, TypeOK
  <2> QED BY <1>9, <2>1
          DEF ClaimProtocolFees, ledgerVars, tokenVars, creatorVars, TypeOK, CreatorVaultsTypeOK
<1> QED BY <1>5, <1>6, <1>7, <1>8, <1>9 DEF FeeStep

\* A gift adds a natural number to one account of the program.
LEMMA GiftType ==
  ASSUME TypeOK, Gift
  PROVE  TypeOK'
<1>1. PICK l \in Launches, account \in GiftAccounts, amount \in FeeAmounts :
        Receives(l, account, amount)
  BY DEF Gift
<1>2. amount \in Nat
  BY CreatorVaultsAssumption
<1>3. /\ stakingVault' \in [Launches -> Nat]
      /\ lamports' \in [Launches -> Nat]
      /\ protocolVault' \in [Launches -> Nat]
  <2>1. /\ stakingVault' = stakingVault
           \/ stakingVault' = [stakingVault EXCEPT ![l] = @ + amount]
        /\ lamports' = lamports \/ lamports' = [lamports EXCEPT ![l] = @ + amount]
        /\ protocolVault' = protocolVault
           \/ protocolVault' = [protocolVault EXCEPT ![l] = @ + amount]
    BY <1>1 DEF Receives
  <2>2. ASSUME NEW f \in [Launches -> Nat]
        PROVE  [f EXCEPT ![l] = @ + amount] \in [Launches -> Nat]
    BY <1>2
  <2> QED BY <2>1, <2>2 DEF TypeOK
<1>4. CreatorVaultsTypeOK'
  <2>1. arrivals' \in 0..MaxArrivals
    BY CreatorVaultsAssumption DEF Gift, TypeOK, CreatorVaultsTypeOK
  <2> QED BY <2>1 DEF Gift, TypeOK, CreatorVaultsTypeOK
<1> QED BY <1>3, <1>4 DEF Gift, TypeOK

\* Every step keeps every type.
LEMMA NextType == TypeOK /\ [Next]_vars => TypeOK'
<1> SUFFICES ASSUME TypeOK, [Next]_vars PROVE TypeOK'
  OBVIOUS
<1>1. ASSUME NEW l \in Launches, InitializeLaunch(l) PROVE TypeOK'
  <2>1. EmptyLaunch \in LaunchConfig
    BY RewardMathAssumption DEF EmptyLaunch, LaunchConfig
  <2>2. launch' \in [Launches -> LaunchConfig] /\ live' \subseteq Launches
    BY <1>1, <2>1 DEF InitializeLaunch, TypeOK
  <2> QED BY <1>1, <2>2 DEF InitializeLaunch, tokenVars, creatorVars, TypeOK, CreatorVaultsTypeOK
<1>2. ASSUME NEW l \in Launches, NEW o \in Owners, OwnerStep(l, o) PROVE TypeOK'
  <2>1. 1..wallet[l][o] \subseteq Nat
    BY DEF TypeOK
  <2> QED BY <1>2, <2>1, StakeType, IncreaseStakeType, UnstakeType, ClaimRewardsType DEF OwnerStep
<1>3. ASSUME NEW l \in Launches, FeeStep(l) PROVE TypeOK'
  BY <1>3, FeeStepType
<1>4. CASE Tick
  BY <1>4, StakingAssumption
     DEF Tick, ledgerVars, tokenVars, creatorVars, TypeOK, CreatorVaultsTypeOK
<1>5. CASE Outside
  BY <1>5, WorldType DEF Outside, ledgerVars, tokenVars, TypeOK
<1>6. CASE Gift
  BY <1>6, GiftType
<1>7. CASE UNCHANGED vars
  BY <1>7 DEF vars, ledgerVars, tokenVars, creatorVars, TypeOK, CreatorVaultsTypeOK
<1> QED BY <1>1, <1>2, <1>3, <1>4, <1>5, <1>6, <1>7 DEF Next

\* Every field of every account keeps its width in every behaviour.
THEOREM TypeCorrect == Spec => []TypeOK
<1>1. Init => TypeOK
  BY InitType
<1>2. TypeOK /\ [Next]_vars => TypeOK'
  BY NextType
<1> QED BY <1>1, <1>2, PTL DEF Spec
=============================================================================
