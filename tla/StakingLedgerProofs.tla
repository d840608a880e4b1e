-------------------------- MODULE StakingLedgerProofs --------------------------
(***************************************************************************)
(* The reward ledger, for any number of launches and owners, any precision *)
(* and any amounts: totals are the sums they stand for, no debt runs ahead *)
(* of its accrual, and what the positions are owed never exceeds the       *)
(* reserve by more than rounding.                                          *)
(*                                                                         *)
(* The argument: seen from one launch, every step of the program leaves it *)
(* untouched, gives to its accounts, credits an amount to its accumulator, *)
(* or settles one of its positions (StepKinds).  Each kind keeps the       *)
(* launch's ledger in order (UntouchedLedger, GivenLedger, CreditedLedger, *)
(* SettledLedger).                                                         *)
(***************************************************************************)
EXTENDS StakingProperties, StakingTypeProofs, BoundedSumTheorems

\* An account that does not exist is empty.
AccountsExist ==
  /\ \A l \in Launches, o \in Owners :
       ~ HasPosition(l, o) => position[l][o] = EmptyPosition
  /\ \A l \in Launches \ live :
       launch[l] = EmptyLaunch /\ \A o \in Owners : ~ HasPosition(l, o)

\* The books of one launch are in order.
Ledger(l) ==
  /\ launch[l].totalWeightedStake = SumTo(Weights(l), NumOwners)
  /\ stakingVault[l] >= SumTo(Amounts(l), NumOwners)
  /\ lamports[l] >= launch[l].rewardReserve
  /\ \A o \in Owners : PendingReward(position[l][o], launch[l]) >= 0
  /\ SumTo(Owed(l), NumOwners)
       <= Precision * launch[l].rewardReserve + (Precision - 1) * entries[l]

\* The inductive invariant.
LedgerInv ==
  /\ TypeOK
  /\ AccountsExist
  /\ \A l \in Launches : Ledger(l)

-----------------------------------------------------------------------------
(***************************************************************************)
(* The kinds of steps, seen from launch l.                                 *)
(***************************************************************************)
\* Nothing of the ledger of l changes.
Untouched(l) ==
  /\ launch'[l] = launch[l]
  /\ position'[l] = position[l]
  /\ lamports'[l] = lamports[l]
  /\ stakingVault'[l] = stakingVault[l]
  /\ entries'[l] = entries[l]

\* Its accounts may gain, its ledger does not change.
Given(l) ==
  /\ launch'[l] = launch[l]
  /\ position'[l] = position[l]
  /\ lamports'[l] >= lamports[l]
  /\ stakingVault'[l] >= stakingVault[l]
  /\ entries'[l] = entries[l]

\* An amount is applied to the ledger of l and reaches its account.
Credited(l, amount) ==
  /\ CanApplyRewards(launch[l], amount)
  /\ launch'[l] = ApplyRewards(launch[l], amount)
  /\ position'[l] = position[l]
  /\ lamports'[l] = lamports[l] + amount
  /\ stakingVault'[l] = stakingVault[l]
  /\ entries'[l] = entries[l]

\* Position o of l is paid what is pending on it and takes on a debt equal to
\* what its new weight would have accrued; it is an entry, or the weight stays
\* or leaves.
Settled(l, o) ==
  LET old  == position[l][o]
      new  == position'[l][o]
      paid == PendingReward(old, launch[l])
  IN  /\ paid >= 0
      /\ \A p \in Owners : p # o => position'[l][p] = position[l][p]
      /\ launch'[l].accRewardPerWeight = launch[l].accRewardPerWeight
      /\ launch'[l].rewardReserve = launch[l].rewardReserve - paid
      /\ launch'[l].totalWeightedStake = launch[l].totalWeightedStake - old.weight + new.weight
      /\ lamports'[l] = lamports[l] - paid
      /\ stakingVault'[l] = stakingVault[l] - old.amount + new.amount
      /\ new.rewardDebt = RewardDebt(new.weight, launch[l].accRewardPerWeight)
      /\ \/ entries'[l] = entries[l] + 1
         \/ entries'[l] = entries[l] /\ (new.weight = old.weight \/ new.weight = 0)

-----------------------------------------------------------------------------
\* The functions the ledger sums over are integer functions.
LEMMA LedgerTypes ==
  ASSUME TypeOK, NEW l \in Launches
  PROVE  /\ Weights(l) \in [1..NumOwners -> Nat]
         /\ Amounts(l) \in [1..NumOwners -> Nat]
         /\ Pendings(l) \in [1..NumOwners -> Int]
         /\ Owed(l) \in [1..NumOwners -> Int]
<1>1. ASSUME NEW o \in Owners
      PROVE  /\ position[l][o].weight \in Nat
             /\ position[l][o].amount \in Nat
             /\ PendingReward(position[l][o], launch[l]) \in Int
             /\ position[l][o].weight * launch[l].accRewardPerWeight
                  - Precision * position[l][o].rewardDebt \in Int
  <2>1. /\ position[l][o].weight \in Nat /\ position[l][o].amount \in Nat
        /\ position[l][o].rewardDebt \in Nat /\ launch[l].accRewardPerWeight \in Nat
    BY LaunchTypes, PositionTypes
  <2>2. RewardDebt(position[l][o].weight, launch[l].accRewardPerWeight) \in Nat
    BY <2>1, RewardDebtNat, Zenon
  <2>3. PendingReward(position[l][o], launch[l]) \in Int
    BY <2>1, <2>2 DEF PendingReward
  <2> QED BY <2>1, <2>3, RewardMathAssumption
<1> QED BY <1>1 DEF Weights, Amounts, Pendings, Owed, Owners

\* A step that does not touch a launch keeps its ledger.
LEMMA UntouchedLedger ==
  ASSUME NEW l \in Launches, Ledger(l), Untouched(l)
  PROVE  Ledger(l)'
  BY DEF Ledger, Untouched, Weights, Amounts, Owed

\* The account balances and what they have to cover are integers.
LEMMA BalanceTypes ==
  ASSUME TypeOK, NEW l \in Launches
  PROVE  /\ stakingVault[l] \in Nat /\ lamports[l] \in Nat /\ launch[l].rewardReserve \in Nat
         /\ SumTo(Amounts(l), NumOwners) \in Int
<1>1. Amounts(l) \in [1..NumOwners -> Int] /\ NumOwners \in Nat
  BY LedgerTypes, StakingAssumption
<1>2. SumTo(Amounts(l), NumOwners) \in Int
  BY <1>1, SumToInt
<1> QED BY <1>2, LaunchTypes DEF TypeOK

\* A gift to its accounts keeps the ledger of a launch.
LEMMA GivenLedger ==
  ASSUME TypeOK, TypeOK', NEW l \in Launches, Ledger(l), Given(l)
  PROVE  Ledger(l)'
<1>1. /\ stakingVault[l] \in Nat /\ lamports[l] \in Nat
      /\ launch[l].rewardReserve \in Nat /\ SumTo(Amounts(l), NumOwners) \in Int
  BY BalanceTypes
<1>2. stakingVault'[l] \in Nat /\ lamports'[l] \in Nat
  BY DEF TypeOK
<1>3. /\ stakingVault'[l] >= SumTo(Amounts(l), NumOwners)
      /\ lamports'[l] >= launch[l].rewardReserve
  BY <1>1, <1>2 DEF Ledger, Given
<1> QED BY <1>3 DEF Ledger, Given, Weights, Amounts, Owed

\* What one position is owed covers what is pending on it, and exceeds it by
\* less than a lamport.
LEMMA OwedCoversPending ==
  ASSUME TypeOK, NEW l \in Launches, NEW o \in Owners
  PROVE  /\ Precision * PendingReward(position[l][o], launch[l]) <= Owed(l)[o]
         /\ Owed(l)[o] <= Precision * PendingReward(position[l][o], launch[l]) + (Precision - 1)
<1> DEFINE accrued == position[l][o].weight * launch[l].accRewardPerWeight
           floor   == RewardDebt(position[l][o].weight, launch[l].accRewardPerWeight)
           debt    == position[l][o].rewardDebt
<1>1. /\ position[l][o].weight \in Nat /\ launch[l].accRewardPerWeight \in Nat
      /\ debt \in Nat /\ Precision \in Nat
  BY LaunchTypes, PositionTypes, RewardMathAssumption
<1>2. /\ accrued \in Nat /\ floor \in Nat
      /\ Precision * floor <= accrued /\ accrued <= Precision * floor + (Precision - 1)
  BY <1>1, ProductNat, RewardDebtBounds, Zenon
<1>3. Owed(l)[o] = accrued - Precision * debt
  BY DEF Owed
<1>4. PendingReward(position[l][o], launch[l]) = floor - debt
  BY DEF PendingReward
<1>5. Precision * (floor - debt) = Precision * floor - Precision * debt
  <2> HIDE DEF floor, debt
  <2> QED BY <1>1, <1>2
<1> DEFINE pf == Precision * floor
           pd == Precision * debt
<1>6. pf \in Nat /\ pd \in Nat
  <2> HIDE DEF floor, debt
  <2> QED BY <1>1, <1>2, ProductNat
<1>7. pf <= accrued /\ accrued <= pf + (Precision - 1) /\ accrued \in Nat
  BY <1>2
<1>8. pf - pd <= accrued - pd /\ accrued - pd <= pf - pd + (Precision - 1)
  <2> HIDE DEF accrued, pf, pd
  <2> QED BY <1>1, <1>6, <1>7
<1> QED BY <1>3, <1>4, <1>5, <1>8

\* A credit keeps the ledger: what it adds to the accumulator, over all the
\* weight the total stands for, is at most what it adds to the reserve.
LEMMA CreditedLedger ==
  ASSUME TypeOK, NEW l \in Launches, NEW amount \in Nat, Ledger(l), Credited(l, amount)
  PROVE  Ledger(l)'
<1> DEFINE total == launch[l].totalWeightedStake
           acc   == launch[l].accRewardPerWeight
           res   == launch[l].rewardReserve
           inc   == RewardIncrement(amount, total)
           weights == Weights(l)
           owed    == Owed(l)
<1>0. PICK owed2 :
        owed2 = [o \in Owners |-> position'[l][o].weight * launch'[l].accRewardPerWeight
                                    - Precision * position'[l][o].rewardDebt]
  OBVIOUS
<1>1. /\ total \in Nat \ {0} /\ acc \in Nat /\ res \in Nat
      /\ Precision \in Nat \ {0} /\ entries[l] \in Nat /\ NumOwners \in Nat
  <2>1. total > 0
    BY DEF Credited, CanApplyRewards
  <2> QED BY <2>1, LaunchTypes, StakingAssumption, RewardMathAssumption
<1>2. inc \in Nat /\ inc * total <= Precision * amount
  <2> HIDE DEF total
  <2> QED BY <1>1, RewardIncrementBounds, Zenon
<1>3. /\ launch'[l].totalWeightedStake = total
      /\ launch'[l].accRewardPerWeight = acc + inc
      /\ launch'[l].rewardReserve = res + amount
      /\ position'[l] = position[l]
  <2>1. launch[l] \in LaunchConfig
    BY DEF TypeOK
  <2> QED BY <2>1 DEF Credited, ApplyRewards, LaunchConfig
<1>4. /\ weights \in [1..NumOwners -> Int] /\ owed \in [1..NumOwners -> Int]
  BY LedgerTypes
<1>5. ASSUME NEW o \in 1..NumOwners
      PROVE  owed2[o] \in Int /\ owed2[o] = inc * weights[o] + owed[o]
  <2> DEFINE w == position[l][o].weight
             d == position[l][o].rewardDebt
  <2>1. w \in Nat /\ d \in Nat
    BY PositionTypes DEF Owners
  <2>2. weights[o] = w /\ owed[o] = w * acc - Precision * d
    BY DEF Weights, Owed, Owners
  <2>3. owed2[o] = w * (acc + inc) - Precision * d
    BY <1>0, <1>3 DEF Owners
  <2>4. /\ w * (acc + inc) - Precision * d \in Int
        /\ w * (acc + inc) - Precision * d = inc * w + (w * acc - Precision * d)
    <3> HIDE DEF w, d, acc, inc
    <3> QED BY <1>1, <1>2, <2>1
  <2> QED BY <2>2, <2>3, <2>4
<1>6. owed2 \in [1..NumOwners -> Int] /\ IsCombination(owed2, inc, weights, owed, NumOwners)
  <2>1. owed2 = [o \in 1..NumOwners |-> owed2[o]]
    BY <1>0 DEF Owners
  <2> HIDE DEF inc, weights, owed
  <2> QED BY <1>5, <2>1 DEF IsCombination
<1>7. SumTo(owed2, NumOwners) = inc * SumTo(weights, NumOwners) + SumTo(owed, NumOwners)
  <2>1. PICK c, f, g : c = inc /\ f = weights /\ g = owed
    OBVIOUS
  <2>2. c \in Int /\ NumOwners \in Nat /\ f \in [1..NumOwners -> Int] /\ g \in [1..NumOwners -> Int]
    BY <1>1, <1>2, <1>4, <2>1
  <2>3. owed2 \in [1..NumOwners -> Int] /\ IsCombination(owed2, c, f, g, NumOwners)
    BY <1>6, <2>1
  <2>4. SumTo(owed2, NumOwners) = c * SumTo(f, NumOwners) + SumTo(g, NumOwners)
    BY <2>2, <2>3, SumToLinear
  <2> QED BY <2>1, <2>4
<1>8. SumTo(owed2, NumOwners)
        <= Precision * (res + amount) + (Precision - 1) * entries[l]
  <2> DEFINE s == SumTo(owed, NumOwners)
             e == (Precision - 1) * entries[l]
             ra == Precision * amount
             rr == Precision * res
             it == inc * total
  <2>1. SumTo(owed2, NumOwners) = it + s /\ s <= rr + e
    BY <1>7 DEF Ledger
  <2>2. s \in Int
    BY <1>1, <1>4, SumToInt
  <2>3. e \in Int /\ ra \in Int /\ rr \in Int /\ it \in Int
    <3> HIDE DEF res, inc, total
    <3> QED BY <1>1, <1>2
  <2>4. Precision * (res + amount) = rr + ra
    <3> HIDE DEF res
    <3> QED BY <1>1
  <2>5. it <= ra
    BY <1>2
  <2>6. it + s <= rr + ra + e
    <3> HIDE DEF s, e, ra, rr, it
    <3> QED BY <2>1, <2>2, <2>3, <2>5
  <2> QED BY <2>1, <2>4, <2>6
<1>9. ASSUME NEW o \in Owners
      PROVE  PendingReward(position'[l][o], launch'[l]) >= 0
  <2> DEFINE w == position[l][o].weight
             d == position[l][o].rewardDebt
  <2>1. w \in Nat /\ d \in Nat
    BY PositionTypes
  <2>2. RewardDebt(w, acc) <= RewardDebt(w, acc + inc)
    <3>1. acc + inc \in Nat /\ acc <= acc + inc
      <4> HIDE DEF acc, inc
      <4> QED BY <1>1, <1>2
    <3> HIDE DEF w, acc, inc
    <3> QED BY <1>1, <2>1, <3>1, RewardDebtMonotone
  <2>3. RewardDebt(w, acc) \in Nat /\ RewardDebt(w, acc + inc) \in Nat
    <3>1. acc + inc \in Nat
      <4> HIDE DEF acc, inc
      <4> QED BY <1>1, <1>2
    <3> HIDE DEF w, acc, inc
    <3> QED BY <1>1, <2>1, <3>1, RewardDebtNat
  <2>4. RewardDebt(w, acc) - d >= 0
    BY DEF Ledger, PendingReward
  <2> DEFINE x == RewardDebt(w, acc)
             y == RewardDebt(w, acc + inc)
  <2>5. y - d >= 0
    <3>1. x \in Nat /\ y \in Nat /\ x <= y /\ x - d >= 0
      BY <2>2, <2>3, <2>4
    <3> HIDE DEF x, y, d
    <3> QED BY <2>1, <3>1
  <2> QED BY <1>3, <2>5 DEF PendingReward
<1>10. /\ launch'[l].totalWeightedStake = SumTo([o \in Owners |-> position'[l][o].weight], NumOwners)
       /\ stakingVault'[l] >= SumTo([o \in Owners |-> position'[l][o].amount], NumOwners)
       /\ lamports'[l] >= launch'[l].rewardReserve
  <2>1. /\ launch[l].totalWeightedStake = SumTo([o \in Owners |-> position[l][o].weight], NumOwners)
        /\ stakingVault[l] >= SumTo([o \in Owners |-> position[l][o].amount], NumOwners)
    BY DEF Ledger, Weights, Amounts
  <2>2. lamports[l] \in Nat /\ lamports[l] >= res /\ lamports'[l] = lamports[l] + amount
        /\ stakingVault'[l] = stakingVault[l]
    BY DEF Ledger, Credited, TypeOK
  <2>3. lamports'[l] >= res + amount
    <3> HIDE DEF res
    <3> QED BY <1>1, <2>2
  <2> HIDE DEF res, total
  <2> QED BY <1>3, <2>1, <2>2, <2>3 DEF total
<1>11. entries'[l] = entries[l]
  BY DEF Credited
<1> QED BY <1>0, <1>3, <1>8, <1>9, <1>10, <1>11 DEF Ledger, Weights, Amounts, Owed

\* What a settled position is owed afterwards: less than a lamport after an
\* entry; otherwise what it was owed less what it was paid, or nothing.
LEMMA SettledOwed ==
  ASSUME NEW P \in Nat \ {0}, NEW acc \in Nat, NEW w \in Nat, NEW d \in Nat, NEW w2 \in Nat,
         NEW floor \in Nat, NEW floor2 \in Nat, NEW paid \in Nat,
         paid = floor - d,
         P * floor <= w * acc, P * floor2 <= w2 * acc, w2 * acc <= P * floor2 + (P - 1),
         w2 = w => floor2 = floor
  PROVE  LET old == w * acc - P * d
             new == w2 * acc - P * floor2
         IN  /\ old \in Int /\ new \in Int
             /\ P * paid <= old
             /\ new <= P - 1
             /\ w2 = w => new = old - P * paid
             /\ w2 = 0 => new <= 0
<1>1. PICK x, y, pd, pf, pf2 : /\ x = w * acc /\ y = w2 * acc
                               /\ pd = P * d /\ pf = P * floor /\ pf2 = P * floor2
  OBVIOUS
<1>2. x \in Nat /\ y \in Nat /\ pd \in Nat /\ pf \in Nat /\ pf2 \in Nat
  BY <1>1, ProductNat
<1>3. P * paid = pf - pd
  BY <1>1
<1>4. pf <= x /\ pf2 <= y /\ y <= pf2 + (P - 1)
  BY <1>1
<1>5. w2 = w => x = y /\ pf = pf2
  BY <1>1
<1>6. w2 = 0 => y = 0
  BY <1>1
<1>7. /\ x - pd \in Int /\ y - pf2 \in Int
      /\ pf - pd <= x - pd
      /\ y - pf2 <= P - 1
      /\ w2 = w => y - pf2 = (x - pd) - (pf - pd)
      /\ w2 = 0 => y - pf2 <= 0
  BY <1>2, <1>4, <1>5, <1>6
<1> QED BY <1>1, <1>3, <1>7, Zenon

\* The functions the ledger sums over, after a step.
LEMMA NextLedgerTypes ==
  ASSUME TypeOK', NEW l \in Launches, NEW o \in Owners
  PROVE  /\ position'[l][o].weight \in Nat
         /\ position'[l][o].amount \in Nat
         /\ position'[l][o].rewardDebt \in Nat
         /\ launch'[l].accRewardPerWeight \in Nat
         /\ launch'[l].rewardReserve \in Nat
<1>1. PICK pos \in StakePosition : pos = position'[l][o]
  BY DEF TypeOK
<1>2. PICK lc \in LaunchConfig : lc = launch'[l]
  BY DEF TypeOK
<1>3. pos.weight \in Nat /\ pos.amount \in Nat /\ pos.rewardDebt \in Nat
  BY RewardMathAssumption DEF StakePosition, U64, U128
<1>4. lc.accRewardPerWeight \in Nat /\ lc.rewardReserve \in Nat
  BY RewardMathAssumption DEF LaunchConfig, U64, U128
<1> QED BY <1>1, <1>2, <1>3, <1>4

\* A settlement keeps the ledger.
LEMMA SettledLedger ==
  ASSUME TypeOK, TypeOK', NEW l \in Launches, NEW o \in Owners, Ledger(l), Settled(l, o)
  PROVE  Ledger(l)'
<1>0. PICK old, new, paid, acc, res, n :
        /\ old = position[l][o] /\ new = position'[l][o]
        /\ paid = PendingReward(position[l][o], launch[l])
        /\ acc = launch[l].accRewardPerWeight /\ res = launch[l].rewardReserve
        /\ n = NumOwners
  OBVIOUS
<1>1. /\ old.weight \in Nat /\ old.amount \in Nat /\ old.rewardDebt \in Nat
      /\ new.weight \in Nat /\ new.amount \in Nat /\ new.rewardDebt \in Nat
      /\ acc \in Nat /\ res \in Nat /\ entries[l] \in Nat
      /\ n \in Nat /\ o \in 1..n /\ Precision \in Nat \ {0}
  <2>1. NumOwners \in Nat /\ o \in 1..NumOwners
    BY StakingAssumption DEF Owners
  <2> QED BY <1>0, <2>1, LaunchTypes, PositionTypes, NextLedgerTypes, RewardMathAssumption
<1>2. PICK w, w2, a, a2, ow, ow2 :
        /\ w = Weights(l)
        /\ w2 = [p \in Owners |-> position'[l][p].weight]
        /\ a = Amounts(l)
        /\ a2 = [p \in Owners |-> position'[l][p].amount]
        /\ ow = Owed(l)
        /\ ow2 = [p \in Owners |-> position'[l][p].weight * launch'[l].accRewardPerWeight
                                     - Precision * position'[l][p].rewardDebt]
  OBVIOUS
<1>3. /\ w \in [1..n -> Int] /\ a \in [1..n -> Int] /\ ow \in [1..n -> Int]
  BY <1>0, <1>2, LedgerTypes
<1>4. /\ w2 \in [1..n -> Int] /\ a2 \in [1..n -> Int] /\ ow2 \in [1..n -> Int]
  <2>1. ASSUME NEW p \in Owners
        PROVE  /\ position'[l][p].weight \in Int /\ position'[l][p].amount \in Int
               /\ position'[l][p].weight * launch'[l].accRewardPerWeight
                    - Precision * position'[l][p].rewardDebt \in Int
    BY <1>1, NextLedgerTypes
  <2> QED BY <1>0, <1>2, <2>1 DEF Owners
<1>5. ASSUME NEW p \in 1..n, p # o
      PROVE  w2[p] = w[p] /\ a2[p] = a[p] /\ ow2[p] = ow[p]
  BY <1>0, <1>2, <1>5 DEF Settled, Weights, Amounts, Owed, Owners
<1>6. /\ w[o] = old.weight /\ w2[o] = new.weight
      /\ a[o] = old.amount /\ a2[o] = new.amount
      /\ ow[o] = old.weight * acc - Precision * old.rewardDebt
      /\ ow2[o] = new.weight * acc - Precision * new.rewardDebt
  BY <1>0, <1>2 DEF Settled, Weights, Amounts, Owed
<1>7. /\ SumTo(w2, n) = SumTo(w, n) - old.weight + new.weight
      /\ SumTo(a2, n) = SumTo(a, n) - old.amount + new.amount
      /\ SumTo(ow2, n) = SumTo(ow, n) - ow[o] + ow2[o]
      /\ SumTo(w, n) \in Int /\ SumTo(a, n) \in Int /\ SumTo(ow, n) \in Int
  <2>1. /\ \A p \in 1..n : p # o => w2[p] = w[p]
        /\ \A p \in 1..n : p # o => a2[p] = a[p]
        /\ \A p \in 1..n : p # o => ow2[p] = ow[p]
    BY <1>5
  <2>2. /\ SumTo(w2, n) = SumTo(w, n) - w[o] + w2[o]
        /\ SumTo(a2, n) = SumTo(a, n) - a[o] + a2[o]
        /\ SumTo(ow2, n) = SumTo(ow, n) - ow[o] + ow2[o]
    BY <1>1, <1>3, <1>4, <2>1, SumToChange
  <2>3. SumTo(w, n) \in Int /\ SumTo(a, n) \in Int /\ SumTo(ow, n) \in Int
    BY <1>1, <1>3, SumToInt
  <2> QED BY <1>6, <2>2, <2>3
<1>8. PICK floor : floor = RewardDebt(old.weight, acc)
  OBVIOUS
<1>9. /\ floor \in Nat /\ Precision * floor <= old.weight * acc
      /\ Precision * new.rewardDebt <= new.weight * acc
      /\ new.weight * acc <= Precision * new.rewardDebt + (Precision - 1)
      /\ new.weight = old.weight => new.rewardDebt = floor
  <2>1. new.rewardDebt = RewardDebt(new.weight, acc)
    BY <1>0 DEF Settled
  <2> QED BY <1>1, <1>8, <2>1, RewardDebtBounds
<1>10. paid \in Nat /\ paid = floor - old.rewardDebt
  <2>1. paid = floor - old.rewardDebt /\ paid >= 0
    BY <1>0, <1>8 DEF Settled, PendingReward
  <2> QED BY <1>1, <1>9, <2>1
<1>11. /\ ow[o] \in Int /\ ow2[o] \in Int
       /\ Precision * paid <= ow[o]
       /\ ow2[o] <= Precision - 1
       /\ new.weight = old.weight => ow2[o] = ow[o] - Precision * paid
       /\ new.weight = 0 => ow2[o] <= 0
  BY <1>1, <1>6, <1>9, <1>10, SettledOwed
<1>12. /\ launch'[l].totalWeightedStake = SumTo(w2, n)
       /\ stakingVault'[l] >= SumTo(a2, n)
       /\ lamports'[l] >= launch'[l].rewardReserve
       /\ launch'[l].rewardReserve = res - paid
  <2>1. /\ launch'[l].totalWeightedStake = SumTo(w, n) - old.weight + new.weight
        /\ stakingVault'[l] = stakingVault[l] - old.amount + new.amount
        /\ lamports'[l] = lamports[l] - paid
        /\ launch'[l].rewardReserve = res - paid
        /\ stakingVault[l] >= SumTo(a, n) /\ lamports[l] >= res
    BY <1>0, <1>2 DEF Ledger, Settled
  <2>2. stakingVault[l] \in Nat /\ lamports[l] \in Nat
    BY DEF TypeOK
  <2>3. lamports'[l] >= res - paid
    BY <1>1, <1>10, <2>1, <2>2
  <2>4. stakingVault'[l] >= SumTo(a2, n)
    BY <1>1, <1>7, <2>1, <2>2
  <2> QED BY <1>7, <2>1, <2>3, <2>4
<1>13. ASSUME NEW p \in Owners
       PROVE  PendingReward(position'[l][p], launch'[l]) >= 0
  <2>1. CASE p = o
    <3>1. PendingReward(position'[l][p], launch'[l]) = new.rewardDebt - new.rewardDebt
      BY <1>0, <2>1 DEF Settled, PendingReward
    <3> QED BY <1>1, <3>1
  <2>2. CASE p # o
    <3>1. PendingReward(position'[l][p], launch'[l]) = PendingReward(position[l][p], launch[l])
      BY <2>2 DEF Settled, PendingReward
    <3> QED BY <3>1 DEF Ledger
  <2> QED BY <2>1, <2>2
<1>14. SumTo(ow2, n)
         <= Precision * (res - paid) + (Precision - 1) * entries'[l]
  <2>1. PICK s, r, pp, e : /\ s = SumTo(ow, n) /\ r = Precision * res
                           /\ pp = Precision * paid /\ e = (Precision - 1) * entries[l]
    OBVIOUS
  <2>2. s \in Int /\ r \in Int /\ pp \in Nat /\ e \in Int
    BY <1>1, <1>7, <1>10, <2>1
  <2>3. s <= r + e
    BY <1>0, <1>2, <2>1 DEF Ledger
  <2>4. Precision * (res - paid) = r - pp
    BY <1>1, <1>10, <2>1
  <2>5. SumTo(ow2, n) = s - ow[o] + ow2[o] /\ pp <= ow[o]
    BY <1>7, <1>11, <2>1
  <2>6. CASE entries'[l] = entries[l] + 1
    <3>1. (Precision - 1) * entries'[l] = e + (Precision - 1)
      BY <1>1, <2>1, <2>6
    <3>2. s - ow[o] + ow2[o] <= r - pp + (e + (Precision - 1))
      BY <1>1, <1>11, <2>2, <2>3, <2>5
    <3> QED BY <2>4, <2>5, <3>1, <3>2
  <2>7. CASE entries'[l] = entries[l] /\ (new.weight = old.weight \/ new.weight = 0)
    <3>1. (Precision - 1) * entries'[l] = e
      BY <2>1, <2>7
    <3>2. ow2[o] <= ow[o] - pp
      <4>1. new.weight = old.weight => ow2[o] = ow[o] - pp
        BY <1>11, <2>1
      <4>2. new.weight = 0 => ow2[o] <= 0
        BY <1>11
      <4> QED BY <1>11, <2>2, <2>5, <2>7, <4>1, <4>2
    <3>3. s - ow[o] + ow2[o] <= r - pp + e
      BY <1>11, <2>2, <2>3, <2>5, <3>2
    <3> QED BY <2>4, <2>5, <3>1, <3>3
  <2> QED BY <1>0, <2>6, <2>7 DEF Settled
<1> QED BY <1>0, <1>2, <1>12, <1>13, <1>14 DEF Ledger, Weights, Amounts, Owed

-----------------------------------------------------------------------------
\* Every step is of one of the four kinds for every launch.
StepKind(l) ==
  \/ Untouched(l)
  \/ Given(l)
  \/ \E amount \in Nat : Credited(l, amount)
  \/ \E o \in Owners : Settled(l, o)

\* stake settles the new position, which had nothing pending.
LEMMA StakeKind ==
  ASSUME TypeOK, AccountsExist, NEW l \in Launches, NEW o \in Owners, NEW amount \in Nat,
         NEW lockDays \in LockChoices, Stake(l, o, amount, lockDays), NEW m \in Launches
  PROVE  StepKind(m)
<1> DEFINE pos == NewPosition(launch[l], amount, lockDays)
<1>1. CASE m # l
  <2>1. Untouched(m)
    BY <1>1 DEF Untouched, Stake, DepositTokens, CountEntry, TypeOK
  <2> QED BY <2>1 DEF StepKind
<1>2. CASE m = l
  <2>1. /\ launch[l] \in LaunchConfig /\ launch[l].totalWeightedStake \in Nat
        /\ launch[l].accRewardPerWeight \in Nat /\ launch[l].rewardReserve \in Nat
        /\ lamports[l] \in Nat /\ stakingVault[l] \in Nat
    BY LaunchTypes DEF TypeOK
  <2>2. position[l][o] = EmptyPosition
    BY DEF AccountsExist, Stake
  <2>3. PendingReward(position[l][o], launch[l]) = 0
    BY <2>1, <2>2, RewardDebtZero DEF PendingReward, EmptyPosition
  <2>4. /\ position'[l][o] = pos /\ \A p \in Owners : p # o => position'[l][p] = position[l][p]
        /\ launch'[l] = [launch[l] EXCEPT !.totalWeightedStake = launch[l].totalWeightedStake + pos.weight]
        /\ lamports'[l] = lamports[l]
    BY DEF Stake, TypeOK
  <2>5. /\ stakingVault'[l] = stakingVault[l] + amount
        /\ entries'[l] = entries[l] + 1
    BY DEF Stake, DepositTokens, CountEntry, TypeOK
  <2>6. /\ launch'[l].totalWeightedStake = launch[l].totalWeightedStake + pos.weight
        /\ launch'[l].accRewardPerWeight = launch[l].accRewardPerWeight
        /\ launch'[l].rewardReserve = launch[l].rewardReserve
    BY <2>1, <2>4 DEF LaunchConfig
  <2>7. pos.amount = amount /\ pos.rewardDebt = RewardDebt(pos.weight, launch[l].accRewardPerWeight)
    BY DEF NewPosition
  <2>8. /\ launch[l].totalWeightedStake - 0 + pos.weight = launch[l].totalWeightedStake + pos.weight
        /\ launch[l].rewardReserve - 0 = launch[l].rewardReserve
        /\ lamports[l] - 0 = lamports[l] /\ stakingVault[l] - 0 + amount = stakingVault[l] + amount
    BY <2>1
  <2>9. Settled(l, o)
    <3> HIDE DEF pos
    <3> QED BY <2>2, <2>3, <2>4, <2>5, <2>6, <2>7, <2>8 DEF Settled, EmptyPosition
  <2> QED BY <1>2, <2>9 DEF StepKind
<1> QED BY <1>1, <1>2

\* increase_stake settles the position it reweights.
LEMMA IncreaseStakeKind ==
  ASSUME TypeOK, NEW l \in Launches, NEW o \in Owners, NEW amount \in Nat,
         NEW lockDays \in LockChoices, IncreaseStake(l, o, amount, lockDays), NEW m \in Launches
  PROVE  StepKind(m)
<1> DEFINE old     == position[l][o]
           pending == PendingReward(old, launch[l])
           pos     == NewPosition(launch[l], old.amount + amount, lockDays)
           total   == launch[l].totalWeightedStake - old.weight + pos.weight
<1>1. CASE m # l
  <2>1. Untouched(m)
    BY <1>1 DEF Untouched, IncreaseStake, DepositTokens, PayRewards, CountEntry, TypeOK
  <2> QED BY <2>1 DEF StepKind
<1>2. CASE m = l
  <2>1. /\ launch[l] \in LaunchConfig /\ old.amount \in Nat /\ stakingVault[l] \in Nat
    BY LaunchTypes, PositionTypes DEF TypeOK
  <2>2. pending >= 0
    BY PendingType DEF IncreaseStake
  <2>3. /\ position'[l][o] = pos /\ \A p \in Owners : p # o => position'[l][p] = position[l][p]
        /\ launch'[l] = [AfterPayment(launch[l], pending) EXCEPT !.totalWeightedStake = total]
        /\ lamports'[l] = lamports[l] - pending
    BY DEF IncreaseStake, PayRewards, WeightWithout, TypeOK
  <2>4. /\ stakingVault'[l] = stakingVault[l] + amount
        /\ entries'[l] = entries[l] + 1
    BY DEF IncreaseStake, DepositTokens, CountEntry, TypeOK
  <2>5. /\ launch'[l].totalWeightedStake = total
        /\ launch'[l].accRewardPerWeight = launch[l].accRewardPerWeight
        /\ launch'[l].rewardReserve = launch[l].rewardReserve - pending
    <3> HIDE DEF total, pending
    <3> QED BY <2>1, <2>3 DEF AfterPayment, LaunchConfig
  <2>6. /\ pos.amount = old.amount + amount
        /\ pos.rewardDebt = RewardDebt(pos.weight, launch[l].accRewardPerWeight)
    BY DEF NewPosition
  <2>7. stakingVault[l] - old.amount + (old.amount + amount) = stakingVault[l] + amount
    BY <2>1
  <2>8. Settled(l, o)
    <3> HIDE DEF pos
    <3> QED BY <2>2, <2>3, <2>4, <2>5, <2>6, <2>7 DEF Settled
  <2> QED BY <1>2, <2>8 DEF StepKind
<1> QED BY <1>1, <1>2

\* unstake settles the position it closes, which weighs nothing afterwards.
LEMMA UnstakeKind ==
  ASSUME TypeOK, NEW l \in Launches, NEW o \in Owners, Unstake(l, o), NEW m \in Launches
  PROVE  StepKind(m)
<1> DEFINE old     == position[l][o]
           pending == PendingReward(old, launch[l])
           rest    == launch[l].totalWeightedStake - old.weight
<1>1. CASE m # l
  <2>1. Untouched(m)
    BY <1>1 DEF Untouched, Unstake, WithdrawTokens, PayRewards, TypeOK
  <2> QED BY <2>1 DEF StepKind
<1>2. CASE m = l
  <2>1. /\ launch[l] \in LaunchConfig /\ launch[l].totalWeightedStake \in Nat
        /\ launch[l].accRewardPerWeight \in Nat
        /\ old.amount \in Nat /\ old.weight \in Nat /\ stakingVault[l] \in Nat
    BY LaunchTypes, PositionTypes DEF TypeOK
  <2>2. pending >= 0
    BY PendingType DEF Unstake
  <2>3. /\ position'[l][o] = EmptyPosition
        /\ \A p \in Owners : p # o => position'[l][p] = position[l][p]
        /\ launch'[l] = [AfterPayment(launch[l], pending) EXCEPT !.totalWeightedStake = rest]
        /\ lamports'[l] = lamports[l] - pending
    BY DEF Unstake, PayRewards, WeightWithout, TypeOK
  <2>4. stakingVault'[l] = stakingVault[l] - old.amount /\ entries'[l] = entries[l]
    BY DEF Unstake, WithdrawTokens, TypeOK
  <2>5. /\ launch'[l].totalWeightedStake = rest
        /\ launch'[l].accRewardPerWeight = launch[l].accRewardPerWeight
        /\ launch'[l].rewardReserve = launch[l].rewardReserve - pending
    <3> HIDE DEF rest, pending
    <3> QED BY <2>1, <2>3 DEF AfterPayment, LaunchConfig
  <2>6. /\ EmptyPosition.weight = 0 /\ EmptyPosition.amount = 0 /\ EmptyPosition.rewardDebt = 0
        /\ RewardDebt(0, launch[l].accRewardPerWeight) = 0
    BY <2>1, RewardDebtZero DEF EmptyPosition
  <2>7. rest + 0 = rest /\ stakingVault[l] - old.amount + 0 = stakingVault[l] - old.amount
    BY <2>1
  <2>8. Settled(l, o)
    BY <2>2, <2>3, <2>4, <2>5, <2>6, <2>7 DEF Settled
  <2> QED BY <1>2, <2>8 DEF StepKind
<1> QED BY <1>1, <1>2

\* claim_rewards settles the position it pays, which keeps its weight.
LEMMA ClaimRewardsKind ==
  ASSUME TypeOK, NEW l \in Launches, NEW o \in Owners, ClaimRewards(l, o), NEW m \in Launches
  PROVE  StepKind(m)
<1> DEFINE old     == position[l][o]
           pending == PendingReward(old, launch[l])
           debt    == RewardDebt(old.weight, launch[l].accRewardPerWeight)
<1>1. CASE m # l
  <2>1. Untouched(m)
    BY <1>1 DEF Untouched, ClaimRewards, PayRewards, tokenVars, TypeOK
  <2> QED BY <2>1 DEF StepKind
<1>2. CASE m = l
  <2>1. /\ launch[l] \in LaunchConfig /\ launch[l].totalWeightedStake \in Nat
        /\ old \in StakePosition /\ old.amount \in Nat /\ old.weight \in Nat
        /\ stakingVault[l] \in Nat
    BY LaunchTypes, PositionTypes DEF TypeOK
  <2>2. pending >= 0
    BY PendingType DEF ClaimRewards
  <2>3. /\ position'[l][o] = [old EXCEPT !.rewardDebt = debt]
        /\ \A p \in Owners : p # o => position'[l][p] = position[l][p]
        /\ launch'[l] = AfterPayment(launch[l], pending)
        /\ lamports'[l] = lamports[l] - pending
        /\ stakingVault'[l] = stakingVault[l] /\ entries'[l] = entries[l]
    BY DEF ClaimRewards, PayRewards, tokenVars, TypeOK
  <2>4. /\ launch'[l].totalWeightedStake = launch[l].totalWeightedStake
        /\ launch'[l].accRewardPerWeight = launch[l].accRewardPerWeight
        /\ launch'[l].rewardReserve = launch[l].rewardReserve - pending
    <3> HIDE DEF pending
    <3> QED BY <2>1, <2>3 DEF AfterPayment, LaunchConfig
  <2>5. /\ position'[l][o].amount = old.amount /\ position'[l][o].weight = old.weight
        /\ position'[l][o].rewardDebt = debt
    <3> HIDE DEF debt, old
    <3> QED BY <2>1, <2>3 DEF StakePosition
  <2>6. /\ launch[l].totalWeightedStake - old.weight + old.weight = launch[l].totalWeightedStake
        /\ stakingVault[l] - old.amount + old.amount = stakingVault[l]
    BY <2>1
  <2>7. Settled(l, o)
    BY <2>2, <2>3, <2>4, <2>5, <2>6 DEF Settled
  <2> QED BY <1>2, <2>7 DEF StepKind
<1> QED BY <1>1, <1>2

\* A distribution credits its launch and, unless that is the main launch, the
\* main launch; a share of zero is not credited.
LEMMA DistributeFeesKind ==
  ASSUME TypeOK, NEW l \in Launches, NEW amount \in Nat \ {0}, DistributeFees(l, amount),
         NEW m \in Launches
  PROVE  StepKind(m)
<1>0. PICK own, main : /\ own = RewardSplitAmounts(amount).reward
                       /\ main = RewardSplitAmounts(amount).mainReward
  OBVIOUS
<1> DEFINE kept == amount - RewardSplitAmounts(amount).protocolFee
<1>1. own \in Nat /\ main \in Nat /\ own + main \in Nat \ {0}
  BY <1>0 DEF RewardSplitAmounts, ProtocolFeeAmount, BpsDenominator, ProtocolFeeBps, MainRewardBps
<1>6. kept = own + main /\ kept - main = own
  BY <1>0 DEF RewardSplitAmounts, ProtocolFeeAmount, BpsDenominator, ProtocolFeeBps, MainRewardBps
<1>2. MainLaunch \in Launches /\ lamports[m] \in Nat
  BY StakingAssumption DEF TypeOK
<1>3. /\ position'[m] = position[m] /\ entries'[m] = entries[m]
      /\ stakingVault'[m] = stakingVault[m]
  BY DEF DistributeFees, tokenVars
<1>4. CASE l = MainLaunch /\ DistributeToMain(amount)
  <2>1. /\ CanApplyRewards(launch[l], own + main)
        /\ launch' = [launch EXCEPT ![l] = ApplyRewards(launch[l], own + main)]
        /\ lamports' = [lamports EXCEPT ![l] = lamports[l] + (own + main)]
    <3>1. /\ own + main > 0 => CanApplyRewards(launch[l], own + main)
          /\ launch' = [launch EXCEPT ![l] = ApplyRewards(launch[l], own + main)]
          /\ lamports' = [lamports EXCEPT ![l] = lamports[l] + kept]
      BY <1>0, <1>4 DEF DistributeToMain
    <3> HIDE DEF kept
    <3> QED BY <1>1, <1>6, <3>1
  <2>2. CASE m = l
    BY <1>1, <1>3, <2>1, <2>2 DEF StepKind, Credited, TypeOK
  <2>3. CASE m # l
    BY <1>3, <2>1, <2>3 DEF StepKind, Untouched, TypeOK
  <2> QED BY <2>2, <2>3
<1>5. CASE l # MainLaunch /\ DistributeToOther(l, amount)
  <2>1. /\ own > 0 => CanApplyRewards(launch[l], own)
        /\ main > 0 => CanApplyRewards(launch[MainLaunch], main)
        /\ launch' = [launch EXCEPT ![l] = IF own > 0 THEN ApplyRewards(@, own) ELSE @,
                                    ![MainLaunch] = IF main > 0 THEN ApplyRewards(@, main) ELSE @]
        /\ lamports' = [lamports EXCEPT ![l] = @ + own, ![MainLaunch] = @ + main]
    <3>1. /\ own > 0 => CanApplyRewards(launch[l], own)
          /\ main > 0 => CanApplyRewards(launch[MainLaunch], main)
          /\ launch' = [launch EXCEPT ![l] = IF own > 0 THEN ApplyRewards(@, own) ELSE @,
                                      ![MainLaunch] = IF main > 0 THEN ApplyRewards(@, main) ELSE @]
          /\ lamports' = [lamports EXCEPT ![l] = @ + (kept - main), ![MainLaunch] = @ + main]
      BY <1>0, <1>5 DEF DistributeToOther, MoveMainLamports
    <3> HIDE DEF kept
    <3> QED BY <1>6, <3>1
  <2>2. CASE m = l
    <3>1. /\ launch'[m] = IF own > 0 THEN ApplyRewards(launch[m], own) ELSE launch[m]
          /\ lamports'[m] = lamports[m] + own
      BY <1>2, <1>5, <2>1, <2>2 DEF TypeOK
    <3>2. own = 0 => Untouched(m)
      BY <1>2, <1>3, <3>1 DEF Untouched
    <3>3. own > 0 => Credited(m, own)
      BY <1>3, <2>1, <2>2, <3>1 DEF Credited
    <3> QED BY <1>1, <3>2, <3>3 DEF StepKind
  <2>3. CASE m = MainLaunch
    <3>1. /\ launch'[m] = IF main > 0 THEN ApplyRewards(launch[m], main) ELSE launch[m]
          /\ lamports'[m] = lamports[m] + main
      BY <1>2, <1>5, <2>1, <2>3 DEF TypeOK
    <3>2. main = 0 => Untouched(m)
      BY <1>2, <1>3, <3>1 DEF Untouched
    <3>3. main > 0 => Credited(m, main)
      BY <1>3, <2>1, <2>3, <3>1 DEF Credited
    <3> QED BY <1>1, <3>2, <3>3 DEF StepKind
  <2>4. CASE m # l /\ m # MainLaunch
    BY <1>3, <2>1, <2>4 DEF StepKind, Untouched, TypeOK
  <2> QED BY <2>2, <2>3, <2>4
<1> QED BY <1>4, <1>5 DEF DistributeFees

\* A claim of creator fees distributes a positive amount to a live launch.
LEMMA FeeStepDistributes ==
  ASSUME TypeOK, NEW l \in Launches, FeeStep(l)
  PROVE  \/ ClaimProtocolFees(l)
         \/ HasActiveStake(l) /\ \E amount \in Nat \ {0} : DistributeFees(l, amount)
<1>1. CreatorVaultsTypeOK /\ "direct" \in Routes /\ "shared" \in Routes
  BY DEF TypeOK, Routes
<1>2. ASSUME NEW r \in Routes, SweptLamports(l, r) > 0, DistributeFees(l, SweptLamports(l, r))
      PROVE  \E amount \in Nat \ {0} : DistributeFees(l, amount)
  <2>1. SweptLamports(l, r) \in Nat \ {0}
    BY <1>1, <1>2, CollectionType
  <2> QED BY <1>2, <2>1
<1>3. ASSUME NEW r \in Routes, wsolAta[l] > 0, CollectedWsol(l, r) > 0,
             DistributeFees(l, UnwrappedLamports(l, r))
      PROVE  \E amount \in Nat \ {0} : DistributeFees(l, amount)
  <2>1. UnwrappedLamports(l, r) \in Nat \ {0}
    BY <1>1, <1>3, CollectionType
  <2> QED BY <1>3, <2>1
<1>4. CASE ClaimPumpCreatorFees(l)
  BY <1>1, <1>2, <1>4 DEF ClaimPumpCreatorFees
<1>5. CASE ClaimPumpSharedCreatorFees(l)
  BY <1>1, <1>2, <1>5 DEF ClaimPumpSharedCreatorFees
<1>6. CASE ClaimPumpSwapCreatorFees(l)
  BY <1>1, <1>3, <1>6 DEF ClaimPumpSwapCreatorFees
<1>7. CASE ClaimPumpSwapSharedCreatorFees(l)
  BY <1>1, <1>3, <1>7 DEF ClaimPumpSwapSharedCreatorFees
<1> QED BY <1>4, <1>5, <1>6, <1>7 DEF FeeStep

\* Seen from one launch, a gift leaves it untouched or gives to its accounts.
LEMMA GiftKind ==
  ASSUME TypeOK, Gift, NEW m \in Launches
  PROVE  Given(m)
<1>1. PICK l \in Launches, account \in GiftAccounts, amount \in FeeAmounts :
        Receives(l, account, amount)
  BY DEF Gift
<1>2. /\ amount \in Nat
      /\ stakingVault \in [Launches -> Nat] /\ lamports \in [Launches -> Nat]
  BY CreatorVaultsAssumption DEF TypeOK
<1>3. ASSUME NEW f \in [Launches -> Nat],
             NEW g, g = f \/ g = [f EXCEPT ![l] = @ + amount]
      PROVE  g[m] >= f[m]
  <2>1. g[m] = f[m] \/ g[m] = f[m] + amount
    BY <1>3
  <2> QED BY <1>2, <2>1
<1>4. /\ stakingVault' = stakingVault \/ stakingVault' = [stakingVault EXCEPT ![l] = @ + amount]
      /\ lamports' = lamports \/ lamports' = [lamports EXCEPT ![l] = @ + amount]
  BY <1>1 DEF Receives
<1>5. stakingVault'[m] >= stakingVault[m] /\ lamports'[m] >= lamports[m]
  BY <1>2, <1>3, <1>4
<1> QED BY <1>5 DEF Gift, Given

\* Seen from one launch, every step of the program is of one of the four kinds.
LEMMA StepKinds ==
  ASSUME TypeOK, AccountsExist, [Next]_vars, NEW m \in Launches
  PROVE  StepKind(m)
<1>1. ASSUME UNCHANGED ledgerVars, UNCHANGED tokenVars PROVE StepKind(m)
  BY <1>1 DEF StepKind, Untouched, ledgerVars, tokenVars
<1>2. ASSUME NEW l \in Launches, InitializeLaunch(l) PROVE StepKind(m)
  <2>1. launch'[m] = launch[m]
    BY <1>2 DEF InitializeLaunch, AccountsExist, TypeOK
  <2> QED BY <1>2, <2>1 DEF InitializeLaunch, tokenVars, StepKind, Untouched
<1>3. ASSUME NEW l \in Launches, NEW o \in Owners, OwnerStep(l, o) PROVE StepKind(m)
  <2>1. 1..wallet[l][o] \subseteq Nat
    BY DEF TypeOK
  <2> QED BY <1>3, <2>1, StakeKind, IncreaseStakeKind, UnstakeKind, ClaimRewardsKind DEF OwnerStep
<1>4. ASSUME NEW l \in Launches, FeeStep(l) PROVE StepKind(m)
  <2>1. CASE ClaimProtocolFees(l)
    BY <1>1, <2>1 DEF ClaimProtocolFees
  <2>2. CASE \E amount \in Nat \ {0} : DistributeFees(l, amount)
    BY <2>2, DistributeFeesKind
  <2> QED BY <1>4, <2>1, <2>2, FeeStepDistributes
<1>5. CASE Tick
  BY <1>1, <1>5 DEF Tick
<1>6. CASE Outside
  BY <1>1, <1>6 DEF Outside
<1>7. CASE Gift
  BY <1>7, GiftKind DEF StepKind
<1>8. CASE UNCHANGED vars
  BY <1>1, <1>8 DEF vars
<1> QED BY <1>2, <1>3, <1>4, <1>5, <1>6, <1>7, <1>8 DEF Next

\* Accounts that do not exist stay empty.
LEMMA AccountsExistStep ==
  ASSUME TypeOK, TypeOK', AccountsExist, [Next]_vars
  PROVE  AccountsExist'
<1>1. ASSUME UNCHANGED <<live, launch, position>> PROVE AccountsExist'
  BY <1>1 DEF AccountsExist, HasPosition
<1>2. ASSUME NEW l \in Launches, InitializeLaunch(l) PROVE AccountsExist'
  BY <1>2 DEF InitializeLaunch, AccountsExist, HasPosition, TypeOK
<1>3. ASSUME NEW l \in Launches, NEW o \in Owners, NEW pos, l \in live, live' = live,
             pos = EmptyPosition \/ pos.amount > 0,
             position' = [position EXCEPT ![l][o] = pos],
             \A m \in Launches : m # l => launch'[m] = launch[m]
      PROVE  AccountsExist'
  <2>1. ASSUME NEW m \in Launches, NEW p \in Owners
        PROVE  /\ m = l /\ p = o => position'[m][p] = pos
               /\ ~ (m = l /\ p = o) => position'[m][p] = position[m][p]
    BY <1>3 DEF TypeOK
  <2>2. ASSUME NEW m \in Launches, NEW p \in Owners, ~ (position'[m][p].amount > 0)
        PROVE  position'[m][p] = EmptyPosition
    BY <1>3, <2>1, <2>2 DEF AccountsExist, HasPosition
  <2>3. ASSUME NEW m \in Launches \ live
        PROVE  launch'[m] = EmptyLaunch /\ \A p \in Owners : ~ (position'[m][p].amount > 0)
    BY <1>3, <2>1, <2>3 DEF AccountsExist, HasPosition
  <2> QED BY <1>3, <2>2, <2>3 DEF AccountsExist, HasPosition
<1>4. ASSUME NEW l \in Launches, NEW o \in Owners, OwnerStep(l, o) PROVE AccountsExist'
  <2>1. ASSUME NEW amount \in 1..wallet[l][o], NEW lockDays \in LockChoices,
               Stake(l, o, amount, lockDays)
        PROVE  AccountsExist'
    <3> DEFINE pos == NewPosition(launch[l], amount, lockDays)
    <3>1. pos.amount > 0
      BY <2>1 DEF Stake, NewPosition
    <3>2. /\ l \in live /\ live' = live /\ position' = [position EXCEPT ![l][o] = pos]
          /\ \A m \in Launches : m # l => launch'[m] = launch[m]
      BY <2>1 DEF Stake, TypeOK
    <3> HIDE DEF pos
    <3> QED BY <1>3, <3>1, <3>2
  <2>2. HasPosition(l, o) => l \in live
    BY DEF AccountsExist
  <2>3. ASSUME NEW amount \in 1..wallet[l][o], NEW lockDays \in LockChoices,
               IncreaseStake(l, o, amount, lockDays)
        PROVE  AccountsExist'
    <3> DEFINE pos == NewPosition(launch[l], position[l][o].amount + amount, lockDays)
    <3>1. pos.amount > 0
      BY <2>3, PositionTypes DEF IncreaseStake, NewPosition, TypeOK
    <3>2. /\ l \in live /\ live' = live /\ position' = [position EXCEPT ![l][o] = pos]
          /\ \A m \in Launches : m # l => launch'[m] = launch[m]
      BY <2>2, <2>3 DEF IncreaseStake, TypeOK
    <3> HIDE DEF pos
    <3> QED BY <1>3, <3>1, <3>2
  <2>4. CASE Unstake(l, o)
    <3>1. /\ l \in live /\ live' = live /\ position' = [position EXCEPT ![l][o] = EmptyPosition]
          /\ \A m \in Launches : m # l => launch'[m] = launch[m]
      BY <2>2, <2>4 DEF Unstake, TypeOK
    <3> QED BY <1>3, <3>1
  <2>5. CASE ClaimRewards(l, o)
    <3> DEFINE debt == RewardDebt(position[l][o].weight, launch[l].accRewardPerWeight)
               pos  == [position[l][o] EXCEPT !.rewardDebt = debt]
    <3>1. pos.amount > 0
      <4>1. position[l][o] \in StakePosition /\ position[l][o].amount > 0
        BY <2>5, PositionTypes DEF ClaimRewards, HasPosition
      <4> HIDE DEF debt
      <4> QED BY <4>1 DEF StakePosition
    <3>2. /\ l \in live /\ live' = live /\ position' = [position EXCEPT ![l][o] = pos]
          /\ \A m \in Launches : m # l => launch'[m] = launch[m]
      BY <2>2, <2>5 DEF ClaimRewards, TypeOK
    <3> HIDE DEF pos
    <3> QED BY <1>3, <3>1, <3>2
  <2> QED BY <1>4, <2>1, <2>3, <2>4, <2>5 DEF OwnerStep
<1>5. ASSUME NEW l \in Launches, FeeStep(l) PROVE AccountsExist'
  <2>1. CASE ClaimProtocolFees(l)
    BY <1>1, <2>1 DEF ClaimProtocolFees, ledgerVars
  <2>2. ASSUME HasActiveStake(l), NEW amount \in Nat \ {0}, DistributeFees(l, amount)
        PROVE  AccountsExist'
    <3>1. live' = live /\ position' = position
      BY <2>2 DEF DistributeFees
    <3>2. ASSUME NEW m \in Launches \ live PROVE launch'[m] = launch[m]
      BY <2>2, <3>2, StakingAssumption
         DEF DistributeFees, DistributeToMain, DistributeToOther, HasActiveStake, TypeOK
    <3> QED BY <3>1, <3>2 DEF AccountsExist, HasPosition
  <2> QED BY <1>5, <2>1, <2>2, FeeStepDistributes
<1>6. CASE Tick
  BY <1>1, <1>6 DEF Tick, ledgerVars
<1>7. CASE Outside
  BY <1>1, <1>7 DEF Outside, ledgerVars
<1>8. CASE Gift
  BY <1>1, <1>8 DEF Gift
<1>9. CASE UNCHANGED vars
  BY <1>1, <1>9 DEF vars, ledgerVars
<1> QED BY <1>2, <1>4, <1>5, <1>6, <1>7, <1>8, <1>9 DEF Next
=============================================================================
