-------------------------- MODULE StakingCorrectness --------------------------
(***************************************************************************)
(* The theorems of the SOL ledger.  LedgerInv holds initially and is kept  *)
(* by every step; each property of the ledger follows from it, and so does *)
(* that each kind of step of a launch is one kind of step of its share     *)
(* ledger.                                                                 *)
(***************************************************************************)
EXTENDS StakingRefinement, StakingLedgerProofs

\* Before any launch exists every sum is zero.
LEMMA LedgerInit == Init => LedgerInv
<1> SUFFICES ASSUME Init PROVE LedgerInv
  OBVIOUS
<1>1. TypeOK
  BY InitType
<1>2. ASSUME NEW l \in Launches
      PROVE  /\ launch[l] = EmptyLaunch /\ lamports[l] = 0
             /\ stakingVault[l] = 0 /\ entries[l] = 0
             /\ \A o \in Owners : position[l][o] = EmptyPosition
  BY DEF Init
<1>3. AccountsExist
  BY <1>2 DEF AccountsExist, HasPosition, EmptyPosition
<1>4. ASSUME NEW l \in Launches PROVE Ledger(l)
  <2>1. ASSUME NEW o \in 1..NumOwners
        PROVE  Weights(l)[o] = 0 /\ Amounts(l)[o] = 0 /\ Owed(l)[o] = 0
    <3>1. 0 * 0 - Precision * 0 = 0
      BY RewardMathAssumption
    <3> QED BY <1>2, <3>1 DEF Weights, Amounts, Owed, Owners, EmptyLaunch, EmptyPosition
  <2>2. /\ SumTo(Weights(l), NumOwners) = 0
        /\ SumTo(Amounts(l), NumOwners) = 0
        /\ SumTo(Owed(l), NumOwners) = 0
    <3>1. PICK w, a, ow, n : w = Weights(l) /\ a = Amounts(l) /\ ow = Owed(l) /\ n = NumOwners
      OBVIOUS
    <3>2. n \in Nat /\ w \in [1..n -> Int] /\ a \in [1..n -> Int] /\ ow \in [1..n -> Int]
      BY <1>1, <3>1, LedgerTypes, StakingAssumption
    <3>3. \A o \in 1..n : w[o] = 0 /\ a[o] = 0 /\ ow[o] = 0
      BY <2>1, <3>1
    <3> QED BY <3>1, <3>2, <3>3, SumToZero
  <2>3. ASSUME NEW o \in Owners
        PROVE  PendingReward(position[l][o], launch[l]) = 0
    BY <1>2, RewardDebtZero DEF PendingReward, EmptyLaunch, EmptyPosition
  <2>4. Precision * 0 + (Precision - 1) * 0 = 0
    BY RewardMathAssumption
  <2> QED BY <1>2, <2>2, <2>3, <2>4 DEF Ledger, EmptyLaunch
<1> QED BY <1>1, <1>3, <1>4 DEF LedgerInv

\* Every step keeps the ledger of every launch.
LEMMA LedgerStep == LedgerInv /\ [Next]_vars => LedgerInv'
<1> SUFFICES ASSUME LedgerInv, [Next]_vars PROVE LedgerInv'
  OBVIOUS
<1>1. TypeOK /\ AccountsExist
  BY DEF LedgerInv
<1>2. TypeOK'
  BY <1>1, NextType
<1>3. AccountsExist'
  BY <1>1, <1>2, AccountsExistStep
<1>4. ASSUME NEW l \in Launches PROVE Ledger(l)'
  <2>1. Ledger(l)
    BY DEF LedgerInv
  <2>2. StepKind(l)
    BY <1>1, StepKinds
  <2>3. ASSUME Untouched(l) PROVE Ledger(l)'
    BY <2>1, <2>3, UntouchedLedger
  <2>4. ASSUME NEW amount \in Nat, Credited(l, amount) PROVE Ledger(l)'
    BY <1>1, <2>1, <2>4, CreditedLedger
  <2>5. ASSUME NEW o \in Owners, Settled(l, o) PROVE Ledger(l)'
    BY <1>1, <1>2, <2>1, <2>5, SettledLedger
  <2>6. ASSUME Given(l) PROVE Ledger(l)'
    BY <1>1, <1>2, <2>1, <2>6, GivenLedger
  <2> QED BY <2>2, <2>3, <2>4, <2>5, <2>6 DEF StepKind
<1> QED BY <1>2, <1>3, <1>4 DEF LedgerInv

\* The books of every launch are in order in every behaviour.
THEOREM LedgerCorrect == Spec => []LedgerInv
<1>1. Init => LedgerInv
  BY LedgerInit
<1>2. LedgerInv /\ [Next]_vars => LedgerInv'
  BY LedgerStep
<1> QED BY <1>1, <1>2, PTL DEF Spec

-----------------------------------------------------------------------------
(***************************************************************************)
(* The properties.                                                         *)
(***************************************************************************)
\* The divisor of every reward is the weight of the open positions.
THEOREM WeightsAlwaysAddUp == Spec => []WeightsAddUp
<1>1. LedgerInv => WeightsAddUp
  BY DEF LedgerInv, Ledger, WeightsAddUp
<1> QED BY <1>1, LedgerCorrect, PTL

\* The staking vault always covers the principal of the open positions.
THEOREM PrincipalAlwaysBacked == Spec => []PrincipalBacked
<1>1. LedgerInv => PrincipalBacked
  BY DEF LedgerInv, Ledger, PrincipalBacked
<1> QED BY <1>1, LedgerCorrect, PTL

\* The lamports of a launch always cover the reserve it books.
THEOREM ReserveAlwaysBacked == Spec => []ReserveBacked
<1>1. LedgerInv => ReserveBacked
  BY DEF LedgerInv, Ledger, ReserveBacked
<1> QED BY <1>1, LedgerCorrect, PTL

\* pending_reward never underflows.
THEOREM DebtAlwaysCovered == Spec => []DebtCovered
<1>1. LedgerInv => DebtCovered
  BY DEF LedgerInv, Ledger, DebtCovered
<1> QED BY <1>1, LedgerCorrect, PTL

\* What is owed exceeds the reserve by less than a lamport per entry.
THEOREM OwedAlwaysBounded == Spec => []OwedBounded
<1>1. LedgerInv => OwedBounded
  BY DEF LedgerInv, Ledger, OwedBounded
<1> QED BY <1>1, LedgerCorrect, PTL

\* The payable rewards of a launch are within one lamport per entry of its
\* reserve: each position's pending reward is the floor of what it is owed.
LEMMA LedgerBoundsShortfall ==
  ASSUME LedgerInv, NEW l \in Launches
  PROVE  SumTo(Pendings(l), NumOwners) <= launch[l].rewardReserve + entries[l]
<1>1. PICK p, ow, n, res, e, pp :
        /\ p = Pendings(l) /\ ow = Owed(l) /\ n = NumOwners
        /\ res = launch[l].rewardReserve /\ e = entries[l]
        /\ pp = [o \in 1..n |-> Precision * p[o]]
  OBVIOUS
<1>2. /\ TypeOK /\ n \in Nat /\ Precision \in Nat \ {0} /\ res \in Nat /\ e \in Nat
  BY <1>1, LaunchTypes, StakingAssumption, RewardMathAssumption DEF LedgerInv
<1>3. /\ p \in [1..n -> Int] /\ ow \in [1..n -> Int]
  BY <1>1, <1>2, LedgerTypes
<1>4. ASSUME NEW o \in 1..n
      PROVE  pp[o] \in Int /\ pp[o] = Precision * p[o] /\ pp[o] <= ow[o]
  <2>1. o \in Owners
    BY <1>1 DEF Owners
  <2>2. p[o] \in Int /\ pp[o] = Precision * p[o]
    BY <1>1, <1>3
  <2>3. Precision * p[o] <= ow[o]
    BY <1>1, <1>2, <2>1, OwedCoversPending DEF Pendings
  <2> QED BY <1>2, <2>2, <2>3
<1>5. pp \in [1..n -> Int]
  BY <1>1, <1>4
<1>6. SumTo(p, n) \in Int /\ SumTo(ow, n) \in Int
  BY <1>1, <1>2, <1>3, SumToInt
<1>7. SumTo(pp, n) = Precision * SumTo(p, n)
  <2>1. PICK c : c = Precision
    OBVIOUS
  <2>2. c \in Int /\ n \in Nat /\ p \in [1..n -> Int] /\ pp \in [1..n -> Int]
    BY <1>2, <1>3, <1>5, <2>1
  <2>3. \A o \in 1..n : pp[o] = c * p[o]
    BY <1>4, <2>1
  <2>4. SumTo(pp, n) = c * SumTo(p, n)
    BY <2>2, <2>3, SumToScaled
  <2> QED BY <2>1, <2>4
<1>8. SumTo(pp, n) <= SumTo(ow, n)
  BY <1>2, <1>3, <1>4, <1>5, SumToMonotone
<1>9. SumTo(ow, n) <= Precision * res + (Precision - 1) * e
  BY <1>1 DEF LedgerInv, Ledger
<1>10. PICK sp : sp = SumTo(p, n)
  OBVIOUS
<1>11. Precision * sp < Precision * (res + e + 1)
  <2>1. PICK ps, pr, pe : /\ ps = Precision * sp /\ pr = Precision * res /\ pe = Precision * e
    OBVIOUS
  <2>2. /\ (Precision - 1) * e = pe - e
        /\ Precision * (res + e + 1) = pr + pe + Precision
    BY <1>2, <2>1
  <2>3. ps \in Int /\ pr \in Int /\ pe \in Int
    BY <1>2, <1>6, <1>10, <2>1
  <2>4. ps <= pr + (pe - e)
    <3>1. SumTo(pp, n) = ps
      BY <1>6, <1>7, <1>10, <2>1, <2>3
    <3>2. SumTo(ow, n) <= pr + (pe - e)
      BY <1>9, <2>1, <2>2
    <3> QED BY <1>2, <1>6, <1>8, <2>3, <3>1, <3>2
  <2> QED BY <1>2, <2>1, <2>2, <2>3, <2>4
<1>12. sp < res + e + 1
  BY <1>2, <1>6, <1>10, <1>11, ProductCancel
<1> QED BY <1>1, <1>2, <1>6, <1>10, <1>12

\* The payable rewards never exceed the reserve by more than one lamport per entry.
THEOREM ShortfallAlwaysBounded == Spec => []ShortfallBounded
<1>1. LedgerInv => ShortfallBounded
  BY LedgerBoundsShortfall DEF ShortfallBounded
<1> QED BY <1>1, LedgerCorrect, PTL

\* One term of a sum of naturals is at most the sum: every open position's
\* principal is in the vault, and its weight can be taken from the total.
THEOREM ExitsAlwaysCovered ==
  Spec => [](\A l \in Launches, o \in Owners :
               /\ position[l][o].amount <= stakingVault[l]
               /\ position[l][o].weight <= launch[l].totalWeightedStake)
<1>1. ASSUME LedgerInv, NEW l \in Launches, NEW o \in Owners
      PROVE  /\ position[l][o].amount <= stakingVault[l]
             /\ position[l][o].weight <= launch[l].totalWeightedStake
  <2>1. PICK w, a, n : w = Weights(l) /\ a = Amounts(l) /\ n = NumOwners
    OBVIOUS
  <2>2. n \in Nat /\ o \in 1..n /\ w \in [1..n -> Nat] /\ a \in [1..n -> Nat]
    BY <1>1, <2>1, LedgerTypes, StakingAssumption DEF LedgerInv, Owners
  <2>3. w[o] <= SumTo(w, n) /\ a[o] <= SumTo(a, n)
    BY <2>2, SumToMember
  <2>4. w[o] = position[l][o].weight /\ a[o] = position[l][o].amount
    BY <2>1 DEF Weights, Amounts
  <2>5. SumTo(a, n) <= stakingVault[l] /\ SumTo(w, n) = launch[l].totalWeightedStake
    BY <1>1, <2>1 DEF LedgerInv, Ledger
  <2>6. a[o] \in Nat /\ SumTo(a, n) \in Int /\ stakingVault[l] \in Nat
    BY <1>1, <2>1, <2>2, BalanceTypes DEF LedgerInv
  <2>7. a[o] <= stakingVault[l]
    BY <2>3, <2>5, <2>6
  <2> QED BY <2>3, <2>4, <2>5, <2>7
<1>2. LedgerInv => \A l \in Launches, o \in Owners :
                     /\ position[l][o].amount <= stakingVault[l]
                     /\ position[l][o].weight <= launch[l].totalWeightedStake
  BY <1>1
<1> QED BY <1>2, LedgerCorrect, PTL

-----------------------------------------------------------------------------
(***************************************************************************)
(* Action properties: each follows from the kind of the step.              *)
(***************************************************************************)
\* Whenever a position changes, exactly what was pending on it is paid.
THEOREM AlwaysSettledInFull == Spec => SettledInFull
<1>1. LedgerInv /\ [Next]_vars => [SettledInFullStep]_vars
  <2> SUFFICES ASSUME LedgerInv, [Next]_vars, NEW l \in Launches, NEW o \in Owners,
                      position'[l][o] # position[l][o]
               PROVE  /\ Paid(l) = PendingReward(position[l][o], launch[l])
                      /\ Paid(l) = lamports[l] - lamports'[l]
    BY DEF SettledInFullStep
  <2>1. StepKind(l)
    BY StepKinds DEF LedgerInv
  <2>2. PICK p \in Owners : Settled(l, p)
    BY <2>1 DEF StepKind, Untouched, Given, Credited
  <2>3. p = o
    BY <2>2 DEF Settled
  <2>4. PICK res, paid : res = launch[l].rewardReserve /\ paid = PendingReward(position[l][o], launch[l])
    OBVIOUS
  <2>5. /\ Paid(l) = res - (res - paid) /\ res \in Int /\ paid \in Int
    <3>1. launch[l].rewardReserve \in Int
      BY LaunchTypes DEF LedgerInv
    <3>2. PendingReward(position[l][o], launch[l]) \in Int
      <4>1. Pendings(l) \in [1..NumOwners -> Int] /\ o \in 1..NumOwners
        BY LedgerTypes DEF LedgerInv, Owners
      <4>2. Pendings(l)[o] = PendingReward(position[l][o], launch[l])
        BY DEF Pendings
      <4> QED BY <4>1, <4>2
    <3> QED BY <2>2, <2>3, <2>4, <3>1, <3>2 DEF Settled, Paid
  <2>6. res - (res - paid) = paid
    BY <2>5
  <2>7. lamports[l] - lamports'[l] = paid
    <3>1. lamports[l] \in Nat /\ lamports'[l] = lamports[l] - paid
      BY <2>2, <2>3, <2>4 DEF Settled, LedgerInv, TypeOK
    <3> QED BY <2>5, <3>1
  <2> QED BY <2>4, <2>5, <2>6, <2>7
<1> QED BY <1>1, LedgerCorrect, PTL DEF Spec, SettledInFull

\* No step lowers what is pending on a position it does not touch.
THEOREM PendingNeverDiluted == Spec => NeverDiluted
<1>1. LedgerInv /\ [Next]_vars => [NeverDilutedStep]_vars
  <2> SUFFICES ASSUME LedgerInv, [Next]_vars, NEW l \in Launches, NEW o \in Owners
               PROVE  PendingReward(position[l][o], launch'[l])
                        >= PendingReward(position[l][o], launch[l])
    BY DEF NeverDilutedStep
  <2>1. PICK w, d, acc, acc2 :
          /\ w = position[l][o].weight /\ d = position[l][o].rewardDebt
          /\ acc = launch[l].accRewardPerWeight /\ acc2 = launch'[l].accRewardPerWeight
    OBVIOUS
  <2>2. w \in Nat /\ d \in Nat /\ acc \in Nat
    BY <2>1, LaunchTypes, PositionTypes DEF LedgerInv
  <2>3. acc2 \in Nat /\ acc <= acc2
    <3>1. StepKind(l)
      BY StepKinds DEF LedgerInv
    <3>2. CASE Untouched(l) \/ Given(l) \/ \E p \in Owners : Settled(l, p)
      <4>1. acc2 = acc
        BY <2>1, <3>2 DEF Untouched, Given, Settled
      <4> QED BY <2>2, <4>1
    <3>3. ASSUME NEW amount \in Nat, Credited(l, amount) PROVE acc2 \in Nat /\ acc <= acc2
      <4>1. launch[l] \in LaunchConfig /\ launch[l].totalWeightedStake \in Nat \ {0}
        BY <3>3, LaunchTypes DEF LedgerInv, TypeOK, Credited, CanApplyRewards
      <4>2. PICK inc : inc = RewardIncrement(amount, launch[l].totalWeightedStake) /\ inc \in Nat
        BY <4>1, RewardIncrementBounds
      <4>3. acc2 = acc + inc
        BY <2>1, <3>3, <4>1, <4>2 DEF Credited, ApplyRewards, LaunchConfig
      <4> QED BY <2>2, <4>2, <4>3
    <3> QED BY <3>1, <3>2, <3>3 DEF StepKind
  <2>4. PICK x, y : x = RewardDebt(w, acc) /\ y = RewardDebt(w, acc2)
    OBVIOUS
  <2>5. x \in Nat /\ y \in Nat /\ x <= y
    BY <2>2, <2>3, <2>4, RewardDebtNat, RewardDebtMonotone
  <2>6. y - d >= x - d
    BY <2>2, <2>5
  <2> QED BY <2>1, <2>4, <2>6 DEF PendingReward
<1> QED BY <1>1, LedgerCorrect, PTL DEF Spec, NeverDiluted

-----------------------------------------------------------------------------
(***************************************************************************)
(* The protocol vault.                                                     *)
(***************************************************************************)
\* A distribution leaves the vault alone or above its rent.
LEMMA DistributionKeepsRent ==
  ASSUME TypeOK, ProtocolVaultRentExempt, NEW l \in Launches, NEW amount \in Nat \ {0},
         DistributeFees(l, amount)
  PROVE  ProtocolVaultRentExempt'
<1>1. PICK fee : fee = ProtocolFeeAmount(amount)
  OBVIOUS
<1>2. fee \in Nat
  BY <1>1 DEF ProtocolFeeAmount, BpsDenominator, ProtocolFeeBps
<1>3. FundProtocolVault(l, fee)
  BY <1>1 DEF DistributeFees, DistributeToMain, DistributeToOther, RewardSplitAmounts
<1>4. PICK next : next = IF fee > 0 THEN Larger(protocolVault[l], RentFloor) + fee
                         ELSE protocolVault[l]
  OBVIOUS
<1>5. protocolVault' = [protocolVault EXCEPT ![l] = next]
  BY <1>3, <1>4 DEF FundProtocolVault, TypeOK
<1>6. next = 0 \/ next >= RentFloor
  <2>1. protocolVault[l] \in Nat /\ RentFloor \in Nat
    BY CreatorVaultsAssumption DEF TypeOK
  <2>2. protocolVault[l] = 0 \/ protocolVault[l] >= RentFloor
    BY DEF ProtocolVaultRentExempt
  <2> QED BY <1>2, <1>4, <2>1, <2>2 DEF Larger
<1> QED BY <1>5, <1>6 DEF ProtocolVaultRentExempt, TypeOK

\* The protocol vault is absent or rent exempt, whatever is claimed and swept.
THEOREM ProtocolVaultAlwaysRentExempt == Spec => []ProtocolVaultRentExempt
<1>1. Init => ProtocolVaultRentExempt
  BY DEF Init, ProtocolVaultRentExempt
<1>2. TypeOK /\ ProtocolVaultRentExempt /\ [Next]_vars => ProtocolVaultRentExempt'
  <2> SUFFICES ASSUME TypeOK, ProtocolVaultRentExempt, [Next]_vars
               PROVE  ProtocolVaultRentExempt'
    OBVIOUS
  <2>1. CASE protocolVault' = protocolVault
    BY <2>1 DEF ProtocolVaultRentExempt
  <2>2. ASSUME NEW l \in Launches, FeeStep(l) PROVE ProtocolVaultRentExempt'
    <3>1. CASE ClaimProtocolFees(l)
      <4>1. RentFloor >= RentFloor
        BY CreatorVaultsAssumption
      <4> QED BY <3>1, <4>1 DEF ClaimProtocolFees, ProtocolVaultRentExempt, TypeOK
    <3>2. CASE \E amount \in Nat \ {0} : DistributeFees(l, amount)
      BY <3>2, DistributionKeepsRent
    <3> QED BY <2>2, <3>1, <3>2, FeeStepDistributes
  <2>3. ASSUME NEW l \in Launches, NEW o \in Owners, OwnerStep(l, o)
        PROVE  protocolVault' = protocolVault
    BY <2>3 DEF OwnerStep, Stake, IncreaseStake, Unstake, ClaimRewards
  <2>4. ASSUME NEW l \in Launches, InitializeLaunch(l) PROVE protocolVault' = protocolVault
    BY <2>4 DEF InitializeLaunch
  <2>5. Tick \/ Outside \/ UNCHANGED vars => protocolVault' = protocolVault
    BY DEF Tick, Outside, vars
  <2>6. CASE Gift
    <3>1. PICK l \in Launches, amount \in FeeAmounts :
            \/ protocolVault' = protocolVault
            \/ /\ protocolVault[l] + amount >= RentFloor
               /\ protocolVault' = [protocolVault EXCEPT ![l] = @ + amount]
      BY <2>6 DEF Gift, Receives
    <3> QED BY <2>1, <3>1 DEF ProtocolVaultRentExempt, TypeOK
  <2> QED BY <2>1, <2>2, <2>3, <2>4, <2>5, <2>6 DEF Next
<1> QED BY <1>1, <1>2, TypeCorrect, PTL DEF Spec

-----------------------------------------------------------------------------
(***************************************************************************)
(* Locks.                                                                  *)
(***************************************************************************)
\* An open position is left alone or grows under a lock that ends no earlier.
PositionKept(l, o) ==
  /\ position'[l][o].amount >= position[l][o].amount
  /\ position'[l][o].unlockTs >= position[l][o].unlockTs

\* A position whose amount and lock end do not change is kept.
LEMMA SamePositionKept ==
  ASSUME TypeOK, NEW l \in Launches, NEW o \in Owners,
         position'[l][o].amount = position[l][o].amount,
         position'[l][o].unlockTs = position[l][o].unlockTs
  PROVE  PositionKept(l, o)
<1>1. position[l][o].amount \in Nat /\ position[l][o].unlockTs \in Nat
  BY PositionTypes
<1> QED BY <1>1 DEF PositionKept

\* What an owner's step does to any open position.
LEMMA OwnerStepHonoursLocks ==
  ASSUME TypeOK, NEW l \in Launches, NEW o \in Owners, OwnerStep(l, o),
         NEW m \in Launches, NEW x \in Owners, HasPosition(m, x)
  PROVE  \/ PositionKept(m, x)
         \/ /\ position'[m][x] = EmptyPosition
            /\ now >= position[m][x].unlockTs
            /\ wallet'[m][x] = wallet[m][x] + position[m][x].amount
<1>1. 1..wallet[l][o] \subseteq Nat
  BY DEF TypeOK
<1>2. ASSUME NEW pos, position' = [position EXCEPT ![l][o] = pos], m # l \/ x # o
      PROVE  PositionKept(m, x)
  <2>1. position'[m][x] = position[m][x]
    BY <1>2 DEF TypeOK
  <2> QED BY <2>1, SamePositionKept
<1>3. ASSUME NEW amount \in Nat, NEW lockDays \in LockChoices, Stake(l, o, amount, lockDays)
      PROVE  PositionKept(m, x)
  <2>1. m # l \/ x # o
    BY <1>3 DEF Stake
  <2> QED BY <1>2, <1>3, <2>1 DEF Stake
<1>4. ASSUME NEW amount \in Nat, NEW lockDays \in LockChoices,
             IncreaseStake(l, o, amount, lockDays)
      PROVE  PositionKept(m, x)
  <2>1. PICK old, pos : /\ old = position[l][o]
                        /\ pos = NewPosition(launch[l], position[l][o].amount + amount, lockDays)
    OBVIOUS
  <2>2. /\ position' = [position EXCEPT ![l][o] = pos]
        /\ LockExtensionAllowed(old.unlockTs, pos.unlockTs)
    BY <1>4, <2>1 DEF IncreaseStake
  <2>3. old.amount \in Nat /\ pos.amount = old.amount + amount
    BY <2>1, PositionTypes DEF NewPosition
  <2>4. CASE m = l /\ x = o
    <3>1. position'[m][x] = pos
      BY <2>2, <2>4 DEF TypeOK
    <3>2. pos.amount >= old.amount
      BY <2>3
    <3> QED BY <2>1, <2>2, <2>4, <3>1, <3>2 DEF PositionKept, LockExtensionAllowed
  <2> QED BY <1>2, <2>2, <2>4
<1>5. ASSUME Unstake(l, o)
      PROVE  \/ PositionKept(m, x)
             \/ /\ position'[m][x] = EmptyPosition
                /\ now >= position[m][x].unlockTs
                /\ wallet'[m][x] = wallet[m][x] + position[m][x].amount
  <2>1. /\ position' = [position EXCEPT ![l][o] = EmptyPosition]
        /\ now >= position[l][o].unlockTs
        /\ wallet' = [wallet EXCEPT ![l][o] = @ + position[l][o].amount]
    BY <1>5 DEF Unstake, IsUnlocked, WithdrawTokens
  <2>2. CASE m = l /\ x = o
    BY <2>1, <2>2 DEF TypeOK
  <2> QED BY <1>2, <2>1, <2>2
<1>6. ASSUME ClaimRewards(l, o) PROVE PositionKept(m, x)
  <2>1. PICK debt : debt = RewardDebt(position[l][o].weight, launch[l].accRewardPerWeight)
    OBVIOUS
  <2>2. position' = [position EXCEPT ![l][o].rewardDebt = debt]
    BY <1>6, <2>1 DEF ClaimRewards
  <2>3. position[m][x] \in StakePosition
    BY PositionTypes
  <2>4. /\ position'[m][x].amount = position[m][x].amount
        /\ position'[m][x].unlockTs = position[m][x].unlockTs
    BY <2>2, <2>3 DEF TypeOK, StakePosition
  <2> QED BY <2>4, SamePositionKept
<1> QED BY <1>1, <1>3, <1>4, <1>5, <1>6 DEF OwnerStep

\* A lock ends no earlier than promised and returns all of the principal.
THEOREM LocksAlwaysHonoured == Spec => LockHonoured
<1>1. TypeOK /\ [Next]_vars => [LockHonouredStep]_vars
  <2> SUFFICES ASSUME TypeOK, [Next]_vars,
                      NEW m \in Launches, NEW x \in Owners, HasPosition(m, x)
               PROVE  \/ PositionKept(m, x)
                      \/ /\ position'[m][x] = EmptyPosition
                         /\ now >= position[m][x].unlockTs
                         /\ wallet'[m][x] = wallet[m][x] + position[m][x].amount
    BY DEF LockHonouredStep, PositionKept
  <2>1. CASE position' = position
    BY <2>1, SamePositionKept
  <2>2. ASSUME NEW l \in Launches, FeeStep(l) PROVE position' = position
    BY <2>2, FeeStepDistributes DEF ClaimProtocolFees, ledgerVars, DistributeFees
  <2>3. ASSUME NEW l \in Launches, InitializeLaunch(l) PROVE position' = position
    BY <2>3 DEF InitializeLaunch
  <2>4. Tick \/ Outside \/ Gift \/ UNCHANGED vars => position' = position
    BY DEF Tick, Outside, Gift, vars, ledgerVars
  <2> QED BY <2>1, <2>2, <2>3, <2>4, OwnerStepHonoursLocks DEF Next
<1> QED BY <1>1, TypeCorrect, PTL DEF Spec, LockHonoured

-----------------------------------------------------------------------------
(***************************************************************************)
(* Principal and weight of each owner.                                     *)
(***************************************************************************)
\* Steps other than an owner's leave positions and the owners' tokens alone.
LEMMA OthersKeepPositions ==
  ASSUME TypeOK, [Next]_vars, ~ \E l \in Launches, o \in Owners : OwnerStep(l, o)
  PROVE  position' = position /\ wallet' = wallet
<1>1. ASSUME NEW l \in Launches, FeeStep(l) PROVE position' = position /\ wallet' = wallet
  BY <1>1, FeeStepDistributes DEF ClaimProtocolFees, ledgerVars, tokenVars, DistributeFees
<1>2. ASSUME NEW l \in Launches, InitializeLaunch(l)
      PROVE  position' = position /\ wallet' = wallet
  BY <1>2 DEF InitializeLaunch, tokenVars
<1>3. Tick \/ Outside \/ Gift \/ UNCHANGED vars => position' = position /\ wallet' = wallet
  BY DEF Tick, Outside, Gift, vars, ledgerVars, tokenVars
<1> QED BY <1>1, <1>2, <1>3 DEF Next

\* An owner's step moves tokens between that owner's account and position only.
LEMMA OwnerStepKeepsTokens ==
  ASSUME TypeOK, NEW l \in Launches, NEW o \in Owners, OwnerStep(l, o),
         NEW m \in Launches, NEW x \in Owners
  PROVE  wallet'[m][x] + position'[m][x].amount = wallet[m][x] + position[m][x].amount
<1>1. PICK w, a : w = wallet[l][o] /\ a = position[l][o].amount
  OBVIOUS
<1>2. w \in Nat /\ a \in Nat /\ 1..w \subseteq Nat
  BY <1>1, PositionTypes DEF TypeOK
<1>3. ASSUME wallet'[l][o] + position'[l][o].amount = w + a,
             m # l \/ x # o => /\ wallet'[m][x] = wallet[m][x]
                               /\ position'[m][x] = position[m][x]
      PROVE  wallet'[m][x] + position'[m][x].amount = wallet[m][x] + position[m][x].amount
  BY <1>1, <1>3
<1>4. ASSUME NEW amount \in 1..w, NEW lockDays \in LockChoices, Stake(l, o, amount, lockDays)
      PROVE  wallet'[m][x] + position'[m][x].amount = wallet[m][x] + position[m][x].amount
  <2>1. PICK pos, left : pos = NewPosition(launch[l], amount, lockDays) /\ left = w - amount
    OBVIOUS
  <2>2. /\ wallet' = [wallet EXCEPT ![l][o] = left]
        /\ position' = [position EXCEPT ![l][o] = pos]
        /\ pos.amount = amount /\ ~ (a > 0)
    BY <1>1, <1>4, <2>1 DEF Stake, DepositTokens, NewPosition, HasPosition
  <2>3. left + pos.amount = w + a
    BY <1>2, <2>1, <2>2
  <2>4. /\ wallet'[l][o] = left /\ position'[l][o] = pos
        /\ m # l \/ x # o => /\ wallet'[m][x] = wallet[m][x]
                             /\ position'[m][x] = position[m][x]
    BY <2>2 DEF TypeOK
  <2> QED BY <1>3, <2>3, <2>4
<1>5. ASSUME NEW amount \in 1..w, NEW lockDays \in LockChoices,
             IncreaseStake(l, o, amount, lockDays)
      PROVE  wallet'[m][x] + position'[m][x].amount = wallet[m][x] + position[m][x].amount
  <2>1. PICK pos, left : pos = NewPosition(launch[l], a + amount, lockDays) /\ left = w - amount
    OBVIOUS
  <2>2. /\ wallet' = [wallet EXCEPT ![l][o] = left]
        /\ position' = [position EXCEPT ![l][o] = pos]
        /\ pos.amount = a + amount
    BY <1>1, <1>5, <2>1 DEF IncreaseStake, DepositTokens, NewPosition
  <2>3. left + pos.amount = w + a
    BY <1>2, <2>1, <2>2
  <2>4. /\ wallet'[l][o] = left /\ position'[l][o] = pos
        /\ m # l \/ x # o => /\ wallet'[m][x] = wallet[m][x]
                             /\ position'[m][x] = position[m][x]
    BY <2>2 DEF TypeOK
  <2> QED BY <1>3, <2>3, <2>4
<1>6. CASE Unstake(l, o)
  <2>1. PICK held : held = w + a
    OBVIOUS
  <2>2. /\ wallet' = [wallet EXCEPT ![l][o] = held]
        /\ position' = [position EXCEPT ![l][o] = EmptyPosition]
    BY <1>1, <1>6, <2>1 DEF Unstake, WithdrawTokens
  <2>3. held + EmptyPosition.amount = w + a
    BY <1>2, <2>1 DEF EmptyPosition
  <2>4. /\ wallet'[l][o] = held /\ position'[l][o] = EmptyPosition
        /\ m # l \/ x # o => /\ wallet'[m][x] = wallet[m][x]
                             /\ position'[m][x] = position[m][x]
    BY <2>2 DEF TypeOK
  <2> QED BY <1>3, <2>3, <2>4
<1>7. CASE ClaimRewards(l, o)
  <2>1. PICK debt : debt = RewardDebt(position[l][o].weight, launch[l].accRewardPerWeight)
    OBVIOUS
  <2>2. position' = [position EXCEPT ![l][o].rewardDebt = debt] /\ wallet' = wallet
    BY <1>7, <2>1 DEF ClaimRewards, tokenVars
  <2>3. position[m][x] \in StakePosition
    BY PositionTypes
  <2>4. position'[m][x].amount = position[m][x].amount
    BY <2>2, <2>3 DEF TypeOK, StakePosition
  <2> QED BY <2>2, <2>4
<1> QED BY <1>1, <1>4, <1>5, <1>6, <1>7 DEF OwnerStep

\* No sequence of entries, increases and exits moves a token between owners.
THEOREM OwnersAlwaysWhole == Spec => []OwnersWhole
<1>1. Init => OwnersWhole
  BY StakingAssumption DEF Init, OwnersWhole, EmptyPosition
<1>2. TypeOK /\ OwnersWhole /\ [Next]_vars => OwnersWhole'
  <2> SUFFICES ASSUME TypeOK, OwnersWhole, [Next]_vars, NEW m \in Launches, NEW x \in Owners
               PROVE  wallet'[m][x] + position'[m][x].amount = InitialTokens
    BY DEF OwnersWhole
  <2>1. wallet[m][x] + position[m][x].amount = InitialTokens
    BY DEF OwnersWhole
  <2>2. CASE \E l \in Launches, o \in Owners : OwnerStep(l, o)
    BY <2>1, <2>2, OwnerStepKeepsTokens
  <2>3. CASE ~ \E l \in Launches, o \in Owners : OwnerStep(l, o)
    BY <2>1, <2>3, OthersKeepPositions
  <2> QED BY <2>2, <2>3
<1> QED BY <1>1, <1>2, TypeCorrect, PTL DEF Spec

\* The lock a position is weighed by was taken by the time t.
WeighedByLock(pos, t) ==
  \E lockDays \in LockDurations :
    /\ pos.weight = WeightedAmount(pos.amount, LockMultiplierBps(lockDays))
    /\ LockUnlockTs(0, lockDays) <= pos.unlockTs
    /\ pos.unlockTs <= LockUnlockTs(t, lockDays)

\* A new position is weighed by the lock it takes now.
LEMMA NewPositionWeighed ==
  ASSUME now \in Nat, NEW lc, NEW amount, NEW lockDays \in LockChoices
  PROVE  WeighedByLock(NewPosition(lc, amount, lockDays), now)
<1>1. PICK pos, end : pos = NewPosition(lc, amount, lockDays) /\ end = LockUnlockTs(now, lockDays)
  OBVIOUS
<1>2. /\ pos.amount = amount /\ pos.unlockTs = end
      /\ pos.weight = WeightedAmount(amount, LockMultiplierBps(lockDays))
  BY <1>1 DEF NewPosition
<1>3. lockDays \in LockDurations /\ LockUnlockTs(0, lockDays) <= end /\ end <= end
  <2>1. lockDays \in LockDurations /\ lockDays \in Nat
    BY StakingAssumption DEF LockDurations
  <2>2. PICK length : length = lockDays * DaySeconds
    OBVIOUS
  <2>3. length \in Nat
    BY <2>1, <2>2, RewardMathAssumption, ProductNat
  <2>4. LockUnlockTs(0, lockDays) = 0 + length /\ end = now + length
    BY <1>1, <2>2 DEF LockUnlockTs
  <2> QED BY <2>1, <2>3, <2>4
<1> QED BY <1>1, <1>2, <1>3 DEF WeighedByLock

\* Time does not unmake a lock.
LEMMA WeighedLater ==
  ASSUME NEW s \in Nat, NEW t \in Nat, s <= t, NEW pos \in StakePosition, WeighedByLock(pos, s)
  PROVE  WeighedByLock(pos, t)
<1>1. PICK lockDays \in LockDurations :
        /\ pos.weight = WeightedAmount(pos.amount, LockMultiplierBps(lockDays))
        /\ LockUnlockTs(0, lockDays) <= pos.unlockTs
        /\ pos.unlockTs <= LockUnlockTs(s, lockDays)
  BY DEF WeighedByLock
<1>2. PICK length, end : length = lockDays * DaySeconds /\ end = pos.unlockTs
  OBVIOUS
<1>3. length \in Nat /\ end \in Nat
  BY <1>2, RewardMathAssumption, ProductNat DEF LockDurations, StakePosition
<1>4. end <= s + length
  BY <1>1, <1>2 DEF LockUnlockTs
<1>5. end <= t + length
  BY <1>3, <1>4
<1>6. pos.unlockTs <= LockUnlockTs(t, lockDays)
  BY <1>2, <1>5 DEF LockUnlockTs
<1> QED BY <1>1, <1>6 DEF WeighedByLock

\* Whatever position an owner's step leaves open is weighed by its lock.
LEMMA OwnerStepWeighs ==
  ASSUME TypeOK, WeightMatchesLock, NEW l \in Launches, NEW o \in Owners, OwnerStep(l, o),
         NEW m \in Launches, NEW x \in Owners, position'[m][x].amount > 0
  PROVE  WeighedByLock(position'[m][x], now)
<1>1. ASSUME position'[m][x].amount = position[m][x].amount,
             position'[m][x].weight = position[m][x].weight,
             position'[m][x].unlockTs = position[m][x].unlockTs
      PROVE  WeighedByLock(position'[m][x], now)
  BY <1>1 DEF WeightMatchesLock, WeighedByLock, HasPosition
<1>2. ASSUME NEW pos, position' = [position EXCEPT ![l][o] = pos],
             pos.amount > 0 => WeighedByLock(pos, now)
      PROVE  WeighedByLock(position'[m][x], now)
  <2>1. CASE m = l /\ x = o
    BY <1>2, <2>1 DEF TypeOK
  <2>2. CASE m # l \/ x # o
    <3>1. position'[m][x] = position[m][x]
      BY <1>2, <2>2 DEF TypeOK
    <3> QED BY <1>1, <3>1
  <2> QED BY <2>1, <2>2
<1>3. now \in Nat
  BY DEF TypeOK
<1>4. ASSUME NEW amount, NEW lockDays \in LockChoices,
             Stake(l, o, amount, lockDays) \/ IncreaseStake(l, o, amount, lockDays)
      PROVE  WeighedByLock(position'[m][x], now)
  <2>1. \E a : position' = [position EXCEPT ![l][o] = NewPosition(launch[l], a, lockDays)]
    BY <1>4 DEF Stake, IncreaseStake
  <2> QED BY <1>2, <1>3, <2>1, NewPositionWeighed
<1>5. CASE Unstake(l, o)
  <2>1. ~ (EmptyPosition.amount > 0)
    BY DEF EmptyPosition
  <2> QED BY <1>2, <1>5, <2>1 DEF Unstake
<1>6. CASE ClaimRewards(l, o)
  <2>1. PICK debt : debt = RewardDebt(position[l][o].weight, launch[l].accRewardPerWeight)
    OBVIOUS
  <2>2. position' = [position EXCEPT ![l][o].rewardDebt = debt]
    BY <1>6, <2>1 DEF ClaimRewards
  <2>3. position[m][x] \in StakePosition
    BY PositionTypes
  <2>4. /\ position'[m][x].amount = position[m][x].amount
        /\ position'[m][x].weight = position[m][x].weight
        /\ position'[m][x].unlockTs = position[m][x].unlockTs
    BY <2>2, <2>3 DEF TypeOK, StakePosition
  <2> QED BY <1>1, <2>4
<1> QED BY <1>4, <1>5, <1>6 DEF OwnerStep

\* Weight is never out of step with the lock that is served for it.
THEOREM WeightAlwaysMatchesLock == Spec => []WeightMatchesLock
<1>1. Init => WeightMatchesLock
  BY DEF Init, WeightMatchesLock, HasPosition, EmptyPosition
<1>2. TypeOK /\ TypeOK' /\ WeightMatchesLock /\ [Next]_vars => WeightMatchesLock'
  <2> SUFFICES ASSUME TypeOK, TypeOK', WeightMatchesLock, [Next]_vars,
                      NEW m \in Launches, NEW x \in Owners, position'[m][x].amount > 0
               PROVE  WeighedByLock(position'[m][x], now')
    BY DEF WeightMatchesLock, WeighedByLock, HasPosition
  <2>1. now \in Nat /\ now' \in Nat
    BY DEF TypeOK
  <2>2. CASE \E l \in Launches, o \in Owners : OwnerStep(l, o)
    <3>1. now' = now
      BY <2>2 DEF OwnerStep, Stake, IncreaseStake, Unstake, ClaimRewards
    <3> QED BY <2>2, <3>1, OwnerStepWeighs
  <2>3. CASE ~ \E l \in Launches, o \in Owners : OwnerStep(l, o)
    <3>1. position' = position
      BY <2>3, OthersKeepPositions
    <3>2. WeighedByLock(position[m][x], now)
      BY <3>1 DEF WeightMatchesLock, WeighedByLock, HasPosition
    <3>3. now <= now'
      <4>1. now' = now \/ Tick
        BY <2>3, FeeStepDistributes
           DEF Next, InitializeLaunch, ClaimProtocolFees, DistributeFees, Outside, Gift, vars
      <4>2. Tick => now' > now
        BY DEF Tick
      <4> QED BY <2>1, <4>1, <4>2
    <3> QED BY <2>1, <3>1, <3>2, <3>3, WeighedLater, PositionTypes
  <2> QED BY <2>2, <2>3
<1> QED BY <1>1, <1>2, TypeCorrect, PTL DEF Spec

-----------------------------------------------------------------------------
(***************************************************************************)
(* Isolation of launches.                                                  *)
(***************************************************************************)
\* A step that reaches the books of no launch but l.
OnlyTouches(l) == \A m \in Launches \ {l} : Books(m)' = Books(m)

\* An owner's step stays within its launch.
LEMMA OwnerStepTouches ==
  ASSUME TypeOK, NEW l \in Launches, NEW o \in Owners, OwnerStep(l, o)
  PROVE  OnlyTouches(l)
<1> SUFFICES ASSUME NEW m \in Launches \ {l} PROVE Books(m)' = Books(m)
  BY DEF OnlyTouches
<1>1. ASSUME NEW amount, NEW lockDays, Stake(l, o, amount, lockDays) PROVE Books(m)' = Books(m)
  BY <1>1 DEF Stake, DepositTokens, Books, Accounts, creatorVars, TypeOK
<1>2. ASSUME NEW amount, NEW lockDays, IncreaseStake(l, o, amount, lockDays)
      PROVE  Books(m)' = Books(m)
  BY <1>2 DEF IncreaseStake, DepositTokens, PayRewards, Books, Accounts, creatorVars, TypeOK
<1>3. CASE Unstake(l, o)
  BY <1>3 DEF Unstake, WithdrawTokens, PayRewards, Books, Accounts, creatorVars, TypeOK
<1>4. CASE ClaimRewards(l, o)
  BY <1>4 DEF ClaimRewards, PayRewards, Books, Accounts, tokenVars, creatorVars, TypeOK
<1> QED BY <1>1, <1>2, <1>3, <1>4 DEF OwnerStep

\* The world reaches the vaults of one launch at a time.
LEMMA WorldTouches ==
  ASSUME TypeOK, Outside
  PROVE  \E l \in Launches : OnlyTouches(l)
<1>1. /\ CreatorVaultsTypeOK
      /\ UNCHANGED <<launch, position, lamports, protocolVault, wallet, stakingVault>>
  BY DEF TypeOK, Outside, ledgerVars, tokenVars
<1>2. PICK l \in Launches :
        \/ \E v \in FeeVenues, r \in FeeRoutes, x \in FeeAmounts : FeesArrive(l, v, r, x)
        \/ \E x \in FeeAmounts : FeeOwnerReceives(l, x)
        \/ OpenWsolAta(l)
        \/ MoveToSharing(l)
  BY DEF Outside, World
<1>3. ASSUME NEW m \in Launches \ {l}
      PROVE  /\ creatorVault'[m] = creatorVault[m]
             /\ feeOwner'[m] = feeOwner[m] /\ wsolAta'[m] = wsolAta[m]
  BY <1>1, <1>2
     DEF FeesArrive, FeeOwnerReceives, OpenWsolAta, MoveToSharing, CreatorVaultsTypeOK
<1> QED BY <1>1, <1>3 DEF OnlyTouches, Books, Accounts

\* A gift reaches the accounts of one launch.
LEMMA GiftTouches ==
  ASSUME TypeOK, Gift
  PROVE  \E l \in Launches : OnlyTouches(l)
<1>1. PICK l \in Launches, account \in GiftAccounts, amount \in FeeAmounts :
        Receives(l, account, amount)
  BY DEF Gift
<1>2. ASSUME NEW m \in Launches \ {l}
      PROVE  /\ stakingVault'[m] = stakingVault[m] /\ lamports'[m] = lamports[m]
             /\ protocolVault'[m] = protocolVault[m]
  BY <1>1 DEF Receives, TypeOK
<1> QED BY <1>2 DEF Gift, OnlyTouches, Books, Accounts

\* A claim of fees reaches, outside its launch, no more than the ledger of the
\* main launch.
LEMMA FeeStepTouches ==
  ASSUME TypeOK, NEW l \in Launches, FeeStep(l)
  PROVE  /\ position' = position
         /\ \A m \in Launches \ {l} : Accounts(m)' = Accounts(m)
<1>1. position' = position /\ UNCHANGED tokenVars
  BY FeeStepDistributes DEF ClaimProtocolFees, ledgerVars, DistributeFees
<1>2. ASSUME NEW m \in Launches \ {l}, NEW amount, DistributeFees(l, amount)
      PROVE  protocolVault'[m] = protocolVault[m]
  BY <1>2 DEF DistributeFees, DistributeToMain, DistributeToOther, FundProtocolVault, TypeOK
<1>3. ASSUME NEW m \in Launches \ {l}, NEW r, SweepFeeOwner(l, r) \/ UnwrapWsol(l, r)
      PROVE  /\ creatorVault'[m] = creatorVault[m]
             /\ feeOwner'[m] = feeOwner[m] /\ wsolAta'[m] = wsolAta[m]
  BY <1>3 DEF SweepFeeOwner, UnwrapWsol, TypeOK, CreatorVaultsTypeOK
<1>4. ASSUME NEW m \in Launches \ {l}
      PROVE  /\ protocolVault'[m] = protocolVault[m] /\ creatorVault'[m] = creatorVault[m]
             /\ feeOwner'[m] = feeOwner[m] /\ wsolAta'[m] = wsolAta[m]
  <2>1. CASE ClaimProtocolFees(l)
    BY <2>1 DEF ClaimProtocolFees, creatorVars, TypeOK
  <2>2. CASE ~ ClaimProtocolFees(l)
    <3>1. /\ \E amount : DistributeFees(l, amount)
          /\ \E r : SweepFeeOwner(l, r) \/ UnwrapWsol(l, r)
      BY <2>2 DEF FeeStep, ClaimPumpCreatorFees, ClaimPumpSharedCreatorFees,
                  ClaimPumpSwapCreatorFees, ClaimPumpSwapSharedCreatorFees
    <3> QED BY <1>2, <1>3, <3>1
  <2> QED BY <2>1, <2>2
<1> QED BY <1>1, <1>4 DEF Accounts, tokenVars

\* What a distribution from another launch than the main one writes.
LEMMA DistributionToOther ==
  ASSUME NEW l \in Launches, NEW amount \in Nat, DistributeToOther(l, amount),
         NEW own, own = RewardSplitAmounts(amount).reward,
         NEW main, main = RewardSplitAmounts(amount).mainReward
  PROVE  /\ launch' = [launch EXCEPT ![l] = IF own > 0 THEN ApplyRewards(@, own) ELSE @,
                                     ![MainLaunch] = IF main > 0 THEN ApplyRewards(@, main) ELSE @]
         /\ lamports' = [lamports EXCEPT ![l] = @ + own, ![MainLaunch] = @ + main]
<1> DEFINE kept == amount - RewardSplitAmounts(amount).protocolFee
<1>1. kept - main = own
  BY DEF RewardSplitAmounts, ProtocolFeeAmount, BpsDenominator, ProtocolFeeBps, MainRewardBps
<1>2. /\ launch' = [launch EXCEPT ![l] = IF own > 0 THEN ApplyRewards(@, own) ELSE @,
                                  ![MainLaunch] = IF main > 0 THEN ApplyRewards(@, main) ELSE @]
      /\ lamports' = [lamports EXCEPT ![l] = @ + (kept - main), ![MainLaunch] = @ + main]
  BY DEF DistributeToOther, MoveMainLamports
<1> HIDE DEF kept
<1> QED BY <1>1, <1>2

\* A distribution reaches one launch, or the ledgers of its launch and of the
\* main launch, which both grow.
LEMMA DistributionTouches ==
  ASSUME TypeOK, NEW l \in Launches, NEW amount \in Nat \ {0}, DistributeFees(l, amount),
         NEW m \in Launches \ {l},
         launch'[m] # launch[m] \/ lamports'[m] # lamports[m]
  PROVE  /\ m = MainLaunch
         /\ launch'[l].rewardReserve > launch[l].rewardReserve
         /\ launch'[m].rewardReserve > launch[m].rewardReserve
<1>1. PICK own, main : /\ own = RewardSplitAmounts(amount).reward
                       /\ main = RewardSplitAmounts(amount).mainReward
  OBVIOUS
<1>2. own \in Nat /\ main \in Nat /\ 19 * main <= own
  BY <1>1, RewardSplitConserves, RewardSplitShares
<1>3. MainLaunch \in Launches /\ l # MainLaunch
  <2>1. SUFFICES ASSUME l = MainLaunch, DistributeToMain(amount)
                 PROVE  launch'[m] = launch[m] /\ lamports'[m] = lamports[m]
    BY StakingAssumption DEF DistributeFees
  <2> QED BY <2>1 DEF DistributeToMain, TypeOK
<1>4. /\ launch' = [launch EXCEPT ![l] = IF own > 0 THEN ApplyRewards(@, own) ELSE @,
                                  ![MainLaunch] = IF main > 0 THEN ApplyRewards(@, main) ELSE @]
      /\ lamports' = [lamports EXCEPT ![l] = @ + own, ![MainLaunch] = @ + main]
  BY <1>1, <1>3, DistributionToOther DEF DistributeFees
<1>5. m = MainLaunch
  BY <1>3, <1>4 DEF TypeOK
<1>6. /\ launch'[m] = IF main > 0 THEN ApplyRewards(launch[m], main) ELSE launch[m]
      /\ launch'[l] = IF own > 0 THEN ApplyRewards(launch[l], own) ELSE launch[l]
      /\ lamports'[m] = lamports[m] + main
  BY <1>3, <1>4, <1>5 DEF TypeOK
<1>7. main > 0 /\ own > 0
  <2>1. lamports[m] \in Nat
    BY DEF TypeOK
  <2>2. main # 0
    BY <1>6, <2>1
  <2> QED BY <1>2, <2>2
<1>8. ASSUME NEW lc \in LaunchConfig, NEW x \in Nat, x > 0
      PROVE  ApplyRewards(lc, x).rewardReserve > lc.rewardReserve
  <2>1. lc.rewardReserve \in Nat
    BY RewardMathAssumption DEF LaunchConfig, U64
  <2>2. ApplyRewards(lc, x).rewardReserve = lc.rewardReserve + x
    BY DEF ApplyRewards, LaunchConfig
  <2> QED BY <1>8, <2>1, <2>2
<1> QED BY <1>2, <1>5, <1>6, <1>7, <1>8, LaunchTypes

\* Two launches meet in a claim of fees only, and only in their ledgers.
THEOREM LaunchesAlwaysIsolated == Spec => LaunchesIsolated
<1>1. TypeOK /\ [Next]_vars => [LaunchesIsolatedStep]_vars
  <2> SUFFICES ASSUME TypeOK, [Next]_vars, NEW l \in Launches, NEW m \in Launches \ {l},
                      Books(l)' # Books(l), Books(m)' # Books(m)
               PROVE  /\ MainLaunch \in {l, m}
                      /\ Accounts(MainLaunch)' = Accounts(MainLaunch)
                      /\ \A x \in {l, m} :
                           /\ position'[x] = position[x]
                           /\ launch'[x].rewardReserve > launch[x].rewardReserve
    BY DEF LaunchesIsolatedStep
  <2>1. ASSUME NEW k \in Launches PROVE ~ OnlyTouches(k)
    BY DEF OnlyTouches
  <2>2. ~ \E k \in Launches, o \in Owners : OwnerStep(k, o)
    BY <2>1, OwnerStepTouches
  <2>3. ~ (Outside \/ Gift)
    BY <2>1, WorldTouches, GiftTouches
  <2>4. ~ (Tick \/ UNCHANGED vars)
    BY DEF Tick, vars, ledgerVars, tokenVars, creatorVars, Books, Accounts
  <2>5. ASSUME NEW k \in Launches, InitializeLaunch(k) PROVE FALSE
    <3>1. OnlyTouches(k)
      BY <2>5 DEF InitializeLaunch, OnlyTouches, Books, Accounts, tokenVars, creatorVars, TypeOK
    <3> QED BY <2>1, <3>1
  <2>6. PICK k \in Launches : FeeStep(k)
    BY <2>2, <2>3, <2>4, <2>5 DEF Next
  <2>7. position' = position /\ \A n \in Launches \ {k} : Accounts(n)' = Accounts(n)
    BY <2>6, FeeStepTouches
  <2>8. ~ ClaimProtocolFees(k)
    <3>1. ClaimProtocolFees(k) => OnlyTouches(k)
      BY <2>7 DEF ClaimProtocolFees, ledgerVars, OnlyTouches, Books
    <3> QED BY <2>1, <3>1
  <2>9. PICK amount \in Nat \ {0} : DistributeFees(k, amount)
    BY <2>6, <2>8, FeeStepDistributes
  <2>10. ASSUME NEW n \in {l, m}, n # k
         PROVE  /\ n = MainLaunch
                /\ launch'[k].rewardReserve > launch[k].rewardReserve
                /\ launch'[n].rewardReserve > launch[n].rewardReserve
    <3>1. launch'[n] # launch[n] \/ lamports'[n] # lamports[n]
      BY <2>7, <2>10 DEF Books
    <3> QED BY <2>9, <2>10, <3>1, DistributionTouches
  <2>11. k \in {l, m}
    BY <2>10
  <2> QED BY <2>7, <2>10, <2>11
<1> QED BY <1>1, TypeCorrect, PTL DEF Spec, LaunchesIsolated

-----------------------------------------------------------------------------
(***************************************************************************)
(* Entry past waiting fees.                                                *)
(***************************************************************************)
\* While the bonding curve names fee_owner, only empty direct vaults are clean.
LEMMA CleanMeansDirectEmpty ==
  ASSUME NEW l \in Launches, creator[l] = "direct", CreatorVaultsAreClean(l), NEW v \in Venues
  PROVE  creatorVault[l][v]["direct"] = 0
  BY DEF CreatorVaultsAreClean, CreatorVaultIsClean, Routes

\* Weight joins a launch by stake or increase_stake of that launch.
LEMMA JoiningStep ==
  ASSUME TypeOK, [Next]_vars, NEW m \in Launches, Joins(m)
  PROVE  \E o \in Owners, amount \in Nat, lockDays \in LockChoices :
           Stake(m, o, amount, lockDays) \/ IncreaseStake(m, o, amount, lockDays)
<1>1. PICK x \in Owners : position'[m][x].amount > position[m][x].amount
  BY DEF Joins
<1>2. position[m][x].amount \in Nat /\ position[m][x] \in StakePosition
  BY PositionTypes
<1>3. position'[m][x].amount # position[m][x].amount
  BY <1>1, <1>2
<1>4. PICK l \in Launches, o \in Owners : OwnerStep(l, o)
  BY <1>3, OthersKeepPositions
<1>5. ~ ClaimRewards(l, o)
  <2>1. SUFFICES ASSUME NEW debt, position' = [position EXCEPT ![l][o].rewardDebt = debt]
                 PROVE  position'[m][x].amount = position[m][x].amount
    BY <1>3 DEF ClaimRewards
  <2> QED BY <1>2, <2>1 DEF TypeOK, StakePosition
<1>6. ~ Unstake(l, o)
  <2>1. SUFFICES ASSUME position' = [position EXCEPT ![l][o] = EmptyPosition] PROVE FALSE
    BY DEF Unstake
  <2>2. position'[m][x] = position[m][x] \/ position'[m][x] = EmptyPosition
    BY <2>1 DEF TypeOK
  <2>3. position'[m][x].amount = 0
    BY <1>3, <2>2 DEF EmptyPosition
  <2> QED BY <1>1, <1>2, <2>3
<1>7. PICK amount \in 1..wallet[l][o], lockDays \in LockChoices :
        Stake(l, o, amount, lockDays) \/ IncreaseStake(l, o, amount, lockDays)
  BY <1>4, <1>5, <1>6 DEF OwnerStep
<1>8. amount \in Nat
  BY DEF TypeOK
<1>9. l = m
  <2>1. SUFFICES ASSUME l # m PROVE position'[m] = position[m]
    BY <1>3
  <2> QED BY <1>7, <2>1 DEF Stake, IncreaseStake, TypeOK
<1> QED BY <1>7, <1>8, <1>9

\* Weight joins a direct launch with active stake only past empty direct vaults.
THEOREM DirectEntryAlwaysClean == Spec => DirectEntryIsClean
<1>1. TypeOK /\ [Next]_vars => [DirectEntryIsCleanStep]_vars
  <2> SUFFICES ASSUME TypeOK, [Next]_vars, NEW m \in Launches, NEW v \in Venues,
                      Joins(m), launch[m].totalWeightedStake > 0, creator[m] = "direct"
               PROVE  creatorVault[m][v]["direct"] = 0
    BY DEF DirectEntryIsCleanStep
  <2>1. CreatorVaultsAreClean(m)
    BY JoiningStep DEF Stake, IncreaseStake
  <2> QED BY <2>1, CleanMeansDirectEmpty
<1> QED BY <1>1, TypeCorrect, PTL DEF Spec, DirectEntryIsClean

-----------------------------------------------------------------------------
(***************************************************************************)
(* The shares of a fee.                                                    *)
(***************************************************************************)
\* What one vault yields is a natural number, and none when it is empty.
LEMMA ProceedsType ==
  ASSUME NEW bps \in Nat, NEW held \in Nat
  PROVE  /\ (held * bps) \div 10000 \in Nat
         /\ (0 * bps) \div 10000 = 0
<1>1. held * bps \in Nat
  BY ProductNat
<1>2. 0 * bps = 0
  OBVIOUS
<1> QED BY <1>1, <1>2, DivBounds

\* The terms of Drawable, before and after a step.
LEMMA DrawableTerms ==
  ASSUME CreatorVaultsTypeOK, CreatorVaultsTypeOK', NEW l \in Launches
  PROVE  /\ \A v \in Venues, r \in Routes : Proceeds(l, v, r) \in Nat /\ Proceeds(l, v, r)' \in Nat
         /\ \A v \in Venues, r \in Routes : creatorVault'[l][v][r] = 0 => Proceeds(l, v, r)' = 0
         /\ feeOwner[l] \in Nat /\ feeOwner'[l] \in Nat
         /\ wsolAta[l] \in Nat /\ wsolAta'[l] \in Nat /\ RentFloor \in Nat
<1>1. ASSUME NEW v \in Venues, NEW r \in Routes
      PROVE  /\ Proceeds(l, v, r) \in Nat /\ Proceeds(l, v, r)' \in Nat
             /\ creatorVault'[l][v][r] = 0 => Proceeds(l, v, r)' = 0
  <2>1. creatorVault[l][v][r] \in Nat /\ creatorVault'[l][v][r] \in Nat
    BY DEF CreatorVaultsTypeOK
  <2>2. FeeOwnerShareBps \in Nat
    BY CreatorVaultsAssumption
  <2>3. PICK x, y : x = creatorVault[l][v][r] /\ y = creatorVault'[l][v][r]
    OBVIOUS
  <2>4. /\ (x * FeeOwnerShareBps) \div 10000 \in Nat
        /\ (y * FeeOwnerShareBps) \div 10000 \in Nat
        /\ y = 0 => (y * FeeOwnerShareBps) \div 10000 = 0
    BY <2>1, <2>2, <2>3, ProceedsType
  <2> QED BY <2>1, <2>3, <2>4 DEF Proceeds
<1>2. /\ feeOwner[l] \in Nat /\ feeOwner'[l] \in Nat
      /\ wsolAta[l] \in Nat /\ wsolAta'[l] \in Nat /\ RentFloor \in Nat
  BY CreatorVaultsAssumption DEF CreatorVaultsTypeOK
<1> QED BY <1>1, <1>2

\* A sum that no term lowers is not lowered, and one that a single term lowers
\* drops by what that term loses.
LEMMA SixTerms ==
  ASSUME NEW a \in Nat, NEW b \in Nat, NEW c \in Nat, NEW d \in Nat, NEW e \in Nat, NEW f \in Nat,
         NEW a2 \in Nat, NEW b2 \in Nat, NEW c2 \in Nat, NEW d2 \in Nat, NEW e2 \in Nat, NEW f2 \in Nat,
         a <= a2, b <= b2, c <= c2, d <= d2, e <= e2, f <= f2
  PROVE  ~ (a2 + b2 + c2 + d2 + e2 + f2 < a + b + c + d + e + f)
  OBVIOUS

\* Fees that arrive, and an account that is opened, do not lower what a
\* claim can draw.
LEMMA WorldKeepsDrawable ==
  ASSUME TypeOK, TypeOK', Outside, NEW l \in Launches
  PROVE  ~ (Drawable(l)' < Drawable(l))
<1>1. CreatorVaultsTypeOK /\ CreatorVaultsTypeOK'
  BY DEF TypeOK
<1>2. PICK m \in Launches :
        \/ \E v \in FeeVenues, r \in FeeRoutes, x \in FeeAmounts : FeesArrive(m, v, r, x)
        \/ \E x \in FeeAmounts : FeeOwnerReceives(m, x)
        \/ OpenWsolAta(m)
        \/ MoveToSharing(m)
  BY DEF Outside, World
<1>3. ASSUME NEW v \in Venues, NEW r \in Routes
      PROVE  /\ creatorVault[l][v][r] \in Nat /\ creatorVault'[l][v][r] \in Nat
             /\ creatorVault[l][v][r] <= creatorVault'[l][v][r]
  <2>1. creatorVault[l][v][r] \in Nat /\ creatorVault'[l][v][r] \in Nat
    BY <1>1 DEF CreatorVaultsTypeOK
  <2>2. CASE creatorVault' = creatorVault
    BY <2>1, <2>2
  <2>3. CASE \E w \in FeeVenues, q \in FeeRoutes, x \in FeeAmounts : FeesArrive(m, w, q, x)
    <3>1. PICK w \in FeeVenues, q \in FeeRoutes, x \in FeeAmounts :
            creatorVault' = [creatorVault EXCEPT ![m][w][q] = @ + x]
      BY <2>3 DEF FeesArrive
    <3>2. x \in Nat
      BY CreatorVaultsAssumption
    <3>3. \/ creatorVault'[l][v][r] = creatorVault[l][v][r]
          \/ creatorVault'[l][v][r] = creatorVault[l][v][r] + x
      BY <1>1, <3>1 DEF CreatorVaultsTypeOK
    <3> QED BY <2>1, <3>2, <3>3
  <2> QED BY <1>2, <2>2, <2>3 DEF FeeOwnerReceives, OpenWsolAta, MoveToSharing
<1>4. ASSUME NEW v \in Venues, NEW r \in Routes
      PROVE  Proceeds(l, v, r) <= Proceeds(l, v, r)'
  <2>1. PICK x, y : x = creatorVault[l][v][r] /\ y = creatorVault'[l][v][r]
    OBVIOUS
  <2>2. x \in Nat /\ y \in Nat /\ x <= y
    BY <1>3, <2>1
  <2>3. FeeOwnerShareBps \in Nat
    BY CreatorVaultsAssumption
  <2>4. x * FeeOwnerShareBps <= y * FeeOwnerShareBps
    BY <2>2, <2>3, ProductMonotone
  <2>5. x * FeeOwnerShareBps \in Nat /\ y * FeeOwnerShareBps \in Nat
    BY <2>2, <2>3, ProductNat
  <2>6. (x * FeeOwnerShareBps) \div 10000 <= (y * FeeOwnerShareBps) \div 10000
    BY <2>4, <2>5, DivMonotone
  <2> QED BY <2>1, <2>2, <2>6 DEF Proceeds
<1>5. feeOwner[l] <= feeOwner'[l] /\ wsolAta[l] <= wsolAta'[l]
  <2>0. FeeAmounts \subseteq Nat /\ AtaRent \in Nat
    BY CreatorVaultsAssumption
  <2>1. feeOwner \in [Launches -> Nat] /\ wsolAta \in [Launches -> Nat]
    BY <1>1 DEF CreatorVaultsTypeOK
  <2>2. \/ feeOwner' = feeOwner
        \/ \E x \in FeeAmounts : feeOwner' = [feeOwner EXCEPT ![m] = @ + x]
    BY <1>2 DEF FeesArrive, FeeOwnerReceives, OpenWsolAta, MoveToSharing
  <2>3. \/ wsolAta' = wsolAta
        \/ wsolAta[m] = 0 /\ wsolAta' = [wsolAta EXCEPT ![m] = AtaRent]
    BY <1>2 DEF FeesArrive, FeeOwnerReceives, OpenWsolAta, MoveToSharing
  <2>4. feeOwner'[l] = feeOwner[l] \/ \E x \in Nat : feeOwner'[l] = feeOwner[l] + x
    BY <2>0, <2>1, <2>2
  <2>5. wsolAta'[l] = wsolAta[l] \/ (wsolAta[l] = 0 /\ wsolAta'[l] = AtaRent)
    BY <2>1, <2>3
  <2>6. feeOwner[l] \in Nat /\ wsolAta[l] \in Nat
    BY <2>1
  <2>7. feeOwner[l] <= feeOwner'[l]
    BY <2>4, <2>6
  <2>8. wsolAta[l] <= wsolAta'[l]
    BY <2>0, <2>5, <2>6
  <2> QED BY <2>7, <2>8
<1>6. PICK p1, p2, p3, p4, e, f, q1, q2, q3, q4, e2, f2 :
        /\ p1 = Proceeds(l, "pump", "direct") /\ q1 = Proceeds(l, "pump", "direct")'
        /\ p2 = Proceeds(l, "pump", "shared") /\ q2 = Proceeds(l, "pump", "shared")'
        /\ p3 = Proceeds(l, "amm", "direct") /\ q3 = Proceeds(l, "amm", "direct")'
        /\ p4 = Proceeds(l, "amm", "shared") /\ q4 = Proceeds(l, "amm", "shared")'
        /\ e = Larger(feeOwner[l], RentFloor) - RentFloor
        /\ e2 = Larger(feeOwner'[l], RentFloor) - RentFloor
        /\ f = wsolAta[l] /\ f2 = wsolAta'[l]
  OBVIOUS
<1>7. /\ p1 \in Nat /\ p2 \in Nat /\ p3 \in Nat /\ p4 \in Nat
      /\ q1 \in Nat /\ q2 \in Nat /\ q3 \in Nat /\ q4 \in Nat
      /\ p1 <= q1 /\ p2 <= q2 /\ p3 <= q3 /\ p4 <= q4
  BY <1>1, <1>4, <1>6, DrawableTerms DEF Venues, Routes
<1>8. e \in Nat /\ e2 \in Nat /\ e <= e2 /\ f \in Nat /\ f2 \in Nat /\ f <= f2
  BY <1>1, <1>5, <1>6, DrawableTerms DEF Larger
<1>9. Drawable(l) = p1 + p2 + p3 + p4 + e + f /\ Drawable(l)' = q1 + q2 + q3 + q4 + e2 + f2
  BY <1>6 DEF Drawable
<1> QED BY <1>7, <1>8, <1>9, SixTerms

\* A sweep draws what it sweeps from the accounts.
LEMMA SweepDraws ==
  ASSUME CreatorVaultsTypeOK, CreatorVaultsTypeOK', NEW l \in Launches, NEW r \in Routes,
         SweepFeeOwner(l, r)
  PROVE  Drawable(l) - Drawable(l)' = SweptLamports(l, r)
<1>1. PICK p1, p2, p3, p4, o, f, q1, q2, o2 :
        /\ p1 = Proceeds(l, "pump", "direct") /\ q1 = Proceeds(l, "pump", "direct")'
        /\ p2 = Proceeds(l, "pump", "shared") /\ q2 = Proceeds(l, "pump", "shared")'
        /\ p3 = Proceeds(l, "amm", "direct") /\ p4 = Proceeds(l, "amm", "shared")
        /\ o = Larger(feeOwner[l], RentFloor) - RentFloor
        /\ o2 = Larger(feeOwner'[l], RentFloor) - RentFloor
        /\ f = wsolAta[l]
  OBVIOUS
<1>2. /\ p1 \in Nat /\ p2 \in Nat /\ p3 \in Nat /\ p4 \in Nat /\ q1 \in Nat /\ q2 \in Nat
      /\ f \in Nat /\ feeOwner[l] \in Nat /\ RentFloor \in Nat
  BY <1>1, DrawableTerms DEF Venues, Routes
<1>3. o \in Nat /\ SweptLamports(l, r) = o + (IF r = "direct" THEN p1 ELSE p2)
  BY <1>1, <1>2 DEF SweptLamports, Larger, Routes
<1>4. feeOwner'[l] = RentFloor
  <2>1. PICK left : left = Larger(feeOwner[l], RentFloor) + Proceeds(l, "pump", r) - SweptLamports(l, r)
    OBVIOUS
  <2>2. left = RentFloor
    BY <1>1, <1>2, <2>1 DEF SweptLamports, Larger, Routes
  <2> QED BY <2>1, <2>2 DEF SweepFeeOwner, CreatorVaultsTypeOK
<1>5. o2 = 0
  BY <1>1, <1>2, <1>4 DEF Larger
<1>6. creatorVault'[l]["pump"][r] = 0 /\ wsolAta' = wsolAta
  BY DEF SweepFeeOwner, CreatorVaultsTypeOK, Venues
<1>7. \A v \in Venues, q \in Routes :
        v # "pump" \/ q # r => Proceeds(l, v, q)' = Proceeds(l, v, q)
  <2>1. \A v \in Venues, q \in Routes :
          v # "pump" \/ q # r => creatorVault'[l][v][q] = creatorVault[l][v][q]
    BY DEF SweepFeeOwner, CreatorVaultsTypeOK, Venues
  <2> QED BY <2>1 DEF Proceeds
<1>8. Proceeds(l, "amm", "direct")' = p3 /\ Proceeds(l, "amm", "shared")' = p4
  BY <1>1, <1>7 DEF Venues, Routes
<1>9. IF r = "direct" THEN q1 = 0 /\ q2 = p2 ELSE q1 = p1 /\ q2 = 0
  <2>1. Proceeds(l, "pump", r)' = 0
    BY <1>6, DrawableTerms DEF Venues
  <2> QED BY <1>1, <1>7, <2>1 DEF Venues, Routes
<1>10. /\ Drawable(l) = p1 + p2 + p3 + p4 + o + f
       /\ Drawable(l)' = q1 + q2 + p3 + p4 + o2 + f
  BY <1>1, <1>6, <1>8 DEF Drawable
<1>11. PICK before, after : before = Drawable(l) /\ after = Drawable(l)'
  OBVIOUS
<1>12. before - after = o + (IF r = "direct" THEN p1 ELSE p2)
  BY <1>2, <1>3, <1>5, <1>9, <1>10, <1>11
<1> QED BY <1>3, <1>11, <1>12

\* A closed WSOL account draws what it unwraps from the accounts.
LEMMA UnwrapDraws ==
  ASSUME CreatorVaultsTypeOK, CreatorVaultsTypeOK', NEW l \in Launches, NEW r \in Routes,
         UnwrapWsol(l, r)
  PROVE  Drawable(l) - Drawable(l)' = UnwrappedLamports(l, r)
<1>1. PICK p1, p2, p3, p4, o, f, q3, q4 :
        /\ p1 = Proceeds(l, "pump", "direct") /\ p2 = Proceeds(l, "pump", "shared")
        /\ p3 = Proceeds(l, "amm", "direct") /\ q3 = Proceeds(l, "amm", "direct")'
        /\ p4 = Proceeds(l, "amm", "shared") /\ q4 = Proceeds(l, "amm", "shared")'
        /\ o = Larger(feeOwner[l], RentFloor) - RentFloor
        /\ f = wsolAta[l]
  OBVIOUS
<1>2. /\ p1 \in Nat /\ p2 \in Nat /\ p3 \in Nat /\ p4 \in Nat /\ q3 \in Nat /\ q4 \in Nat
      /\ f \in Nat /\ feeOwner[l] \in Nat /\ RentFloor \in Nat
  BY <1>1, DrawableTerms DEF Venues, Routes
<1>3. o \in Nat
  BY <1>1, <1>2 DEF Larger
<1>4. UnwrappedLamports(l, r) = f + (IF r = "direct" THEN p3 ELSE p4)
  BY <1>1 DEF UnwrappedLamports, Routes
<1>5. creatorVault'[l]["amm"][r] = 0 /\ wsolAta'[l] = 0 /\ feeOwner' = feeOwner
  BY DEF UnwrapWsol, CreatorVaultsTypeOK, Venues
<1>6. \A v \in Venues, q \in Routes :
        v # "amm" \/ q # r => Proceeds(l, v, q)' = Proceeds(l, v, q)
  <2>1. \A v \in Venues, q \in Routes :
          v # "amm" \/ q # r => creatorVault'[l][v][q] = creatorVault[l][v][q]
    BY DEF UnwrapWsol, CreatorVaultsTypeOK, Venues
  <2> QED BY <2>1 DEF Proceeds
<1>7. Proceeds(l, "pump", "direct")' = p1 /\ Proceeds(l, "pump", "shared")' = p2
  BY <1>1, <1>6 DEF Venues, Routes
<1>8. IF r = "direct" THEN q3 = 0 /\ q4 = p4 ELSE q3 = p3 /\ q4 = 0
  <2>1. Proceeds(l, "amm", r)' = 0
    BY <1>5, DrawableTerms DEF Venues
  <2> QED BY <1>1, <1>6, <2>1 DEF Venues, Routes
<1>9. /\ Drawable(l) = p1 + p2 + p3 + p4 + o + f
      /\ Drawable(l)' = p1 + p2 + q3 + q4 + o + 0
  BY <1>1, <1>5, <1>7 DEF Drawable
<1>10. PICK before, after : before = Drawable(l) /\ after = Drawable(l)'
  OBVIOUS
<1>11. before - after = f + (IF r = "direct" THEN p3 ELSE p4)
  BY <1>2, <1>3, <1>8, <1>9, <1>10
<1> QED BY <1>4, <1>10, <1>11

\* What claims can draw is an integer, and depends on the fee accounts only.
LEMMA DrawableType ==
  ASSUME CreatorVaultsTypeOK, CreatorVaultsTypeOK', NEW l \in Launches
  PROVE  /\ Drawable(l) \in Int /\ Drawable(l)' \in Int
         /\ (/\ creatorVault'[l] = creatorVault[l] /\ feeOwner'[l] = feeOwner[l]
             /\ wsolAta'[l] = wsolAta[l]) => ~ (Drawable(l)' < Drawable(l))
<1>1. /\ \A v \in Venues, r \in Routes : Proceeds(l, v, r) \in Nat /\ Proceeds(l, v, r)' \in Nat
      /\ feeOwner[l] \in Nat /\ feeOwner'[l] \in Nat
      /\ wsolAta[l] \in Nat /\ wsolAta'[l] \in Nat /\ RentFloor \in Nat
  BY DrawableTerms
<1>2. Drawable(l) \in Int /\ Drawable(l)' \in Int
  BY <1>1 DEF Drawable, Larger, Venues, Routes
<1>3. ASSUME creatorVault'[l] = creatorVault[l], feeOwner'[l] = feeOwner[l], wsolAta'[l] = wsolAta[l]
      PROVE  Drawable(l)' = Drawable(l)
  BY <1>3 DEF Drawable, Proceeds
<1>4. PICK before, after : before = Drawable(l) /\ after = Drawable(l)'
  OBVIOUS
<1>5. before \in Int /\ after = before => ~ (after < before)
  OBVIOUS
<1> QED BY <1>2, <1>3, <1>4, <1>5

\* Only a claim of a launch's SOL fees lowers what claims can draw, by the amount
\* it divides.
LEMMA ClaimDraws ==
  ASSUME TypeOK, [Next]_vars, NEW l \in Launches, Drawable(l)' < Drawable(l)
  PROVE  \E amount \in Nat \ {0} :
           DistributeFees(l, amount) /\ amount = Drawable(l) - Drawable(l)'
<1>1. TypeOK' /\ CreatorVaultsTypeOK /\ CreatorVaultsTypeOK'
  BY NextType DEF TypeOK
<1>2. ~ (/\ creatorVault'[l] = creatorVault[l] /\ feeOwner'[l] = feeOwner[l]
         /\ wsolAta'[l] = wsolAta[l])
  BY <1>1, DrawableType
<1>3. ~ Outside
  BY <1>1, WorldKeepsDrawable
<1>4. ~ (Tick \/ Gift \/ UNCHANGED vars)
  BY <1>2 DEF Tick, Gift, vars, creatorVars
<1>5. ASSUME NEW k \in Launches, NEW o \in Owners, OwnerStep(k, o) PROVE FALSE
  BY <1>2, <1>5 DEF OwnerStep, Stake, IncreaseStake, Unstake, ClaimRewards, creatorVars
<1>6. ASSUME NEW k \in Launches, InitializeLaunch(k) PROVE FALSE
  BY <1>2, <1>6 DEF InitializeLaunch, creatorVars
<1>7. PICK k \in Launches : FeeStep(k)
  BY <1>3, <1>4, <1>5, <1>6 DEF Next
<1>8. k = l
  BY <1>2, <1>7, FeeStepTouches DEF Accounts
<1>9. ~ ClaimProtocolFees(l)
  BY <1>2 DEF ClaimProtocolFees, creatorVars
<1>10. PICK amount :
         /\ DistributeFees(l, amount)
         /\ \E r \in Routes : \/ amount = SweptLamports(l, r) /\ SweepFeeOwner(l, r)
                              \/ amount = UnwrappedLamports(l, r) /\ UnwrapWsol(l, r)
  BY <1>7, <1>8, <1>9 DEF FeeStep, ClaimPumpCreatorFees, ClaimPumpSharedCreatorFees,
                          ClaimPumpSwapCreatorFees, ClaimPumpSwapSharedCreatorFees, Routes
<1>11. amount = Drawable(l) - Drawable(l)'
  BY <1>1, <1>10, SweepDraws, UnwrapDraws
<1>12. Drawable(l) - Drawable(l)' \in Nat \ {0}
  <2>1. PICK before, after : before = Drawable(l) /\ after = Drawable(l)'
    OBVIOUS
  <2>2. before \in Int /\ after \in Int /\ after < before
    BY <1>1, <2>1, DrawableType
  <2>3. before - after \in Nat \ {0}
    BY <2>2
  <2> QED BY <2>1, <2>3
<1> QED BY <1>10, <1>11, <1>12

\* A credit raises a reserve by its amount.
LEMMA ReserveAfterRewards ==
  ASSUME NEW lc \in LaunchConfig, NEW x \in Nat
  PROVE  /\ lc.rewardReserve \in Nat
         /\ ApplyRewards(lc, x).rewardReserve = lc.rewardReserve + x
<1>1. lc.rewardReserve \in Nat
  BY RewardMathAssumption DEF LaunchConfig, U64
<1>2. ApplyRewards(lc, x).rewardReserve = lc.rewardReserve + x
  BY DEF ApplyRewards, LaunchConfig
<1> QED BY <1>1, <1>2

\* A distribution from launch l raises the reserves and the lamports of l and of
\* the main launch by the shares, which the main launch does not divide, and funds
\* the protocol vault with the fee.
LEMMA DistributionShares ==
  ASSUME TypeOK, NEW l \in Launches, NEW amount \in Nat \ {0}, DistributeFees(l, amount),
         NEW own, own = RewardSplitAmounts(amount).reward,
         NEW main, main = RewardSplitAmounts(amount).mainReward,
         NEW fee, fee = RewardSplitAmounts(amount).protocolFee
  PROVE  /\ l = MainLaunch =>
              /\ launch'[l].rewardReserve = launch[l].rewardReserve + (own + main)
              /\ lamports'[l] = lamports[l] + (own + main)
         /\ l # MainLaunch =>
              /\ launch'[l].rewardReserve = launch[l].rewardReserve + own
              /\ lamports'[l] = lamports[l] + own
              /\ launch'[MainLaunch].rewardReserve = launch[MainLaunch].rewardReserve + main
              /\ lamports'[MainLaunch] = lamports[MainLaunch] + main
         /\ protocolVault'[l] = IF fee > 0 THEN Larger(protocolVault[l], RentFloor) + fee
                                ELSE protocolVault[l]
<1>1. own \in Nat /\ main \in Nat /\ fee \in Nat /\ amount - fee = own + main
  <2>1. own \in Nat /\ main \in Nat /\ fee \in Nat /\ fee + main + own = amount
    BY RewardSplitConserves
  <2> QED BY <2>1
<1>2. MainLaunch \in Launches /\ launch[l] \in LaunchConfig /\ launch[MainLaunch] \in LaunchConfig
  BY StakingAssumption, LaunchTypes
<1>3. ASSUME NEW lc \in LaunchConfig, NEW x \in Nat
      PROVE  (IF x > 0 THEN ApplyRewards(lc, x) ELSE lc).rewardReserve = lc.rewardReserve + x
  BY <1>3, ReserveAfterRewards
<1>4. ASSUME l = MainLaunch
      PROVE  /\ launch'[l].rewardReserve = launch[l].rewardReserve + (own + main)
             /\ lamports'[l] = lamports[l] + (own + main)
  <2>1. /\ launch' = [launch EXCEPT ![l] = ApplyRewards(@, own + main)]
        /\ lamports' = [lamports EXCEPT ![l] = @ + (own + main)]
    BY <1>1, <1>4 DEF DistributeFees, DistributeToMain
  <2>2. launch'[l] = ApplyRewards(launch[l], own + main)
    BY <2>1 DEF TypeOK
  <2>3. own + main \in Nat
    BY <1>1
  <2> QED BY <1>2, <2>1, <2>2, <2>3, ReserveAfterRewards DEF TypeOK
<1>5. ASSUME l # MainLaunch
      PROVE  /\ launch'[l].rewardReserve = launch[l].rewardReserve + own
             /\ lamports'[l] = lamports[l] + own
             /\ launch'[MainLaunch].rewardReserve = launch[MainLaunch].rewardReserve + main
             /\ lamports'[MainLaunch] = lamports[MainLaunch] + main
  <2>1. /\ launch' = [launch EXCEPT ![l] = IF own > 0 THEN ApplyRewards(@, own) ELSE @,
                                    ![MainLaunch] = IF main > 0 THEN ApplyRewards(@, main) ELSE @]
        /\ lamports' = [lamports EXCEPT ![l] = @ + own, ![MainLaunch] = @ + main]
    BY <1>5, DistributionToOther DEF DistributeFees
  <2>2. /\ launch'[l] = IF own > 0 THEN ApplyRewards(launch[l], own) ELSE launch[l]
        /\ launch'[MainLaunch] = IF main > 0 THEN ApplyRewards(launch[MainLaunch], main)
                                 ELSE launch[MainLaunch]
        /\ lamports'[l] = lamports[l] + own
        /\ lamports'[MainLaunch] = lamports[MainLaunch] + main
    BY <1>2, <1>5, <2>1 DEF TypeOK
  <2> QED BY <1>1, <1>2, <1>3, <2>2
<1>6. protocolVault'[l] = IF fee > 0 THEN Larger(protocolVault[l], RentFloor) + fee
                          ELSE protocolVault[l]
  <2>1. FundProtocolVault(l, fee)
    BY DEF DistributeFees, DistributeToMain, DistributeToOther
  <2> QED BY <2>1 DEF FundProtocolVault, TypeOK
<1> QED BY <1>4, <1>5, <1>6

\* The shares are 71.25%, 3.75% and 25% of what the claim draws, up to rounding.
THEOREM FeeSharesAlways == Spec => FeeShares
<1>1. TypeOK /\ [Next]_vars => [FeeSharesStep]_vars
  <2> SUFFICES ASSUME TypeOK, [Next]_vars, NEW l \in Launches, Drawable(l)' < Drawable(l)
               PROVE  LET own  == launch'[l].rewardReserve - launch[l].rewardReserve
                          main == launch'[MainLaunch].rewardReserve - launch[MainLaunch].rewardReserve
                          rest == IF l = MainLaunch THEN own ELSE own + main
                          fee  == Received(protocolVault[l])
                      IN  /\ rest + fee = Drawable(l) - Drawable(l)'
                          /\ 3 * fee <= rest /\ rest < 3 * fee + 4
                          /\ l # MainLaunch => 19 * main <= own /\ own < 19 * main + 20
                          /\ lamports'[l] - lamports[l] = own
                          /\ lamports'[MainLaunch] - lamports[MainLaunch] = main
    BY DEF FeeSharesStep
  <2>1. PICK amount \in Nat \ {0} :
          DistributeFees(l, amount) /\ amount = Drawable(l) - Drawable(l)'
    BY ClaimDraws
  <2>2. PICK own, main, fee : /\ own = RewardSplitAmounts(amount).reward
                              /\ main = RewardSplitAmounts(amount).mainReward
                              /\ fee = RewardSplitAmounts(amount).protocolFee
    OBVIOUS
  <2>3. /\ own \in Nat /\ main \in Nat /\ fee \in Nat /\ fee + main + own = amount
        /\ 19 * main <= own /\ own < 19 * main + 20
        /\ 3 * fee <= own + main /\ own + main < 3 * fee + 4
    BY <2>2, RewardSplitConserves, RewardSplitShares
  <2>4. /\ launch[l].rewardReserve \in Nat /\ launch[MainLaunch].rewardReserve \in Nat
        /\ lamports[l] \in Nat /\ lamports[MainLaunch] \in Nat
        /\ protocolVault[l] \in Nat /\ RentFloor \in Nat
    BY StakingAssumption, LaunchTypes, CreatorVaultsAssumption DEF TypeOK
  <2>5. Received(protocolVault[l]) = fee
    <3>1. PICK old, new : old = protocolVault[l] /\ new = protocolVault'[l]
      OBVIOUS
    <3>2. new = IF fee > 0 THEN Larger(old, RentFloor) + fee ELSE old
      BY <2>1, <2>2, <3>1, DistributionShares
    <3>3. Larger(new, RentFloor) - Larger(old, RentFloor) = fee
      BY <2>3, <2>4, <3>1, <3>2 DEF Larger
    <3> QED BY <3>1, <3>3 DEF Received
  <2>6. CASE l = MainLaunch
    <3>1. /\ launch'[l].rewardReserve = launch[l].rewardReserve + (own + main)
          /\ lamports'[l] = lamports[l] + (own + main)
      BY <2>1, <2>2, <2>6, DistributionShares
    <3>2. /\ launch'[l].rewardReserve - launch[l].rewardReserve = own + main
          /\ lamports'[l] - lamports[l] = own + main
      BY <2>3, <2>4, <3>1
    <3>3. own + main + fee = amount
      BY <2>3
    <3> QED BY <2>1, <2>3, <2>5, <2>6, <3>2, <3>3
  <2>7. CASE l # MainLaunch
    <3>1. /\ launch'[l].rewardReserve = launch[l].rewardReserve + own
          /\ lamports'[l] = lamports[l] + own
          /\ launch'[MainLaunch].rewardReserve = launch[MainLaunch].rewardReserve + main
          /\ lamports'[MainLaunch] = lamports[MainLaunch] + main
      BY <2>1, <2>2, <2>7, DistributionShares
    <3>2. /\ launch'[l].rewardReserve - launch[l].rewardReserve = own
          /\ lamports'[l] - lamports[l] = own
          /\ launch'[MainLaunch].rewardReserve - launch[MainLaunch].rewardReserve = main
          /\ lamports'[MainLaunch] - lamports[MainLaunch] = main
      BY <2>3, <2>4, <3>1
    <3>3. own + main + fee = amount
      BY <2>3
    <3> QED BY <2>1, <2>3, <2>5, <2>7, <3>2, <3>3
  <2> QED BY <2>6, <2>7
<1> QED BY <1>1, TypeCorrect, PTL DEF Spec, FeeShares

-----------------------------------------------------------------------------
(***************************************************************************)
(* The refinement: each kind of step of a launch is one of its ledger.     *)
(***************************************************************************)
\* The mapped variables, member by member, before and after a step.
LEMMA MappedOwed ==
  ASSUME NEW l \in Launches, NEW o \in Owners
  PROVE  /\ Owed(l)[o] = position[l][o].weight * launch[l].accRewardPerWeight
                           - Precision * position[l][o].rewardDebt
         /\ Owed(l)'[o] = position'[l][o].weight * launch'[l].accRewardPerWeight
                           - Precision * position'[l][o].rewardDebt
         /\ Weights(l)[o] = position[l][o].weight
         /\ Weights(l)'[o] = position'[l][o].weight
  BY DEF Owed, Weights

\* What a credit adds, to the launch and to what each owner is owed.
LEMMA CreditParts ==
  ASSUME TypeOK, NEW l \in Launches, NEW amount \in Nat, Credited(l, amount),
         NEW total, total = launch[l].totalWeightedStake,
         NEW inc, inc = RewardIncrement(amount, total)
  PROVE  /\ amount > 0 /\ total \in Nat \ {0}
         /\ inc \in Nat /\ inc > 0
         /\ inc * total <= Precision * amount
         /\ launch'[l].accRewardPerWeight = launch[l].accRewardPerWeight + inc
         /\ launch'[l].rewardReserve = launch[l].rewardReserve + amount
         /\ \A o \in Owners : Owed(l)'[o] = Owed(l)[o] + inc * Weights(l)[o]
<1>1. PICK acc, res : acc = launch[l].accRewardPerWeight /\ res = launch[l].rewardReserve
  OBVIOUS
<1>2. acc \in Nat /\ res \in Nat /\ Precision \in Nat \ {0}
  BY <1>1, LaunchTypes, RewardMathAssumption
<1>3. total \in Nat \ {0} /\ inc > 0
  BY LaunchTypes DEF Credited, CanApplyRewards
<1>4. /\ amount > 0 /\ inc \in Nat
      /\ inc * total <= Precision * amount
  BY <1>3, IncrementParts
<1>5. /\ launch'[l].accRewardPerWeight = acc + inc
      /\ launch'[l].rewardReserve = res + amount
      /\ position'[l] = position[l]
  <2>1. launch[l] \in LaunchConfig
    BY DEF TypeOK
  <2> QED BY <1>1, <2>1 DEF Credited, ApplyRewards, LaunchConfig
<1>6. ASSUME NEW o \in Owners
      PROVE  Owed(l)'[o] = Owed(l)[o] + inc * Weights(l)[o]
  <2>1. PICK w, d : w = position[l][o].weight /\ d = position[l][o].rewardDebt
    OBVIOUS
  <2>2. w \in Nat /\ d \in Nat
    BY <2>1, PositionTypes
  <2>3. /\ Owed(l)[o] = w * acc - Precision * d
        /\ Owed(l)'[o] = w * (acc + inc) - Precision * d
        /\ Weights(l)[o] = w
    BY <1>1, <1>5, <2>1, MappedOwed
  <2>4. w * (acc + inc) - Precision * d = (w * acc - Precision * d) + inc * w
    BY <1>2, <1>4, <2>2
  <2> QED BY <2>3, <2>4
<1> QED BY <1>1, <1>3, <1>4, <1>5, <1>6

\* A credit is shared out by weight.
LEMMA CreditIsShared ==
  ASSUME TypeOK, NEW l \in Launches, NEW amount \in Nat, Ledger(l), Credited(l, amount)
  PROVE  Shares!Credit(l)
<1>1. PICK total, inc, res : /\ total = launch[l].totalWeightedStake
                             /\ inc = RewardIncrement(amount, total)
                             /\ res = launch[l].rewardReserve
  OBVIOUS
<1>2. /\ amount > 0 /\ inc > 0 /\ total \in Nat \ {0}
      /\ launch'[l].rewardReserve = res + amount
      /\ \A o \in Owners : Owed(l)'[o] = Owed(l)[o] + inc * Weights(l)[o]
  BY <1>1, CreditParts
<1>3. launch'[l].rewardReserve - launch[l].rewardReserve = amount
  <2>1. res \in Nat
    BY <1>1, LaunchTypes
  <2> QED BY <1>1, <1>2, <2>1
<1>4. Weights(l)' = Weights(l) /\ SumTo(Weights(l), NumOwners) = total
  BY <1>1 DEF Weights, Ledger, Credited
<1>5. (Precision * amount) \div total = inc /\ total > 0
  BY <1>1, <1>2, IncrementQuotient
<1>6. Shares!SumTo(Weights(l), NumOwners) = total
  BY <1>4 DEF Shares!SumTo, SumTo
<1> QED BY <1>2, <1>3, <1>4, <1>5, <1>6 DEF Shares!Credit, Shares!CreditOver, Shares!Members, Owners

\* What a settlement pays, and what it leaves owed to each owner.
LEMMA SettlementParts ==
  ASSUME TypeOK, TypeOK', NEW l \in Launches, NEW o \in Owners, Settled(l, o),
         NEW paid, paid = PendingReward(position[l][o], launch[l])
  PROVE  /\ paid \in 0..launch[l].rewardReserve
         /\ launch'[l].rewardReserve = launch[l].rewardReserve - paid
         /\ Precision * paid <= Owed(l)[o]
         /\ Owed(l)[o] < Precision * paid + Precision
         /\ Owed(l)'[o] \in 0..(Precision - 1)
         /\ Weights(l)'[o] = Weights(l)[o] => Owed(l)'[o] = Owed(l)[o] - Precision * paid
         /\ \A p \in Owners \ {o} : Weights(l)'[p] = Weights(l)[p] /\ Owed(l)'[p] = Owed(l)[p]
<1>1. PICK w, d, w2, acc, res, floor, floor2 :
        /\ w = position[l][o].weight /\ d = position[l][o].rewardDebt
        /\ w2 = position'[l][o].weight
        /\ acc = launch[l].accRewardPerWeight /\ res = launch[l].rewardReserve
        /\ floor = RewardDebt(w, acc) /\ floor2 = RewardDebt(w2, acc)
  OBVIOUS
<1>2. /\ w \in Nat /\ d \in Nat /\ w2 \in Nat /\ acc \in Nat /\ res \in Nat
      /\ Precision \in Nat \ {0}
  BY <1>1, LaunchTypes, PositionTypes, NextLedgerTypes, RewardMathAssumption
<1>3. /\ floor \in Nat /\ Precision * floor <= w * acc
      /\ w * acc <= Precision * floor + (Precision - 1)
      /\ floor2 \in Nat /\ Precision * floor2 <= w2 * acc
      /\ w2 * acc <= Precision * floor2 + (Precision - 1)
      /\ w2 = w => floor2 = floor
  BY <1>1, <1>2, RewardDebtBounds
<1>4. paid \in Nat /\ paid = floor - d
  <2>1. paid = floor - d /\ paid >= 0
    BY <1>1 DEF Settled, PendingReward
  <2> QED BY <1>2, <1>3, <2>1
<1>5. /\ Owed(l)[o] = w * acc - Precision * d
      /\ Owed(l)'[o] = w2 * acc - Precision * floor2
      /\ Weights(l)[o] = w /\ Weights(l)'[o] = w2
  <2>1. position'[l][o].rewardDebt = floor2 /\ launch'[l].accRewardPerWeight = acc
    BY <1>1 DEF Settled
  <2> QED BY <1>1, <2>1, MappedOwed
<1>6. /\ Precision * paid <= Owed(l)[o]
      /\ Owed(l)[o] < Precision * paid + Precision
      /\ Owed(l)'[o] \in 0..(Precision - 1)
      /\ w2 = w => Owed(l)'[o] = Owed(l)[o] - Precision * paid
  BY <1>2, <1>3, <1>4, <1>5, SettledParts
<1>7. launch'[l].rewardReserve = launch[l].rewardReserve - paid /\ paid \in 0..launch[l].rewardReserve
  <2>1. launch'[l].rewardReserve = res - paid /\ launch'[l].rewardReserve \in Nat
    BY <1>1, NextLedgerTypes DEF Settled
  <2> QED BY <1>1, <1>2, <1>4, <2>1
<1>8. ASSUME NEW p \in Owners \ {o}
      PROVE  Weights(l)'[p] = Weights(l)[p] /\ Owed(l)'[p] = Owed(l)[p]
  BY MappedOwed DEF Settled
<1> QED BY <1>5, <1>6, <1>7, <1>8

\* A settlement pays one member all the whole coins it is owed.
LEMMA SettlementPaysOut ==
  ASSUME TypeOK, TypeOK', NEW l \in Launches, NEW o \in Owners, Settled(l, o)
  PROVE  Shares!Settle(l, o)
  BY SettlementParts DEF Shares!Settle, Shares!Members, Owners

\* Every step of the program is a step of every ledger.
LEMMA LedgerSimulation ==
  ASSUME LedgerInv, [Next]_vars, NEW l \in Launches
  PROVE  Shares!Step(l)
<1>1. TypeOK /\ TypeOK' /\ Ledger(l) /\ StepKind(l)
  BY NextType, StepKinds DEF LedgerInv
<1>2. CASE Untouched(l) \/ Given(l)
  <2>1. Weights(l)' = Weights(l) /\ Owed(l)' = Owed(l) /\ launch'[l] = launch[l]
    BY <1>2 DEF Untouched, Given, Weights, Owed
  <2>2. Shares!Rest(l)
    BY <2>1 DEF Shares!Rest
  <2> QED BY <2>2 DEF Shares!Step
<1>3. ASSUME NEW amount \in Nat, Credited(l, amount) PROVE Shares!Step(l)
  BY <1>1, <1>3, CreditIsShared DEF Shares!Step
<1>4. ASSUME NEW o \in Owners, Settled(l, o) PROVE Shares!Step(l)
  BY <1>1, <1>4, SettlementPaysOut DEF Shares!Step, Shares!Members, Owners
<1> QED BY <1>1, <1>2, <1>3, <1>4 DEF StepKind

\* The accumulator of apply_rewards, the debts that stake, increase_stake,
\* claim_rewards and unstake set, and the reserve implement the share ledger.
THEOREM StakingImplementsShareLedger == Spec => ImplementsShareLedger
<1>1. Init => Shares!Init
  <2> SUFFICES ASSUME Init PROVE Shares!Init
    OBVIOUS
  <2>1. ASSUME NEW l \in Launches
        PROVE  /\ Weights(l) = [o \in Owners |-> 0] /\ Owed(l) = [o \in Owners |-> 0]
               /\ launch[l].rewardReserve = 0
    <3>1. 0 * 0 - Precision * 0 = 0
      BY RewardMathAssumption
    <3> QED BY <3>1 DEF Init, EmptyLaunch, EmptyPosition, Weights, Owed
  <2> QED BY <2>1 DEF Shares!Init, Shares!Members, Owners
<1>2. LedgerInv /\ [Next]_vars => Shares!Next
  BY LedgerSimulation DEF Shares!Next
<1> QED BY <1>1, <1>2, LedgerCorrect, PTL DEF Spec, ImplementsShareLedger, Shares!Spec
=============================================================================
