------------------------------ MODULE RewardMath ------------------------------
(***************************************************************************)
(* The arithmetic of rewards.rs: lock multipliers, weights, the            *)
(* accumulator of rewards per unit of weight, the debt a position carries  *)
(* against it, and the split of a SOL creator fee.  Every division is the  *)
(* integer division of the program, so every rounding is the program's.    *)
(*                                                                         *)
(* A launch's ledger is a record of the LaunchConfig fields that change    *)
(* (state.rs), a position a record of StakePosition.  The checked_*        *)
(* operations appear as membership in U64 or U128: an overflow fails the   *)
(* transaction, which then changes nothing.                                *)
(***************************************************************************)
EXTENDS Integers

CONSTANTS
  Precision,    \* ACC_REWARD_PRECISION (10^18 in the program)
  DaySeconds,   \* DAY_SECONDS, the length of a day in clock units
  U64Max,       \* the largest u64
  U128Max       \* the largest u128

ASSUME RewardMathAssumption ==
  /\ Precision \in Nat \ {0}
  /\ DaySeconds \in Nat \ {0}
  /\ U64Max \in Nat
  /\ U128Max \in Nat
  /\ U64Max <= U128Max

U64  == 0..U64Max
U128 == 0..U128Max

BpsDenominator == 10000
ProtocolFeeBps == 2500
MainRewardBps  == 500

-----------------------------------------------------------------------------
(***************************************************************************)
(* Locks and weights.                                                      *)
(***************************************************************************)
LockDurations == {7, 30, 90, 180}

\* Any other duration is InvalidLockDuration.
LockMultiplierBps(lockDays) ==
  CASE lockDays = 7   -> 10000
    [] lockDays = 30  -> 12500
    [] lockDays = 90  -> 17500
    [] lockDays = 180 -> 25000

LockUnlockTs(now, lockDays) == now + lockDays * DaySeconds

LockExtensionAllowed(currentUnlockTs, nextUnlockTs) ==
  nextUnlockTs >= currentUnlockTs

WeightedAmount(amount, multiplierBps) ==
  (amount * multiplierBps) \div BpsDenominator

-----------------------------------------------------------------------------
(***************************************************************************)
(* The accumulator.                                                        *)
(***************************************************************************)
\* Mutant: the increment is rounded up.
RewardIncrementUp(amount, total) == (amount * Precision + total - 1) \div total

\* What each unit of weight gets of amount, in 1/Precision lamports.
RewardIncrement(amount, total) == (amount * Precision) \div total

\* The reward a weight has accrued since the accumulator was zero.
RewardDebt(weight, acc) == (weight * acc) \div Precision

\* Mutant: the accumulator forgets what it held.
ApplyRewardsOverwrites(lc, amount) ==
  [lc EXCEPT !.accRewardPerWeight = RewardIncrement(amount, lc.totalWeightedStake),
             !.rewardReserve = @ + amount]

\* apply_rewards fails without active stake, on a zero increment and on overflow ...
CanApplyRewards(lc, amount) ==
  /\ lc.totalWeightedStake > 0
  /\ amount * Precision \in U128
  /\ RewardIncrement(amount, lc.totalWeightedStake) > 0
  /\ lc.accRewardPerWeight + RewardIncrement(amount, lc.totalWeightedStake) \in U128
  /\ lc.rewardReserve + amount \in U64

\* ... and otherwise raises the accumulator and the reserve.
ApplyRewards(lc, amount) ==
  [lc EXCEPT !.accRewardPerWeight = @ + RewardIncrement(amount, lc.totalWeightedStake),
             !.rewardReserve = @ + amount]

PendingReward(pos, lc) ==
  RewardDebt(pos.weight, lc.accRewardPerWeight) - pos.rewardDebt

\* pending_reward's checked operations: weight * acc, accrued - debt, and the
\* conversion to u64.
PendingIsComputable(pos, lc) ==
  /\ pos.weight * lc.accRewardPerWeight \in U128
  /\ PendingReward(pos, lc) \in U64

-----------------------------------------------------------------------------
(***************************************************************************)
(* The split of a SOL creator fee.                                         *)
(***************************************************************************)
ProtocolFeeAmount(amount) == (amount * ProtocolFeeBps) \div BpsDenominator

\* reward_split_amounts: the protocol fee first, the main launch's share of
\* the rest, and what remains for the launch; both shares round down.
RewardSplitAmounts(amount) ==
  LET protocolFee  == ProtocolFeeAmount(amount)
      postProtocol == amount - protocolFee
      mainReward   == (postProtocol * MainRewardBps) \div BpsDenominator
  IN  [protocolFee |-> protocolFee,
       mainReward  |-> mainReward,
       reward      |-> postProtocol - mainReward]
=============================================================================
