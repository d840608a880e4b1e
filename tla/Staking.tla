------------------------------- MODULE Staking -------------------------------
(***************************************************************************)
(* The SOL side of the staking program: launches, stake positions, the     *)
(* reward ledger of each launch, and the claims that feed it from creator  *)
(* fees.  A transaction is atomic and holds its accounts exclusively, so   *)
(* each instruction is one action; an error reverts the transaction, so an *)
(* error path is a state in which the action is disabled.  The actions of  *)
(* different signers, the clock and the outside world interleave freely.   *)
(*                                                                         *)
(* An account that does not exist is a record of zeros: a position exists  *)
(* iff its amount is positive, a launch iff it is in live.                 *)
(***************************************************************************)
EXTENDS RewardMath, CreatorVaults, BoundedSum

CONSTANTS
  MainLaunch,     \* the launch of STAKE_MAIN_MINT_ID
  NumOwners,      \* owners of positions are 1..NumOwners
  InitialTokens,  \* staking tokens in each owner's token account
  LockChoices,    \* the lock durations owners ask for
  Times,          \* the clock values a run visits
  MaxEntries,     \* bound on stake and increase_stake per launch
  GiftAccounts    \* the accounts a run lets outsiders transfer to

Owners == 1..NumOwners

OpenAccounts == {"stakingVault", "launch", "protocolVault"}

ASSUME StakingAssumption ==
  /\ MainLaunch \in Launches
  /\ NumOwners \in Nat
  /\ InitialTokens \in Nat
  /\ LockChoices \subseteq LockDurations
  /\ Times \subseteq Nat
  /\ MaxEntries \in Nat
  /\ GiftAccounts \subseteq OpenAccounts

VARIABLES
  now,            \* Clock::unix_timestamp
  live,           \* launches initialize_launch has created
  launch,         \* the LaunchConfig of each launch
  position,       \* the StakePosition of each launch and owner
  lamports,       \* lamports of each launch account above its rent
  protocolVault,  \* lamports of each protocol_fee_vault PDA
  wallet,         \* staking tokens of each owner
  stakingVault,   \* staking tokens in each launch's vault
  entries         \* number of stake and increase_stake per launch so far

ledgerVars == <<launch, position, lamports, entries>>
tokenVars  == <<wallet, stakingVault>>
vars == <<now, live, ledgerVars, protocolVault, tokenVars, creatorVars>>

EmptyLaunch   == [totalWeightedStake |-> 0, accRewardPerWeight |-> 0, rewardReserve |-> 0]
EmptyPosition == [amount |-> 0, weight |-> 0, unlockTs |-> 0, rewardDebt |-> 0]

LaunchConfig  == [totalWeightedStake : U128, accRewardPerWeight : U128, rewardReserve : U64]
StakePosition == [amount : U64, weight : U128, unlockTs : Nat, rewardDebt : U128]

HasPosition(l, o) == position[l][o].amount > 0

\* Every field of every account keeps the width the code gives it.
TypeOK ==
  /\ now \in Nat
  /\ live \subseteq Launches
  /\ launch \in [Launches -> LaunchConfig]
  /\ position \in [Launches -> [Owners -> StakePosition]]
  /\ lamports \in [Launches -> Nat]
  /\ protocolVault \in [Launches -> Nat]
  /\ wallet \in [Launches -> [Owners -> Nat]]
  /\ stakingVault \in [Launches -> Nat]
  /\ entries \in [Launches -> 0..MaxEntries]
  /\ CreatorVaultsTypeOK

Init ==
  /\ now = 0
  /\ live = {}
  /\ launch = [l \in Launches |-> EmptyLaunch]
  /\ position = [l \in Launches |-> [o \in Owners |-> EmptyPosition]]
  /\ lamports = [l \in Launches |-> 0]
  /\ protocolVault = [l \in Launches |-> 0]
  /\ wallet = [l \in Launches |-> [o \in Owners |-> InitialTokens]]
  /\ stakingVault = [l \in Launches |-> 0]
  /\ entries = [l \in Launches |-> 0]
  /\ CreatorVaultsInit

-----------------------------------------------------------------------------
(***************************************************************************)
(* Pieces of the handlers.                                                 *)
(***************************************************************************)
\* Mutant: the vault receives the amount less a fee of the token program.
DepositTokensLessFee(l, o, amount) ==
  /\ wallet[l][o] >= amount
  /\ wallet' = [wallet EXCEPT ![l][o] = @ - amount]
  /\ stakingVault' = [stakingVault EXCEPT ![l] = @ + amount - 1]

\* transfer_spl_tokens between an owner's account and the staking vault; the
\* token program refuses an overdraft.
DepositTokens(l, o, amount) ==
  /\ wallet[l][o] >= amount
  /\ wallet' = [wallet EXCEPT ![l][o] = @ - amount]
  /\ stakingVault' = [stakingVault EXCEPT ![l] = @ + amount]

\* Mutant: one token leaves, whatever the position holds.
WithdrawOneToken(l, o, amount) ==
  /\ stakingVault[l] >= amount
  /\ wallet' = [wallet EXCEPT ![l][o] = @ + 1]
  /\ stakingVault' = [stakingVault EXCEPT ![l] = @ - 1]

WithdrawTokens(l, o, amount) ==
  /\ stakingVault[l] >= amount
  /\ wallet' = [wallet EXCEPT ![l][o] = @ + amount]
  /\ stakingVault' = [stakingVault EXCEPT ![l] = @ - amount]

\* Mutant: the reserve is not compared with the payment.
CanPayFromLamports(l, amount) == lamports[l] + amount >= 0

\* pay_rewards needs the reserve to cover the payment and the launch account to
\* hold it; a payment of zero, which the code skips, needs nothing.
CanPayRewards(l, amount) ==
  /\ launch[l].rewardReserve >= amount
  /\ lamports[l] >= amount

PayRewards(l, amount) == lamports' = [lamports EXCEPT ![l] = @ - amount]

\* Mutant: the payment is not booked.
AfterPaymentUnbooked(lc, amount) == lc

AfterPayment(lc, amount) == [lc EXCEPT !.rewardReserve = @ - amount]

\* Mutant: the debt starts at zero.
NewPositionWithoutDebt(lc, amount, lockDays) ==
  [amount     |-> amount,
   weight     |-> WeightedAmount(amount, LockMultiplierBps(lockDays)),
   unlockTs   |-> LockUnlockTs(now, lockDays),
   rewardDebt |-> 0]

\* Mutant: the debt is rounded up.
NewPositionDebtUp(lc, amount, lockDays) ==
  LET weight == WeightedAmount(amount, LockMultiplierBps(lockDays))
  IN  [amount     |-> amount,
       weight     |-> weight,
       unlockTs   |-> LockUnlockTs(now, lockDays),
       rewardDebt |-> RewardDebt(weight, lc.accRewardPerWeight) + 1]

\* Mutant: the multiplier is not applied.
NewPositionUnweighted(lc, amount, lockDays) ==
  [amount     |-> amount,
   weight     |-> amount,
   unlockTs   |-> LockUnlockTs(now, lockDays),
   rewardDebt |-> RewardDebt(amount, lc.accRewardPerWeight)]

NewPosition(lc, amount, lockDays) ==
  LET weight == WeightedAmount(amount, LockMultiplierBps(lockDays))
  IN  [amount     |-> amount,
       weight     |-> weight,
       unlockTs   |-> LockUnlockTs(now, lockDays),
       rewardDebt |-> RewardDebt(weight, lc.accRewardPerWeight)]

\* The checked operations on a position's new fields.
FieldsFit(lc, pos) ==
  /\ pos.amount \in U64
  /\ pos.weight \in U128
  /\ pos.weight * lc.accRewardPerWeight \in U128

\* Mutant: the weight that leaves stays in the total.
WeightKept(lc, pos) == lc.totalWeightedStake

WeightWithout(lc, pos) == lc.totalWeightedStake - pos.weight

\* Mutant: the lock is not looked at.
AlwaysUnlocked(pos) == now >= 0

\* Mutant: the last second of the lock is counted twice.
UnlockedLater(pos) == now > pos.unlockTs

IsUnlocked(pos) == now >= pos.unlockTs

CountEntry(l) ==
  /\ entries[l] < MaxEntries
  /\ entries' = [entries EXCEPT ![l] = @ + 1]

-----------------------------------------------------------------------------
(***************************************************************************)
(* instructions/staking.rs.                                                *)
(***************************************************************************)
\* require_pump_creator_route accepts a creator on one of the two routes.
InitializeLaunch(l) ==
  /\ l \notin live
  /\ creator[l] \in Routes
  /\ live' = live \union {l}
  /\ launch' = [launch EXCEPT ![l] = EmptyLaunch]
  /\ UNCHANGED <<now, position, lamports, entries, protocolVault, tokenVars, creatorVars>>

\* With no stake in the launch the creator vaults are not looked at.
Stake(l, o, amount, lockDays) ==
  LET pos   == NewPosition(launch[l], amount, lockDays)
      total == launch[l].totalWeightedStake + pos.weight
  IN  /\ l \in live
      /\ CountEntry(l)
      /\ amount > 0
      /\ ~ HasPosition(l, o)
      /\ launch[l].totalWeightedStake > 0 => CreatorVaultsAreClean(l)
      /\ FieldsFit(launch[l], pos)
      /\ total \in U128
      /\ DepositTokens(l, o, amount)
      /\ position' = [position EXCEPT ![l][o] = pos]
      /\ launch' = [launch EXCEPT ![l].totalWeightedStake = total]
      /\ UNCHANGED <<now, live, lamports, protocolVault, creatorVars>>

\* The whole position is reweighted with the requested duration.
IncreaseStake(l, o, amount, lockDays) ==
  LET old     == position[l][o]
      pending == PendingReward(old, launch[l])
      pos     == NewPosition(launch[l], old.amount + amount, lockDays)
      rest    == WeightWithout(launch[l], old)
  IN  /\ HasPosition(l, o)
      /\ CountEntry(l)
      /\ amount > 0
      /\ CreatorVaultsAreClean(l)
      /\ PendingIsComputable(old, launch[l])
      /\ LockExtensionAllowed(old.unlockTs, pos.unlockTs)
      /\ CanPayRewards(l, pending)
      /\ FieldsFit(launch[l], pos)
      /\ rest \in U128
      /\ rest + pos.weight \in U128
      /\ DepositTokens(l, o, amount)
      /\ PayRewards(l, pending)
      /\ position' = [position EXCEPT ![l][o] = pos]
      /\ launch' = [launch EXCEPT ![l] =
                      [AfterPayment(@, pending) EXCEPT !.totalWeightedStake = rest + pos.weight]]
      /\ UNCHANGED <<now, live, protocolVault, creatorVars>>

\* Rewards, weight and principal leave together and the position is closed.
Unstake(l, o) ==
  LET old     == position[l][o]
      pending == PendingReward(old, launch[l])
      rest    == WeightWithout(launch[l], old)
  IN  /\ HasPosition(l, o)
      /\ IsUnlocked(old)
      /\ PendingIsComputable(old, launch[l])
      /\ CanPayRewards(l, pending)
      /\ rest \in U128
      /\ WithdrawTokens(l, o, old.amount)
      /\ PayRewards(l, pending)
      /\ position' = [position EXCEPT ![l][o] = EmptyPosition]
      /\ launch' = [launch EXCEPT ![l] =
                      [AfterPayment(@, pending) EXCEPT !.totalWeightedStake = rest]]
      /\ UNCHANGED <<now, live, entries, protocolVault, creatorVars>>

-----------------------------------------------------------------------------
(***************************************************************************)
(* instructions/rewards.rs, the SOL path of claim_rewards.                 *)
(***************************************************************************)
\* Mutant: the debt is not moved up to the accumulator.
ClaimRewardsKeepsDebt(l, o) ==
  LET pending == PendingReward(position[l][o], launch[l])
  IN  /\ HasPosition(l, o)
      /\ PendingIsComputable(position[l][o], launch[l])
      /\ pending > 0 /\ CanPayRewards(l, pending) /\ PayRewards(l, pending)
      /\ launch' = [launch EXCEPT ![l] = AfterPayment(@, pending)]
      /\ UNCHANGED <<now, live, position, entries, protocolVault, tokenVars, creatorVars>>

ClaimRewards(l, o) ==
  LET pos     == position[l][o]
      pending == PendingReward(pos, launch[l])
  IN  /\ HasPosition(l, o)
      /\ PendingIsComputable(pos, launch[l])
      /\ pending > 0
      /\ CanPayRewards(l, pending)
      /\ PayRewards(l, pending)
      /\ position' = [position EXCEPT ![l][o].rewardDebt =
                        RewardDebt(pos.weight, launch[l].accRewardPerWeight)]
      /\ launch' = [launch EXCEPT ![l] = AfterPayment(@, pending)]
      /\ UNCHANGED <<now, live, entries, protocolVault, tokenVars, creatorVars>>

-----------------------------------------------------------------------------
(***************************************************************************)
(* apply_rewards_with_protocol_fee_and_main_reward: amount lamports have   *)
(* reached the launch account and are split.                               *)
(***************************************************************************)
\* Mutant: the protocol vault is not topped up to its rent.
FundProtocolVaultBelowRent(l, fee) ==
  protocolVault' = [protocolVault EXCEPT ![l] = @ + fee]

\* Mutant: the vault of the main launch takes the fee.
FundMainProtocolVault(l, fee) ==
  protocolVault' = [protocolVault EXCEPT ![MainLaunch] =
                      IF fee > 0 THEN Larger(@, RentFloor) + fee ELSE @]

\* ensure_protocol_fee_vault lets the payer top the vault up to its rent.  (The
\* runtime leaves no balance between zero and the rent for it to find.)
FundProtocolVault(l, fee) ==
  protocolVault' = [protocolVault EXCEPT ![l] =
                      IF fee > 0 THEN Larger(@, RentFloor) + fee ELSE @]

\* The main launch keeps its own main share.
DistributeToMain(amount) ==
  LET split  == RewardSplitAmounts(amount)
      reward == split.reward + split.mainReward
  IN  /\ amount * ProtocolFeeBps \in U64
      /\ reward > 0 => CanApplyRewards(launch[MainLaunch], reward)
      /\ FundProtocolVault(MainLaunch, split.protocolFee)
      /\ launch' = [launch EXCEPT ![MainLaunch] = ApplyRewards(@, reward)]
      /\ lamports' = [lamports EXCEPT ![MainLaunch] = @ + (amount - split.protocolFee)]

\* Mutant: the main share is booked in the main launch, its lamports stay.
KeepMainLamports(l, kept, main) == lamports' = [lamports EXCEPT ![l] = @ + kept]

\* kept is what the protocol vault left of the amount.
MoveMainLamports(l, kept, main) ==
  lamports' = [lamports EXCEPT ![l] = @ + (kept - main), ![MainLaunch] = @ + main]

\* Any other launch moves the main share to the main launch, whose apply_rewards
\* must succeed too.
DistributeToOther(l, amount) ==
  LET split == RewardSplitAmounts(amount)
      main  == split.mainReward
  IN  /\ amount * ProtocolFeeBps \in U64
      /\ split.reward > 0 => CanApplyRewards(launch[l], split.reward)
      /\ main > 0 => MainLaunch \in live /\ CanApplyRewards(launch[MainLaunch], main)
      /\ FundProtocolVault(l, split.protocolFee)
      /\ launch' = [launch EXCEPT ![l] = IF split.reward > 0
                                         THEN ApplyRewards(@, split.reward) ELSE @,
                                  ![MainLaunch] = IF main > 0
                                                  THEN ApplyRewards(@, main) ELSE @]
      /\ MoveMainLamports(l, amount - split.protocolFee, main)

DistributeFees(l, amount) ==
  /\ \/ l = MainLaunch /\ DistributeToMain(amount)
     \/ l # MainLaunch /\ DistributeToOther(l, amount)
  /\ UNCHANGED <<now, live, position, entries, tokenVars>>

-----------------------------------------------------------------------------
(***************************************************************************)
(* instructions/fees.rs, the four SOL claims.  Anyone may call them.       *)
(***************************************************************************)
HasActiveStake(l) == l \in live /\ launch[l].totalWeightedStake > 0

ClaimPumpCreatorFees(l) ==
  /\ HasActiveStake(l)
  /\ creator[l] = "direct"
  /\ SweptLamports(l, "direct") > 0
  /\ DistributeFees(l, SweptLamports(l, "direct"))
  /\ SweepFeeOwner(l, "direct")

ClaimPumpSharedCreatorFees(l) ==
  /\ HasActiveStake(l)
  /\ creator[l] = "shared"
  /\ SweptLamports(l, "shared") > 0
  /\ DistributeFees(l, SweptLamports(l, "shared"))
  /\ SweepFeeOwner(l, "shared")

\* Mutant: the direct PumpSwap claim verifies the bonding curve, too.
ClaimPumpSwapCreatorFeesVerified(l) ==
  /\ HasActiveStake(l)
  /\ creator[l] = "direct"
  /\ wsolAta[l] > 0
  /\ CollectedWsol(l, "direct") > 0
  /\ DistributeFees(l, UnwrappedLamports(l, "direct"))
  /\ UnwrapWsol(l, "direct")

\* The direct PumpSwap claim does not read the bonding curve.
ClaimPumpSwapCreatorFees(l) ==
  /\ HasActiveStake(l)
  /\ wsolAta[l] > 0
  /\ CollectedWsol(l, "direct") > 0
  /\ DistributeFees(l, UnwrappedLamports(l, "direct"))
  /\ UnwrapWsol(l, "direct")

ClaimPumpSwapSharedCreatorFees(l) ==
  /\ HasActiveStake(l)
  /\ creator[l] = "shared"
  /\ wsolAta[l] > 0
  /\ CollectedWsol(l, "shared") > 0
  /\ DistributeFees(l, UnwrappedLamports(l, "shared"))
  /\ UnwrapWsol(l, "shared")

-----------------------------------------------------------------------------
(***************************************************************************)
(* instructions/protocol.rs: the upgrade authority takes what exceeds the  *)
(* vault's rent.                                                           *)
(***************************************************************************)
ClaimProtocolFees(l) ==
  /\ l \in live
  /\ protocolVault[l] > RentFloor
  /\ protocolVault' = [protocolVault EXCEPT ![l] = RentFloor]
  /\ UNCHANGED <<now, live, ledgerVars, tokenVars, creatorVars>>

-----------------------------------------------------------------------------
Tick ==
  /\ \E t \in Times : t > now /\ now' = t
  /\ UNCHANGED <<live, ledgerVars, protocolVault, tokenVars, creatorVars>>

Outside ==
  /\ World
  /\ UNCHANGED <<now, live, ledgerVars, protocolVault, tokenVars>>

\* Anyone may transfer tokens to a staking vault, which has to exist before its
\* launch, and lamports to the accounts of the program; the runtime keeps a
\* protocol vault that holds anything rent exempt.
Receives(l, account, amount) ==
  \/ /\ account = "stakingVault"
     /\ stakingVault' = [stakingVault EXCEPT ![l] = @ + amount]
     /\ UNCHANGED <<lamports, protocolVault>>
  \/ /\ account = "launch"
     /\ l \in live
     /\ lamports' = [lamports EXCEPT ![l] = @ + amount]
     /\ UNCHANGED <<stakingVault, protocolVault>>
  \/ /\ account = "protocolVault"
     /\ protocolVault[l] + amount >= RentFloor
     /\ protocolVault' = [protocolVault EXCEPT ![l] = @ + amount]
     /\ UNCHANGED <<stakingVault, lamports>>

Gift ==
  /\ arrivals < MaxArrivals
  /\ arrivals' = arrivals + 1
  /\ \E l \in Launches, account \in GiftAccounts, amount \in FeeAmounts :
        Receives(l, account, amount)
  /\ UNCHANGED <<now, live, launch, position, entries, wallet,
                 creator, creatorVault, feeOwner, wsolAta>>

OwnerStep(l, o) ==
  \/ \E amount \in 1..wallet[l][o], lockDays \in LockChoices :
        Stake(l, o, amount, lockDays) \/ IncreaseStake(l, o, amount, lockDays)
  \/ Unstake(l, o)
  \/ ClaimRewards(l, o)

FeeStep(l) ==
  \/ ClaimPumpCreatorFees(l)
  \/ ClaimPumpSharedCreatorFees(l)
  \/ ClaimPumpSwapCreatorFees(l)
  \/ ClaimPumpSwapSharedCreatorFees(l)
  \/ ClaimProtocolFees(l)

Next ==
  \/ \E l \in Launches :
        \/ InitializeLaunch(l)
        \/ \E o \in Owners : OwnerStep(l, o)
        \/ FeeStep(l)
  \/ Tick
  \/ Outside
  \/ Gift

Spec == Init /\ [][Next]_vars
=============================================================================
