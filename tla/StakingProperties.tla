-------------------------- MODULE StakingProperties --------------------------
(***************************************************************************)
(* What makes the SOL side of the program correct: what its books must say *)
(* of the accounts they summarise, and what no step may do.                *)
(***************************************************************************)
EXTENDS Staking

Weights(l)  == [o \in Owners |-> position[l][o].weight]
Amounts(l)  == [o \in Owners |-> position[l][o].amount]
Pendings(l) == [o \in Owners |-> PendingReward(position[l][o], launch[l])]

\* What a position has accrued and not been paid, before rounding, in
\* 1/Precision lamports.
Owed(l) ==
  [o \in Owners |-> position[l][o].weight * launch[l].accRewardPerWeight
                      - Precision * position[l][o].rewardDebt]

-----------------------------------------------------------------------------
(***************************************************************************)
(* Invariants.                                                             *)
(***************************************************************************)
\* total_weighted_stake, which every reward is divided by, is the sum of the
\* weights of the open positions (stake, increase_stake and unstake each
\* adjust it on their own).
WeightsAddUp ==
  \A l \in Launches : launch[l].totalWeightedStake = SumTo(Weights(l), NumOwners)

\* The staking vault, which anyone may add to, holds at least the principal of
\* the open positions, so no unstake can be refused for lack of tokens.
PrincipalBacked ==
  \A l \in Launches : stakingVault[l] >= SumTo(Amounts(l), NumOwners)

\* The lamports of a launch account above its rent, which anyone may add to,
\* cover its reward_reserve: a claim books no more than what is left of the
\* lamports it sweeps in after the protocol fee and the main share have been
\* moved on, in two ledgers, and whatever leaves is booked.
ReserveBacked ==
  \A l \in Launches : lamports[l] >= launch[l].rewardReserve

\* pending_reward's checked_sub never fails: no position's debt is ahead of
\* what its weight has accrued.
DebtCovered ==
  \A l \in Launches, o \in Owners : PendingReward(position[l][o], launch[l]) >= 0

\* The exact accruals never exceed the reserve by more than (Precision-1)/Precision
\* of a lamport per entry: apply_rewards rounds against the positions, a debt
\* set on entry rounds against the reserve, and nothing else creates value.
OwedBounded ==
  \A l \in Launches :
    SumTo(Owed(l), NumOwners)
      <= Precision * launch[l].rewardReserve + (Precision - 1) * entries[l]

\* The payable rewards exceed the reserve by at most one lamport per entry.
ShortfallBounded ==
  \A l \in Launches :
    SumTo(Pendings(l), NumOwners) <= launch[l].rewardReserve + entries[l]

\* ensure_protocol_fee_vault and claim_protocol_fees keep the vault either
\* absent or rent exempt.
ProtocolVaultRentExempt ==
  \A l \in Launches : protocolVault[l] = 0 \/ protocolVault[l] >= RentFloor

\* Every token of an owner is in the owner's account or in the owner's position:
\* though all positions of a launch share one vault, no sequence of entries,
\* increases and exits gives an owner a token of another, or costs one.
OwnersWhole ==
  \A l \in Launches, o \in Owners : wallet[l][o] + position[l][o].amount = InitialTokens

\* An open position weighs what all of its principal weighs under one lock, the
\* one that ends at unlock_ts and was taken no later than now: no order of
\* increases keeps the multiplier of a lock that is not served, or weighs the
\* parts of a principal by different locks.
WeightMatchesLock ==
  \A l \in Launches, o \in Owners : HasPosition(l, o) =>
    \E lockDays \in LockDurations :
      /\ position[l][o].weight
           = WeightedAmount(position[l][o].amount, LockMultiplierBps(lockDays))
      /\ LockUnlockTs(0, lockDays) <= position[l][o].unlockTs
      /\ position[l][o].unlockTs <= LockUnlockTs(now, lockDays)

-----------------------------------------------------------------------------
(***************************************************************************)
(* Action properties.                                                      *)
(***************************************************************************)
Paid(l) == launch[l].rewardReserve - launch'[l].rewardReserve

\* An open position is left alone, grows under a lock that ends no earlier, or
\* is closed once its lock has ended, with all of its principal returned to its
\* owner's token account.
LockHonouredStep ==
  \A l \in Launches, o \in Owners : HasPosition(l, o) =>
    \/ /\ position'[l][o].amount >= position[l][o].amount
       /\ position'[l][o].unlockTs >= position[l][o].unlockTs
    \/ /\ position'[l][o] = EmptyPosition
       /\ now >= position[l][o].unlockTs
       /\ wallet'[l][o] = wallet[l][o] + position[l][o].amount

LockHonoured == [][LockHonouredStep]_vars

\* Whenever a position changes (entry, increase, claim, exit), exactly what was
\* pending on it leaves the reserve and the launch account: reweighting or
\* closing a position neither forfeits nor repeats a reward, and a first entry is
\* paid nothing.
SettledInFullStep ==
  \A l \in Launches, o \in Owners :
    position'[l][o] # position[l][o] =>
      /\ Paid(l) = PendingReward(position[l][o], launch[l])
      /\ Paid(l) = lamports[l] - lamports'[l]

SettledInFull == [][SettledInFullStep]_vars

\* A step that does not touch a position never lowers what is pending on it:
\* no one else's stake, exit or claim dilutes rewards already accrued.
NeverDilutedStep ==
  \A l \in Launches, o \in Owners :
    position'[l][o] = position[l][o] =>
      PendingReward(position[l][o], launch'[l]) >= PendingReward(position[l][o], launch[l])

NeverDiluted == [][NeverDilutedStep]_vars

\* What claims of SOL fees can draw from the accounts of a launch, rent included
\* that they release (the WSOL account's) and without rent they leave (fee_owner's).
Drawable(l) ==
  Proceeds(l, "pump", "direct") + Proceeds(l, "pump", "shared")
    + Proceeds(l, "amm", "direct") + Proceeds(l, "amm", "shared")
    + (Larger(feeOwner[l], RentFloor) - RentFloor) + wsolAta[l]

Received(vault) == Larger(vault', RentFloor) - Larger(vault, RentFloor)

\* A claim of SOL fees divides exactly what it draws, no lamport of the payer's
\* top-ups and none less than the closed WSOL account releases, between the
\* protocol vault, the launch's reserve and the main launch's, a quarter and 19
\* to 1 of the rest up to rounding, and each launch account receives what its
\* ledger books.
FeeSharesStep ==
  \A l \in Launches : Drawable(l)' < Drawable(l) =>
    LET own  == launch'[l].rewardReserve - launch[l].rewardReserve
        main == launch'[MainLaunch].rewardReserve - launch[MainLaunch].rewardReserve
        rest == IF l = MainLaunch THEN own ELSE own + main
        fee  == Received(protocolVault[l])
    IN  /\ rest + fee = Drawable(l) - Drawable(l)'
        /\ 3 * fee <= rest /\ rest < 3 * fee + 4
        /\ l # MainLaunch => 19 * main <= own /\ own < 19 * main + 20
        /\ lamports'[l] - lamports[l] = own
        /\ lamports'[MainLaunch] - lamports[MainLaunch] = main

FeeShares == [][FeeSharesStep]_vars

\* Weight joins the launch: a position is opened or grows.
Joins(l) == \E o \in Owners : position'[l][o].amount > position[l][o].amount

\* While a launch's bonding curve names fee_owner, weight joins a launch with
\* active stake only when both of its direct creator vaults are empty.
DirectEntryIsCleanStep ==
  \A l \in Launches :
    (/\ Joins(l)
     /\ launch[l].totalWeightedStake > 0
     /\ creator[l] = "direct")
       => \A v \in Venues : creatorVault[l][v]["direct"] = 0

DirectEntryIsClean == [][DirectEntryIsCleanStep]_vars

\* The accounts of a launch other than its ledger, and all of its accounts.
Accounts(l) ==
  <<position[l], protocolVault[l], wallet[l], stakingVault[l],
    creatorVault[l], feeOwner[l], wsolAta[l]>>

Books(l) == <<launch[l], lamports[l], Accounts(l)>>

\* A transaction touches the accounts of one launch.  The exception is a claim of
\* SOL creator fees, which credits the main launch as well, and then nothing but
\* the two ledgers grows: no claim reaches the positions of either launch, the
\* main launch's vaults or any third launch.
LaunchesIsolatedStep ==
  \A l \in Launches : \A m \in Launches \ {l} :
    Books(l)' # Books(l) /\ Books(m)' # Books(m) =>
      /\ MainLaunch \in {l, m}
      /\ Accounts(MainLaunch)' = Accounts(MainLaunch)
      /\ \A x \in {l, m} :
           /\ position'[x] = position[x]
           /\ launch'[x].rewardReserve > launch[x].rewardReserve

LaunchesIsolated == [][LaunchesIsolatedStep]_vars

-----------------------------------------------------------------------------
(***************************************************************************)
(* What the repository's documents say and the code does not keep.         *)
(***************************************************************************)
\* "Withdraws staked tokens after unlock and pays pending SOL rewards": once a
\* lock has ended, the reserve covers what unstake would pay.
UnlockedIsPayable ==
  \A l \in Launches, o \in Owners :
    HasPosition(l, o) /\ IsUnlocked(position[l][o]) =>
      PendingReward(position[l][o], launch[l]) <= launch[l].rewardReserve

\* The same line again: once a lock has ended, unstake's checked arithmetic on
\* the reward does not fail, so that the tokens can be withdrawn.
UnlockedIsComputable ==
  \A l \in Launches, o \in Owners :
    HasPosition(l, o) /\ IsUnlocked(position[l][o]) =>
      PendingIsComputable(position[l][o], launch[l])

\* "If creator fees are already waiting, they must be claimed before new stake
\* weight can join the pool": when weight joins a launch with active stake,
\* nothing waits in the vaults of the creator its bonding curve names.
NoFeesWaitOnEntryStep ==
  \A l \in Launches :
    (/\ Joins(l)
     /\ launch[l].totalWeightedStake > 0
     /\ creator[l] \in Routes)
       => \A v \in Venues : creatorVault[l][v][creator[l]] = 0

NoFeesWaitOnEntry == [][NoFeesWaitOnEntryStep]_vars
=============================================================================
