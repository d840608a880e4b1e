---------------------------- MODULE StakingLiveness ----------------------------
(***************************************************************************)
(* What must eventually happen.  A transaction that stays valid and keeps  *)
(* being submitted is eventually executed by the chain: that is the weak   *)
(* fairness used here.  Time passes.  The fee claims are open to anyone,   *)
(* and the stakers they pay have a reason to submit them.  An owner may    *)
(* stay for ever: that an owner keeps submitting unstake is a premise of   *)
(* the property about exits, not of the specification.                     *)
(***************************************************************************)
EXTENDS StakingProperties

TimePasses == WF_vars(Tick)

ClaimPumpFees(l) == ClaimPumpCreatorFees(l) \/ ClaimPumpSharedCreatorFees(l)

\* Whoever claims PumpSwap fees opens fee_owner's WSOL account first when there
\* is none, so what is fair is the next step of that claimant.
OpenWsolAtaFor(l, r) ==
  /\ Proceeds(l, "amm", r) > 0
  /\ OpenWsolAta(l)
  /\ UNCHANGED <<now, live, ledgerVars, protocolVault, tokenVars>>

ClaimDirectWsol(l) == OpenWsolAtaFor(l, "direct") \/ ClaimPumpSwapCreatorFees(l)

ClaimSharedWsol(l) == OpenWsolAtaFor(l, "shared") \/ ClaimPumpSwapSharedCreatorFees(l)

FeesAreClaimed ==
  \A l \in Launches :
    /\ WF_vars(ClaimPumpFees(l))
    /\ WF_vars(ClaimDirectWsol(l))
    /\ WF_vars(ClaimSharedWsol(l))

ExitSpec  == Spec /\ TimePasses
ClaimSpec == Spec /\ FeesAreClaimed

-----------------------------------------------------------------------------
\* unstake's checks of the reward, which have to pass before the principal moves.
RewardIsPayable(l, o) ==
  /\ PendingIsComputable(position[l][o], launch[l])
  /\ CanPayRewards(l, PendingReward(position[l][o], launch[l]))

\* The clock of the run stops before the lock ends.
LockedPastTheEnd(l, o) == \A t \in Times : t < position[l][o].unlockTs

\* A claim of the creator vault of this venue and route would bring something.
FeesWait(l, v, r) == Proceeds(l, v, r) > 0

\* The claims that serve the vault: those of a route need the bonding curve to
\* name its creator, but the direct PumpSwap claim does not read the curve.
Served(l, v, r) == creator[l] = r \/ (v = "amm" /\ r = "direct")

\* What that claim would distribute, once fee_owner's WSOL account is open.
Distributed(l, v, r) ==
  IF v = "pump" THEN SweptLamports(l, r)
  ELSE Larger(wsolAta[l], AtaRent) + Proceeds(l, v, r)

\* Its main share is more than nothing and the main launch would refuse it.
MainShareRefused(l, v, r) ==
  /\ l # MainLaunch
  /\ RewardSplitAmounts(Distributed(l, v, r)).mainReward > 0
  /\ ~ HasActiveStake(MainLaunch)

-----------------------------------------------------------------------------
\* An owner who keeps submitting unstake gets the position closed, unless its
\* lock is extended past the end of the run or its reward is, again and again,
\* more than the reserve holds: no step of another owner, no fee claim and no
\* state of the vaults can hold the principal otherwise.
ExitsUnlessShort ==
  \A l \in Launches, o \in Owners :
    WF_vars(Unstake(l, o)) =>
      [](HasPosition(l, o) =>
           \/ <>(~ HasPosition(l, o))
           \/ <>LockedPastTheEnd(l, o)
           \/ []<>(~ RewardIsPayable(l, o)))

\* Fees waiting in any of the four creator vaults are claimed as long as the
\* launch has active stake, unless the main launch has, again and again, no
\* stake to take its share, or the vault is left without a claim that serves it
\* for good: a coin that moves to a sharing config leaves what is in Pump.fun's
\* direct vault behind (claim_pump_creator_fees verifies the bonding curve), but
\* not what is in PumpSwap's.
FeesReachStakers ==
  \A l \in Launches, v \in Venues, r \in Routes :
    [](FeesWait(l, v, r) =>
         \/ <>(~ FeesWait(l, v, r))
         \/ <>[](~ Served(l, v, r))
         \/ []<>(~ HasActiveStake(l))
         \/ []<>MainShareRefused(l, v, r))
=============================================================================
