------------------------------- MODULE MCStaking -------------------------------
(***************************************************************************)
(* Instances of Staking for TLC.  Launches are model values, owners are    *)
(* numbers because the invariants sum over them.                           *)
(***************************************************************************)
EXTENDS StakingRefinement

CONSTANTS mainMint, coinMint

OneLaunch   == {mainMint}
TwoLaunches == {mainMint, coinMint}
=============================================================================
