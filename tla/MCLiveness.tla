------------------------------- MODULE MCLiveness -------------------------------
(***************************************************************************)
(* Instances of StakingLiveness for TLC: the main launch, alone or with    *)
(* another one.                                                            *)
(***************************************************************************)
EXTENDS StakingLiveness

CONSTANTS mainMint, coinMint

OneLaunch   == {mainMint}
TwoLaunches == {mainMint, coinMint}
=============================================================================
