------------------------------- MODULE MCHistory -------------------------------
(***************************************************************************)
(* Instances of StakingHistory for TLC.                                    *)
(***************************************************************************)
EXTENDS StakingHistory, StakingRefinement

CONSTANT mainMint

OneLaunch == {mainMint}
=============================================================================
