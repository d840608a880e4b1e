-------------------------------- MODULE MCQuote --------------------------------
(***************************************************************************)
(* Instances of QuoteRewards for TLC: one launch, one quote mint.          *)
(***************************************************************************)
EXTENDS QuoteRefinement

CONSTANTS mainMint, usdc

OneLaunch == {mainMint}
OneQuote  == {usdc}
=============================================================================
