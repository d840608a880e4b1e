---------------------------- MODULE MCQuoteHistory ----------------------------
(***************************************************************************)
(* Instances of QuoteHistory for TLC: one launch, one quote mint.          *)
(***************************************************************************)
EXTENDS QuoteHistory

CONSTANTS mainMint, usdc

OneLaunch == {mainMint}
OneQuote  == {usdc}
=============================================================================
