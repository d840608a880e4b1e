-------------------------- MODULE ShareholderAccounts --------------------------
(***************************************************************************)
(* How a shared claim reads the coin's sharing config and lines up the     *)
(* accounts of its shareholders for Pump.fun's distribute_creator_fees_v2: *)
(* require_pump_sharing_config (guards.rs), main_reward_remaining_accounts *)
(* (rewards.rs) and append_shareholder_accounts (fees.rs), one step per    *)
(* turn of their loops.  The instruction is atomic, so nothing interferes; *)
(* what is checked is that the loops, with their early returns, the        *)
(* checked sum and the one index into the remaining accounts, accept the   *)
(* calls they should and line up the accounts they should.                 *)
(*                                                                         *)
(* A call is a config account, a mode and the caller's remaining accounts. *)
(* The config's header (address, owner, length, discriminator, status,     *)
(* mint) is one Boolean; its vector is a declared count and the records    *)
(* the account has room for, of which those after the count are stale.     *)
(***************************************************************************)
EXTENDS Integers, Sequences, BoundedSum

CONSTANTS
  Addresses,  \* addresses of shareholders
  FeeOwner,   \* the launch's fee_owner PDA
  U16Max,     \* the largest u16
  U32Max,     \* the largest u32
  Calls       \* the calls considered

BpsDenominator == 10000

\* "main" and "other" distribute SOL, for the main launch and for another one;
\* "token" distributes a quote token.
Modes == {"main", "other", "token"}

Share == [address : Addresses, bps : 0..U16Max]

SharingConfig == [header : BOOLEAN, count : Nat, records : Seq(Share)]

\* A wallet, or the associated token account of one for the quote mint.
Account == [of : Addresses, kind : {"wallet", "token"}]
WalletOf(address) == [of |-> address, kind |-> "wallet"]
TokenAccountOf(address) == [of |-> address, kind |-> "token"]

Call == [mode : Modes, config : SharingConfig, remaining : Seq(Account)]

ASSUME ShareholderAssumption ==
  /\ FeeOwner \in Addresses
  /\ U16Max \in Nat
  /\ U32Max \in Nat
  /\ BpsDenominator <= U32Max
  /\ Calls \subseteq Call

VARIABLES
  call,         \* the instruction's inputs
  pc,           \* the loop it is in, or its outcome
  index,        \* shares the loop has gone through
  totalBps,     \* total_share_bps
  hasFeeOwner,  \* has_fee_owner_share
  used,         \* remaining_index
  accounts      \* what the loops have pushed

vars == <<call, pc, index, totalBps, hasFeeOwner, used, accounts>>

config == call.config
Count == config.count

\* The remaining accounts append_shareholder_accounts is given: on a SOL claim of
\* another launch the first one is taken off for the main launch.
Rest == IF call.mode = "other" THEN Tail(call.remaining) ELSE call.remaining

ShareholderTypeOK ==
  /\ call \in Calls
  /\ pc \in {"config", "shares", "split", "wallets", "tokens", "done", "failed"}
  /\ index \in Nat
  /\ totalBps \in 0..U32Max
  /\ hasFeeOwner \in BOOLEAN
  /\ used \in Nat
  /\ accounts \in Seq(Account)

ShareholderInit ==
  /\ call \in Calls
  /\ pc = "config"
  /\ index = 0
  /\ totalBps = 0
  /\ hasFeeOwner = FALSE
  /\ used = 0
  /\ accounts = << >>

Fail ==
  /\ pc' = "failed"
  /\ UNCHANGED <<call, index, totalBps, hasFeeOwner, used, accounts>>

-----------------------------------------------------------------------------
(***************************************************************************)
(* require_pump_sharing_config.                                            *)
(***************************************************************************)
VectorIsReadable == config.header /\ Count <= Len(config.records)

ReadConfig ==
  /\ pc = "config"
  /\ \/ /\ VectorIsReadable
        /\ pc' = "shares"
        /\ UNCHANGED <<call, index, totalBps, hasFeeOwner, used, accounts>>
     \/ ~ VectorIsReadable /\ Fail

\* Mutant: the sum is not checked against its width.
CanAddShareUnchecked(bps) == bps > 0

\* Mutant: a share of zero is let through.
CanAddShareOfZero(bps) == totalBps + bps <= U32Max

\* Mutant: the sum is stopped one share too early.
CanAddShareBelowWhole(bps) == bps > 0 /\ totalBps + bps < BpsDenominator

CanAddShare(bps) == bps > 0 /\ totalBps + bps <= U32Max

ReadShare ==
  /\ pc = "shares"
  /\ index < Count
  /\ LET share == config.records[index + 1]
     IN  \/ /\ CanAddShare(share.bps)
            /\ totalBps' = totalBps + share.bps
            /\ hasFeeOwner' = (hasFeeOwner \/ share.address = FeeOwner)
            /\ index' = index + 1
            /\ UNCHANGED <<call, pc, used, accounts>>
         \/ ~ CanAddShare(share.bps) /\ Fail

SharesAreValid == hasFeeOwner /\ totalBps = BpsDenominator

CheckShares ==
  /\ pc = "shares"
  /\ index = Count
  /\ \/ /\ SharesAreValid
        /\ pc' = "split"
        /\ UNCHANGED <<call, index, totalBps, hasFeeOwner, used, accounts>>
     \/ ~ SharesAreValid /\ Fail

-----------------------------------------------------------------------------
(***************************************************************************)
(* main_reward_remaining_accounts: which account the first one is, is      *)
(* looked at only when the main launch is credited.                        *)
(***************************************************************************)
HasMainLaunch == call.mode = "other" => call.remaining # << >>

SplitMainLaunch ==
  /\ pc = "split"
  /\ \/ /\ HasMainLaunch
        /\ pc' = "wallets"
        /\ index' = 0
        /\ UNCHANGED <<call, totalBps, hasFeeOwner, used, accounts>>
     \/ ~ HasMainLaunch /\ Fail

-----------------------------------------------------------------------------
(***************************************************************************)
(* append_shareholder_accounts.                                            *)
(***************************************************************************)
ShareAddress(i) == config.records[i].address

\* Mutant: a token account is taken for any of its owner's accounts.
IsNextAccountOfOwner(expected) ==
  used < Len(Rest) /\ Rest[used + 1].of = expected.of

\* The next of the remaining accounts is the one expected.
IsNextAccount(expected) == used < Len(Rest) /\ Rest[used + 1] = expected

\* fee_owner's accounts are the instruction's own; the others come, in order,
\* from the caller.
AppendAccount(expected) ==
  \/ /\ expected.of = FeeOwner
     /\ accounts' = Append(accounts, expected)
     /\ index' = index + 1
     /\ UNCHANGED <<call, pc, totalBps, hasFeeOwner, used>>
  \/ /\ expected.of # FeeOwner
     /\ IsNextAccount(expected)
     /\ accounts' = Append(accounts, Rest[used + 1])
     /\ used' = used + 1
     /\ index' = index + 1
     /\ UNCHANGED <<call, pc, totalBps, hasFeeOwner>>
  \/ expected.of # FeeOwner /\ ~ IsNextAccount(expected) /\ Fail

AppendWallet ==
  /\ pc = "wallets"
  /\ index < Count
  /\ AppendAccount(WalletOf(ShareAddress(index + 1)))

\* A token distribution goes through the shares a second time.
StartTokenAccounts ==
  /\ pc = "wallets"
  /\ index = Count
  /\ call.mode = "token"
  /\ pc' = "tokens"
  /\ index' = 0
  /\ UNCHANGED <<call, totalBps, hasFeeOwner, used, accounts>>

AppendTokenAccount ==
  /\ pc = "tokens"
  /\ index < Count
  /\ AppendAccount(TokenAccountOf(ShareAddress(index + 1)))

\* Mutant: accounts left over are ignored.
AllAccountsUsedLoosely == used <= Len(Rest)

AllAccountsUsed == used = Len(Rest)

CheckAllUsed ==
  /\ \/ pc = "wallets" /\ call.mode # "token"
     \/ pc = "tokens"
  /\ index = Count
  /\ \/ /\ AllAccountsUsed
        /\ pc' = "done"
        /\ UNCHANGED <<call, index, totalBps, hasFeeOwner, used, accounts>>
     \/ ~ AllAccountsUsed /\ Fail

ShareholderNext ==
  \/ ReadConfig
  \/ ReadShare
  \/ CheckShares
  \/ SplitMainLaunch
  \/ AppendWallet
  \/ StartTokenAccounts
  \/ AppendTokenAccount
  \/ CheckAllUsed

\* The loops run to their end.
ShareholderSpec ==
  ShareholderInit /\ [][ShareholderNext]_vars /\ WF_vars(ShareholderNext)
=============================================================================
