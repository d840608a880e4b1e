----------------------------- MODULE MCShareholders -----------------------------
(***************************************************************************)
(* Instances of ShareholderAccounts for TLC: fee_owner and two more        *)
(* shareholders.  Every vector of up to three shares is tried with no      *)
(* remaining accounts, declared counts off by one included; a choice of    *)
(* accepted vectors with every list of up to four remaining accounts.      *)
(***************************************************************************)
EXTENDS ShareholderProperties

CONSTANTS feeOwner, alice, bob

ThreeAddresses == {feeOwner, alice, bob}

\* 3 * 10000 wraps to 10000 in a sum of width 20000.
SomeShares == [address : ThreeAddresses, bps : {0, 4000, 6000, 10000}]

MaxShares == 3
MaxRemaining == 4

ListsUpTo(n, S) == UNION {[1..k -> S] : k \in 0..n}

AllConfigs ==
  UNION {[header : {TRUE}, count : {Len(records), Len(records) - 1, Len(records) + 1} \cap Nat,
          records : {records}] : records \in ListsUpTo(MaxShares, SomeShares)}

A(address, bps) == [address |-> address, bps |-> bps]

SoundVectors ==
  { <<A(feeOwner, 10000)>>,
    <<A(feeOwner, 4000), A(alice, 6000)>>,
    <<A(alice, 4000), A(feeOwner, 6000)>>,
    <<A(bob, 2000), A(feeOwner, 4000), A(alice, 4000)>>,
    <<A(alice, 4000), A(feeOwner, 2000), A(alice, 4000)>> }

SoundConfigs ==
  UNION {[header : BOOLEAN, count : {Len(records)}, records : {records}]
           : records \in SoundVectors}

SomeAccounts == [of : ThreeAddresses, kind : {"wallet", "token"}]

SomeCalls ==
  [mode : Modes, config : AllConfigs, remaining : {<< >>}]
    \union [mode : Modes, config : SoundConfigs,
            remaining : ListsUpTo(MaxRemaining, SomeAccounts)]
=============================================================================
