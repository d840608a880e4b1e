---------------------------- MODULE CreatorVaults ----------------------------
(***************************************************************************)
(* The accounts outside the program that SOL creator fees wait in, and the *)
(* guards and collections of the program that touch them.                  *)
(*                                                                         *)
(* A launch's bonding curve names its creator.  The program serves two     *)
(* routes: the creator is the launch's fee_owner PDA ("direct"), or it is  *)
(* the Pump sharing config, which has fee_owner among its shareholders     *)
(* ("shared").  Any other creator is "other".  Fees wait in a creator      *)
(* vault per route, at two venues: lamports above rent at Pump.fun         *)
(* ("pump") and WSOL at PumpSwap ("amm").  Pump.fun and PumpSwap are not   *)
(* in the repository: they are modelled from how fees.rs calls them.       *)
(***************************************************************************)
EXTENDS Integers

CONSTANTS
  Launches,          \* the launches, by mint
  RentFloor,         \* rent-exempt minimum of an account without data
  AtaRent,           \* rent-exempt minimum of a token account
  FeeOwnerShareBps,  \* fee_owner's share in a sharing config
  InitialCreators,   \* creators a bonding curve may start with
  FeeVenues,         \* the venues a run uses
  FeeRoutes,         \* the routes a run uses
  FeeAmounts,        \* the amounts that arrive
  MaxArrivals        \* bound on the number of arrivals

Routes   == {"direct", "shared"}
Venues   == {"pump", "amm"}
Creators == Routes \union {"other"}

ASSUME CreatorVaultsAssumption ==
  /\ RentFloor \in Nat \ {0}
  /\ AtaRent \in Nat \ {0}
  /\ FeeOwnerShareBps \in 1..10000
  /\ InitialCreators \subseteq Creators
  /\ FeeVenues \subseteq Venues
  /\ FeeRoutes \subseteq Routes
  /\ FeeAmounts \subseteq Nat \ {0}
  /\ MaxArrivals \in Nat

VARIABLES
  creator,       \* the creator each bonding curve names
  creatorVault,  \* what waits in the creator vault of each venue and route
  feeOwner,      \* lamports of the fee_owner PDA
  wsolAta,       \* lamports of fee_owner's WSOL account, 0 when there is none
  arrivals       \* number of arrivals so far

creatorVars == <<creator, creatorVault, feeOwner, wsolAta, arrivals>>

\* A WSOL account holds its rent and its token balance.
CreatorVaultsTypeOK ==
  /\ creator \in [Launches -> Creators]
  /\ creatorVault \in [Launches -> [Venues -> [Routes -> Nat]]]
  /\ feeOwner \in [Launches -> Nat]
  /\ wsolAta \in [Launches -> Nat]
  /\ \A l \in Launches : wsolAta[l] > 0 => wsolAta[l] >= AtaRent
  /\ arrivals \in 0..MaxArrivals

CreatorVaultsInit ==
  /\ creator \in [Launches -> InitialCreators]
  /\ creatorVault = [l \in Launches |-> [v \in Venues |-> [r \in Routes |-> 0]]]
  /\ feeOwner = [l \in Launches |-> 0]
  /\ wsolAta = [l \in Launches |-> 0]
  /\ arrivals = 0

-----------------------------------------------------------------------------
(***************************************************************************)
(* Steps of the world around the program.                                  *)
(***************************************************************************)
\* Trading fees, or anyone's transfer, reach a creator vault.
FeesArrive(l, v, r, amount) ==
  /\ arrivals < MaxArrivals
  /\ arrivals' = arrivals + 1
  /\ creatorVault' = [creatorVault EXCEPT ![l][v][r] = @ + amount]
  /\ UNCHANGED <<creator, feeOwner, wsolAta>>

\* Lamports reach fee_owner itself; the runtime keeps the account rent exempt.
FeeOwnerReceives(l, amount) ==
  /\ arrivals < MaxArrivals
  /\ arrivals' = arrivals + 1
  /\ feeOwner[l] + amount >= RentFloor
  /\ feeOwner' = [feeOwner EXCEPT ![l] = @ + amount]
  /\ UNCHANGED <<creator, creatorVault, wsolAta>>

\* Whoever is about to claim PumpSwap fees opens fee_owner's WSOL account and
\* pays its rent.
OpenWsolAta(l) ==
  /\ wsolAta[l] = 0
  /\ wsolAta' = [wsolAta EXCEPT ![l] = AtaRent]
  /\ UNCHANGED <<creator, creatorVault, feeOwner, arrivals>>

\* The coin's creator fees are moved to a sharing config.
MoveToSharing(l) ==
  /\ creator[l] = "direct"
  /\ creator' = [creator EXCEPT ![l] = "shared"]
  /\ UNCHANGED <<creatorVault, feeOwner, wsolAta, arrivals>>

World ==
  \E l \in Launches :
    \/ \E v \in FeeVenues, r \in FeeRoutes, x \in FeeAmounts : FeesArrive(l, v, r, x)
    \/ "pump" \in FeeVenues /\ \E x \in FeeAmounts : FeeOwnerReceives(l, x)
    \/ "amm" \in FeeVenues /\ OpenWsolAta(l)
    \/ "shared" \in FeeRoutes /\ MoveToSharing(l)

-----------------------------------------------------------------------------
(***************************************************************************)
(* require_clean_creator_vault_for_route and its PumpSwap counterpart.     *)
(* The caller chooses the vault account: the direct one only has to be     *)
(* empty, the shared one also needs the bonding curve to name the config.  *)
(***************************************************************************)
\* Mutant: the bonding curve is not read on the shared route.
CreatorVaultIsCleanUnverified(l, v, r) == creatorVault[l][v][r] = 0

CreatorVaultIsClean(l, v, r) ==
  /\ r = "shared" => creator[l] = "shared"
  /\ creatorVault[l][v][r] = 0

CreatorVaultsAreClean(l) ==
  \A v \in Venues : \E r \in Routes : CreatorVaultIsClean(l, v, r)

-----------------------------------------------------------------------------
(***************************************************************************)
(* Collections.  A direct vault is collected whole; a shared one is        *)
(* distributed to the shareholders, fee_owner's part by its share.         *)
(***************************************************************************)
Proceeds(l, v, r) ==
  IF r = "direct" THEN creatorVault[l][v][r]
  ELSE (creatorVault[l][v][r] * FeeOwnerShareBps) \div 10000

Larger(a, b) == IF a >= b THEN a ELSE b

\* Mutant: the sweep does not leave the rent floor behind.
SweptLamportsToZero(l, r) == Larger(feeOwner[l], RentFloor) + Proceeds(l, "pump", r)

\* fee_owner is topped up to its rent floor by the payer, receives the fees,
\* and is swept down to the floor again.
SweptLamports(l, r) ==
  Larger(feeOwner[l], RentFloor) + Proceeds(l, "pump", r) - RentFloor

SweepFeeOwner(l, r) ==
  /\ creatorVault' = [creatorVault EXCEPT ![l]["pump"][r] = 0]
  /\ feeOwner' = [feeOwner EXCEPT ![l] =
                   Larger(@, RentFloor) + Proceeds(l, "pump", r) - SweptLamports(l, r)]
  /\ UNCHANGED <<creator, wsolAta, arrivals>>

\* fee_owner's WSOL account receives the fees and is closed: its token balance
\* and its rent become lamports.
UnwrappedLamports(l, r) == wsolAta[l] + Proceeds(l, "amm", r)

CollectedWsol(l, r) == UnwrappedLamports(l, r) - AtaRent

UnwrapWsol(l, r) ==
  /\ creatorVault' = [creatorVault EXCEPT ![l]["amm"][r] = 0]
  /\ wsolAta' = [wsolAta EXCEPT ![l] = 0]
  /\ UNCHANGED <<creator, feeOwner, arrivals>>
=============================================================================
