------------------------- MODULE ShareholderProperties -------------------------
(***************************************************************************)
(* What the loops of ShareholderAccounts accept, and what they line up,    *)
(* against a definition by the whole list.                                 *)
(***************************************************************************)
EXTENDS ShareholderAccounts

Ended == pc \in {"done", "failed"}

-----------------------------------------------------------------------------
(***************************************************************************)
(* The reference: what a well-formed call is.                              *)
(***************************************************************************)
Bps == [i \in 1..Count |-> config.records[i].bps]

\* The vector fits its account, no share is empty, fee_owner has one, and they
\* add up to the whole, in unbounded arithmetic.
ConfigIsSound ==
  /\ config.header
  /\ Count <= Len(config.records)
  /\ \A i \in 1..Count : Bps[i] > 0
  /\ \E i \in 1..Count : ShareAddress(i) = FeeOwner
  /\ SumTo(Bps, Count) = BpsDenominator

ShareAddresses == [i \in 1..Count |-> ShareAddress(i)]

WalletsOf(addresses) == [i \in DOMAIN addresses |-> WalletOf(addresses[i])]
TokenAccountsOf(addresses) == [i \in DOMAIN addresses |-> TokenAccountOf(addresses[i])]

\* What the caller has to pass: the shareholders' accounts but for fee_owner's.
Expected ==
  LET others == SelectSeq(ShareAddresses, LAMBDA address : address # FeeOwner)
  IN  WalletsOf(others)
        \o (IF call.mode = "token" THEN TokenAccountsOf(others) ELSE << >>)

\* What the caller has to pass by the README: one account per shareholder.
ReadmeExpected ==
  LET others == SelectSeq(ShareAddresses, LAMBDA address : address # FeeOwner)
  IN  IF call.mode = "token" THEN TokenAccountsOf(others) ELSE WalletsOf(others)

\* The account pushed in i-th place.
ExpectedAccount(i) ==
  IF i <= Count THEN WalletOf(ShareAddress(i))
  ELSE TokenAccountOf(ShareAddress(i - Count))

\* How many accounts are pushed in all, and how many of the first n of them the
\* caller has to pass.
Places == IF call.mode = "token" THEN 2 * Count ELSE Count

IsTheirs(i) == ExpectedAccount(i).of # FeeOwner

Theirs(n) == [i \in 1..Places |-> IF i <= n /\ IsTheirs(i) THEN 1 ELSE 0]

Taken(n) == SumTo(Theirs(n), Places)

\* Each account of a shareholder but fee_owner is in the caller's list at its
\* place among them, and there are no others.
CallerMatches ==
  /\ Len(Rest) = Taken(Places)
  /\ \A i \in 1..Places : IsTheirs(i) => Rest[Taken(i)] = ExpectedAccount(i)

WellFormed == ConfigIsSound /\ HasMainLaunch /\ CallerMatches

-----------------------------------------------------------------------------
\* What the first loop lets through adds up: past it every share is positive,
\* fee_owner has one, and the shares sum to 10000 without any wrap-around, over
\* exactly the records the vector declares.
SharesAddUp == pc \in {"split", "wallets", "tokens", "done"} => ConfigIsSound

\* Pump.fun is handed the shareholders' accounts in the order of their shares,
\* the wallets first and then, for a token, the token accounts: no account the
\* caller passes can stand in a place that is not its own.
AccountsFollowShares ==
  /\ \A i \in 1..Len(accounts) : accounts[i] = ExpectedAccount(i)
  /\ pc = "done" => Len(accounts) = IF call.mode = "token" THEN 2 * Count ELSE Count

\* The loops refuse no call they should accept, and accept none they should
\* refuse: when they have ended, they have ended well exactly if the config is
\* sound and the caller's list is, place by place, the one it should be.
LoopsAcceptExactly == Ended => (pc = "done" <=> WellFormed)

\* Whatever the call, the loops end, and they end well exactly when the config
\* is sound and the caller's accounts are the ones expected: none missing, none
\* repeated, none left over.
Accepted == ConfigIsSound /\ HasMainLaunch /\ Rest = Expected

LoopsDecide == <>(Ended /\ (pc = "done" <=> Accepted))

\* The README: "pass their writable recipient accounts as remaining accounts in
\* the same order as the sharing_config.shareholders vector", where "for
\* quote-token distributions the recipient account is the shareholder ATA".
ReadmeListAccepted ==
  pc = "failed" =>
    ~ (ConfigIsSound /\ HasMainLaunch /\ Rest = ReadmeExpected)
=============================================================================
