# Staked: a TLA+ model of the staking program

The repository is a Solana program (`programs/staking/src`, Anchor). Holders of a
Pump.fun token lock it in a *launch* for 7 to 180 days and share the coin's creator
fees by weight. This directory holds a model of the program, the configurations
TLC checks it under, and theorems about it that TLAPS proves for every value of
the constants.

## Inventory

| Part | Source | State | Operations |
| --- | --- | --- | --- |
| Launches and positions | `instructions/staking.rs`, `state.rs` | `LaunchConfig`, `StakePosition`, the staking vault | `initialize_launch`, `stake`, `increase_stake`, `unstake` |
| SOL reward ledger | `rewards.rs`, `instructions/rewards.rs` | `acc_reward_per_weight`, `reward_reserve`, `reward_debt`, lamports of the launch | `apply_rewards`, `pending_reward`, `pay_rewards`, `claim_rewards` |
| SOL creator fee claims | `instructions/fees.rs`, `rewards.rs` | `fee_owner` PDA, its WSOL account, protocol vault | the four SOL claims, the split with the main launch |
| Creator routes | `guards.rs` | none (reads Pump.fun accounts) | direct or shared route, clean-vault guards |
| Protocol fees | `instructions/protocol.rs` | protocol vault (SOL), quote protocol vault | `claim_protocol_fees`, `claim_quote_protocol_fees` |
| Quote rewards | `instructions/rewards.rs`, `instructions/fees.rs` | `QuoteRewardPool`, `QuoteStakeState`, quote vaults | pool and stake initialisation, four quote claims, claims by stakers |
| Shareholder accounts | `instructions/fees.rs`, `guards.rs`, `rewards.rs` | none | `require_pump_sharing_config`, `main_reward_remaining_accounts`, `append_shareholder_accounts` |
| Validation, PDAs, token layouts | `guards.rs`, `pda.rs`, `token.rs` | none | equality tests, byte offsets |
| Scripts, documents | `scripts/`, `audit/` | none | devnet helpers; audit notes |

**How the parts interact.** Everything meets in the launch account. Positions read
its accumulator and add to or take from its total weight; fee claims raise its
accumulator and its reserve; claims and exits lower the reserve. A fee claim for
any launch other than the main one also writes the main launch's ledger. Entry
into a launch with stake reads the creator vaults that the fee claims empty.

**What is hard.** A transaction is atomic and the runtime serialises transactions
that write the same account, so there are no races inside an instruction. What
remains is the order of instructions of many signers: owners, anyone who claims
fees, the upgrade authority, Pump.fun and PumpSwap, and the clock. Two integer
divisions round in opposite directions, three instructions maintain one running
total, one fee is booked in two ledgers and a vault, and the guard at entry looks
at an account its caller chooses. A failed transaction changes nothing, so an
error is a disabled step; an error that can never stop happening is a position
that cannot leave.

**What makes each part correct.**
- Positions: the total weight is the sum of the weights, the vault covers
  the principal, a lock ends no earlier than promised and returns all of it.
- Ledger: a position is always paid exactly what is pending on it, no one else
  changes what is pending, no debt is ahead of its accrual, and what is owed
  stays within rounding of the reserve.
- Fee claims: a claim divides exactly what it draws, in the documented shares, and
  each launch's lamports cover its reserve, whatever anyone adds to them.
- Guards: weight does not enter while fees wait.
- Quote pools: the vaults cover the two reserves, a quote stake is paid exactly
  what is pending on it, and what the quote stakes are owed stays within the
  reserve as long as the total a credit is divided by covers the weights recorded.
- Shareholder accounts: the accepted vectors are the sound ones, and Pump.fun gets
  the shareholders' accounts in their order.
- All of them: an unlocked position can leave, and fees that wait, as long as a
  claim serves their vault, are claimed.

The quote side meets the SOL side in one place: a quote claim reads the position's
weight, and a quote credit the launch's total. `stake`, `increase_stake` and
`unstake` move both without looking at the quote stakes.

## Modules

| Module | Models |
| --- | --- |
| `RewardMath` | the arithmetic of `rewards.rs`, with its roundings and widths |
| `CreatorVaults` | creator, creator vaults, `fee_owner`, WSOL account; Pump.fun and PumpSwap as an environment; the guards and collections that touch them |
| `Staking` | the SOL side of the program: one action per instruction; extends the two above |
| `QuoteRewards` | the quote side, composed with all of `Staking` |
| `ShareholderAccounts` | the loops that check a sharing config and line up the shareholders' accounts, one step per turn |
| `ShareLedger` | what a reward pool promises, without accumulators or debts |
| `PoolLedger` | what a quote pool promises: a share ledger whose credits are divided by a total kept elsewhere |
| `BoundedSum` | the sum over owners that running totals are compared with |
| `StakingProperties`, `QuoteProperties`, `ShareholderProperties` | invariants and action properties |
| `StakingRefinement`, `QuoteRefinement` | the mappings under which `Staking` implements `ShareLedger` and the quote side `PoolLedger` |
| `StakingHistory`, `QuoteHistory` | `Staking`, and the whole with its quote side, with history variables: what was credited, earned and paid over whole lifetimes |
| `StakingLiveness` | fairness and what must eventually happen |
| `MCStaking`, `MCHistory`, `MCLiveness`, `MCQuote`, `MCQuoteHistory`, `MCShareholders` | instances for TLC |
| `BoundedSumTheorems` | facts about sums |
| `StakingTypeProofs`, `StakingLedgerProofs`, `StakingCorrectness` | widths and the arithmetic, what each kind of step does to a launch's ledger, the theorems of the SOL side and its refinement of the share ledger |
| `StakingHistoryProofs`, `QuoteHistoryProofs` | the lifetime properties |
| `QuoteProofs`, `ShareholderProofs` | the quote ledger and its refinement, the loops |

`Staking` corresponds to the code as follows.

| Model | Code |
| --- | --- |
| `launch[l]` | the fields of `LaunchConfig` that change |
| `position[l][o]` | `StakePosition`; a record of zeros where the account does not exist. `stake` refuses a zero amount, so a position exists iff its amount is positive |
| `lamports[l]`, `protocolVault[l]` | lamports of the launch account above rent; all lamports of the `protocol-fees` PDA |
| `wallet`, `stakingVault` | token balances `transfer_spl_tokens` moves |
| `Stake` ... `ClaimRewards` | the handlers in `instructions/staking.rs` and the SOL path of `claim_rewards`, guards in the conjuncts, `checked_*` as membership in `U64` or `U128` |
| `ClaimPump*`, `ClaimPumpSwap*` | the SOL claims of `instructions/fees.rs`: guards, collection, and `DistributeFees`, which is `apply_rewards_with_protocol_fee_and_main_reward` |
| `ClaimProtocolFees` | `claim_protocol_fees` |
| `Tick`, `Outside` | the clock; the environment |
| `Gift` | anyone's transfer of tokens to a staking vault, or of lamports to a launch account or a protocol vault (to `fee_owner` and the creator vaults it is in `World`); `GiftAccounts` says which a run allows, `MaxArrivals` how many |
| `entries[l]` | a counter of `stake` and `increase_stake`, in the model only: it bounds runs and states the rounding bound |

`QuoteRewards` corresponds to the code as follows.

| Model | Code |
| --- | --- |
| `quotePools`, `quotePool[l][q]` | which `QuoteRewardPool` accounts exist, and their fields |
| `quoteStake[l][o][q]` | `QuoteStakeState`; its address depends on the position's address only and nothing closes it, so it survives the position. Every position weighs at least 1, so it exists iff `recordedWeight` is positive |
| `quoteVault`, `quoteFeeVault` | the pool's token account and that of the quote protocol fee authority |
| `quoteCreatorVault[l][q][v][r]` | what waits at Pump.fun or PumpSwap on the direct or the shared route. PumpSwap's shared claim distributes everything in Pump.fun's account, earlier fees included |
| `InitializeQuoteRewards`, `InitializeQuoteStake`, `ClaimQuoteRewards` | the quote handlers of `instructions/rewards.rs` |
| `Claim...QuoteCreatorFees` | the four quote claims; what follows the collection is `ClaimQuoteFees` |
| `ClaimQuoteProtocolFees` | `claim_quote_protocol_fees`, with its saturating subtraction |
| `QuoteWorld` | fees that arrive, and transfers by anyone to the program's token accounts |
| `quoteEntries`, `overcommitted` | history only: recorded weights counted, and the pools credited while they recorded more weight than the launch's total |
| `QuoteNext` | a step of `Staking` with the quote side unchanged, or a quote step with `Staking` unchanged; every instruction is one or the other |

`ShareholderAccounts` models three functions that run inside every shared claim.
Nothing interferes with them, so a behaviour is one call: a config (its fixed
fields one Boolean, its declared count, the records its account has room for), a
mode and the caller's accounts. `call` never changes; `pc` names the loop.

**Abstractions.** Account addresses, signatures and byte layouts are reduced to the
guard's outcome. On the SOL side, PumpSwap's shared vault and the WSOL account of
Pump.fun's vault that its fees pass through (`fees.rs:736`) are one place.
Lamports sent to a launch account without an instruction stay there: they are in no
reserve, and no instruction reads them. The external programs are modelled from their
use: a direct vault is collected whole, a shared one is distributed and `fee_owner`
receives its share, rounded down. `ensure_protocol_fee_vault` tops up a balance between zero and the
rent (`rewards.rs:461-477`): `FundProtocolVault` contains the case, but no step leads
to it, because the runtime refuses a transfer that leaves an account there. Mutant
operators (their comments begin with "Mutant") are not part of any specification; each is a plausible slip in the definition that
follows it, used to confirm that a property would catch it.

## Runs

| Run | Instance | Shows |
| --- | --- | --- |
| `ledger` | `StakingHistory`: 1 launch, 3 owners, 2 tokens each, locks 7 and 180 days, clock 0, 7, 187, 3 entries, 2 arrivals of 2 (lamports of fees, or tokens for the staking vault), precision 1000, widths 10000 | `TypeOK`, `WeightsAddUp`, `PrincipalBacked`, `DebtCovered`, `OwedBounded`, `ShortfallBounded`, `LockHonoured`, `SettledInFull`, `NeverDiluted`, `OwnersWhole`, `WeightMatchesLock`, `ImplementsShareLedger`, `CreditsConserved`, `AccrualsWithinCredits`, `LifetimeShare`, `RewardsStayComputable` |
| `fees` | 2 launches (one the main), 1 owner, both venues, both routes, 2 arrivals of 60 lamports (fees, or gifts to `fee_owner`, a launch or a protocol vault), 50% share | `ReserveBacked`, `ProtocolVaultRentExempt`, `FeeShares`, `DirectEntryIsClean`, `LaunchesIsolated`, `ImplementsShareLedger` |
| `quote` | `QuoteHistory`: 1 launch, 1 quote mint, 2 owners of 3 tokens, 2 entries, both venues and routes, 2 arrivals of 10 tokens, no SOL fees | `QuoteTypeOK`, `QuoteReserveBacked`, `QuoteFeeReserveBacked`, `QuoteDebtCovered`, `QuoteOwedBounded`, `QuoteSettledInFull`, `QuoteNeverDiluted`, `ImplementsPoolLedger`, `QuoteCreditsConserved`, `QuoteLifetimeShare`, `ShortageExplained` |
| `shareholders` | 3 addresses, every vector of up to 3 shares of 0, 40, 60 or 100% with the count right or off by one; 5 sound vectors with every list of up to 4 accounts | `ShareholderTypeOK`, `SharesAddUp`, `AccountsFollowShares`, `LoopsAcceptExactly`, `LoopsDecide` |
| `exits_live` | 1 launch, 2 owners, 3 entries, 2 arrivals of 1 lamport, `ExitSpec` | `ExitsUnlessShort` |
| `fees_live` | 2 launches, 1 owner, 1 token, 1 entry each, both venues, both routes, 2 arrivals of 60 lamports, 100% share, `ClaimSpec` | `FeesReachStakers` |
| `exit` | 1 launch, 3 owners of 2 tokens, 3 entries, 2 arrivals of 1 or 2 lamports, precision 2 | `UnlockedIsPayable` fails |
| `entry` | as `fees` | `NoFeesWaitOnEntry` fails |
| `overflow` | 1 launch, 2 owners of 3 tokens, precision 1000, widths 10000 | `UnlockedIsComputable` fails |
| `quote_weight`, `quote_shares` | as `quote`, with 3 entries and 2 tokens each | `RecordedWeightCurrent`, `SharesAreReserved` fail |
| `shareholders_readme` | as `shareholders` | `ReadmeListAccepted` fails |

**Bounds.** `MaxEntries`, `MaxArrivals`, `MaxQuoteArrivals`, `Times`, `LockChoices`,
`FeeAmounts`, `QuoteAmounts`, `InitialTokens`, `MaxShares` and `MaxRemaining` bound the
runs. In the other runs three entries are two owners around an increase, or three
owners, and the third is what a rounding conflict between two needs; two arrivals give
an owner an accumulator before and after entry. In `ledger` totals of 1 to 15 divide
credits of 2 to 3 lamports, so most debts and payments round, and with widths of 10000 a
credit to a lone weight of 1 takes the accumulator to 2000, at which a weight of 5 is
just admitted and overflows at the next credit. `Precision = 2` in most other runs makes
fractions of a lamport common too. A weight of 2.5 times an odd amount exercises the
other division. Times 7 and 187 are the exact ends of the two locks taken at 0, and 187
that of a 180-day lock taken at 7. A 60-lamport fee has a non-zero main share (5% of
45), and 30 lamports, `fee_owner`'s half of it, too; the rent floor of 20 in `fees` is
above the protocol fee of either (15 and 7), so a protocol vault created without its
rent would show. In `fees_live` a share of 100% makes 60 lamports arrive whole on every
route, so that every claim gives each ledger a positive increment, and the rent floor of
61 keeps a lone 60-lamport transfer from opening `fee_owner`; a single entry per launch
is enough for stake that comes and goes. In `quote`, 10 tokens are 8 for the stakers
and 2 for the protocol, or 4 and 1 over the shared route; two entries of up to 3 tokens are one owner leaving or
not before the other enters, an exit and a re-entry with another amount, or an increase,
each before, between or after two credits; of two arrivals one may be a donation to a
vault. In `shareholders`, three shares of 100% would wrap to 100% in a sum of the
instance's width, stale records stand after a count that is too small, and four accounts
are one more than any of the vectors tried leaves unused in the SOL modes. Deadlock is
not checked: when the bounds are used up the instance stops, as the program does when no
one sends a transaction, and a call that has ended stays ended.

**Fairness.** The program takes no step of its own. `ExitSpec` assumes only that time
passes (`Tick`). That an owner keeps sending `unstake` is a premise of
`ExitsUnlessShort`, not of the specification: owners may stay. `ClaimSpec` assumes, for
each launch, that the Pump.fun claim of its present route, the direct PumpSwap claim and
the shared PumpSwap claim, which anyone may send and the stakers gain by sending, are
executed if they stay valid: weak fairness only, since nothing makes a transaction
succeed that is valid now and then. A PumpSwap claim closes `fee_owner`'s WSOL account,
so its claimant opens the account first and the two steps are one claimant's; with
finitely many arrivals, which is the case of the run, a claim of the other route cannot
close it for ever (with endless arrivals strong fairness would be needed; the account
can be opened in the claim's own transaction). The exceptions the statements of
`ExitsUnlessShort` and `FeesReachStakers` make are needed: TLC refutes each statement
without any one of them. One of `FeesReachStakers` is a fact about the code: a coin that
moves to a sharing config with fees in Pump.fun's direct vault leaves them there for
good, because `claim_pump_creator_fees` verifies that the bonding curve names `fee_owner`
(`fees.rs:18-22`) and a move to a sharing config is taken to be final. What is in PumpSwap's direct vault can
still be claimed after the move, because `claim_pumpswap_creator_fees` does not read the
bonding curve, and the property says so. In
`ShareholderAccounts` weak fairness says that a loop runs to its end.

### Findings

1. *An unlocked position cannot always leave* (`exit`). A debt is rounded down on
   entry (`rewards.rs:230`), so an entrant is credited the fraction of a lamport
   that accrued before; the pending rewards of a launch may then exceed
   `reward_reserve`, and `pay_rewards` (`rewards.rs:243`) refuses the last exit,
   principal included. It does not depend on the small precision of the run: with
   weights 2, 1, 1 entering around fees of 1 and 2 lamports, the accumulator is 1/2
   when the last two enter and 1 afterwards, 4 lamports are pending and 3 are in
   the reserve. `ShortfallBounded` says that the gap is at most a lamport
   per entry, so the next fee claim usually clears it.
2. *Fees may wait while weight enters* (`entry`). `programs/staking/README.md:119-120`
   says waiting fees must be claimed first; the guard accepts an empty direct vault
   without reading the bonding curve (`guards.rs:227`, `:303`), also on a
   launch whose fees go to the shared vaults. `DirectEntryIsClean` is what holds.
3. *A position may never be able to leave* (`overflow`). `weight * acc_reward_per_weight`
   is computed in `u128` (`rewards.rs:232`), and the accumulator only grows. The run
   uses small widths; at the program's own, crediting 100 SOL (10^11 lamports) while a
   position of weight 1 is alone adds 10^29 to the accumulator, and a weight above
   3.4 * 10^9 base units overflows. Such a weight is refused at entry, so what is
   caught is a position that entered before the credit that carries the product past
   the width. Unlike the first finding this one does not pass.
4. *A quote stake's weight is not its position's* (`quote_weight`). The audit
   (`audit/staking-security-audit.md:158-161`) states the equality; `increase_stake`
   breaks it until the next quote claim. No reward already accrued is lost or
   repeated by it (`QuoteSettledInFull`, `QuoteDebtCovered`).
5. *Quote rewards are not shares of one total* (`quote_shares`). `unstake` leaves the
   recorded weight in the pool and takes the position's out of the total, so the
   shares of a later credit add up to more than the credit, against
   `programs/staking/README.md:107-111`. `QuoteOwedBounded` delimits it: a pool
   never credited in that state owes no more than it holds. `ShortageExplained`
   measures it: what a pool owes beyond its reserve is at most what those later
   credits gave to weight beyond the total, and rounding.
6. *The README's list of shareholder accounts is refused* (`shareholders_readme`).
   `programs/staking/README.md:150-154` describes one recipient account per
   shareholder, for a quote token its ATA; `append_shareholder_accounts` wants all
   the wallets and then all the ATAs (`fees.rs:1107-1152`), as its test says.

The audit's remark that `protocol_fee_reserve` and the vault may drift is confirmed
in one direction only: by transfers from outside the vault may hold more than the
reserve says, never less (`QuoteFeeReserveBacked`).

## Proofs

All constants are arbitrary: any number of launches, owners and quote mints, any
precision, widths, amounts and times, any shareholder vector and any list of
accounts (`RewardMathAssumption`, `CreatorVaultsAssumption`, `StakingAssumption`,
`QuoteAssumption`, `ShareholderAssumption`; TLC evaluates them on the runs).

- `TypeCorrect`: `TypeOK` is inductive by itself, since every guard keeps its field
  within its width.
- `LedgerCorrect`: `LedgerInv` is inductive. It has `TypeOK`, `AccountsExist` (an
  account that does not exist is empty, without which a new position could
  replace an old one unsettled) and, for each launch, `Ledger`: the total weight is the
  sum over the positions, the vault covers theirs, lamports cover the reserve, no debt
  is ahead,
  and the *exact* accruals, not their floors, are bounded by the reserve plus
  (P-1)/P of a lamport per entry. The bound on floors (`ShortfallBounded`) is not
  inductive: a credit turns any amount of fractions into whole lamports.
  `StepKinds` shows that, seen from one launch, each action leaves it alone, gives to
  its accounts, credits an amount or settles one position; `UntouchedLedger`,
  `GivenLedger`, `CreditedLedger` and `SettledLedger` show that each of these keeps `Ledger`. A credit needs that
  the increment times the total is at most the amount (`RewardIncrementBounds`) and
  that sums are linear (`SumToLinear`); a settlement needs `SumToChange` and
  `RewardDebtBounds`.
- From `LedgerInv` follow `WeightsAddUp`, `PrincipalBacked`, `ReserveBacked`,
  `DebtCovered`, `OwedBounded`, `ShortfallBounded`, and `ExitsAlwaysCovered`; from the
  kinds of steps the action properties `SettledInFull` and `NeverDiluted`.
- `OwnersWhole` and `WeightMatchesLock` are inductive with `TypeOK`: `increase_stake`
  reweights the whole principal by the new lock, whose end cannot be earlier than
  the old one's, and time only lets the range of admissible ends grow.
  `LaunchesIsolated` is shown action by action; the share of the main launch is the
  one way in which a step reaches a second launch's books.
- `ProtocolVaultRentExempt` is inductive with `TypeOK`; `LockHonoured` and
  `DirectEntryIsClean` are shown action by action.
- `FeeShares`: `ClaimDraws` shows that only a claim lowers what claims can draw from a
  launch's fee accounts (`Drawable`), and by exactly the amount it divides; that the
  amount is what the three accounts receive, in the documented shares, is
  `DistributionShares`, from `RewardSplitShares`. It is stated over the accounts and not
  over the amount, so a rent top-up that is swept out as a reward (`rewards.rs:386`), or
  a WSOL account's rent that is not booked (`fees.rs:529`), violates it.
- `StakingImplementsShareLedger`: initial states map to initial states, and by
  `StepKinds` each step maps, for each launch, to `Rest`, `Credit` or `Settle`.
  `WeightsAddUp` is what makes a credit over `total_weighted_stake` a credit over
  the sum of the weights, and `RewardDebtBounds` is what makes the payment of a
  settlement the whole units of what is owed.
- `StakingHistory` only adds variables. Every behaviour of `HistorySpec` is one of
  `Spec` (a lemma), so `LedgerInv` may be used in it. That every behaviour of `Spec`
  has a history is not proved: it is by the form of the definitions, which give each
  history variable's next value as an expression. A credit is what a claim adds to the
  account together with the accumulator; gifts are not credited. `HistoryInv` is
  inductive relative to `LedgerInv`; it says, for each launch, what
  `CreditsConserved`, `AccrualsWithinCredits` and `LifetimeShare` say, and that the
  accumulator times the least total weight a credit met is at most what was
  credited. The kinds of steps carry over: an untouched launch remembers nothing, a
  credit adds to every owner's share what it adds to what the owner is owed, and a
  settlement moves what is owed to what was received but for the rounding of one debt.
- `RewardsAlwaysComputable` gives the measure of finding 3. By `WeightMatchesLock` and
  `OwnersWhole` a weight is at most 2.5 times an owner's tokens, and the accumulator
  is at most the credits over the least total weight; while the product of the two
  bounds fits in 128 bits (and the reserve, with a unit per entry, in 64), no
  `pending_reward` overflows. The instance of `ledger` goes past the bound, and
  there a reward does overflow.
- `QuoteIncludesStaking`: every behaviour of the whole program is, on its SOL side,
  one of `Staking`, so all of the above holds with quote pools too.
- `QuoteLedgerCorrect`: `QuoteInv` is inductive relative to `TypeOK`. It says that a
  pool not yet opened is empty (else `initialize_quote_rewards` would erase a
  reserve) and, per pool, that each vault covers its reserve, no debt is ahead, and
  the exact accruals are bounded unless the pool is `overcommitted`. The argument
  is that of the SOL side with one gap, which is finding 5: the recorded weights need
  not be within the total, so a credit keeps the bound only when they are. All
  invariants and action properties of the `quote` run follow.
- `QuoteImplementsPoolLedger`: by `QuoteKind` each step maps, for each pool, to `Rest`,
  `PoolCredit` or `Settle` of `PoolLedger`, whose total is `total_weighted_stake`. It
  holds whether or not the pool is overcommitted: each unit of recorded weight always
  gets the same part of a credit, and what unrecorded weight would have got goes to
  nobody.
- `QuoteHistory` does for the quote side what `StakingHistory` does for the SOL side,
  with the same reservation about its converse.
  `QuoteMemoryInv` is inductive relative to `TypeOK` and `QuoteInv`; per pool it says
  what `QuoteCreditsConserved`, `QuoteLifetimeShare` and `ShortageExplained` say. The
  last holds without the condition of `QuoteOwedBounded`: a credit gives out the
  increment times the recorded weight, of which the increment times the total is in
  the credit, and the rest is counted in `sharedTwice` (`ExcessCovered`).
- `ShareholderTypeCorrect`, `SharesAlwaysAddUp`, `AccountsAlwaysFollowShares`: the
  loop invariant says that the sum so far is that of the shares so far and that
  what is pushed so far is what is expected.
- `LoopsAlwaysAcceptExactly`: what the loops refuse they had to refuse, and what they
  accept is sound. `ExactInv` adds to the loop invariant why a call was refused: each
  check that fails denies one clause of the specification for good. It needs that
  10000 fits the width of the sum (`BpsDenominator <= U32Max`), or the checked
  addition would refuse sound vectors.

Every invariant and action property of a passing run is proved. Only
model-checked: `ExitsUnlessShort`, `FeesReachStakers` and `LoopsDecide`, because
liveness under fairness is out of the prover's reach. What `LoopsDecide` says
beyond `LoopsAlwaysAcceptExactly` is that the loops end, and that the list they want
is a filtered one, which is recursive data. Facts on sums are proved
over a set of indices with `IntervalInduction`, because the library's induction
theorems take an operator and cannot be instantiated.

## Not modelled

- Validation of addresses, PDAs and byte layouts other than the sharing config's
  (`guards.rs`, `token.rs`, `pda.rs`): equality tests without state or protocol.
- `fee_owner`'s own quote token account: claims take what it gained during the call
  (`fees.rs:640`), so what reaches it otherwise stays there and is never read.
- Owners' and the authority's quote token accounts: only credited.
- `last_reward_ts` of a pool: written and never read.
- Which account the first remaining one is on a SOL claim of another launch: the
  code looks only when the main launch is credited; `Staking` has it right by then.
- Closing and re-creating `fee_owner`'s WSOL account other than by the claims and
  the environment's `OpenWsolAta`; Pump.fun's WSOL account apart from PumpSwap's
  vault on the SOL side.
- The devnet scripts, dispatch and error codes.

What could still be added: Pump.fun's WSOL account as a place of its own in
`CreatorVaults`.
