--------------------------- MODULE ShareholderProofs ---------------------------
(***************************************************************************)
(* The loops of ShareholderAccounts, for vectors of any length, any shares *)
(* and any remaining accounts.  The invariant says what each loop has      *)
(* established of the part of the vector it has gone through; the checked  *)
(* sum is compared with the sum, in unbounded arithmetic, of the shares    *)
(* read so far, the others counting as zero.                               *)
(***************************************************************************)
EXTENDS ShareholderProperties, BoundedSumTheorems, SequenceTheorems, TLAPS

\* The shares the first loop has read, the others counting as zero.
BpsRead(n) == [i \in 1..Count |-> IF i <= n THEN config.records[i].bps ELSE 0]

\* The vector declares no more records than the account has room for.
Readable == config.header /\ Count <= Len(config.records)

\* What the first loop knows of the shares it has read.
SharesRead ==
  /\ Readable
  /\ index <= Count
  /\ \A i \in 1..index : config.records[i].bps > 0
  /\ hasFeeOwner => \E i \in 1..index : ShareAddress(i) = FeeOwner
  /\ totalBps = SumTo(BpsRead(index), Count)

\* How many accounts have been pushed at each point.
Pushed ==
  CASE pc = "wallets" -> index
    [] pc = "tokens"  -> Count + index
    [] pc = "done"    -> IF call.mode = "token" THEN 2 * Count ELSE Count
    [] OTHER          -> 0

\* The inductive invariant.
LoopInv ==
  /\ ShareholderTypeOK
  /\ pc \in {"config", "shares"} => accounts = << >> /\ index <= Count
  /\ pc = "config" => index = 0 /\ totalBps = 0 /\ hasFeeOwner = FALSE
  /\ pc = "shares" => SharesRead
  /\ pc \in {"split", "wallets", "tokens", "done"} => ConfigIsSound
  /\ pc \in {"wallets", "tokens"} => index <= Count
  /\ pc # "failed" => Len(accounts) = Pushed
  /\ pc = "tokens" => call.mode = "token"
  /\ \A i \in 1..Len(accounts) : accounts[i] = ExpectedAccount(i)

-----------------------------------------------------------------------------
\* The types of a call's parts.
LEMMA CallTypes ==
  ASSUME call \in Calls
  PROVE  /\ call \in Call
         /\ Count \in Nat
         /\ config.records \in Seq(Share)
         /\ call.remaining \in Seq(Account)
         /\ Rest = call.remaining \/ Rest = Tail(call.remaining)
<1>1. call \in Call
  BY ShareholderAssumption
<1>2. config \in SharingConfig /\ call.remaining \in Seq(Account)
  BY <1>1 DEF Call, config
<1>3. Count \in Nat /\ config.records \in Seq(Share)
  BY <1>2 DEF SharingConfig, Count
<1> QED BY <1>1, <1>2, <1>3 DEF Rest

\* The records a readable vector declares are shares.
LEMMA RecordTypes ==
  ASSUME call \in Calls, Readable, NEW i \in 1..Count
  PROVE  /\ config.records[i].bps \in Nat
         /\ ShareAddress(i) \in Addresses
<1>1. Count \in Nat /\ config.records \in Seq(Share) /\ Count <= Len(config.records)
  BY CallTypes DEF Readable
<1>2. config.records[i] \in Share
  BY <1>1
<1>3. \A n \in 0..U16Max : n \in Nat
  BY ShareholderAssumption
<1> QED BY <1>2, <1>3 DEF Share, ShareAddress

\* The shares read are natural numbers.
LEMMA BpsReadType ==
  ASSUME call \in Calls, Readable, NEW n \in Nat
  PROVE  BpsRead(n) \in [1..Count -> Nat]
  BY RecordTypes DEF BpsRead

\* Reading one more share adds it to the sum.
LEMMA SumOfSharesRead ==
  ASSUME call \in Calls, Readable, NEW n \in Nat, n < Count
  PROVE  SumTo(BpsRead(n + 1), Count) = SumTo(BpsRead(n), Count) + config.records[n + 1].bps
<1>1. PICK f, g, k : f = BpsRead(n) /\ g = BpsRead(n + 1) /\ k = n + 1
  OBVIOUS
<1>2. Count \in Nat /\ k \in 1..Count
  BY CallTypes, <1>1
<1>3. f \in [1..Count -> Int] /\ g \in [1..Count -> Int]
  <2>1. f \in [1..Count -> Nat] /\ g \in [1..Count -> Nat]
    BY <1>1, BpsReadType
  <2> QED BY <2>1
<1>4. \A i \in 1..Count : i # k => g[i] = f[i]
  BY <1>1, <1>2 DEF BpsRead
<1>5. f[k] = 0 /\ g[k] = config.records[k].bps
  BY <1>1, <1>2 DEF BpsRead
<1>6. SumTo(g, Count) = SumTo(f, Count) - f[k] + g[k]
  BY <1>2, <1>3, <1>4, SumToChange
<1>7. SumTo(f, Count) \in Int
  BY <1>2, <1>3, SumToInt
<1> QED BY <1>1, <1>5, <1>6, <1>7

-----------------------------------------------------------------------------
\* Pushing the account expected in the next place keeps the accounts in order.
LEMMA PushExpected ==
  ASSUME accounts \in Seq(Account), NEW account \in Account, NEW n \in Nat,
         Len(accounts) = n, account = ExpectedAccount(n + 1),
         \A i \in 1..Len(accounts) : accounts[i] = ExpectedAccount(i),
         accounts' = Append(accounts, account), call' = call
  PROVE  /\ accounts' \in Seq(Account)
         /\ Len(accounts') = n + 1
         /\ \A i \in 1..Len(accounts') : accounts'[i] = ExpectedAccount(i)'
<1>1. accounts' \in Seq(Account) /\ Len(accounts') = n + 1
  OBVIOUS
<1>2. ASSUME NEW i \in 1..(n + 1)
      PROVE  accounts'[i] = ExpectedAccount(i)
  <2>1. CASE i <= n
    BY <2>1
  <2>2. CASE i = n + 1
    BY <2>2
  <2> QED BY <2>1, <2>2
<1>3. ASSUME NEW i PROVE ExpectedAccount(i)' = ExpectedAccount(i)
  BY DEF ExpectedAccount, ShareAddress, Count, config
<1> QED BY <1>1, <1>2, <1>3

\* What append_shareholder_accounts does with the next share, in either loop.
LEMMA AppendKinds ==
  ASSUME ShareholderTypeOK, NEW expected \in Account, AppendAccount(expected)
  PROVE  \/ Fail
         \/ /\ accounts' = Append(accounts, expected)
            /\ index' = index + 1
            /\ used' \in Nat
            /\ UNCHANGED <<call, pc, totalBps, hasFeeOwner>>
  BY DEF AppendAccount, IsNextAccount, ShareholderTypeOK

\* A refused call keeps the invariant.
LEMMA FailKeepsInv ==
  ASSUME LoopInv, Fail
  PROVE  LoopInv'
  BY DEF LoopInv, Fail, ShareholderTypeOK, ExpectedAccount, ShareAddress, Count, config

-----------------------------------------------------------------------------
\* The invariant holds initially.
LEMMA LoopInvInit == ShareholderInit => LoopInv
<1> SUFFICES ASSUME ShareholderInit PROVE LoopInv
  OBVIOUS
<1>1. ShareholderTypeOK
  <2>1. 0 \in 0..U32Max /\ 0 \in Nat /\ << >> \in Seq(Account)
    BY ShareholderAssumption
  <2> QED BY <2>1 DEF ShareholderInit, ShareholderTypeOK
<1>2. Count \in Nat
  BY CallTypes DEF ShareholderInit
<1> QED BY <1>1, <1>2 DEF ShareholderInit, LoopInv, Pushed

\* The first step of a readable vector.
LEMMA ReadConfigKeepsInv ==
  ASSUME LoopInv, ReadConfig
  PROVE  LoopInv'
<1>1. CASE ~ VectorIsReadable /\ Fail
  BY <1>1, FailKeepsInv
<1>2. CASE VectorIsReadable /\ pc' = "shares"
           /\ UNCHANGED <<call, index, totalBps, hasFeeOwner, used, accounts>>
  <2>1. pc = "config" /\ index = 0 /\ totalBps = 0 /\ hasFeeOwner = FALSE /\ accounts = << >>
    BY DEF ReadConfig, LoopInv
  <2>2. call \in Calls /\ Count \in Nat /\ Readable
    BY <1>2, CallTypes DEF LoopInv, ShareholderTypeOK, VectorIsReadable, Readable
  <2>3. SumTo(BpsRead(0), Count) = 0
    <3>1. PICK f : f = BpsRead(0)
      OBVIOUS
    <3>2. f \in [1..Count -> Nat]
      BY <2>2, <3>1, BpsReadType
    <3>3. f \in [1..Count -> Int] /\ \A i \in 1..Count : f[i] = 0
      BY <2>2, <3>1, <3>2 DEF BpsRead
    <3> QED BY <2>2, <3>1, <3>3, SumToZero
  <2>4. SharesRead
    BY <2>1, <2>2, <2>3 DEF SharesRead
  <2>5. SharesRead'
    BY <1>2, <2>4 DEF SharesRead, Readable, ShareAddress, BpsRead, Count, config
  <2>6. ShareholderTypeOK'
    BY <1>2 DEF LoopInv, ShareholderTypeOK
  <2> QED BY <1>2, <2>1, <2>2, <2>5, <2>6 DEF LoopInv, Pushed, Count, config
<1> QED BY <1>1, <1>2 DEF ReadConfig

\* A share read keeps what is known of those before it.
LEMMA ReadShareKeepsInv ==
  ASSUME LoopInv, ReadShare
  PROVE  LoopInv'
<1> DEFINE share == config.records[index + 1]
<1>1. CASE ~ CanAddShare(share.bps) /\ Fail
  BY <1>1, FailKeepsInv
<1>2. CASE /\ CanAddShare(share.bps)
           /\ totalBps' = totalBps + share.bps
           /\ hasFeeOwner' = (hasFeeOwner \/ share.address = FeeOwner)
           /\ index' = index + 1
           /\ UNCHANGED <<call, pc, used, accounts>>
  <2>1. pc = "shares" /\ index < Count /\ SharesRead /\ index \in Nat /\ call \in Calls
        /\ Count \in Nat /\ totalBps \in Nat /\ U32Max \in Nat
    BY CallTypes, ShareholderAssumption DEF ReadShare, LoopInv, ShareholderTypeOK
  <2>2. Readable /\ index + 1 \in 1..Count
    BY <2>1 DEF SharesRead
  <2>3. share.bps \in Nat /\ share.bps > 0 /\ totalBps + share.bps <= U32Max
    BY <1>2, <2>1, <2>2, RecordTypes DEF CanAddShare
  <2>4. totalBps' = SumTo(BpsRead(index + 1), Count)
    BY <1>2, <2>1, <2>2, SumOfSharesRead DEF SharesRead
  <2>5. \A i \in 1..(index + 1) : config.records[i].bps > 0
    BY <2>1, <2>3 DEF SharesRead
  <2>6. hasFeeOwner' => \E i \in 1..(index + 1) : ShareAddress(i) = FeeOwner
    <3>1. hasFeeOwner => \E i \in 1..(index + 1) : ShareAddress(i) = FeeOwner
      BY <2>1 DEF SharesRead
    <3>2. share.address = FeeOwner => ShareAddress(index + 1) = FeeOwner
      BY DEF ShareAddress
    <3>3. index + 1 \in 1..(index + 1)
      BY <2>1
    <3> QED BY <1>2, <3>1, <3>2, <3>3
  <2>7. SharesRead'
    <3>1. config' = config /\ Count' = Count /\ index' = index + 1
      BY <1>2 DEF Count, config
    <3>2. (Readable /\ index <= Count)'
      BY <2>2, <3>1 DEF Readable
    <3>3. (\A i \in 1..index : config.records[i].bps > 0)'
      BY <2>5, <3>1
    <3>4. (hasFeeOwner => \E i \in 1..index : ShareAddress(i) = FeeOwner)'
      BY <2>6, <3>1 DEF ShareAddress
    <3>5. (totalBps = SumTo(BpsRead(index), Count))'
      BY <2>4, <3>1 DEF BpsRead
    <3> QED BY <3>2, <3>3, <3>4, <3>5 DEF SharesRead
  <2>8. ShareholderTypeOK'
    BY <1>2, <2>1, <2>3 DEF LoopInv, ShareholderTypeOK
  <2>9. accounts = << >> /\ Len(accounts) = 0
    BY <2>1 DEF LoopInv
  <2> QED BY <1>2, <2>1, <2>2, <2>7, <2>8, <2>9 DEF LoopInv, Pushed, Count, config
<1> QED BY <1>1, <1>2 DEF ReadShare

\* The checks after the first loop give a sound config.
LEMMA CheckSharesKeepsInv ==
  ASSUME LoopInv, CheckShares
  PROVE  LoopInv'
<1>1. CASE ~ SharesAreValid /\ Fail
  BY <1>1, FailKeepsInv
<1>2. CASE SharesAreValid /\ pc' = "split"
           /\ UNCHANGED <<call, index, totalBps, hasFeeOwner, used, accounts>>
  <2>1. pc = "shares" /\ index = Count /\ SharesRead /\ call \in Calls /\ Count \in Nat
        /\ accounts = << >>
    BY CallTypes DEF CheckShares, LoopInv, ShareholderTypeOK
  <2>2. BpsRead(Count) = Bps
    BY <2>1 DEF BpsRead, Bps
  <2>3. SumTo(Bps, Count) = BpsDenominator
    BY <1>2, <2>1, <2>2 DEF SharesRead, SharesAreValid
  <2>4. ConfigIsSound
    BY <1>2, <2>1, <2>3 DEF SharesRead, SharesAreValid, ConfigIsSound, Readable, Bps
  <2>5. ConfigIsSound'
    BY <1>2, <2>4 DEF ConfigIsSound, Bps, ShareAddress, Count, config
  <2>6. ShareholderTypeOK'
    BY <1>2 DEF LoopInv, ShareholderTypeOK
  <2> QED BY <1>2, <2>1, <2>5, <2>6 DEF LoopInv, Pushed
<1> QED BY <1>1, <1>2 DEF CheckShares

\* The second loop starts at the first share again.
LEMMA SplitKeepsInv ==
  ASSUME LoopInv, SplitMainLaunch
  PROVE  LoopInv'
<1>1. CASE ~ HasMainLaunch /\ Fail
  BY <1>1, FailKeepsInv
<1>2. CASE HasMainLaunch /\ pc' = "wallets" /\ index' = 0
           /\ UNCHANGED <<call, totalBps, hasFeeOwner, used, accounts>>
  <2>1. pc = "split" /\ ConfigIsSound /\ call \in Calls /\ Count \in Nat /\ Len(accounts) = 0
    BY CallTypes DEF SplitMainLaunch, LoopInv, ShareholderTypeOK, Pushed
  <2>2. ConfigIsSound'
    BY <1>2, <2>1 DEF ConfigIsSound, Bps, ShareAddress, Count, config
  <2>3. ShareholderTypeOK'
    BY <1>2 DEF LoopInv, ShareholderTypeOK
  <2> QED BY <1>2, <2>1, <2>2, <2>3 DEF LoopInv, Pushed, Count, config
<1> QED BY <1>1, <1>2 DEF SplitMainLaunch

\* A wallet pushed is the next one expected.
LEMMA AppendWalletKeepsInv ==
  ASSUME LoopInv, AppendWallet
  PROVE  LoopInv'
<1> DEFINE account == WalletOf(ShareAddress(index + 1))
<1>1. /\ pc = "wallets" /\ index < Count /\ ConfigIsSound /\ index \in Nat
      /\ call \in Calls /\ Count \in Nat /\ Len(accounts) = index
  BY CallTypes DEF AppendWallet, LoopInv, ShareholderTypeOK, Pushed
<1>2. index + 1 \in 1..Count /\ Readable
  BY <1>1 DEF ConfigIsSound, Readable
<1>3. account \in Account /\ account = ExpectedAccount(index + 1)
  BY <1>1, <1>2, RecordTypes DEF WalletOf, Account, ExpectedAccount
<1>4. CASE Fail
  BY <1>4, FailKeepsInv
<1>5. CASE /\ accounts' = Append(accounts, account)
           /\ index' = index + 1
           /\ used' \in Nat
           /\ UNCHANGED <<call, pc, totalBps, hasFeeOwner>>
  <2>1. /\ accounts' \in Seq(Account)
        /\ Len(accounts') = index + 1
        /\ \A i \in 1..Len(accounts') : accounts'[i] = ExpectedAccount(i)'
    <3> HIDE DEF account
    <3> QED BY <1>1, <1>3, <1>5, PushExpected DEF LoopInv, ShareholderTypeOK
  <2>2. ConfigIsSound'
    BY <1>1, <1>5 DEF ConfigIsSound, Bps, ShareAddress, Count, config
  <2>3. ShareholderTypeOK'
    BY <1>1, <1>5, <2>1 DEF LoopInv, ShareholderTypeOK
  <2>4. index' <= Count' /\ pc' = "wallets"
    BY <1>1, <1>5 DEF Count, config
  <2> QED BY <1>5, <2>1, <2>2, <2>3, <2>4 DEF LoopInv, Pushed
<1> QED
  <2>1. AppendAccount(account)
    BY DEF AppendWallet
  <2>2. ShareholderTypeOK
    BY DEF LoopInv
  <2> HIDE DEF account
  <2> QED BY <1>3, <1>4, <1>5, <2>1, <2>2, AppendKinds

\* The third loop starts at the first share again.
LEMMA StartTokensKeepsInv ==
  ASSUME LoopInv, StartTokenAccounts
  PROVE  LoopInv'
<1>1. pc = "wallets" /\ index = Count /\ ConfigIsSound /\ call \in Calls /\ Count \in Nat
      /\ Len(accounts) = Count
  BY CallTypes DEF StartTokenAccounts, LoopInv, ShareholderTypeOK, Pushed
<1>2. ConfigIsSound'
  BY <1>1 DEF StartTokenAccounts, ConfigIsSound, Bps, ShareAddress, Count, config
<1>3. ShareholderTypeOK'
  BY DEF StartTokenAccounts, LoopInv, ShareholderTypeOK
<1>4. \A i \in 1..Len(accounts') : accounts'[i] = ExpectedAccount(i)'
  BY DEF StartTokenAccounts, LoopInv, ExpectedAccount, ShareAddress, Count, config
<1> QED BY <1>1, <1>2, <1>3, <1>4 DEF StartTokenAccounts, LoopInv, Pushed, Count, config

\* A token account pushed is the next one expected.
LEMMA AppendTokenKeepsInv ==
  ASSUME LoopInv, AppendTokenAccount
  PROVE  LoopInv'
<1> DEFINE account == TokenAccountOf(ShareAddress(index + 1))
<1>1. /\ pc = "tokens" /\ index < Count /\ ConfigIsSound /\ index \in Nat
      /\ call \in Calls /\ Count \in Nat /\ Len(accounts) = Count + index
  BY CallTypes DEF AppendTokenAccount, LoopInv, ShareholderTypeOK, Pushed
<1>2. index + 1 \in 1..Count /\ Readable
  BY <1>1 DEF ConfigIsSound, Readable
<1>3. account \in Account /\ account = ExpectedAccount(Count + index + 1)
  <2>1. ~ (Count + index + 1 <= Count) /\ Count + index + 1 - Count = index + 1
    BY <1>1
  <2> QED BY <1>2, <2>1, <1>1, RecordTypes DEF TokenAccountOf, Account, ExpectedAccount
<1>4. CASE Fail
  BY <1>4, FailKeepsInv
<1>5. CASE /\ accounts' = Append(accounts, account)
           /\ index' = index + 1
           /\ used' \in Nat
           /\ UNCHANGED <<call, pc, totalBps, hasFeeOwner>>
  <2>1. /\ accounts' \in Seq(Account)
        /\ Len(accounts') = Count + index + 1
        /\ \A i \in 1..Len(accounts') : accounts'[i] = ExpectedAccount(i)'
    <3>1. PICK n : n = Count + index
      OBVIOUS
    <3>2. n \in Nat /\ Len(accounts) = n /\ account = ExpectedAccount(n + 1)
      BY <1>1, <1>3, <3>1
    <3> HIDE DEF account
    <3> QED BY <1>3, <1>5, <3>1, <3>2, PushExpected DEF LoopInv, ShareholderTypeOK
  <2>2. ConfigIsSound'
    BY <1>1, <1>5 DEF ConfigIsSound, Bps, ShareAddress, Count, config
  <2>3. ShareholderTypeOK'
    BY <1>1, <1>5, <2>1 DEF LoopInv, ShareholderTypeOK
  <2>4. index' <= Count' /\ pc' = "tokens" /\ Len(accounts') = Count' + index'
    <3>1. Count' = Count /\ pc' = "tokens" /\ index' = index + 1
      BY <1>1, <1>5 DEF Count, config
    <3> QED BY <1>1, <2>1, <3>1
  <2> QED BY <1>1, <1>5, <2>1, <2>2, <2>3, <2>4 DEF LoopInv, Pushed
<1> QED
  <2>1. AppendAccount(account)
    BY DEF AppendTokenAccount
  <2>2. ShareholderTypeOK
    BY DEF LoopInv
  <2> HIDE DEF account
  <2> QED BY <1>3, <1>4, <1>5, <2>1, <2>2, AppendKinds

\* The last check changes nothing but the outcome.
LEMMA CheckAllUsedKeepsInv ==
  ASSUME LoopInv, CheckAllUsed
  PROVE  LoopInv'
<1>1. CASE ~ AllAccountsUsed /\ Fail
  BY <1>1, FailKeepsInv
<1>2. CASE AllAccountsUsed /\ pc' = "done"
           /\ UNCHANGED <<call, index, totalBps, hasFeeOwner, used, accounts>>
  <2>1. ConfigIsSound /\ call \in Calls /\ Count \in Nat
        /\ Len(accounts) = IF call.mode = "token" THEN 2 * Count ELSE Count
    BY CallTypes DEF CheckAllUsed, LoopInv, ShareholderTypeOK, Pushed
  <2>2. ConfigIsSound'
    BY <1>2, <2>1 DEF ConfigIsSound, Bps, ShareAddress, Count, config
  <2>3. ShareholderTypeOK'
    BY <1>2 DEF LoopInv, ShareholderTypeOK
  <2>4. \A i \in 1..Len(accounts') : accounts'[i] = ExpectedAccount(i)'
    BY <1>2 DEF LoopInv, ExpectedAccount, ShareAddress, Count, config
  <2> QED BY <1>2, <2>1, <2>2, <2>3, <2>4 DEF LoopInv, Pushed, Count, config
<1> QED BY <1>1, <1>2 DEF CheckAllUsed

\* Every step keeps the invariant.
LEMMA LoopInvStep == LoopInv /\ [ShareholderNext]_vars => LoopInv'
<1> SUFFICES ASSUME LoopInv, [ShareholderNext]_vars PROVE LoopInv'
  OBVIOUS
<1>1. CASE UNCHANGED vars
  BY <1>1 DEF vars, LoopInv, ShareholderTypeOK, SharesRead, Readable, BpsRead, ConfigIsSound,
              Bps, Pushed, ExpectedAccount, ShareAddress, Count, config
<1>2. CASE ShareholderNext
  BY <1>2, ReadConfigKeepsInv, ReadShareKeepsInv, CheckSharesKeepsInv, SplitKeepsInv,
     AppendWalletKeepsInv, StartTokensKeepsInv, AppendTokenKeepsInv, CheckAllUsedKeepsInv
  DEF ShareholderNext
<1> QED BY <1>1, <1>2

-----------------------------------------------------------------------------
(***************************************************************************)
(* What the loops refuse.  Beside LoopInv, the invariant says how much of  *)
(* the caller's list has been matched, and that a call refused was one     *)
(* that had to be.                                                         *)
(***************************************************************************)
\* The caller's list agrees with the first n places.
MatchedTo(n) ==
  /\ used = Taken(n)
  /\ used <= Len(Rest)
  /\ \A i \in 1..n : IsTheirs(i) => Rest[Taken(i)] = ExpectedAccount(i)

ExactInv ==
  /\ pc = "failed" => ~ WellFormed
  /\ pc = "done" => WellFormed
  /\ pc = "shares" => \A i \in 1..index : ShareAddress(i) = FeeOwner => hasFeeOwner
  /\ pc \in {"config", "shares", "split"} => used = 0
  /\ pc \in {"wallets", "tokens"} => HasMainLaunch /\ MatchedTo(Len(accounts))

\* What a call is does not depend on the step.
LEMMA CallIsFixed ==
  ASSUME call' = call
  PROVE  /\ Count' = Count /\ Places' = Places /\ Rest' = Rest
         /\ WellFormed' <=> WellFormed
         /\ HasMainLaunch' <=> HasMainLaunch
         /\ \A i : /\ ShareAddress(i)' = ShareAddress(i)
                   /\ ExpectedAccount(i)' = ExpectedAccount(i)
                   /\ IsTheirs(i)' <=> IsTheirs(i)
                   /\ Taken(i)' = Taken(i)
<1>1. Count' = Count /\ Places' = Places /\ Rest' = Rest /\ config' = config
  BY DEF Count, config, Places, Rest
<1>2. ASSUME NEW i
      PROVE  /\ ShareAddress(i)' = ShareAddress(i)
             /\ ExpectedAccount(i)' = ExpectedAccount(i)
             /\ IsTheirs(i)' <=> IsTheirs(i)
  BY <1>1 DEF ShareAddress, ExpectedAccount, IsTheirs
<1>3. ASSUME NEW i PROVE Taken(i)' = Taken(i)
  BY <1>1, <1>2 DEF Taken, Theirs, IsTheirs, ExpectedAccount, ShareAddress
<1>4. HasMainLaunch' <=> HasMainLaunch
  BY DEF HasMainLaunch
<1>5. ConfigIsSound' <=> ConfigIsSound
  BY <1>1 DEF ConfigIsSound, Bps, ShareAddress
<1>6. CallerMatches' <=> CallerMatches
  BY <1>1, <1>2, <1>3 DEF CallerMatches
<1> QED BY <1>1, <1>2, <1>3, <1>4, <1>5, <1>6 DEF WellFormed

\* The places are a natural number of them, and no account is counted twice.
LEMMA TheirsType ==
  ASSUME call \in Calls, NEW n
  PROVE  /\ Places \in Nat
         /\ Theirs(n) \in [1..Places -> Nat]
         /\ Theirs(n) \in [1..Places -> Int]
<1>1. Count \in Nat
  BY CallTypes
<1>2. Places \in Nat
  BY <1>1 DEF Places
<1>3. Theirs(n) \in [1..Places -> Nat]
  BY DEF Theirs
<1> QED BY <1>2, <1>3

\* The caller's accounts are counted one place at a time.
LEMMA TakenSteps ==
  ASSUME call \in Calls
  PROVE  /\ Taken(0) = 0
         /\ \A n \in 0..Places : Taken(n) \in Nat
         /\ \A n \in 0..Places : n < Places =>
              Taken(n + 1) = Taken(n) + (IF IsTheirs(n + 1) THEN 1 ELSE 0)
         /\ \A n \in 0..Places : Taken(n) <= Taken(Places)
<1>1. Places \in Nat
  BY TheirsType
<1>2. Taken(0) = 0
  <2>1. PICK f : f = Theirs(0)
    OBVIOUS
  <2>2. f \in [1..Places -> Int] /\ \A i \in 1..Places : f[i] = 0
    BY <1>1, <2>1, TheirsType DEF Theirs
  <2> QED BY <1>1, <2>1, <2>2, SumToZero DEF Taken
<1>3. ASSUME NEW n \in 0..Places, NEW m \in 0..Places, n <= m
      PROVE  Taken(n) \in Int /\ Taken(m) \in Int /\ Taken(n) <= Taken(m)
  <2>1. PICK f, g : f = Theirs(n) /\ g = Theirs(m)
    OBVIOUS
  <2>2. f \in [1..Places -> Int] /\ g \in [1..Places -> Int]
    BY <2>1, TheirsType
  <2>3. \A i \in 1..Places : f[i] <= g[i]
    BY <1>1, <1>3, <2>1 DEF Theirs
  <2> QED BY <1>1, <2>1, <2>2, <2>3, SumToMonotone, SumToInt DEF Taken
<1>4. ASSUME NEW n \in 0..Places
      PROVE  Taken(n) \in Nat /\ Taken(n) <= Taken(Places)
  <2>1. 0 \in 0..Places /\ Places \in 0..Places /\ 0 <= n /\ n <= Places
    BY <1>1
  <2>2. Taken(0) <= Taken(n) /\ Taken(n) \in Int /\ Taken(n) <= Taken(Places)
    BY <1>3, <2>1
  <2> QED BY <1>2, <2>2
<1>5. ASSUME NEW n \in 0..Places, n < Places
      PROVE  Taken(n + 1) = Taken(n) + (IF IsTheirs(n + 1) THEN 1 ELSE 0)
  <2>1. PICK f, g, k : f = Theirs(n) /\ g = Theirs(n + 1) /\ k = n + 1
    OBVIOUS
  <2>2. f \in [1..Places -> Int] /\ g \in [1..Places -> Int] /\ k \in 1..Places
    BY <1>1, <1>5, <2>1, TheirsType
  <2>3. \A i \in 1..Places : i # k => g[i] = f[i]
    BY <1>1, <2>1 DEF Theirs
  <2>4. f[k] = 0 /\ g[k] = IF IsTheirs(k) THEN 1 ELSE 0
    BY <1>1, <2>1, <2>2 DEF Theirs
  <2>5. SumTo(g, Places) = SumTo(f, Places) - f[k] + g[k] /\ SumTo(f, Places) \in Int
    BY <1>1, <2>2, <2>3, SumToChange, SumToInt
  <2> QED BY <2>1, <2>4, <2>5 DEF Taken
<1> QED BY <1>2, <1>4, <1>5

\* What fails while a call that is not well-formed is read keeps the invariant.
LEMMA FailIsExact ==
  ASSUME Fail, ~ WellFormed
  PROVE  ExactInv'
  BY CallIsFixed DEF Fail, ExactInv

\* The first step refuses only vectors that do not fit their account.
LEMMA ReadConfigIsExact ==
  ASSUME LoopInv, ExactInv, ReadConfig
  PROVE  ExactInv'
<1>1. CASE ~ VectorIsReadable /\ Fail
  BY <1>1, FailIsExact DEF VectorIsReadable, WellFormed, ConfigIsSound
<1>2. CASE VectorIsReadable /\ pc' = "shares"
           /\ UNCHANGED <<call, index, totalBps, hasFeeOwner, used, accounts>>
  <2>1. index' = 0 /\ used' = 0
    BY <1>2 DEF ReadConfig, LoopInv, ExactInv
  <2> QED BY <1>2, <2>1 DEF ExactInv
<1> QED BY <1>1, <1>2 DEF ReadConfig

\* The sum of the shares read is at most the sum of all.
LEMMA SumReadIsPart ==
  ASSUME call \in Calls, Readable, NEW n \in 0..Count
  PROVE  SumTo(BpsRead(n), Count) \in Int /\ SumTo(BpsRead(n), Count) <= SumTo(Bps, Count)
<1>1. Count \in Nat
  BY CallTypes
<1>2. PICK f, g : f = BpsRead(n) /\ g = Bps
  OBVIOUS
<1>3. f \in [1..Count -> Int] /\ g \in [1..Count -> Int] /\ \A i \in 1..Count : f[i] <= g[i]
  <2>1. ASSUME NEW i \in 1..Count
        PROVE  f[i] \in Nat /\ g[i] \in Nat /\ f[i] <= g[i]
    BY <1>2, RecordTypes DEF BpsRead, Bps
  <2>2. f = [i \in 1..Count |-> f[i]] /\ g = [i \in 1..Count |-> g[i]]
    BY <1>2 DEF BpsRead, Bps
  <2> QED BY <2>1, <2>2
<1> QED BY <1>1, <1>2, <1>3, SumToMonotone, SumToInt

\* A share is refused only if it is empty or takes the sum past the whole.
LEMMA ReadShareIsExact ==
  ASSUME LoopInv, ExactInv, ReadShare
  PROVE  ExactInv'
<1> DEFINE share == config.records[index + 1]
<1>1. /\ pc = "shares" /\ index < Count /\ SharesRead /\ index \in Nat /\ call \in Calls
      /\ Count \in Nat /\ totalBps \in Nat
  BY CallTypes, ShareholderAssumption DEF ReadShare, LoopInv, ShareholderTypeOK
<1>2. Readable /\ index + 1 \in 1..Count /\ share.bps \in Nat
  <2>1. Readable /\ index + 1 \in 1..Count
    BY <1>1 DEF SharesRead
  <2> QED BY <1>1, <2>1, RecordTypes
<1>3. CASE ~ CanAddShare(share.bps) /\ Fail
  <2>1. CASE ~ (share.bps > 0)
    <3>1. Bps[index + 1] = share.bps
      BY <1>2 DEF Bps
    <3>2. ~ ConfigIsSound
      BY <1>2, <2>1, <3>1 DEF ConfigIsSound
    <3> QED BY <1>3, <3>2, FailIsExact DEF WellFormed
  <2>2. CASE totalBps + share.bps > U32Max
    <3>1. SumTo(BpsRead(index + 1), Count) = totalBps + share.bps
      BY <1>1, <1>2, SumOfSharesRead DEF SharesRead
    <3>2. index + 1 \in 0..Count
      BY <1>1
    <3>3. SumTo(BpsRead(index + 1), Count) <= SumTo(Bps, Count)
      BY <1>1, <1>2, <3>2, SumReadIsPart
    <3>4. SumTo(Bps, Count) # BpsDenominator
      <4>1. SUFFICES ASSUME SumTo(Bps, Count) = BpsDenominator PROVE FALSE
        OBVIOUS
      <4>2. PICK whole : whole = BpsDenominator
        OBVIOUS
      <4>3. totalBps + share.bps <= whole /\ whole <= U32Max /\ whole \in Nat /\ U32Max \in Nat
        BY <3>1, <3>3, <4>1, <4>2, ShareholderAssumption DEF BpsDenominator
      <4> HIDE DEF share
      <4> QED BY <1>1, <1>2, <2>2, <4>3
    <3> QED BY <1>3, <3>4, FailIsExact DEF WellFormed, ConfigIsSound
  <2>3. ~ (share.bps > 0) \/ totalBps + share.bps > U32Max
    <3>1. U32Max \in Nat
      BY ShareholderAssumption
    <3> HIDE DEF share
    <3> QED BY <1>1, <1>2, <1>3, <3>1 DEF CanAddShare
  <2> QED BY <2>1, <2>2, <2>3
<1>4. CASE /\ CanAddShare(share.bps)
           /\ totalBps' = totalBps + share.bps
           /\ hasFeeOwner' = (hasFeeOwner \/ share.address = FeeOwner)
           /\ index' = index + 1
           /\ UNCHANGED <<call, pc, used, accounts>>
  <2>1. ASSUME NEW i \in 1..(index + 1), ShareAddress(i) = FeeOwner
        PROVE  hasFeeOwner'
    <3>1. CASE i \in 1..index
      BY <1>1, <1>4, <2>1, <3>1 DEF ExactInv
    <3>2. CASE i = index + 1
      BY <1>4, <2>1, <3>2 DEF ShareAddress
    <3> QED BY <1>1, <3>1, <3>2
  <2>2. pc' = "shares" /\ used' = 0
    BY <1>1, <1>4 DEF ExactInv
  <2> QED BY <1>4, <2>1, <2>2, CallIsFixed DEF ExactInv
<1> QED BY <1>3, <1>4 DEF ReadShare

\* The checks after the first loop refuse only vectors that are not sound.
LEMMA CheckSharesIsExact ==
  ASSUME LoopInv, ExactInv, CheckShares
  PROVE  ExactInv'
<1>1. pc = "shares" /\ index = Count /\ SharesRead /\ call \in Calls /\ Count \in Nat
  BY CallTypes DEF CheckShares, LoopInv, ShareholderTypeOK
<1>2. CASE ~ SharesAreValid /\ Fail
  <2>1. BpsRead(Count) = Bps
    BY <1>1 DEF BpsRead, Bps
  <2>2. totalBps = SumTo(Bps, Count)
    BY <1>1, <2>1 DEF SharesRead
  <2>3. (\E i \in 1..Count : ShareAddress(i) = FeeOwner) => hasFeeOwner
    BY <1>1 DEF ExactInv
  <2>4. ~ ConfigIsSound
    BY <1>2, <2>2, <2>3 DEF ConfigIsSound, SharesAreValid
  <2> QED BY <1>2, <2>4, FailIsExact DEF WellFormed
<1>3. CASE SharesAreValid /\ pc' = "split"
           /\ UNCHANGED <<call, index, totalBps, hasFeeOwner, used, accounts>>
  BY <1>1, <1>3 DEF ExactInv
<1> QED BY <1>2, <1>3 DEF CheckShares

\* Before the second loop nothing has been matched.
LEMMA SplitIsExact ==
  ASSUME LoopInv, ExactInv, SplitMainLaunch
  PROVE  ExactInv'
<1>1. CASE ~ HasMainLaunch /\ Fail
  BY <1>1, FailIsExact DEF WellFormed
<1>2. CASE HasMainLaunch /\ pc' = "wallets" /\ index' = 0
           /\ UNCHANGED <<call, totalBps, hasFeeOwner, used, accounts>>
  <2>1. pc = "split" /\ call \in Calls /\ Len(accounts) = 0 /\ used = 0
    BY DEF SplitMainLaunch, LoopInv, ExactInv, ShareholderTypeOK, Pushed
  <2>2. Len(Rest) \in Nat /\ Taken(0) = 0
    <3>1. call.remaining \in Seq(Account)
      BY <2>1, CallTypes
    <3>2. call.mode = "other" => call.remaining # << >>
      BY <1>2 DEF HasMainLaunch
    <3>3. Rest \in Seq(Account)
      BY <3>1, <3>2 DEF Rest
    <3> QED BY <2>1, <3>3, TakenSteps
  <2>3. MatchedTo(0)
    BY <2>1, <2>2 DEF MatchedTo
  <2>4. MatchedTo(0)'
    BY <1>2, <2>3, CallIsFixed DEF MatchedTo
  <2> QED BY <1>2, <2>1, <2>4, CallIsFixed DEF ExactInv
<1> QED BY <1>1, <1>2 DEF SplitMainLaunch

\* An account that is not the one expected is one that should not be accepted,
\* and the one expected extends the match by a place.
LEMMA AppendIsExact ==
  ASSUME LoopInv, HasMainLaunch, NEW n \in Nat, n = Len(accounts), n < Places, MatchedTo(n),
         NEW expected, expected = ExpectedAccount(n + 1), AppendAccount(expected)
  PROVE  \/ Fail /\ ~ WellFormed
         \/ /\ pc' = pc /\ call' = call
            /\ Len(accounts') = n + 1
            /\ MatchedTo(n + 1)'
<1>1. call \in Calls /\ used \in Nat /\ accounts \in Seq(Account) /\ Places \in Nat
  BY TheirsType DEF LoopInv, ShareholderTypeOK
<1>2. n \in 0..Places /\ n + 1 \in 1..Places /\ n + 1 \in 0..Places
  BY <1>1
<1>3. IsTheirs(n + 1) <=> expected.of # FeeOwner
  BY DEF IsTheirs
<1>4. /\ Taken(n + 1) = Taken(n) + (IF IsTheirs(n + 1) THEN 1 ELSE 0)
      /\ Taken(n) \in Nat /\ Taken(n + 1) \in Nat
      /\ Taken(n + 1) <= Taken(Places) /\ Taken(Places) \in Nat
  <2>1. Places \in 0..Places
    BY <1>1
  <2> QED BY <1>1, <1>2, <2>1, TakenSteps
<1>5. Len(Rest) \in Nat
  <2>1. call.remaining \in Seq(Account)
    BY <1>1, CallTypes
  <2>2. Rest \in Seq(Account)
    BY <2>1 DEF Rest, HasMainLaunch
  <2> QED BY <2>2
<1>6. CASE expected.of # FeeOwner /\ ~ IsNextAccount(expected) /\ Fail
  <2>1. SUFFICES ASSUME CallerMatches PROVE FALSE
    BY <1>6 DEF WellFormed
  <2>2. Rest[Taken(n + 1)] = expected /\ Len(Rest) = Taken(Places)
    BY <1>2, <1>3, <1>6, <2>1 DEF CallerMatches
  <2>3. Taken(n + 1) = used + 1 /\ used < Len(Rest)
    BY <1>3, <1>4, <1>6, <1>5, <2>2 DEF MatchedTo
  <2> QED BY <1>6, <2>2, <2>3 DEF IsNextAccount
<1>7. ASSUME call' = call, used' = Taken(n + 1), used' <= Len(Rest),
             IsTheirs(n + 1) => Rest[Taken(n + 1)] = expected
      PROVE  MatchedTo(n + 1)'
  <2>1. ASSUME NEW i \in 1..(n + 1), IsTheirs(i)
        PROVE  Rest[Taken(i)] = ExpectedAccount(i)
    <3>1. CASE i \in 1..n
      BY <2>1, <3>1 DEF MatchedTo
    <3>2. CASE i = n + 1
      BY <1>7, <2>1, <3>2
    <3> QED BY <3>1, <3>2
  <2> QED BY <1>7, <2>1, CallIsFixed DEF MatchedTo
<1>8. CASE /\ expected.of = FeeOwner
           /\ accounts' = Append(accounts, expected)
           /\ UNCHANGED <<call, pc, used>>
  <2>1. Len(accounts') = n + 1
    BY <1>1, <1>8
  <2>2. used' = Taken(n + 1) /\ used' <= Len(Rest)
    BY <1>3, <1>4, <1>8 DEF MatchedTo
  <2> QED BY <1>3, <1>7, <1>8, <2>1, <2>2
<1>9. CASE /\ expected.of # FeeOwner
           /\ IsNextAccount(expected)
           /\ accounts' = Append(accounts, Rest[used + 1])
           /\ used' = used + 1
           /\ UNCHANGED <<call, pc>>
  <2>1. Len(accounts') = n + 1
    BY <1>1, <1>9
  <2>2. used' = Taken(n + 1) /\ used' <= Len(Rest) /\ Rest[Taken(n + 1)] = expected
    BY <1>1, <1>3, <1>4, <1>5, <1>9 DEF MatchedTo, IsNextAccount
  <2> QED BY <1>7, <1>9, <2>1, <2>2
<1> QED BY <1>6, <1>8, <1>9 DEF AppendAccount

\* The second loop refuses only lists that do not match.
LEMMA AppendWalletIsExact ==
  ASSUME LoopInv, ExactInv, AppendWallet
  PROVE  ExactInv'
<1>1. /\ pc = "wallets" /\ index < Count /\ index \in Nat /\ call \in Calls /\ Count \in Nat
      /\ Len(accounts) = index /\ HasMainLaunch /\ MatchedTo(index)
  BY CallTypes DEF AppendWallet, LoopInv, ExactInv, ShareholderTypeOK, Pushed
<1>2. PICK expected, n : expected = WalletOf(ShareAddress(index + 1)) /\ n = index
  OBVIOUS
<1>3. n \in Nat /\ n = Len(accounts) /\ n < Places /\ MatchedTo(n)
  BY <1>1, <1>2 DEF Places
<1>4. expected = ExpectedAccount(n + 1)
  BY <1>1, <1>2 DEF ExpectedAccount
<1>5. AppendAccount(expected)
  BY <1>2 DEF AppendWallet
<1>6. \/ Fail /\ ~ WellFormed
      \/ pc' = pc /\ call' = call /\ Len(accounts') = n + 1 /\ MatchedTo(n + 1)'
  BY <1>1, <1>3, <1>4, <1>5, AppendIsExact
<1>7. CASE pc' = pc /\ call' = call /\ Len(accounts') = n + 1 /\ MatchedTo(n + 1)'
  <2>1. MatchedTo(Len(accounts))'
    BY <1>7 DEF MatchedTo
  <2> QED BY <1>1, <1>7, <2>1, CallIsFixed DEF ExactInv
<1> QED BY <1>6, <1>7, FailIsExact

\* Between the loops the match stays.
LEMMA StartTokensIsExact ==
  ASSUME LoopInv, ExactInv, StartTokenAccounts
  PROVE  ExactInv'
<1>1. MatchedTo(Len(accounts)) /\ HasMainLaunch
  BY DEF StartTokenAccounts, ExactInv
<1>2. MatchedTo(Len(accounts))'
  BY <1>1, CallIsFixed DEF StartTokenAccounts, MatchedTo
<1> QED BY <1>1, <1>2, CallIsFixed DEF StartTokenAccounts, ExactInv

\* The third loop refuses only lists that do not match.
LEMMA AppendTokenIsExact ==
  ASSUME LoopInv, ExactInv, AppendTokenAccount
  PROVE  ExactInv'
<1>1. /\ pc = "tokens" /\ index < Count /\ index \in Nat /\ call \in Calls /\ Count \in Nat
      /\ Len(accounts) = Count + index /\ HasMainLaunch /\ MatchedTo(Count + index)
      /\ call.mode = "token"
  BY CallTypes DEF AppendTokenAccount, LoopInv, ExactInv, ShareholderTypeOK, Pushed
<1>2. PICK expected, n : expected = TokenAccountOf(ShareAddress(index + 1)) /\ n = Count + index
  OBVIOUS
<1>3. n \in Nat /\ n = Len(accounts) /\ n < Places /\ MatchedTo(n)
  BY <1>1, <1>2 DEF Places
<1>4. expected = ExpectedAccount(n + 1)
  <2>1. PICK place, j : place = n + 1 /\ j = place - Count
    OBVIOUS
  <2>2. ~ (place <= Count) /\ j = index + 1
    BY <1>1, <1>2, <2>1
  <2>3. ExpectedAccount(place) = TokenAccountOf(ShareAddress(j))
    BY <2>1, <2>2, Zenon DEF ExpectedAccount
  <2> QED BY <1>2, <2>1, <2>2, <2>3
<1>5. AppendAccount(expected)
  BY <1>2 DEF AppendTokenAccount
<1>6. \/ Fail /\ ~ WellFormed
      \/ pc' = pc /\ call' = call /\ Len(accounts') = n + 1 /\ MatchedTo(n + 1)'
  BY <1>1, <1>3, <1>4, <1>5, AppendIsExact
<1>7. CASE pc' = pc /\ call' = call /\ Len(accounts') = n + 1 /\ MatchedTo(n + 1)'
  <2>1. MatchedTo(Len(accounts))'
    BY <1>7 DEF MatchedTo
  <2> QED BY <1>1, <1>7, <2>1, CallIsFixed DEF ExactInv
<1> QED BY <1>6, <1>7, FailIsExact

\* The last check accepts a list that has been used up, and refuses one that has
\* accounts left over.
LEMMA CheckAllUsedIsExact ==
  ASSUME LoopInv, ExactInv, CheckAllUsed
  PROVE  ExactInv'
<1>1. /\ call \in Calls /\ Count \in Nat /\ ConfigIsSound /\ HasMainLaunch
      /\ Len(accounts) = Places /\ MatchedTo(Places)
  <2>1. call \in Calls /\ ConfigIsSound /\ HasMainLaunch /\ MatchedTo(Len(accounts))
    BY DEF CheckAllUsed, LoopInv, ExactInv, ShareholderTypeOK
  <2>2. Count \in Nat
    BY <2>1, CallTypes
  <2>3. Len(accounts) = Places
    BY <2>2 DEF CheckAllUsed, LoopInv, Pushed, Places
  <2> QED BY <2>1, <2>2, <2>3
<1>2. CASE ~ AllAccountsUsed /\ Fail
  <2>1. ~ CallerMatches
    BY <1>1, <1>2 DEF AllAccountsUsed, CallerMatches, MatchedTo
  <2> QED BY <1>2, <2>1, FailIsExact DEF WellFormed
<1>3. CASE AllAccountsUsed /\ pc' = "done"
           /\ UNCHANGED <<call, index, totalBps, hasFeeOwner, used, accounts>>
  <2>1. CallerMatches
    BY <1>1, <1>3 DEF AllAccountsUsed, CallerMatches, MatchedTo
  <2> QED BY <1>1, <1>3, <2>1, CallIsFixed DEF ExactInv, WellFormed
<1> QED BY <1>2, <1>3 DEF CheckAllUsed

\* Every step keeps the invariant.
LEMMA ExactInvStep == LoopInv /\ ExactInv /\ [ShareholderNext]_vars => ExactInv'
<1> SUFFICES ASSUME LoopInv, ExactInv, [ShareholderNext]_vars PROVE ExactInv'
  OBVIOUS
<1>1. CASE UNCHANGED vars
  <2>1. /\ call' = call /\ pc' = pc /\ index' = index /\ hasFeeOwner' = hasFeeOwner
        /\ used' = used /\ accounts' = accounts
    BY <1>1 DEF vars
  <2>2. MatchedTo(Len(accounts))' <=> MatchedTo(Len(accounts))
    BY <2>1, CallIsFixed DEF MatchedTo
  <2> QED BY <2>1, <2>2, CallIsFixed DEF ExactInv
<1>2. CASE ShareholderNext
  BY <1>2, ReadConfigIsExact, ReadShareIsExact, CheckSharesIsExact, SplitIsExact,
     AppendWalletIsExact, StartTokensIsExact, AppendTokenIsExact, CheckAllUsedIsExact
  DEF ShareholderNext
<1> QED BY <1>1, <1>2

-----------------------------------------------------------------------------
\* The loops keep their types: the checked sum stays in its width.
THEOREM ShareholderTypeCorrect == ShareholderSpec => []ShareholderTypeOK
<1>1. LoopInv => ShareholderTypeOK
  BY DEF LoopInv
<1> QED BY <1>1, LoopInvInit, LoopInvStep, PTL DEF ShareholderSpec

\* Whatever vector require_pump_sharing_config lets through adds up to the
\* whole, with a positive share for fee_owner.
THEOREM SharesAlwaysAddUp == ShareholderSpec => []SharesAddUp
<1>1. LoopInv => SharesAddUp
  BY DEF LoopInv, SharesAddUp
<1> QED BY <1>1, LoopInvInit, LoopInvStep, PTL DEF ShareholderSpec

\* Whatever the caller passes, Pump.fun gets the shareholders' accounts in the
\* order of their shares.
THEOREM AccountsAlwaysFollowShares == ShareholderSpec => []AccountsFollowShares
<1>1. LoopInv => AccountsFollowShares
  BY DEF LoopInv, AccountsFollowShares, Pushed
<1> QED BY <1>1, LoopInvInit, LoopInvStep, PTL DEF ShareholderSpec

\* require_pump_sharing_config, main_reward_remaining_accounts and
\* append_shareholder_accounts together accept exactly the well-formed calls, for
\* vectors and lists of any length: no sound claim is refused.
THEOREM LoopsAlwaysAcceptExactly == ShareholderSpec => []LoopsAcceptExactly
<1>1. ShareholderInit => ExactInv
  BY DEF ShareholderInit, ExactInv
<1>2. LoopInv /\ ExactInv => LoopsAcceptExactly
  BY DEF ExactInv, LoopsAcceptExactly, Ended
<1> QED BY <1>1, <1>2, LoopInvInit, LoopInvStep, ExactInvStep, PTL DEF ShareholderSpec
=============================================================================
