--------------------------- MODULE QuoteHistoryProofs ---------------------------
(***************************************************************************)
(* The lifetime properties of the quote side, for any number of launches,  *)
(* owners and quote mints, any precision and any amounts.  The kinds of    *)
(* steps of QuoteProofs decide what is recorded of a pool: nothing, a      *)
(* credit and what each recorded weight earns of it, or a payment to one   *)
(* owner.  How far the reserve can fall short needs no condition here:     *)
(* what QuoteOwedBounded excludes is counted instead.                      *)
(***************************************************************************)
EXTENDS QuoteHistory, QuoteProofs

USE DEF Owners

\* The memory of one pool is well typed.
QuoteMemoryTypes(l, q) ==
  /\ quoteCredited[l][q] \in Nat
  /\ sharedTwice[l][q] \in Nat
  /\ quoteReceived[l][q] \in [Owners -> Nat]
  /\ quoteAccrued[l][q] \in [Owners -> Nat]
  /\ quoteReweighed[l][q] \in [Owners -> Nat]

\* The lifetime of one owner in pool q of launch l.
OwnerLifetime(l, q, o) ==
  LET settled == Precision * quoteReceived[l][q][o] + QuoteOwed(l, q)[o]
      slack   == (Precision - 1) * quoteReweighed[l][q][o]
  IN  /\ quoteAccrued[l][q][o] <= settled + slack
      /\ settled <= quoteAccrued[l][q][o] + slack

\* What pool q of launch l can owe beyond its reserve.
Shortage(l, q) ==
  SumTo(QuoteOwed(l, q), NumOwners)
    <= Precision * quotePool[l][q].rewardReserve
         + (Precision - 1) * quoteEntries[l][q] + sharedTwice[l][q]

\* The books of one pool agree with its memory.
QuoteMemory(l, q) ==
  /\ QuoteMemoryTypes(l, q)
  /\ quoteCredited[l][q]
       = quotePool[l][q].rewardReserve + SumTo(quoteReceived[l][q], NumOwners)
  /\ \A o \in Owners : OwnerLifetime(l, q, o)
  /\ Shortage(l, q)

\* The inductive invariant.
QuoteMemoryInv == \A l \in Launches, q \in Quotes : QuoteMemory(l, q)

-----------------------------------------------------------------------------
(***************************************************************************)
(* What is recorded.                                                       *)
(***************************************************************************)
\* The memory of a pool holds naturals.
LEMMA QuoteMemoryFields ==
  ASSUME NEW m \in Launches, NEW p \in Quotes, QuoteMemory(m, p)
  PROVE  /\ quoteCredited[m][p] \in Nat /\ sharedTwice[m][p] \in Nat
         /\ quoteReceived[m][p] \in [1..NumOwners -> Nat]
         /\ \A o \in Owners : /\ quoteReceived[m][p][o] \in Nat
                              /\ quoteAccrued[m][p][o] \in Nat
                              /\ quoteReweighed[m][p][o] \in Nat
<1>1. QuoteMemoryTypes(m, p)
  BY DEF QuoteMemory
<1> QED BY <1>1 DEF QuoteMemoryTypes

\* What a pool remembers after a step, as a whole and of one owner.
LEMMA QuoteRecordAt ==
  ASSUME QuoteRecord, NEW m \in Launches, NEW p \in Quotes
  PROVE  /\ quoteCredited'[m][p] = quoteCredited[m][p] + QuoteInflow(m, p)
         /\ sharedTwice'[m][p] = sharedTwice[m][p] + QuoteExcess(m, p)
         /\ quoteReceived'[m][p] = [o \in Owners |-> quoteReceived'[m][p][o]]
         /\ quoteAccrued'[m][p] = [o \in Owners |-> quoteAccrued'[m][p][o]]
         /\ quoteReweighed'[m][p] = [o \in Owners |-> quoteReweighed'[m][p][o]]
  BY DEF QuoteRecord

LEMMA QuoteRecordOwner ==
  ASSUME QuoteRecord, NEW m \in Launches, NEW p \in Quotes, NEW o \in Owners
  PROVE  /\ quoteReceived'[m][p][o] = quoteReceived[m][p][o]
              + (IF quoteStake'[m][o][p] # quoteStake[m][o][p] THEN QuoteOutflow(m, p) ELSE 0)
         /\ quoteAccrued'[m][p][o] = quoteAccrued[m][p][o]
              + QuoteIncrement(m, p) * quoteStake[m][o][p].recordedWeight
         /\ quoteReweighed'[m][p][o] = quoteReweighed[m][p][o]
              + (IF quoteStake'[m][o][p].recordedWeight # quoteStake[m][o][p].recordedWeight
                 THEN 1 ELSE 0)
  BY DEF QuoteRecord

\* An owner whose quote stake stays is paid nothing.
LEMMA OwnerUnpaid ==
  ASSUME QuoteRecord, NEW m \in Launches, NEW p \in Quotes, QuoteMemory(m, p), NEW o \in Owners,
         quoteStake'[m][o][p] = quoteStake[m][o][p]
  PROVE  /\ quoteReceived'[m][p][o] = quoteReceived[m][p][o]
         /\ quoteReweighed'[m][p][o] = quoteReweighed[m][p][o]
<1>1. PICK r, n : r = quoteReceived[m][p][o] /\ n = quoteReweighed[m][p][o]
  OBVIOUS
<1>2. r \in Nat /\ n \in Nat
  BY <1>1, QuoteMemoryFields
<1>3. quoteReceived'[m][p][o] = r + 0 /\ quoteReweighed'[m][p][o] = n + 0
  BY <1>1, QuoteRecordOwner
<1> QED BY <1>1, <1>2, <1>3

\* When no quote stake changes, the payments stay.
LEMMA PaymentsStay ==
  ASSUME QuoteRecord, NEW m \in Launches, NEW p \in Quotes, QuoteMemory(m, p), StakesSame(m, p)
  PROVE  /\ quoteReceived'[m][p] = quoteReceived[m][p]
         /\ quoteReweighed'[m][p] = quoteReweighed[m][p]
<1>1. /\ quoteReceived[m][p] = [o \in Owners |-> quoteReceived[m][p][o]]
      /\ quoteReweighed[m][p] = [o \in Owners |-> quoteReweighed[m][p][o]]
      /\ quoteReceived'[m][p] = [o \in Owners |-> quoteReceived'[m][p][o]]
      /\ quoteReweighed'[m][p] = [o \in Owners |-> quoteReweighed'[m][p][o]]
  BY QuoteRecordAt DEF QuoteMemory, QuoteMemoryTypes
<1>2. ASSUME NEW o \in Owners
      PROVE  /\ quoteReceived'[m][p][o] = quoteReceived[m][p][o]
             /\ quoteReweighed'[m][p][o] = quoteReweighed[m][p][o]
  BY OwnerUnpaid DEF StakesSame
<1> QED BY <1>1, <1>2

\* When the accumulator stays, nothing is credited, earned or shared twice.
LEMMA EarningsStay ==
  ASSUME QuoteTypeOK, QuoteRecord, NEW m \in Launches, NEW p \in Quotes, QuoteMemory(m, p),
         quotePool'[m][p].accRewardPerWeight = quotePool[m][p].accRewardPerWeight
  PROVE  /\ quoteCredited'[m][p] = quoteCredited[m][p]
         /\ sharedTwice'[m][p] = sharedTwice[m][p]
         /\ quoteAccrued'[m][p] = quoteAccrued[m][p]
<1>1. QuoteIncrement(m, p) = 0
  BY QuotePoolTypes DEF QuoteIncrement
<1>2. QuoteInflow(m, p) = 0 /\ QuoteExcess(m, p) = 0
  BY <1>1 DEF QuoteInflow, QuoteExcess
<1>3. quoteCredited'[m][p] = quoteCredited[m][p] /\ sharedTwice'[m][p] = sharedTwice[m][p]
  <2>1. quoteCredited[m][p] + 0 = quoteCredited[m][p] /\ sharedTwice[m][p] + 0 = sharedTwice[m][p]
    BY QuoteMemoryFields
  <2> QED BY <1>2, <2>1, QuoteRecordAt
<1>4. ASSUME NEW o \in Owners PROVE quoteAccrued'[m][p][o] = quoteAccrued[m][p][o]
  <2>1. PICK a, w : a = quoteAccrued[m][p][o] /\ w = quoteStake[m][o][p].recordedWeight
    OBVIOUS
  <2>2. a \in Nat /\ w \in Nat
    BY <2>1, QuoteMemoryFields, QuoteStakeTypes
  <2>3. quoteAccrued'[m][p][o] = a + 0 * w
    BY <1>1, <2>1, QuoteRecordOwner
  <2> QED BY <2>1, <2>2, <2>3
<1>5. /\ quoteAccrued[m][p] = [o \in Owners |-> quoteAccrued[m][p][o]]
      /\ quoteAccrued'[m][p] = [o \in Owners |-> quoteAccrued'[m][p][o]]
  BY QuoteRecordAt DEF QuoteMemory, QuoteMemoryTypes
<1> QED BY <1>3, <1>4, <1>5

-----------------------------------------------------------------------------
(***************************************************************************)
(* Each kind of step keeps the books and the memory in agreement.          *)
(***************************************************************************)
\* What moves tokens or fees leaves no memory.
LEMMA MovedMemory ==
  ASSUME QuoteTypeOK, QuoteRecord, NEW m \in Launches, NEW p \in Quotes, QuoteMemory(m, p),
         QuoteMoved(m, p)
  PROVE  QuoteMemory(m, p)'
<1>1. /\ quoteReceived'[m][p] = quoteReceived[m][p]
      /\ quoteReweighed'[m][p] = quoteReweighed[m][p]
  BY PaymentsStay DEF QuoteMoved
<1>2. /\ quoteCredited'[m][p] = quoteCredited[m][p] /\ sharedTwice'[m][p] = sharedTwice[m][p]
      /\ quoteAccrued'[m][p] = quoteAccrued[m][p]
  BY EarningsStay DEF QuoteMoved
<1>3. /\ quotePool'[m][p].rewardReserve = quotePool[m][p].rewardReserve
      /\ QuoteOwed(m, p)' = QuoteOwed(m, p) /\ quoteEntries'[m][p] = quoteEntries[m][p]
  BY DEF QuoteMoved, StakesSame, QuoteOwed
<1>4. QuoteMemoryTypes(m, p)'
  BY <1>1, <1>2 DEF QuoteMemory, QuoteMemoryTypes
<1>5. ASSUME NEW o \in Owners PROVE OwnerLifetime(m, p, o)'
  <2>1. OwnerLifetime(m, p, o)
    BY DEF QuoteMemory
  <2> QED BY <1>1, <1>2, <1>3, <2>1 DEF OwnerLifetime
<1>6. Shortage(m, p)'
  BY <1>2, <1>3 DEF QuoteMemory, Shortage
<1> QED BY <1>1, <1>2, <1>3, <1>4, <1>5, <1>6 DEF QuoteMemory

\* A credit that is shared by more weight than it is divided by is exceeded by
\* what the excess of weight is given.
LEMMA ExcessCovered ==
  ASSUME NEW inc \in Nat, NEW sw \in Int, NEW total \in Nat, NEW credit \in Int,
         inc * total <= credit
  PROVE  /\ inc * Larger(sw - total, 0) \in Nat
         /\ inc * sw <= credit + inc * Larger(sw - total, 0)
<1>1. CASE sw >= total
  <2>1. PICK x : x \in Nat /\ x = sw - total
    BY <1>1
  <2>2. Larger(sw - total, 0) = x
    BY <2>1 DEF Larger
  <2>3. PICK ix, it : ix = inc * x /\ it = inc * total /\ ix \in Nat /\ it \in Nat
    BY <2>1, ProductNat
  <2>4. inc * sw = it + ix
    BY <2>1, <2>3
  <2> QED BY <2>2, <2>3, <2>4
<1>2. CASE sw < total
  <2>1. Larger(sw - total, 0) = 0
    BY <1>2 DEF Larger
  <2>2. inc * sw <= inc * total
    BY <1>2, ProductMonotone
  <2>3. PICK is, it : is = inc * sw /\ it = inc * total
    OBVIOUS
  <2>4. is \in Int /\ it \in Int /\ is <= it /\ it <= credit /\ inc * 0 = 0
    BY <2>2, <2>3
  <2>5. is <= credit + 0
    BY <2>4
  <2> QED BY <2>1, <2>3, <2>4, <2>5
<1> QED BY <1>1, <1>2

\* A credit is remembered, what each recorded weight earns of it, and what
\* weight beyond the total is given of it.
LEMMA CreditedMemory ==
  ASSUME QuoteTypeOK, QuoteRecord, NEW m \in Launches, NEW p \in Quotes, QuoteMemory(m, p),
         NEW reward \in Nat, NEW fee \in Nat, NEW total \in Nat \ {0},
         QuoteCredited(m, p, reward, fee, total)
  PROVE  QuoteMemory(m, p)'
<1>1. PICK inc, res, n, cr, st, sw, s, e :
        /\ inc = RewardIncrement(reward, total) /\ res = quotePool[m][p].rewardReserve
        /\ n = NumOwners /\ cr = quoteCredited[m][p] /\ st = sharedTwice[m][p]
        /\ sw = SumTo(Recorded(m, p), NumOwners) /\ s = SumTo(QuoteOwed(m, p), NumOwners)
        /\ e = quoteEntries[m][p]
  OBVIOUS
<1>2. /\ reward > 0 /\ inc \in Nat /\ inc > 0 /\ inc * total <= Precision * reward
      /\ \A o \in Owners : QuoteOwed(m, p)'[o] = QuoteOwed(m, p)[o] + inc * Recorded(m, p)[o]
      /\ SumTo(QuoteOwed(m, p)', NumOwners) = inc * sw + s
  BY <1>1, QuoteCreditParts
<1>3. /\ Precision \in Nat \ {0} /\ n \in Nat /\ res \in Nat /\ cr \in Nat /\ st \in Nat
      /\ e \in Nat
  BY <1>1, QuotePoolTypes, QuoteMemoryFields, StakingAssumption, RewardMathAssumption
<1>4. sw \in Int /\ s \in Int
  <2>1. Recorded(m, p) \in [1..n -> Nat] /\ QuoteOwed(m, p) \in [1..n -> Int]
    BY <1>1, QuoteLedgerTypes
  <2>2. Recorded(m, p) \in [1..n -> Int]
    BY <2>1
  <2> QED BY <1>1, <1>3, <2>1, <2>2, SumToInt
<1>5. /\ QuoteIncrement(m, p) = inc /\ QuoteInflow(m, p) = reward
      /\ QuoteExcess(m, p) = inc * Larger(sw - total, 0)
  <2>1. PICK acc, vault : /\ acc = quotePool[m][p].accRewardPerWeight
                          /\ vault = quoteVault[m][p]
    OBVIOUS
  <2>2. acc \in Nat /\ vault \in Nat
    BY <2>1, QuotePoolTypes
  <2>3. /\ quotePool'[m][p].accRewardPerWeight = acc + inc /\ quoteVault'[m][p] = vault + reward
        /\ total = launch[m].totalWeightedStake
    BY <1>1, <2>1 DEF QuoteCredited
  <2>4. QuoteIncrement(m, p) = inc
    BY <1>2, <2>1, <2>2, <2>3 DEF QuoteIncrement
  <2>5. QuoteInflow(m, p) = reward
    BY <1>2, <2>1, <2>2, <2>3, <2>4 DEF QuoteInflow
  <2> QED BY <1>1, <1>2, <2>3, <2>4, <2>5 DEF QuoteExcess
<1>6. PICK x : x = inc * Larger(sw - total, 0)
  OBVIOUS
<1>7. x \in Nat /\ inc * sw <= Precision * reward + x
  <2>1. PICK credit \in Int : credit = Precision * reward
    BY <1>3
  <2> QED BY <1>2, <1>4, <1>6, <2>1, ExcessCovered
<1>8. quoteCredited'[m][p] = cr + reward /\ sharedTwice'[m][p] = st + x
  <2>1. QuoteInflow(m, p) = reward /\ QuoteExcess(m, p) = x
    BY <1>5, <1>6
  <2> QED BY <1>1, <2>1, QuoteRecordAt
<1>9. /\ quoteReceived'[m][p] = quoteReceived[m][p]
      /\ quoteReweighed'[m][p] = quoteReweighed[m][p]
  BY PaymentsStay DEF QuoteCredited
<1>10. cr + reward = res + reward + SumTo(quoteReceived[m][p], n)
  <2>1. SumTo(quoteReceived[m][p], n) \in Int
    <3>1. quoteReceived[m][p] \in [1..n -> Int]
      BY <1>1, QuoteMemoryFields
    <3> QED BY <1>3, <3>1, SumToInt
  <2>2. cr = res + SumTo(quoteReceived[m][p], n)
    BY <1>1 DEF QuoteMemory
  <2> QED BY <1>3, <2>1, <2>2
<1>11. Shortage(m, p)'
  <2>1. PICK r, pr, ee, iw : /\ r = Precision * res /\ pr = Precision * reward
                             /\ ee = (Precision - 1) * e /\ iw = inc * sw
    OBVIOUS
  <2>2. /\ r \in Int /\ pr \in Int /\ ee \in Int /\ iw \in Int
        /\ Precision * (res + reward) = r + pr
    BY <1>2, <1>3, <1>4, <2>1
  <2>3. s <= r + ee + st
    BY <1>1, <2>1 DEF QuoteMemory, Shortage
  <2>4. iw + s <= r + pr + ee + (st + x)
    BY <1>3, <1>4, <1>7, <2>1, <2>2, <2>3
  <2>5. /\ quotePool'[m][p].rewardReserve = res + reward /\ quoteEntries'[m][p] = e
    BY <1>1 DEF QuoteCredited
  <2>6. SumTo(QuoteOwed(m, p)', NumOwners)
          <= Precision * (res + reward) + (Precision - 1) * e + (st + x)
    BY <1>2, <2>1, <2>2, <2>4
  <2> QED BY <1>8, <2>5, <2>6 DEF Shortage
<1>12. ASSUME NEW o \in Owners
       PROVE  quoteAccrued'[m][p][o] \in Nat /\ OwnerLifetime(m, p, o)'
  <2>1. PICK r, ow, iw, rw, ao, P, w :
          /\ r = quoteReceived[m][p][o] /\ ow = QuoteOwed(m, p)[o] /\ w = Recorded(m, p)[o]
          /\ iw = inc * w /\ rw = quoteReweighed[m][p][o] /\ ao = quoteAccrued[m][p][o]
          /\ P = Precision
    OBVIOUS
  <2>2. w \in Nat /\ r \in Nat /\ ow \in Int /\ rw \in Nat /\ ao \in Nat /\ P \in Nat
    BY <1>3, <2>1, QuoteLedgerTypes, QuoteMemoryFields
  <2>3. iw \in Nat
    BY <1>2, <2>1, <2>2, ProductNat
  <2>4. PICK pr, slack : pr = P * r /\ slack = (P - 1) * rw
    OBVIOUS
  <2>5. pr \in Int /\ slack \in Int
    BY <2>2, <2>4
  <2>6. ao <= pr + ow + slack /\ pr + ow <= ao + slack
    BY <2>1, <2>4 DEF QuoteMemory, OwnerLifetime
  <2>7. quoteAccrued'[m][p][o] = ao + iw
    BY <1>5, <2>1, QuoteRecordOwner, MappedQuoteOwed
  <2>8. QuoteOwed(m, p)'[o] = ow + iw
    BY <1>2, <2>1
  <2>9. quoteReceived'[m][p][o] = r /\ quoteReweighed'[m][p][o] = rw
    BY <1>9, <2>1
  <2>10. ao + iw <= pr + (ow + iw) + slack /\ pr + (ow + iw) <= ao + iw + slack
    BY <2>2, <2>3, <2>5, <2>6
  <2>11. ao + iw \in Nat
    BY <2>2, <2>3
  <2> QED BY <2>1, <2>4, <2>7, <2>8, <2>9, <2>10, <2>11 DEF OwnerLifetime
<1>13. QuoteMemoryTypes(m, p)'
  <2>1. quoteAccrued'[m][p] \in [Owners -> Nat]
    <3>1. quoteAccrued'[m][p] = [o \in Owners |-> quoteAccrued'[m][p][o]]
      BY QuoteRecordAt
    <3> QED BY <1>12, <3>1
  <2>2. cr + reward \in Nat /\ st + x \in Nat
    BY <1>3, <1>7
  <2> QED BY <1>8, <1>9, <2>1, <2>2 DEF QuoteMemory, QuoteMemoryTypes
<1>14. quotePool'[m][p].rewardReserve = res + reward
  BY <1>1 DEF QuoteCredited
<1> QED BY <1>1, <1>8, <1>9, <1>10, <1>11, <1>12, <1>13, <1>14 DEF QuoteMemory

\* The payment of a settlement is remembered as its owner's.
LEMMA SettledMemory ==
  ASSUME QuoteTypeOK, QuoteRecord, NEW m \in Launches, NEW p \in Quotes, QuoteMemory(m, p),
         NEW o \in Owners, QuoteSettled(m, p, o)
  PROVE  QuoteMemory(m, p)'
<1>1. PICK paid, res, n, cr, r, r2 :
        /\ paid = PendingQuoteReward(quoteStake[m][o][p], quotePool[m][p])
        /\ res = quotePool[m][p].rewardReserve /\ n = NumOwners /\ cr = quoteCredited[m][p]
        /\ r = quoteReceived[m][p] /\ r2 = quoteReceived'[m][p]
  OBVIOUS
<1>2. /\ paid \in Nat
      /\ QuoteOwed(m, p)[o] \in Int
      /\ Precision * paid <= QuoteOwed(m, p)[o]
      /\ QuoteOwed(m, p)[o] < Precision * paid + Precision
      /\ QuoteOwed(m, p)'[o] \in 0..(Precision - 1)
      /\ Recorded(m, p)'[o] = Recorded(m, p)[o]
           => QuoteOwed(m, p)'[o] = QuoteOwed(m, p)[o] - Precision * paid
      /\ \A x \in Owners \ {o} : /\ Recorded(m, p)'[x] = Recorded(m, p)[x]
                                 /\ QuoteOwed(m, p)'[x] = QuoteOwed(m, p)[x]
  BY <1>1, QuoteSettlementParts
<1>3. /\ res \in Nat /\ cr \in Nat /\ n \in Nat /\ o \in 1..n /\ Precision \in Nat \ {0}
      /\ quotePool'[m][p].rewardReserve = res - paid
  BY <1>1, QuotePoolTypes, QuoteMemoryFields, StakingAssumption, RewardMathAssumption
     DEF QuoteSettled
<1>4. /\ quoteCredited'[m][p] = cr /\ sharedTwice'[m][p] = sharedTwice[m][p]
      /\ quoteAccrued'[m][p] = quoteAccrued[m][p]
  BY <1>1, EarningsStay DEF QuoteSettled
<1>5. ASSUME NEW x \in Owners, x # o
      PROVE  /\ quoteReceived'[m][p][x] = quoteReceived[m][p][x]
             /\ quoteReweighed'[m][p][x] = quoteReweighed[m][p][x]
  <2>1. quoteStake'[m][x][p] = quoteStake[m][x][p]
    BY <1>5 DEF QuoteSettled, SettledStakesSame
  <2> QED BY <2>1, OwnerUnpaid
<1>6. quoteReceived'[m][p][o] = quoteReceived[m][p][o] + paid
  <2>1. CASE quoteStake'[m][o][p] # quoteStake[m][o][p]
    <3>1. PICK vault : vault = quoteVault[m][p] /\ vault \in Nat
      BY QuotePoolTypes
    <3>2. quoteVault'[m][p] = vault - paid
      BY <1>1, <3>1 DEF QuoteSettled
    <3>3. QuoteOutflow(m, p) = paid
      BY <1>2, <3>1, <3>2 DEF QuoteOutflow, Larger
    <3> QED BY <2>1, <3>3, QuoteRecordOwner
  <2>2. CASE quoteStake'[m][o][p] = quoteStake[m][o][p]
    <3>1. PICK debt : debt = quoteStake[m][o][p].rewardDebt /\ debt \in Nat
      BY QuoteStakeTypes
    <3>2. paid = debt - debt
      BY <1>1, <2>2, <3>1 DEF QuoteSettled, PendingQuoteReward
    <3>3. quoteReceived'[m][p][o] = quoteReceived[m][p][o]
      BY <2>2, OwnerUnpaid
    <3>4. quoteReceived[m][p][o] \in Nat
      BY QuoteMemoryFields
    <3> QED BY <3>1, <3>2, <3>3, <3>4
  <2> QED BY <2>1, <2>2
<1>7. quoteReweighed'[m][p][o] = IF Recorded(m, p)'[o] = Recorded(m, p)[o]
                                 THEN quoteReweighed[m][p][o] ELSE quoteReweighed[m][p][o] + 1
  <2>1. quoteReweighed[m][p][o] \in Nat
    BY QuoteMemoryFields
  <2> QED BY <2>1, QuoteRecordOwner, MappedQuoteOwed
<1>8. ASSUME NEW x \in 1..n PROVE r[x] \in Nat /\ r2[x] \in Nat /\ (x # o => r2[x] = r[x])
  <2>1. r[x] \in Nat
    BY <1>1, QuoteMemoryFields
  <2>2. x # o => r2[x] = r[x]
    BY <1>1, <1>5
  <2>3. x = o => r2[x] = r[x] + paid
    BY <1>1, <1>6
  <2> QED BY <1>2, <2>1, <2>2, <2>3
<1>9. r \in [1..n -> Int] /\ r2 \in [1..n -> Int]
  <2>1. r = [x \in 1..n |-> r[x]] /\ r2 = [x \in 1..n |-> r2[x]]
    BY <1>1, QuoteRecordAt, QuoteMemoryFields
  <2> QED BY <1>8, <2>1
<1>10. cr = (res - paid) + SumTo(r2, n)
  <2>1. SumTo(r2, n) = SumTo(r, n) - r[o] + r2[o] /\ SumTo(r, n) \in Int
    BY <1>3, <1>8, <1>9, SumToChange, SumToInt
  <2>2. r[o] \in Nat /\ r2[o] = r[o] + paid
    BY <1>1, <1>3, <1>6, <1>8
  <2>3. cr = res + SumTo(r, n)
    BY <1>1 DEF QuoteMemory
  <2> QED BY <1>2, <1>3, <2>1, <2>2, <2>3
<1>11. ASSUME NEW x \in Owners PROVE OwnerLifetime(m, p, x)'
  <2>0. OwnerLifetime(m, p, x)
    BY DEF QuoteMemory
  <2>1. CASE x # o
    BY <1>2, <1>4, <1>5, <2>0, <2>1 DEF OwnerLifetime
  <2>2. CASE x = o
    <3>1. PICK P, ro, ow, ow2, rw, rw2, ao :
            /\ P = Precision /\ ro = quoteReceived[m][p][o] /\ ow = QuoteOwed(m, p)[o]
            /\ ow2 = QuoteOwed(m, p)'[o] /\ rw = quoteReweighed[m][p][o]
            /\ rw2 = quoteReweighed'[m][p][o] /\ ao = quoteAccrued[m][p][o]
      OBVIOUS
    <3>2. /\ P \in Nat \ {0} /\ ro \in Nat /\ ow \in Int /\ ow2 \in Int
          /\ rw \in Nat /\ rw2 \in Nat /\ ao \in Nat
      <4>1. P \in Nat \ {0} /\ ow \in Int /\ ow2 \in 0..(P - 1)
        BY <1>2, <1>3, <3>1
      <4>2. ow2 \in Int
        BY <4>1
      <4>3. ro \in Nat /\ rw \in Nat /\ ao \in Nat
        BY <3>1, QuoteMemoryFields
      <4>4. rw2 = rw \/ rw2 = rw + 1
        BY <1>7, <3>1
      <4> QED BY <4>1, <4>2, <4>3, <4>4
    <3>3. PICK pr, pp, s, s2 : /\ pr = P * ro /\ pp = P * paid
                               /\ s = (P - 1) * rw /\ s2 = (P - 1) * rw2
      OBVIOUS
    <3>4. pr \in Int /\ pp \in Int /\ s \in Int /\ s2 \in Int
          /\ P * (ro + paid) = pr + pp
      BY <1>2, <3>2, <3>3
    <3>5. ao <= pr + ow + s /\ pr + ow <= ao + s
      BY <2>0, <2>2, <3>1, <3>3 DEF OwnerLifetime
    <3>6. /\ pp <= ow /\ ow < pp + P /\ ow2 \in 0..(P - 1)
          /\ (rw2 = rw /\ ow2 = ow - pp) \/ rw2 = rw + 1
      BY <1>2, <1>7, <3>1, <3>3
    <3>7. (rw2 = rw /\ s2 = s /\ ow2 = ow - pp) \/ s2 = s + (P - 1)
      BY <3>2, <3>3, <3>6
    <3>8. ao <= pr + pp + ow2 + s2 /\ pr + pp + ow2 <= ao + s2
      BY <3>2, <3>4, <3>5, <3>6, <3>7
    <3>9. ao <= P * (ro + paid) + ow2 + s2 /\ P * (ro + paid) + ow2 <= ao + s2
      BY <3>4, <3>8
    <3>10. quoteReceived'[m][p][o] = ro + paid /\ quoteAccrued'[m][p][o] = ao
      BY <1>4, <1>6, <3>1
    <3> QED BY <2>2, <3>1, <3>3, <3>9, <3>10 DEF OwnerLifetime
  <2> QED BY <2>1, <2>2
<1>12. Shortage(m, p)'
  <2>1. PICK s, s2, e, e2, st : /\ s = SumTo(QuoteOwed(m, p), NumOwners)
                                /\ s2 = SumTo(QuoteOwed(m, p)', NumOwners)
                                /\ e = quoteEntries[m][p] /\ e2 = quoteEntries'[m][p]
                                /\ st = sharedTwice[m][p]
    OBVIOUS
  <2>2. PICK pr, pp, ee, ee2 : /\ pr = Precision * res /\ pp = Precision * paid
                               /\ ee = (Precision - 1) * e /\ ee2 = (Precision - 1) * e2
    OBVIOUS
  <2>3. s2 \in Int /\ s2 + pp + ee <= s + ee2
    BY <1>1, <2>1, <2>2, QuoteSettledSum
  <2>4. s \in Int
    BY <1>3, <2>1, QuoteLedgerTypes, StakingAssumption, SumToInt
  <2>5. e \in Nat /\ e2 \in Nat /\ st \in Nat
    <3>1. e2 = e \/ e2 = e + 1
      BY <2>1 DEF QuoteSettled
    <3> QED BY <2>1, <3>1, QuotePoolTypes, QuoteMemoryFields
  <2>6. /\ pr \in Int /\ pp \in Int /\ ee \in Int /\ ee2 \in Int
        /\ Precision * (res - paid) = pr - pp
    BY <1>2, <1>3, <2>2, <2>5
  <2>7. s <= pr + ee + st
    BY <1>1, <2>1, <2>2 DEF QuoteMemory, Shortage
  <2>8. s2 <= (pr - pp) + ee2 + st
    BY <2>3, <2>4, <2>5, <2>6, <2>7
  <2>9. s2 <= Precision * (res - paid) + (Precision - 1) * e2 + st
    BY <2>2, <2>6, <2>8
  <2> QED BY <1>3, <1>4, <2>1, <2>9 DEF Shortage
<1>13. QuoteMemoryTypes(m, p)'
  <2>1. quoteReceived'[m][p] \in [Owners -> Nat]
    <3>1. quoteReceived'[m][p] = [x \in Owners |-> quoteReceived'[m][p][x]]
      BY QuoteRecordAt
    <3> QED BY <1>1, <1>8, <3>1
  <2>2. quoteReweighed'[m][p] \in [Owners -> Nat]
    <3>1. quoteReweighed'[m][p] = [x \in Owners |-> quoteReweighed'[m][p][x]]
      BY QuoteRecordAt
    <3>2. ASSUME NEW x \in Owners PROVE quoteReweighed'[m][p][x] \in Nat
      <4>1. quoteReweighed[m][p][x] \in Nat /\ quoteReweighed[m][p][x] + 1 \in Nat
        BY QuoteMemoryFields
      <4> QED BY <1>5, <1>7, <4>1
    <3> QED BY <3>1, <3>2
  <2> QED BY <1>1, <1>3, <1>4, <2>1, <2>2 DEF QuoteMemory, QuoteMemoryTypes
<1> QED BY <1>1, <1>3, <1>4, <1>10, <1>11, <1>12, <1>13 DEF QuoteMemory

-----------------------------------------------------------------------------
(***************************************************************************)
(* The inductive invariant.                                                *)
(***************************************************************************)
\* Before any pool exists there is nothing to remember.
LEMMA QuoteMemoryInitial == QuoteHistoryInit => QuoteMemoryInv
<1> SUFFICES ASSUME QuoteHistoryInit, NEW m \in Launches, NEW p \in Quotes
             PROVE  QuoteMemory(m, p)
  BY DEF QuoteMemoryInv
<1>1. PICK z, n : n = NumOwners /\ z = [o \in 1..n |-> 0]
  OBVIOUS
<1>2. /\ quotePool[m][p] = EmptyPool /\ quoteEntries[m][p] = 0
      /\ \A o \in Owners : quoteStake[m][o][p] = EmptyQuoteStake
      /\ quoteCredited[m][p] = 0 /\ sharedTwice[m][p] = 0
      /\ quoteReceived[m][p] = z /\ quoteAccrued[m][p] = z /\ quoteReweighed[m][p] = z
  BY <1>1 DEF QuoteHistoryInit, QuoteInit, PerPool, PerMember
<1>3. SumTo(z, n) = 0
  <2>1. n \in Nat /\ z \in [1..n -> Int] /\ \A i \in 1..n : z[i] = 0
    BY <1>1, StakingAssumption
  <2> QED BY <2>1, SumToZero
<1>4. QuoteOwed(m, p) = z
  <2>1. 0 * 0 - Precision * 0 = 0
    BY RewardMathAssumption
  <2> QED BY <1>1, <1>2, <2>1 DEF QuoteOwed, EmptyPool, EmptyQuoteStake
<1>5. Precision * 0 = 0 /\ (Precision - 1) * 0 = 0 /\ 0 + 0 = 0 /\ 0 <= 0
  BY RewardMathAssumption
<1>6. ASSUME NEW o \in Owners PROVE OwnerLifetime(m, p, o)
  <2>1. z[o] = 0
    BY <1>1
  <2> QED BY <1>2, <1>4, <1>5, <2>1 DEF OwnerLifetime
<1>7. Shortage(m, p)
  BY <1>1, <1>2, <1>3, <1>4, <1>5 DEF Shortage, EmptyPool
<1>8. QuoteMemoryTypes(m, p)
  BY <1>1, <1>2 DEF QuoteMemoryTypes
<1>9. quoteCredited[m][p] = quotePool[m][p].rewardReserve + SumTo(quoteReceived[m][p], NumOwners)
  BY <1>1, <1>2, <1>3, <1>5 DEF EmptyPool
<1> QED BY <1>6, <1>7, <1>8, <1>9 DEF QuoteMemory

\* Every step keeps the books and the memory of every pool in agreement.
LEMMA QuoteMemoryStep ==
  ASSUME TypeOK, QuoteInv, QuoteMemoryInv, [QuoteHistoryNext]_memoryVars
  PROVE  QuoteMemoryInv'
<1>1. CASE UNCHANGED memoryVars
  BY <1>1 DEF QuoteMemoryInv, QuoteMemory, QuoteMemoryTypes, OwnerLifetime, Shortage, QuoteOwed,
              memoryVars, allVars, quoteVars, historyVars
<1>2. CASE QuoteHistoryNext
  <2> SUFFICES ASSUME NEW m \in Launches, NEW p \in Quotes PROVE QuoteMemory(m, p)'
    BY DEF QuoteMemoryInv
  <2>1. QuoteTypeOK /\ QuoteRecord /\ QuoteMemory(m, p) /\ QuoteKind(m, p)
    BY <1>2, QuoteStepKinds DEF QuoteHistoryNext, QuoteInv, QuoteMemoryInv, PoolStep
  <2>2. CASE QuoteMoved(m, p)
    BY <2>1, <2>2, MovedMemory
  <2>3. ASSUME NEW reward \in Nat, NEW fee \in Nat, NEW total \in Nat \ {0},
               QuoteCredited(m, p, reward, fee, total)
        PROVE  QuoteMemory(m, p)'
    BY <2>1, <2>3, CreditedMemory
  <2>4. ASSUME NEW o \in Owners, QuoteSettled(m, p, o) PROVE QuoteMemory(m, p)'
    BY <2>1, <2>4, SettledMemory
  <2> QED BY <2>1, <2>2, <2>3, <2>4 DEF QuoteKind
<1> QED BY <1>1, <1>2

-----------------------------------------------------------------------------
(***************************************************************************)
(* The theorems.                                                           *)
(***************************************************************************)
\* What is proved of the quote side holds of the quote side with a memory: every
\* behaviour of the latter is one of the former.
LEMMA QuoteHistoryImplementsQuote == QuoteHistorySpec => QuoteSpec
<1>1. QuoteHistoryInit => QuoteInit
  BY DEF QuoteHistoryInit
<1>2. [QuoteHistoryNext]_memoryVars => [QuoteNext]_allVars
  BY DEF QuoteHistoryNext, memoryVars
<1> QED BY <1>1, <1>2, PTL DEF QuoteHistorySpec, QuoteSpec

\* The memory of every pool agrees with its books in every behaviour.
THEOREM QuoteHistoryCorrect == QuoteHistorySpec => []QuoteMemoryInv
<1>1. QuoteHistoryInit => QuoteMemoryInv
  BY QuoteMemoryInitial
<1>2. TypeOK /\ QuoteInv /\ QuoteMemoryInv /\ [QuoteHistoryNext]_memoryVars => QuoteMemoryInv'
  BY QuoteMemoryStep
<1>3. QuoteHistorySpec => [](TypeOK /\ QuoteInv)
  BY QuoteHistoryImplementsQuote, QuoteIncludesStaking, TypeCorrect, QuoteLedgerCorrect, PTL
<1> QED BY <1>1, <1>2, <1>3, PTL DEF QuoteHistorySpec

\* No token credited to a quote pool is lost or paid twice.
THEOREM QuoteCreditsAlwaysConserved == QuoteHistorySpec => []QuoteCreditsConserved
<1>1. QuoteMemoryInv => QuoteCreditsConserved
  BY DEF QuoteMemoryInv, QuoteMemory, QuoteCreditsConserved
<1> QED BY <1>1, QuoteHistoryCorrect, PTL

\* Whatever an owner does, it is paid what its recorded weights earned.
THEOREM QuoteLifetimeShareAlways == QuoteHistorySpec => []QuoteLifetimeShare
<1>1. QuoteMemoryInv => QuoteLifetimeShare
  BY DEF QuoteMemoryInv, QuoteMemory, OwnerLifetime, QuoteLifetimeShare
<1> QED BY <1>1, QuoteHistoryCorrect, PTL

\* A pool falls short only by what it gave to weight beyond the total.
THEOREM ShortageAlwaysExplained == QuoteHistorySpec => []ShortageExplained
<1>1. QuoteMemoryInv => ShortageExplained
  BY DEF QuoteMemoryInv, QuoteMemory, Shortage, ShortageExplained
<1> QED BY <1>1, QuoteHistoryCorrect, PTL
=============================================================================
