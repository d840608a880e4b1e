-------------------------- MODULE StakingHistoryProofs --------------------------
(***************************************************************************)
(* The lifetime properties, for any number of launches and owners, any     *)
(* precision and any amounts.  The kinds of steps of StakingLedgerProofs   *)
(* decide what is recorded: nothing, a credit and everyone's share of it,  *)
(* or a payment to one owner.                                              *)
(***************************************************************************)
EXTENDS StakingHistory, StakingCorrectness

\* The memory of one launch is well typed.
HistoryTypes(l) ==
  /\ credited[l] \in Nat
  /\ received[l] \in [Owners -> Nat]
  /\ accrued[l] \in [Owners -> Nat]
  /\ reweighed[l] \in [Owners -> Nat]
  /\ leastTotal[l] \in U128

\* The lifetime of one owner in launch l.
Lifetime(l, o) ==
  LET settled == Precision * received[l][o] + Owed(l)[o]
      slack   == (Precision - 1) * reweighed[l][o]
  IN  /\ accrued[l][o] <= settled + slack
      /\ settled <= accrued[l][o] + slack

\* The books of one launch agree with its memory; no accumulator exceeds the
\* credits divided by the least total weight.
History(l) ==
  /\ HistoryTypes(l)
  /\ credited[l] = launch[l].rewardReserve + SumTo(received[l], NumOwners)
  /\ SumTo(accrued[l], NumOwners) <= Precision * credited[l]
  /\ \A o \in Owners : Lifetime(l, o)
  /\ launch[l].accRewardPerWeight * leastTotal[l] <= Precision * credited[l]
  /\ leastTotal[l] = U128Max \/ leastTotal[l] > 0

\* The inductive invariant.
HistoryInv == \A l \in Launches : History(l)

\* A function to the naturals is one to the integers.
LEMMA NatFunction ==
  ASSUME NEW n, NEW f \in [1..n -> Nat]
  PROVE  f \in [1..n -> Int] /\ \A i \in 1..n : f[i] \in Nat
  OBVIOUS

\* The memory of a launch holds naturals.
LEMMA HistoryFields ==
  ASSUME NEW l \in Launches, History(l)
  PROVE  /\ credited[l] \in Nat
         /\ leastTotal[l] \in Nat /\ leastTotal[l] \in U128
         /\ received[l] \in [1..NumOwners -> Nat]
         /\ accrued[l] \in [1..NumOwners -> Nat]
         /\ \A o \in Owners : /\ received[l][o] \in Nat /\ accrued[l][o] \in Nat
                              /\ reweighed[l][o] \in Nat
<1>1. HistoryTypes(l)
  BY DEF History
<1>2. leastTotal[l] \in Nat
  BY <1>1, RewardMathAssumption DEF HistoryTypes, U128
<1> QED BY <1>1, <1>2 DEF HistoryTypes, Owners

\* What a launch remembers after a step, as a whole and of one owner.
LEMMA RecordAt ==
  ASSUME Record, NEW l \in Launches
  PROVE  /\ credited'[l] = credited[l] + Inflow(l)
         /\ leastTotal'[l] = IF Increment(l) > 0 /\ launch[l].totalWeightedStake < leastTotal[l]
                             THEN launch[l].totalWeightedStake ELSE leastTotal[l]
         /\ received'[l] = [o \in Owners |-> received'[l][o]]
         /\ accrued'[l] = [o \in Owners |-> accrued'[l][o]]
         /\ reweighed'[l] = [o \in Owners |-> reweighed'[l][o]]
  BY DEF Record

LEMMA RecordOwner ==
  ASSUME Record, NEW l \in Launches, NEW o \in Owners
  PROVE  /\ received'[l][o] = received[l][o]
              + (IF position'[l][o] # position[l][o] THEN Outflow(l) ELSE 0)
         /\ accrued'[l][o] = accrued[l][o] + Increment(l) * position[l][o].weight
         /\ reweighed'[l][o] = reweighed[l][o]
              + (IF position'[l][o].weight # position[l][o].weight THEN 1 ELSE 0)
  BY DEF Record

\* The memory of an owner whose position stays, in a step that credits nothing.
LEMMA OwnerRemembersNothing ==
  ASSUME TypeOK, Record, NEW l \in Launches, History(l), NEW o \in Owners,
         position'[l][o] = position[l][o], Increment(l) = 0
  PROVE  /\ received'[l][o] = received[l][o]
         /\ accrued'[l][o] = accrued[l][o]
         /\ reweighed'[l][o] = reweighed[l][o]
<1>1. PICK r, a, n, w : /\ r = received[l][o] /\ a = accrued[l][o] /\ n = reweighed[l][o]
                        /\ w = position[l][o].weight
  OBVIOUS
<1>2. r \in Nat /\ a \in Nat /\ n \in Nat /\ w \in Nat
  BY <1>1, HistoryFields, PositionTypes
<1>3. received'[l][o] = r + 0 /\ accrued'[l][o] = a + 0 * w /\ reweighed'[l][o] = n + 0
  BY <1>1, RecordOwner
<1>4. r + 0 = r /\ a + 0 * w = a /\ n + 0 = n
  BY <1>2
<1> QED BY <1>1, <1>3, <1>4

\* A step that leaves the ledger of a launch alone, and takes nothing from its
\* account, leaves no memory there.
LEMMA UntouchedHistory ==
  ASSUME TypeOK, TypeOK', Record, NEW l \in Launches, History(l), Untouched(l) \/ Given(l)
  PROVE  History(l)'
<1>0. launch'[l] = launch[l] /\ position'[l] = position[l] /\ lamports'[l] >= lamports[l]
  <2>1. lamports[l] \in Nat
    BY DEF TypeOK
  <2> QED BY <2>1 DEF Untouched, Given
<1>1. Inflow(l) = 0 /\ Outflow(l) = 0 /\ Increment(l) = 0
  <2>1. lamports[l] \in Nat /\ lamports'[l] \in Nat /\ launch[l].accRewardPerWeight \in Nat
    BY LaunchTypes DEF TypeOK
  <2>2. Increment(l) = 0
    BY <1>0, <2>1 DEF Increment
  <2>3. Inflow(l) = 0
    BY <2>2 DEF Inflow
  <2> QED BY <1>0, <2>1, <2>2, <2>3 DEF Outflow, Larger
<1>2. credited'[l] = credited[l] /\ leastTotal'[l] = leastTotal[l]
  <2>1. credited[l] + 0 = credited[l] /\ ~ (0 > 0)
    BY HistoryFields
  <2> QED BY <1>1, <2>1, RecordAt
<1>3. ASSUME NEW o \in Owners
      PROVE  /\ received'[l][o] = received[l][o]
             /\ accrued'[l][o] = accrued[l][o]
             /\ reweighed'[l][o] = reweighed[l][o]
  BY <1>0, <1>1, OwnerRemembersNothing
<1>4. /\ received[l] = [o \in Owners |-> received[l][o]]
      /\ accrued[l] = [o \in Owners |-> accrued[l][o]]
      /\ reweighed[l] = [o \in Owners |-> reweighed[l][o]]
      /\ received'[l] = [o \in Owners |-> received'[l][o]]
      /\ accrued'[l] = [o \in Owners |-> accrued'[l][o]]
      /\ reweighed'[l] = [o \in Owners |-> reweighed'[l][o]]
  BY RecordAt DEF History, HistoryTypes
<1>5. received'[l] = received[l] /\ accrued'[l] = accrued[l] /\ reweighed'[l] = reweighed[l]
  BY <1>3, <1>4
<1>6. launch'[l] = launch[l] /\ Owed(l)' = Owed(l)
  BY <1>0 DEF Owed
<1> QED BY <1>2, <1>5, <1>6 DEF History, HistoryTypes, Lifetime

\* A credit is remembered, and everyone's share of it.
LEMMA CreditedHistory ==
  ASSUME TypeOK, Record, NEW l \in Launches, NEW amount \in Nat, Ledger(l), History(l),
         Credited(l, amount)
  PROVE  History(l)'
<1>1. PICK total, inc, res, acc, n, cr, least :
        /\ total = launch[l].totalWeightedStake /\ inc = RewardIncrement(amount, total)
        /\ res = launch[l].rewardReserve /\ acc = launch[l].accRewardPerWeight
        /\ n = NumOwners /\ cr = credited[l] /\ least = leastTotal[l]
  OBVIOUS
<1>2. /\ amount > 0 /\ total \in Nat \ {0} /\ inc \in Nat /\ inc > 0
      /\ inc * total <= Precision * amount
      /\ launch'[l].accRewardPerWeight = acc + inc
      /\ launch'[l].rewardReserve = res + amount
      /\ \A o \in Owners : Owed(l)'[o] = Owed(l)[o] + inc * Weights(l)[o]
  BY <1>1, CreditParts, RewardMathAssumption
<1>3. /\ Precision \in Nat \ {0} /\ n \in Nat /\ res \in Nat /\ acc \in Nat
      /\ cr \in Nat /\ least \in Nat /\ U128Max \in Nat /\ total \in U128
  BY <1>1, LaunchTypes, HistoryFields, StakingAssumption, RewardMathAssumption DEF LaunchConfig
<1>4. Inflow(l) = amount /\ Outflow(l) = 0 /\ Increment(l) = inc
  <2>1. lamports[l] \in Nat /\ lamports'[l] = lamports[l] + amount
    BY DEF TypeOK, Credited
  <2>2. Increment(l) = inc
    BY <1>1, <1>2, <1>3 DEF Increment
  <2>3. Inflow(l) = amount /\ Outflow(l) = 0
    BY <1>2, <2>1, <2>2 DEF Inflow, Outflow, Larger
  <2> QED BY <2>2, <2>3
<1>5. /\ credited'[l] = cr + amount
      /\ leastTotal'[l] = IF total < least THEN total ELSE least
  BY <1>1, <1>2, <1>4, RecordAt
<1>6. received'[l] = received[l] /\ reweighed'[l] = reweighed[l]
  <2>1. /\ received[l] = [o \in Owners |-> received[l][o]]
        /\ reweighed[l] = [o \in Owners |-> reweighed[l][o]]
    BY DEF History, HistoryTypes
  <2>2. /\ received'[l] = [o \in Owners |-> received'[l][o]]
        /\ reweighed'[l] = [o \in Owners |-> reweighed'[l][o]]
    BY RecordAt
  <2>3. ASSUME NEW o \in Owners
        PROVE  received'[l][o] = received[l][o] /\ reweighed'[l][o] = reweighed[l][o]
    <3>1. position'[l][o] = position[l][o]
      BY DEF Credited
    <3>2. received[l][o] + 0 = received[l][o] /\ reweighed[l][o] + 0 = reweighed[l][o]
      BY HistoryFields
    <3> QED BY <3>1, <3>2, RecordOwner
  <2> QED BY <2>1, <2>2, <2>3
<1>7. PICK w, a, a2 : w = Weights(l) /\ a = accrued[l] /\ a2 = accrued'[l]
  OBVIOUS
<1>8. /\ w \in [1..n -> Int] /\ \A o \in 1..n : w[o] \in Nat
      /\ a \in [1..n -> Int] /\ \A o \in 1..n : a[o] \in Nat
  <2>1. w \in [1..n -> Nat] /\ a \in [1..n -> Nat]
    BY <1>1, <1>7, LedgerTypes, HistoryFields
  <2> QED BY <2>1, NatFunction
<1>9. ASSUME NEW o \in 1..n
      PROVE  a2[o] \in Nat /\ a2[o] = inc * w[o] + a[o]
  <2>1. PICK ao, wo : ao = a[o] /\ wo = w[o]
    OBVIOUS
  <2>2. a2[o] = ao + inc * wo
    BY <1>1, <1>4, <1>7, <2>1, RecordOwner DEF Weights, Owners
  <2>3. ao \in Nat /\ wo \in Nat /\ inc * wo \in Nat
    BY <1>2, <1>8, <2>1, ProductNat
  <2> QED BY <2>1, <2>2, <2>3
<1>10. SumTo(a2, n) = inc * total + SumTo(a, n)
  <2>0. a2 = [o \in 1..n |-> a2[o]]
    BY <1>1, <1>7, RecordAt DEF Owners
  <2>1. a2 \in [1..n -> Int] /\ IsCombination(a2, inc, w, a, n) /\ inc \in Int
    BY <1>2, <1>9, <2>0 DEF IsCombination
  <2>2. SumTo(a2, n) = inc * SumTo(w, n) + SumTo(a, n)
    <3>1. n \in Nat /\ w \in [1..n -> Int] /\ a \in [1..n -> Int]
      BY <1>3, <1>8
    <3> QED BY <2>1, <3>1, SumToLinear
  <2>3. SumTo(w, n) = total
    BY <1>1, <1>7 DEF Ledger
  <2> QED BY <2>2, <2>3
<1>11. PICK pa, pc, it, sa : /\ pa = Precision * amount /\ pc = Precision * cr
                             /\ it = inc * total /\ sa = SumTo(a, n)
  OBVIOUS
<1>12. /\ pa \in Nat /\ pc \in Nat /\ it \in Nat /\ sa \in Int /\ it <= pa
       /\ Precision * (cr + amount) = pc + pa
  BY <1>2, <1>3, <1>8, <1>11, SumToInt
<1>13. SumTo(a2, n) <= Precision * (cr + amount)
  <2>1. sa <= pc
    BY <1>1, <1>7, <1>11 DEF History
  <2> QED BY <1>10, <1>11, <1>12, <2>1
<1>14. (acc + inc) * (IF total < least THEN total ELSE least) <= Precision * (cr + amount)
  <2>1. PICK l2 : l2 = IF total < least THEN total ELSE least
    OBVIOUS
  <2>2. l2 \in Nat /\ l2 <= total /\ l2 <= least
    BY <1>2, <1>3, <2>1
  <2>3. PICK x, y, z : x = acc * l2 /\ y = inc * l2 /\ z = acc * least
    OBVIOUS
  <2>4. x \in Nat /\ y \in Nat /\ z \in Nat /\ x <= z /\ y <= it
    BY <1>2, <1>3, <1>11, <2>2, <2>3, ProductNat, ProductMonotone
  <2>5. (acc + inc) * l2 = x + y
    BY <1>2, <1>3, <2>2, <2>3
  <2>6. z <= pc
    BY <1>1, <1>11, <2>3 DEF History
  <2> QED BY <1>12, <2>1, <2>4, <2>5, <2>6
<1>15. ASSUME NEW o \in Owners PROVE Lifetime(l, o)'
  <2>1. PICK r, ow, iw, rw, ao, P :
          /\ r = received[l][o] /\ ow = Owed(l)[o] /\ iw = inc * w[o] /\ rw = reweighed[l][o]
          /\ ao = a[o] /\ P = Precision
    OBVIOUS
  <2>2. r \in Nat /\ ow \in Int /\ iw \in Nat /\ rw \in Nat /\ ao \in Nat /\ P \in Nat
    BY <1>1, <1>2, <1>3, <1>8, <2>1, LedgerTypes, ProductNat DEF History, HistoryTypes, Owners
  <2>3. PICK pr, slack : pr = P * r /\ slack = (P - 1) * rw
    OBVIOUS
  <2>4. pr \in Int /\ slack \in Int
    BY <2>2, <2>3
  <2>5. ao <= pr + ow + slack /\ pr + ow <= ao + slack
    BY <1>7, <2>1, <2>3 DEF History, Lifetime
  <2>6. /\ Owed(l)'[o] = ow + iw /\ accrued'[l][o] = ao + iw
        /\ received'[l][o] = r /\ reweighed'[l][o] = rw
    <3>1. Owed(l)'[o] = ow + iw
      BY <1>2, <1>7, <2>1
    <3>2. accrued'[l][o] = iw + ao /\ iw + ao = ao + iw
      BY <1>1, <1>7, <1>9, <2>1, <2>2 DEF Owners
    <3>3. received'[l][o] = r /\ reweighed'[l][o] = rw
      BY <1>6, <2>1
    <3> QED BY <3>1, <3>2, <3>3
  <2>7. ao + iw <= pr + (ow + iw) + slack /\ pr + (ow + iw) <= ao + iw + slack
    BY <2>2, <2>4, <2>5
  <2> QED BY <2>1, <2>3, <2>6, <2>7 DEF Lifetime
<1>16. HistoryTypes(l)'
  <2>1. cr + amount \in Nat /\ (IF total < least THEN total ELSE least) \in U128
    BY <1>1, <1>3 DEF History, HistoryTypes
  <2>2. accrued'[l] \in [Owners -> Nat]
    <3>1. accrued'[l] = [o \in 1..n |-> a2[o]]
      BY <1>1, <1>7, RecordAt DEF Owners
    <3> QED BY <1>1, <1>9, <3>1 DEF Owners
  <2> QED BY <1>5, <1>6, <2>1, <2>2 DEF History, HistoryTypes
<1>17. cr + amount = res + amount + SumTo(received[l], n)
  <2>1. SumTo(received[l], n) \in Int
    BY <1>1, <1>3, HistoryFields, NatFunction, SumToInt
  <2>2. cr = res + SumTo(received[l], n)
    BY <1>1 DEF History
  <2> QED BY <1>3, <2>1, <2>2
<1>18. leastTotal'[l] = U128Max \/ leastTotal'[l] > 0
  BY <1>1, <1>2, <1>3, <1>5 DEF History
<1> QED BY <1>1, <1>2, <1>5, <1>6, <1>7, <1>13, <1>14, <1>15, <1>16, <1>17, <1>18 DEF History

\* The payment of a settlement is remembered as its owner's.
LEMMA SettledHistory ==
  ASSUME TypeOK, TypeOK', Record, NEW l \in Launches, NEW o \in Owners, History(l),
         Settled(l, o)
  PROVE  History(l)'
<1>1. PICK paid, res, n, cr, r, r2 :
        /\ paid = PendingReward(position[l][o], launch[l])
        /\ res = launch[l].rewardReserve /\ n = NumOwners /\ cr = credited[l]
        /\ r = received[l] /\ r2 = received'[l]
  OBVIOUS
<1>2. /\ paid \in 0..res
      /\ launch'[l].rewardReserve = res - paid
      /\ Precision * paid <= Owed(l)[o]
      /\ Owed(l)[o] < Precision * paid + Precision
      /\ Owed(l)'[o] \in 0..(Precision - 1)
      /\ Weights(l)'[o] = Weights(l)[o] => Owed(l)'[o] = Owed(l)[o] - Precision * paid
      /\ \A p \in Owners \ {o} : Weights(l)'[p] = Weights(l)[p] /\ Owed(l)'[p] = Owed(l)[p]
  BY <1>1, SettlementParts
<1>3. res \in Nat /\ paid \in Nat /\ cr \in Nat /\ n \in Nat /\ o \in 1..n
  BY <1>1, <1>2, LaunchTypes, HistoryFields, StakingAssumption DEF Owners
<1>4. Inflow(l) = 0 /\ Outflow(l) = paid /\ Increment(l) = 0
  <2>1. lamports[l] \in Nat /\ lamports'[l] = lamports[l] - paid
    BY <1>1 DEF TypeOK, Settled
  <2>2. Increment(l) = 0
    BY LaunchTypes DEF Settled, Increment
  <2>3. Inflow(l) = 0 /\ Outflow(l) = paid
    BY <1>3, <2>1, <2>2 DEF Inflow, Outflow, Larger
  <2> QED BY <2>2, <2>3
<1>5. credited'[l] = cr /\ leastTotal'[l] = leastTotal[l]
  <2>1. cr + 0 = cr /\ ~ (0 > 0)
    BY <1>3
  <2> QED BY <1>1, <1>4, <2>1, RecordAt
<1>6. ASSUME NEW p \in Owners, p # o
      PROVE  /\ received'[l][p] = received[l][p]
             /\ accrued'[l][p] = accrued[l][p]
             /\ reweighed'[l][p] = reweighed[l][p]
             /\ Owed(l)'[p] = Owed(l)[p]
  <2>1. position'[l][p] = position[l][p]
    BY <1>6 DEF Settled
  <2> QED BY <1>2, <1>4, <1>6, <2>1, OwnerRemembersNothing
<1>7. received'[l][o] = received[l][o] + paid
  <2>1. CASE position'[l][o] # position[l][o]
    BY <1>4, <2>1, RecordOwner
  <2>2. CASE position'[l][o] = position[l][o]
    <3>1. PICK debt : debt = position[l][o].rewardDebt
      OBVIOUS
    <3>2. debt \in Nat /\ paid = debt - debt
      BY <1>1, <2>2, <3>1, PositionTypes DEF Settled, PendingReward
    <3>3. received[l][o] \in Nat
      BY HistoryFields
    <3>4. received'[l][o] = received[l][o] + 0
      BY <2>2, RecordOwner
    <3> QED BY <3>2, <3>3, <3>4
  <2> QED BY <2>1, <2>2
<1>8. accrued'[l][o] = accrued[l][o]
  <2>1. accrued[l][o] \in Nat /\ position[l][o].weight \in Nat
    BY HistoryFields, PositionTypes
  <2>2. accrued[l][o] + 0 * position[l][o].weight = accrued[l][o]
    BY <2>1
  <2> QED BY <1>4, <2>2, RecordOwner
<1>9. reweighed'[l][o] = IF Weights(l)'[o] = Weights(l)[o] THEN reweighed[l][o]
                         ELSE reweighed[l][o] + 1
  <2>1. reweighed[l][o] \in Nat
    BY HistoryFields
  <2>2. Weights(l)'[o] = position'[l][o].weight /\ Weights(l)[o] = position[l][o].weight
    BY MappedOwed
  <2> QED BY <2>1, <2>2, RecordOwner
<1>10. /\ r \in [1..n -> Nat] /\ r2 = [p \in 1..n |-> r2[p]]
       /\ accrued[l] \in [1..n -> Nat] /\ accrued'[l] = [p \in 1..n |-> accrued'[l][p]]
       /\ reweighed'[l] = [p \in 1..n |-> reweighed'[l][p]]
  BY <1>1, RecordAt, HistoryFields DEF Owners
<1>11. accrued'[l] = accrued[l]
  <2>1. ASSUME NEW p \in 1..n PROVE accrued'[l][p] = accrued[l][p]
    BY <1>1, <1>6, <1>8 DEF Owners
  <2>2. accrued[l] = [p \in 1..n |-> accrued[l][p]]
    BY <1>10
  <2> QED BY <1>10, <2>1, <2>2
<1>12. ASSUME NEW p \in 1..n PROVE r2[p] \in Nat /\ (p # o => r2[p] = r[p])
  <2>1. r[p] \in Nat
    BY <1>10
  <2>2. p # o => r2[p] = r[p]
    BY <1>1, <1>6 DEF Owners
  <2>3. p = o => r2[p] = r[p] + paid
    BY <1>1, <1>7
  <2> QED BY <1>3, <2>1, <2>2, <2>3
<1>13. SumTo(r2, n) = SumTo(r, n) + paid /\ SumTo(r, n) \in Int
  <2>1. r \in [1..n -> Int] /\ r2 \in [1..n -> Int] /\ \A p \in 1..n : p # o => r2[p] = r[p]
    BY <1>10, <1>12, NatFunction
  <2>2. SumTo(r2, n) = SumTo(r, n) - r[o] + r2[o]
    BY <1>3, <2>1, SumToChange
  <2>3. SumTo(r, n) \in Int
    BY <1>3, <2>1, SumToInt
  <2>4. r[o] \in Nat /\ r2[o] = r[o] + paid
    BY <1>1, <1>3, <1>7, <1>10
  <2> QED BY <1>3, <2>2, <2>3, <2>4
<1>14. cr = (res - paid) + SumTo(r2, n)
  <2>1. cr = res + SumTo(r, n)
    BY <1>1 DEF History
  <2> QED BY <1>3, <1>13, <2>1
<1>15. ASSUME NEW p \in Owners PROVE Lifetime(l, p)'
  <2>1. CASE p # o
    BY <1>6, <2>1 DEF History, Lifetime
  <2>2. CASE p = o
    <3>1. PICK P, ro, ow, ow2, rw, rw2, ao :
            /\ P = Precision /\ ro = received[l][o] /\ ow = Owed(l)[o] /\ ow2 = Owed(l)'[o]
            /\ rw = reweighed[l][o] /\ rw2 = reweighed'[l][o] /\ ao = accrued[l][o]
      OBVIOUS
    <3>2. /\ P \in Nat \ {0} /\ ro \in Nat /\ ow \in Int /\ ow2 \in Int
          /\ rw \in Nat /\ rw2 \in Nat /\ ao \in Nat
      <4>1. ow \in Int /\ ow2 \in Int
        BY <1>2, <1>1, <1>3, <3>1, LedgerTypes, RewardMathAssumption
      <4> QED BY <1>9, <3>1, <4>1, HistoryFields, RewardMathAssumption
    <3>3. PICK pr, pp, s, s2 : /\ pr = P * ro /\ pp = P * paid
                               /\ s = (P - 1) * rw /\ s2 = (P - 1) * rw2
      OBVIOUS
    <3>4. pr \in Int /\ pp \in Int /\ s \in Int /\ s2 \in Int
          /\ P * (ro + paid) = pr + pp
      BY <1>3, <3>2, <3>3
    <3>5. ao <= pr + ow + s /\ pr + ow <= ao + s
      BY <3>1, <3>3 DEF History, Lifetime
    <3>6. /\ pp <= ow /\ ow < pp + P /\ ow2 \in 0..(P - 1)
          /\ (rw2 = rw /\ ow2 = ow - pp) \/ rw2 = rw + 1
      BY <1>2, <1>9, <3>1, <3>3
    <3>7. (rw2 = rw /\ s2 = s /\ ow2 = ow - pp) \/ s2 = s + (P - 1)
      BY <3>2, <3>3, <3>6
    <3>8. ao <= pr + pp + ow2 + s2 /\ pr + pp + ow2 <= ao + s2
      BY <3>2, <3>4, <3>5, <3>6, <3>7
    <3>9. ao <= P * (ro + paid) + ow2 + s2 /\ P * (ro + paid) + ow2 <= ao + s2
      BY <3>4, <3>8
    <3>10. /\ received'[l][o] = ro + paid /\ accrued'[l][o] = ao
           /\ Owed(l)'[o] = ow2 /\ reweighed'[l][o] = rw2
      BY <1>7, <1>8, <3>1
    <3> QED BY <2>2, <3>1, <3>3, <3>9, <3>10 DEF Lifetime
  <2> QED BY <2>1, <2>2
<1>16. HistoryTypes(l)'
  <2>1. received'[l] \in [Owners -> Nat]
    BY <1>1, <1>10, <1>12 DEF Owners
  <2>2. ASSUME NEW p \in 1..n PROVE reweighed'[l][p] \in Nat
    <3>1. reweighed[l][p] \in Nat
      BY <1>1, HistoryFields DEF Owners
    <3> QED BY <1>1, <1>6, <1>9, <3>1 DEF Owners
  <2>3. reweighed'[l] \in [Owners -> Nat]
    BY <1>1, <1>10, <2>2 DEF Owners
  <2> QED BY <1>1, <1>3, <1>5, <1>11, <2>1, <2>3 DEF History, HistoryTypes
<1>17. launch'[l].accRewardPerWeight = launch[l].accRewardPerWeight
  BY DEF Settled
<1> QED BY <1>1, <1>2, <1>5, <1>11, <1>14, <1>15, <1>16, <1>17 DEF History

-----------------------------------------------------------------------------
\* Before any launch exists there is nothing to remember.
LEMMA HistoryInitial == HistoryInit => HistoryInv
<1> SUFFICES ASSUME HistoryInit, NEW l \in Launches PROVE History(l)
  BY DEF HistoryInv
<1>1. /\ launch[l] = EmptyLaunch /\ \A o \in Owners : position[l][o] = EmptyPosition
      /\ credited[l] = 0 /\ leastTotal[l] = U128Max
      /\ received[l] = [o \in Owners |-> 0] /\ accrued[l] = [o \in Owners |-> 0]
      /\ reweighed[l] = [o \in Owners |-> 0]
  BY DEF HistoryInit, Init
<1>2. SumTo(received[l], NumOwners) = 0 /\ SumTo(accrued[l], NumOwners) = 0
  <2>1. PICK z, n : n = NumOwners /\ z = [o \in 1..n |-> 0]
    OBVIOUS
  <2>2. n \in Nat /\ z \in [1..n -> Int] /\ \A i \in 1..n : z[i] = 0
    BY <2>1, StakingAssumption
  <2>3. SumTo(z, n) = 0
    BY <2>2, SumToZero
  <2> QED BY <1>1, <2>1, <2>3 DEF Owners
<1>3. ASSUME NEW o \in Owners PROVE Lifetime(l, o)
  <2>1. /\ Owed(l)[o] = 0 * 0 - Precision * 0
        /\ received[l][o] = 0 /\ accrued[l][o] = 0 /\ reweighed[l][o] = 0
    BY <1>1 DEF Owed, EmptyLaunch, EmptyPosition
  <2>2. 0 <= Precision * 0 + (0 * 0 - Precision * 0) + (Precision - 1) * 0
        /\ Precision * 0 + (0 * 0 - Precision * 0) <= 0 + (Precision - 1) * 0
    BY RewardMathAssumption
  <2> QED BY <2>1, <2>2 DEF Lifetime
<1>4. 0 * U128Max <= Precision * 0 /\ 0 <= Precision * 0 /\ 0 = 0 + 0
  BY RewardMathAssumption
<1>5. HistoryTypes(l)
  BY <1>1, RewardMathAssumption DEF HistoryTypes, U128
<1> QED BY <1>1, <1>2, <1>3, <1>4, <1>5 DEF History, EmptyLaunch

\* Every step keeps the books and the memory of every launch in agreement.
LEMMA HistoryStep ==
  ASSUME LedgerInv, HistoryInv, [HistoryNext]_historyVars
  PROVE  HistoryInv'
<1>1. CASE UNCHANGED historyVars
  BY <1>1 DEF HistoryInv, History, HistoryTypes, Lifetime, Owed, historyVars, vars, ledgerVars
<1>2. CASE HistoryNext
  <2> SUFFICES ASSUME NEW l \in Launches PROVE History(l)'
    BY DEF HistoryInv
  <2>1. /\ TypeOK /\ TypeOK' /\ AccountsExist /\ Ledger(l) /\ History(l) /\ Record
        /\ StepKind(l)
    BY <1>2, NextType, StepKinds DEF HistoryNext, LedgerInv, HistoryInv
  <2> QED BY <2>1, UntouchedHistory, CreditedHistory, SettledHistory DEF StepKind
<1> QED BY <1>1, <1>2

\* What is proved of the program holds of the program with a memory: every
\* behaviour of the latter is one of the former.
LEMMA HistoryImplementsStaking == HistorySpec => Spec
<1>1. HistoryInit => Init
  BY DEF HistoryInit
<1>2. [HistoryNext]_historyVars => [Next]_vars
  BY DEF HistoryNext, historyVars
<1> QED BY <1>1, <1>2, PTL DEF HistorySpec, Spec

\* The memory of every launch agrees with its books in every behaviour.
THEOREM HistoryCorrect == HistorySpec => []HistoryInv
<1>1. HistoryInit => HistoryInv
  BY HistoryInitial
<1>2. LedgerInv /\ HistoryInv /\ [HistoryNext]_historyVars => HistoryInv'
  BY HistoryStep
<1> QED BY <1>1, <1>2, HistoryImplementsStaking, LedgerCorrect, PTL DEF HistorySpec

-----------------------------------------------------------------------------
(***************************************************************************)
(* The properties.                                                         *)
(***************************************************************************)
\* No lamport credited to a launch is lost or paid twice.
THEOREM CreditsAlwaysConserved == HistorySpec => []CreditsConserved
<1>1. HistoryInv => CreditsConserved
  BY DEF HistoryInv, History, CreditsConserved
<1> QED BY <1>1, HistoryCorrect, PTL

\* No credit is shared out beyond its amount.
THEOREM AccrualsAlwaysWithinCredits == HistorySpec => []AccrualsWithinCredits
<1>1. HistoryInv => AccrualsWithinCredits
  BY DEF HistoryInv, History, AccrualsWithinCredits
<1> QED BY <1>1, HistoryCorrect, PTL

\* Whatever an owner does, it is paid its share of every credit.
THEOREM LifetimeShareAlways == HistorySpec => []LifetimeShare
<1>1. HistoryInv => LifetimeShare
  BY DEF HistoryInv, History, Lifetime, LifetimeShare
<1> QED BY <1>1, HistoryCorrect, PTL

\* A weight is at most 2.5 times the amount it stands for.
LEMMA WeightAtMost ==
  ASSUME NEW amount \in Nat, NEW lockDays \in LockDurations
  PROVE  /\ WeightedAmount(amount, LockMultiplierBps(lockDays)) \in Nat
         /\ 2 * WeightedAmount(amount, LockMultiplierBps(lockDays)) <= 5 * amount
<1>1. LockMultiplierBps(lockDays) \in {10000, 12500, 17500, 25000}
  BY DEF LockDurations, LockMultiplierBps
<1>2. \A m \in {10000, 12500, 17500, 25000} :
        (amount * m) \div 10000 \in Nat /\ 2 * ((amount * m) \div 10000) <= 5 * amount
  OBVIOUS
<1> QED BY <1>1, <1>2 DEF WeightedAmount, BpsDenominator

\* An open position's weight is at most 2.5 times its owner's tokens.
LEMMA WeightBounded ==
  ASSUME TypeOK, OwnersWhole, WeightMatchesLock,
         NEW l \in Launches, NEW o \in Owners, HasPosition(l, o)
  PROVE  2 * position[l][o].weight <= 5 * InitialTokens
<1>1. PICK a, w, t : a = position[l][o].amount /\ w = position[l][o].weight /\ t = wallet[l][o]
  OBVIOUS
<1>2. a \in Nat /\ w \in Nat /\ t \in Nat /\ t + a = InitialTokens
  BY <1>1, PositionTypes DEF TypeOK, OwnersWhole
<1>3. 2 * w <= 5 * a
  BY <1>1, <1>2, WeightAtMost DEF WeightMatchesLock
<1> QED BY <1>1, <1>2, <1>3

\* A common positive factor can be dropped from a weak order.
LEMMA ProductCancelWeak ==
  ASSUME NEW c \in Nat \ {0}, NEW a \in Int, NEW b \in Int, c * a <= c * b
  PROVE  a <= b
<1>1. c * b < c * (b + 1)
  OBVIOUS
<1>2. PICK x, y, z : x = c * a /\ y = c * b /\ z = c * (b + 1)
  OBVIOUS
<1>3. x \in Int /\ y \in Int /\ z \in Int /\ x < z
  BY <1>1, <1>2
<1>4. a < b + 1
  BY <1>2, <1>3, ProductCancel
<1> QED BY <1>4

\* The arithmetic of the overflow bound: a weight within W, and an accumulator
\* whose product with L is within C.
LEMMA ProductFits ==
  ASSUME NEW w \in Nat, NEW acc \in Nat, NEW L \in Nat \ {0}, NEW W \in Nat, NEW C \in Nat,
         NEW U \in Nat, 2 * w <= W, acc * L <= C, W * C <= 2 * U * L
  PROVE  w * acc <= U
<1>1. PICK al, v, wa : al = acc * L /\ v = 2 * w /\ wa = w * acc
  OBVIOUS
<1>2. al \in Nat /\ v \in Nat /\ wa \in Nat /\ v <= W /\ al <= C
  BY <1>1, ProductNat
<1>3. v * al <= W * C
  <2>1. al * v <= al * W /\ W * al <= W * C
    BY <1>2, ProductMonotone
  <2>2. PICK x, y, z : x = al * v /\ y = al * W /\ z = W * C
    OBVIOUS
  <2>3. x \in Nat /\ y \in Nat /\ z \in Nat /\ v * al = x /\ W * al = y
    BY <1>2, <2>2
  <2> QED BY <2>1, <2>2, <2>3
<1>4. v * al = L * (2 * wa)
  BY <1>1
<1>5. 2 * U * L = L * (2 * U)
  OBVIOUS
<1>6. L * (2 * wa) <= L * (2 * U)
  <2>1. PICK x, y, z : x = v * al /\ y = W * C /\ z = 2 * U * L
    OBVIOUS
  <2>2. x \in Int /\ y \in Int /\ z \in Int /\ x <= y /\ y <= z
    BY <1>2, <1>3, <2>1
  <2>3. x <= z
    BY <2>2
  <2> QED BY <1>4, <1>5, <2>1, <2>3
<1>7. 2 * wa <= 2 * U
  BY <1>2, <1>6, ProductCancelWeak
<1> QED BY <1>1, <1>2, <1>7

\* Within the bound no pending reward overflows.
THEOREM RewardsAlwaysComputable == HistorySpec => []RewardsStayComputable
<1>1. LedgerInv /\ OwnersWhole /\ WeightMatchesLock /\ HistoryInv => RewardsStayComputable
  <2> SUFFICES ASSUME LedgerInv, OwnersWhole, WeightMatchesLock, HistoryInv,
                      NEW l \in Launches, NEW o \in Owners, HasPosition(l, o),
                      5 * InitialTokens * Precision * credited[l] <= 2 * U128Max * leastTotal[l],
                      launch[l].rewardReserve + entries[l] <= U64Max
               PROVE  PendingIsComputable(position[l][o], launch[l])
    BY DEF RewardsStayComputable
  <2>1. PICK w, acc, L, C, W :
          /\ w = position[l][o].weight /\ acc = launch[l].accRewardPerWeight
          /\ L = leastTotal[l] /\ C = Precision * credited[l] /\ W = 5 * InitialTokens
    OBVIOUS
  <2>2. /\ TypeOK /\ w \in Nat /\ acc \in U128 /\ acc \in Nat /\ L \in Nat /\ C \in Nat
        /\ W \in Nat /\ U128Max \in Nat
    <3>1. TypeOK /\ History(l)
      BY DEF LedgerInv, HistoryInv
    <3>2. credited[l] \in Nat /\ Precision \in Nat
      BY <3>1, HistoryFields, RewardMathAssumption
    <3>3. launch[l].accRewardPerWeight \in U128
      BY <3>1, LaunchTypes DEF LaunchConfig
    <3> QED BY <2>1, <3>1, <3>2, <3>3, LaunchTypes, PositionTypes, HistoryFields, StakingAssumption,
               RewardMathAssumption
  <2>3. 2 * w <= W
    BY <2>1, <2>2, WeightBounded
  <2>4. acc * L <= C /\ (L = U128Max \/ L > 0)
    BY <2>1 DEF HistoryInv, History
  <2>5. W * C <= 2 * U128Max * L
    <3>1. PICK T, P, c : T = InitialTokens /\ P = Precision /\ c = credited[l]
      OBVIOUS
    <3>2. T \in Nat /\ P \in Nat /\ c \in Nat
      BY <3>1, HistoryFields, StakingAssumption, RewardMathAssumption DEF HistoryInv
    <3>3. 5 * T * P * c = (5 * T) * (P * c)
      BY <3>2
    <3> QED BY <2>1, <3>1, <3>3
  <2>6. w * acc \in U128
    <3>1. CASE L > 0
      <4>1. w * acc <= U128Max
        BY <2>2, <2>3, <2>4, <2>5, <3>1, ProductFits
      <4> QED BY <2>2, <4>1, ProductNat DEF U128
    <3>2. CASE U128Max = 0
      <4>1. acc = 0
        BY <2>2, <3>2 DEF U128
      <4> QED BY <2>2, <4>1 DEF U128
    <3> QED BY <2>2, <2>4, <3>1, <3>2
  <2>7. PendingReward(position[l][o], launch[l]) \in U64
    <3>1. PICK p, n, total : p = Pendings(l) /\ n = NumOwners /\ total = SumTo(Pendings(l), NumOwners)
      OBVIOUS
    <3>2. n \in Nat /\ o \in 1..n /\ p \in [1..n -> Int] /\ \A i \in 1..n : p[i] >= 0
      BY <2>2, <3>1, LedgerTypes, StakingAssumption DEF Owners, LedgerInv, Ledger, Pendings
    <3>3. p \in [1..n -> Nat]
      BY <3>2
    <3>4. p[o] <= total /\ p[o] \in Nat /\ total \in Int
      BY <3>1, <3>2, <3>3, SumToMember, SumToInt
    <3>5. total <= launch[l].rewardReserve + entries[l]
      BY <3>1, LedgerBoundsShortfall
    <3>6. launch[l].rewardReserve \in Nat /\ entries[l] \in Nat /\ U64Max \in Nat
      BY <2>2, LaunchTypes, RewardMathAssumption
    <3>7. p[o] \in U64
      BY <3>4, <3>5, <3>6 DEF U64
    <3> QED BY <3>1, <3>7 DEF Pendings
  <2> QED BY <2>1, <2>6, <2>7 DEF PendingIsComputable
<1>2. HistorySpec => [](LedgerInv /\ OwnersWhole /\ WeightMatchesLock /\ HistoryInv)
  BY HistoryImplementsStaking, LedgerCorrect, OwnersAlwaysWhole, WeightAlwaysMatchesLock,
     HistoryCorrect, PTL
<1> QED BY <1>1, <1>2, PTL
=============================================================================
