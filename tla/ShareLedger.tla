------------------------------ MODULE ShareLedger ------------------------------
(***************************************************************************)
(* What a reward pool promises, without accumulators or debts.  A ledger   *)
(* has members with weights, an amount owed to each member in 1/Unit       *)
(* coins, and a reserve in whole coins.  In a step a ledger may stay as it *)
(* is, be credited, or settle one of its members:                          *)
(*   - a credit is shared out by weight, the same for each unit of weight, *)
(*     as far as whole 1/Unit coins per unit of weight go, and belongs to  *)
(*     nobody else;                                                        *)
(*   - a settlement pays a member every whole coin it is owed, and only    *)
(*     then may its weight change; a change of weight costs or gives less  *)
(*     than one coin.                                                      *)
(***************************************************************************)
EXTENDS BoundedSum

CONSTANTS
  Ledgers,     \* the ledgers
  NumMembers,  \* members of a ledger are 1..NumMembers
  Unit         \* parts a coin is counted in

VARIABLES
  weight,      \* the weight of each member of each ledger
  owed,        \* what each member has accrued and not been paid
  reserve      \* the coins each ledger holds for its members

Members == 1..NumMembers

Init ==
  /\ weight = [l \in Ledgers |-> [m \in Members |-> 0]]
  /\ owed = [l \in Ledgers |-> [m \in Members |-> 0]]
  /\ reserve = [l \in Ledgers |-> 0]

Rest(l) ==
  /\ weight'[l] = weight[l]
  /\ owed'[l] = owed[l]
  /\ reserve'[l] = reserve[l]

\* What the reserve gains is divided by whole, in whole 1/Unit coins, and each
\* member gets that for each unit of its weight.
CreditOver(l, whole) ==
  LET amount == reserve'[l] - reserve[l]
      inc    == (Unit * amount) \div whole
  IN  /\ amount > 0
      /\ whole > 0
      /\ inc > 0
      /\ weight'[l] = weight[l]
      /\ \A m \in Members : owed'[l][m] = owed[l][m] + inc * weight[l][m]

Credit(l) == CreditOver(l, SumTo(weight[l], NumMembers))

Settle(l, m) ==
  \E paid \in 0..reserve[l] :
    /\ Unit * paid <= owed[l][m]
    /\ owed[l][m] < Unit * paid + Unit
    /\ reserve'[l] = reserve[l] - paid
    /\ owed'[l][m] \in 0..(Unit - 1)
    /\ weight'[l][m] = weight[l][m] => owed'[l][m] = owed[l][m] - Unit * paid
    /\ \A other \in Members \ {m} :
         weight'[l][other] = weight[l][other] /\ owed'[l][other] = owed[l][other]

Step(l) == Rest(l) \/ Credit(l) \/ \E m \in Members : Settle(l, m)

Next == \A l \in Ledgers : Step(l)

Spec == Init /\ [][Next]_<<weight, owed, reserve>>
=============================================================================
