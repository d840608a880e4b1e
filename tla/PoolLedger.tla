------------------------------ MODULE PoolLedger ------------------------------
(***************************************************************************)
(* What a quote reward pool promises.  It is a share ledger in all but one *)
(* thing: a credit is divided by a total that is kept elsewhere, of which  *)
(* the members' weights need not be a part.  What falls to weight that is  *)
(* not in the pool is reserved for nobody; weight that is in the pool and  *)
(* no longer in the total is given more than there is.                     *)
(***************************************************************************)
EXTENDS ShareLedger

VARIABLE total  \* what a credit of each ledger is divided by

PoolCredit(l) == CreditOver(l, total[l])

PoolStep(l) == Rest(l) \/ PoolCredit(l) \/ \E m \in Members : Settle(l, m)

PoolNext == \A l \in Ledgers : PoolStep(l)

PoolSpec == Init /\ [][PoolNext]_<<weight, owed, reserve, total>>
=============================================================================
