----------------------------- MODULE StakingHistory -----------------------------
(***************************************************************************)
(* Staking with a memory.  History variables record, beside the program's  *)
(* own state and from it alone, what a launch has been credited,           *)
(* what each owner's share of every credit was and what each owner has     *)
(* been paid, over all the positions the owner ever had.  With them a      *)
(* property can speak of a whole lifetime of entries, increases, claims    *)
(* and exits, which the accounts forget: a closed position leaves nothing. *)
(***************************************************************************)
EXTENDS StakingProperties

VARIABLES
  credited,    \* lamports the claims have credited each launch
  received,    \* lamports paid to each owner
  accrued,     \* each owner's share of the credits, in 1/Precision lamports
  reweighed,   \* how often the weight of an owner's position has changed
  leastTotal   \* least total weight a credit has been divided by

historyVars == <<vars, credited, received, accrued, reweighed, leastTotal>>

HistoryInit ==
  /\ Init
  /\ credited = [l \in Launches |-> 0]
  /\ received = [l \in Launches |-> [o \in Owners |-> 0]]
  /\ accrued = [l \in Launches |-> [o \in Owners |-> 0]]
  /\ reweighed = [l \in Launches |-> [o \in Owners |-> 0]]
  /\ leastTotal = [l \in Launches |-> U128Max]

\* What a step adds to a launch's accumulator, and what it takes from its account
\* or, with an addition to the accumulator, puts there.  Other lamports that reach
\* the account are gifts.
Increment(l) == launch'[l].accRewardPerWeight - launch[l].accRewardPerWeight
Inflow(l)    == IF Increment(l) > 0 THEN lamports'[l] - lamports[l] ELSE 0
Outflow(l)   == Larger(lamports[l] - lamports'[l], 0)

Record ==
  /\ credited' = [l \in Launches |-> credited[l] + Inflow(l)]
  /\ received' = [l \in Launches |-> [o \in Owners |->
       received[l][o] + (IF position'[l][o] # position[l][o] THEN Outflow(l) ELSE 0)]]
  /\ accrued' = [l \in Launches |-> [o \in Owners |->
       accrued[l][o] + Increment(l) * position[l][o].weight]]
  /\ reweighed' = [l \in Launches |-> [o \in Owners |->
       reweighed[l][o] + (IF position'[l][o].weight # position[l][o].weight THEN 1 ELSE 0)]]
  /\ leastTotal' = [l \in Launches |->
       IF Increment(l) > 0 /\ launch[l].totalWeightedStake < leastTotal[l]
       THEN launch[l].totalWeightedStake ELSE leastTotal[l]]

HistoryNext == Next /\ Record

HistorySpec == HistoryInit /\ [][HistoryNext]_historyVars

-----------------------------------------------------------------------------
(***************************************************************************)
(* Invariants.                                                             *)
(***************************************************************************)
\* Every lamport a launch was ever credited is in its reserve or was paid to an
\* owner: nothing is paid twice, and nothing leaves the books unpaid, however
\* often positions are reweighted, closed and opened again.
CreditsConserved ==
  \A l \in Launches :
    credited[l] = launch[l].rewardReserve + SumTo(received[l], NumOwners)

\* The shares of a credit never add up to more than the credit.
AccrualsWithinCredits ==
  \A l \in Launches : SumTo(accrued[l], NumOwners) <= Precision * credited[l]

\* Over any lifetime an owner is paid its share of the credits: what it received
\* and is still owed differs from what its weight earned by less than one lamport
\* for each time the weight changed.  Neither the number of claims nor their
\* timing costs or gains an owner anything.
LifetimeShare ==
  \A l \in Launches, o \in Owners :
    LET settled == Precision * received[l][o] + Owed(l)[o]
        slack   == (Precision - 1) * reweighed[l][o]
    IN  /\ accrued[l][o] <= settled + slack
        /\ settled <= accrued[l][o] + slack

\* How far the overflow of pending_reward is.  A weight is at most 2.5 times all
\* the tokens of an owner, and an accumulator at most what was credited divided by
\* the least total weight a credit met; while the product fits, and the reserve
\* with a lamport per entry fits in a u64, no open position's pending reward
\* overflows, and none is locked in by its arithmetic.
RewardsStayComputable ==
  \A l \in Launches, o \in Owners :
    (/\ HasPosition(l, o)
     /\ 5 * InitialTokens * Precision * credited[l] <= 2 * U128Max * leastTotal[l]
     /\ launch[l].rewardReserve + entries[l] <= U64Max)
       => PendingIsComputable(position[l][o], launch[l])
=============================================================================
