-------------------------------- MODULE Ledger ---------------------------------
(******************************************************************************)
(* What the token channels promise together: a purchase adds one pack to the  *)
(* balance of one user, once, whoever reports it and however often; every     *)
(* other change of a balance is a correction or a charge; and no balance is   *)
(* ever negative. All packs are of one size, the unit of the balance.         *)
(******************************************************************************)
EXTENDS FiniteSets, Integers

CONSTANTS
  Users,
  Purchases,
  Deltas      \* what a correction or a charge adds to a balance

VARIABLES
  balance,  \* users.bonus_generations_balance
  credits,  \* rows of credit_grants that stand for a purchase, with their user
  other     \* the sum of all corrections and charges of a user

CreditsOf(set, u) == {p \in Purchases : <<p, u>> \in set}

Fresh == {p \in Purchases : \A u \in Users : <<p, u>> \notin credits}

Init ==
  /\ balance = [u \in Users |-> 0]
  /\ credits = {}
  /\ other = [u \in Users |-> 0]

(* One transaction credits a set of new purchases to one user. *)
Credit(u, batch) ==
  /\ credits' = credits \cup (batch \X {u})
  /\ balance' = [balance EXCEPT ![u] = @ + Cardinality(batch)]
  /\ UNCHANGED other

Change(u, d) ==
  /\ balance[u] + d >= 0
  /\ balance' = [balance EXCEPT ![u] = @ + d]
  /\ other' = [other EXCEPT ![u] = @ + d]
  /\ UNCHANGED credits

Next ==
  \E u \in Users :
    \/ \E batch \in SUBSET Fresh : Credit(u, batch)
    \/ \E d \in Deltas : Change(u, d)

vars == <<balance, credits, other>>

Spec == Init /\ [][Next]_vars

(* A balance is what the ledger says: the packs credited to the user, plus     *)
(* corrections, minus charges; nobody's update of it is ever lost.             *)
BalanceIsLedger ==
  \A u \in Users : balance[u] = Cardinality(CreditsOf(credits, u)) + other[u]

(* A purchase is credited to one user at most. *)
CreditedOnce ==
  \A p \in Purchases, u, v \in Users :
    <<p, u>> \in credits /\ <<p, v>> \in credits => u = v

NeverNegative == \A u \in Users : balance[u] >= 0
================================================================================
