------------------------------ MODULE MCAdmission ------------------------------
(* A small instance of Admission for TLC: its symmetries, and what the later    *)
(* steps and the properties of Admission.cfg still read of a state.             *)
EXTENDS Admission, TLC

CONSTANTS r1, r2, k1, k2, k3, j1, j2, j3

Symmetry == Permutations(Requests) \cup Permutations(Jobs)

Asking == {r \in Requests : request[r] # Idle}

(* A job that ended without a result of use: its project is deleted, it was no   *)
(* generation, or it was a rollback. Its row is there to be removed with the     *)
(* project.                                                                    *)
Spent(j) ==
  /\ job[j].state \in {"live", "failed"}
  /\ \/ job[j].kind # "generation" /\ job[j].state = "failed"
     \/ job[j].kind = "rollback"
     \/ job[j].project \in deleted
  /\ \A r \in Asking : request[r].parent # j

(* A row is read for its charge until it starts, for its slot while it runs, and *)
(* for its answers and its project once it has ended.                           *)
RowMatters(j) ==
  IF Spent(j)
    THEN [Unborn EXCEPT !.state = "failed", !.key = job[j].key # None,
                        !.project = job[j].project]
    ELSE [job[j] EXCEPT !.key = @ # None,
                        !.counted = @ /\ job[j].state = "created",
                        !.resumed = @ /\ job[j].state = "active",
                        !.answered = @ /\ job[j].state # "live"]

(* A key is read for who has it: jobs, or other requests. *)
Keyed(k) == {j \in Jobs : job[j].key = k}
Sharing(k) == {r \in Asking : request[r].key = k}
AskMatters(q) ==
  IF q = Idle THEN <<q>>
    ELSE <<[q EXCEPT !.key = None, !.balance = @ \div Cost], Keyed(q.key), Sharing(q.key)>>

Matters ==
  <<[j \in Jobs |-> RowMatters(j)], [r \in Requests |-> AskMatters(request[r])],
    deleted, used, edits >= MonthlyEdits, bonus \div Cost, refills>>
================================================================================
