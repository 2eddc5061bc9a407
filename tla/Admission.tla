------------------------------- MODULE Admission -------------------------------
(******************************************************************************)
(* How one user's jobs are let in: POST /projects, POST /projects/{pid}/edits, *)
(* POST /jobs/{id}/retry and rollback. A request looks its Idempotency-Key up, *)
(* reads the counts the limits are about, and inserts its job afterwards; no   *)
(* lock is held in between, so every limit is a check on counts that concurrent *)
(* requests, started jobs and answered interviews have moved on since. The      *)
(* balance it weighs is older still: the User it was authenticated as. A        *)
(* generation is paid for when it starts, not when it is let in.               *)
(* A refusal (402, 404, 409) changes nothing: it is a step not taken, or Abort. *)
(******************************************************************************)
EXTENDS FiniteSets, Integers

CONSTANTS
  Requests,     \* requests handled at a time
  Jobs,
  Keys,         \* Idempotency-Keys
  Cap,          \* plan_quotas.max_concurrent_jobs
  RetryCap,     \* the cap of auth.concurrency, a stub for the free plan
  MaxProjects,  \* plan_quotas.max_projects
  Monthly,      \* plan_quotas.monthly_generations
  MonthlyEdits, \* plan_quotas.monthly_edits
  MaxRetries,   \* generation_retry_max_attempts
  Cost,         \* generation_cost_tokens
  MaxBonus,     \* bound: the token balance
  MaxRefills,   \* bound: times a month that the balance comes to the price
  None

ASSUME AdmissionAssumption ==
  /\ IsFiniteSet(Requests) /\ Requests # {}
  /\ IsFiniteSet(Jobs)
  /\ None \notin Keys \cup Jobs
  /\ {Cap, RetryCap, MaxProjects, MonthlyEdits, MaxRetries, MaxBonus, MaxRefills} \subseteq Nat
  /\ {Monthly, Cost} \subseteq Nat \ {0}
  /\ RetryCap <= Cap

VARIABLES
  job,      \* rows of generation_jobs
  deleted,  \* projects with deleted_at; a project is named by its first job
  used,     \* usage_counters.generations_used of this month
  edits,    \* edit_usage_counters.edits_used of this month
  bonus,    \* users.bonus_generations_balance
  refills,  \* times this month that the balance came to pay for a generation
  request   \* what each request has found so far

vars == <<job, deleted, used, edits, bonus, refills, request>>
counters == <<used, edits, bonus, refills>>

Kinds == {"generation", "edit", "rollback"}
Running == {"created", "active"}         \* not in PAUSED_STATES
Paused == {"parked", "live", "failed"}   \* AWAITING_CLARIFICATION, LIVE, FAILED

Unborn == [state |-> "unborn", kind |-> "generation", key |-> None, project |-> None,
           parent |-> None, counted |-> FALSE, saw |-> "nothing", answered |-> FALSE,
           resumed |-> FALSE]

Rows == [state : {"unborn"} \cup Running \cup Paused, kind : Kinds, key : Keys \cup {None},
         project : Jobs \cup {None}, parent : Jobs \cup {None}, counted : BOOLEAN,
         saw : {"nothing", "room", "none"}, answered : BOOLEAN, resumed : BOOLEAN]

Born == {j \in Jobs : job[j].state # "unborn"}
Active == {j \in Jobs : job[j].state \in Running}
Projects == {j \in Born : job[j].project = j} \ deleted
Retries(p) == {j \in Born : job[j].project = p /\ job[j].parent # None}
KeyUsed(k) == \E j \in Born : job[j].key = k

(* A generation or an edit that went LIVE left a good revision; the last one   *)
(* is current until a rollback.                                                *)
Good(p) == {j \in Born : /\ job[j].project = p
                         /\ job[j].kind # "rollback"
                         /\ job[j].state = "live"}

Idle == [step |-> "idle"]
Steps == {"entered", "counted", "passed"}
Asked(step, kind, key, project, parent) ==
  [step |-> step, kind |-> kind, key |-> key, project |-> project, parent |-> parent,
   balance |-> 0]
Asks == {Idle} \cup [step : Steps, kind : {"generation", "edit"}, key : Keys \cup {None},
                     project : Jobs \cup {None}, parent : Jobs \cup {None}, balance : Nat]

(* Requests that hold a balance to pay with and have not come to the end of the  *)
(* gate.                                                                       *)
Rich == {r \in Requests : request[r] # Idle /\ request[r].balance >= Cost}

Init ==
  /\ job = [j \in Jobs |-> Unborn]
  /\ deleted = {}
  /\ used = 0 /\ edits = 0 /\ bonus = 0 /\ refills = 0
  /\ request = [r \in Requests |-> Idle]

--------------------------------------------------------------------------------
(* POST /projects and /edits: the key is new; projects and slots are counted.  *)

(* Mutant of SlotFree: the running jobs may reach the cap, and one more.        *)
SlotFreeUpTo == Cardinality(Active) <= Cap

SlotFree == Cardinality(Active) < Cap

(* Authentication loads the User into the session of the request, which never   *)
(* reads it again: expire_on_commit is off, and the gate's session.get finds it  *)
(* in the identity map. Only a generation looks at its balance.                *)
Enter(r) ==
  /\ request[r] = Idle
  /\ request' = [request EXCEPT ![r] =
       [Asked("entered", "generation", None, None, None) EXCEPT !.balance = bonus]]
  /\ UNCHANGED <<job, deleted, counters>>

AskCreate(r, k) ==
  /\ request[r].step = "entered"
  /\ ~KeyUsed(k)
  /\ Cardinality(Projects) < MaxProjects
  /\ SlotFree
  /\ request' = [request EXCEPT ![r] = [@ EXCEPT !.step = "counted", !.key = k]]
  /\ UNCHANGED <<job, deleted, counters>>

AskEdit(r, k, p) ==
  /\ request[r] = Idle
  /\ ~KeyUsed(k)
  /\ p \in Projects /\ Good(p) # {}
  /\ SlotFree
  /\ request' = [request EXCEPT ![r] = Asked("counted", "edit", k, p, None)]
  /\ UNCHANGED <<job, deleted, counters>>

(* The last check of the gate: is there anything left to pay with? The month's  *)
(* counter is read now, the balance was read on entry; one below the price of a *)
(* generation does not count.                                                  *)
(* Mutant of Payable: the quota may be reached, and one more.                   *)
PayableUpTo(q) ==
  IF q.kind = "edit" THEN edits < MonthlyEdits ELSE used <= Monthly \/ q.balance >= Cost

Payable(q) ==
  IF q.kind = "edit" THEN edits < MonthlyEdits ELSE used < Monthly \/ q.balance >= Cost

Weigh(r) ==
  /\ request[r].step = "counted"
  /\ request' = IF Payable(request[r])
                  THEN [request EXCEPT ![r] = [@ EXCEPT !.step = "passed", !.balance = 0]]
                  ELSE [request EXCEPT ![r] = Idle]
  /\ UNCHANGED <<job, deleted, counters>>

(* Retries are counted over the project: a retry may be retried.               *)
(* Mutant of RetriesLeft: the last one is let in twice.                        *)
RetriesLeftUpTo(p) == Cardinality(Retries(p)) <= MaxRetries

RetriesLeft(p) == Cardinality(Retries(p)) < MaxRetries

(* POST /jobs/{id}/retry of a failed generation: no retry of it yet, retries    *)
(* left in the project, and a slot.                                            *)
AskRetry(r, j) ==
  /\ request[r] = Idle
  /\ job[j].state = "failed" /\ job[j].kind = "generation"
  /\ \A i \in Born : job[i].parent # j
  /\ job[j].project \notin deleted
  /\ RetriesLeft(job[j].project)
  /\ Cardinality(Active) < RetryCap
  /\ request' = [request EXCEPT ![r] = Asked("passed", "generation", None, job[j].project, j)]
  /\ UNCHANGED <<job, deleted, counters>>

(* The job the request inserts. A new project is named by its job; a retry is  *)
(* settled in advance, and skips the interview when all answers are copied.    *)
NewRow(q, j) ==
  LET retry == q.parent # None
      answered == retry /\ job[q.parent].answered
  IN  [state |-> IF answered THEN "active" ELSE "created",
       kind |-> q.kind, key |-> q.key,
       project |-> IF q.project = None THEN j ELSE q.project,
       parent |-> q.parent, counted |-> retry, saw |-> "nothing", answered |-> answered,
       resumed |-> FALSE]

(* An id that no row has, and none that a request remembers had. *)
Unused(j) ==
  /\ job[j] = Unborn
  /\ \A r \in Requests :
       request[r] # Idle => j \notin {request[r].project, request[r].parent}

(* The unique (user, key) lets one of two requests with the same key in; the    *)
(* other rolls back and answers with the winner's job. A row of a project that  *)
(* is gone is refused by its foreign key.                                      *)
Insert(r, j) ==
  /\ request[r].step = "passed"
  /\ request[r].project \in {None} \cup Born
  /\ Unused(j)
  /\ request[r].key = None \/ ~KeyUsed(request[r].key)
  /\ job' = [job EXCEPT ![j] = NewRow(request[r], j)]
  /\ request' = [request EXCEPT ![r] = Idle]
  /\ UNCHANGED <<deleted, counters>>

Clash(r) ==
  /\ request[r].step = "passed"
  /\ request[r].key # None /\ KeyUsed(request[r].key)
  /\ request' = [request EXCEPT ![r] = Idle]
  /\ UNCHANGED <<job, deleted, counters>>

(* The process dies, or the client goes away, before the commit. *)
Abort(r) ==
  /\ request[r] # Idle
  /\ request' = [request EXCEPT ![r] = Idle]
  /\ UNCHANGED <<job, deleted, counters>>

(* A rollback is not limited, but its job is active like any other. *)
Rollback(p, j) ==
  /\ p \in Projects /\ Cardinality(Good(p)) > 1
  /\ Unused(j)
  /\ job' = [job EXCEPT ![j] = [Unborn EXCEPT !.state = "created", !.kind = "rollback",
                                              !.project = p]]
  /\ UNCHANGED <<deleted, counters, request>>

Delete(p) ==
  /\ p \in Projects
  /\ deleted' = deleted \cup {p}
  /\ UNCHANGED <<job, counters, request>>

(* project.gc fails the jobs of a deleted project, and in the end removes its    *)
(* rows, whatever came in since, and the keys with them; the counters stay.     *)
Purge(p) ==
  /\ p \in deleted
  /\ deleted' = deleted \ {p}
  /\ job' = [j \in Jobs |-> IF job[j].project = p THEN Unborn ELSE job[j]]
  /\ UNCHANGED <<counters, request>>

--------------------------------------------------------------------------------
(* The jobs. The first task reads the month's counter and charges later: what   *)
(* it saw may be stale. JobPipeline says why a job is charged once.            *)

NeedsCharge(j) == job[j].state = "created" /\ job[j].kind # "rollback" /\ ~job[j].counted

Look(j) ==
  /\ NeedsCharge(j) /\ job[j].kind = "generation"
  /\ job' = [job EXCEPT ![j].saw = IF used < Monthly THEN "room" ELSE "none"]
  /\ UNCHANGED <<deleted, counters, request>>

(* The month pays first, then the balance, by a conditional UPDATE, and when    *)
(* neither is left the month once more.                                        *)
Charge(j) ==
  \/ /\ job[j].kind = "edit"
     /\ edits' = edits + 1
     /\ UNCHANGED <<used, bonus, refills>>
  \/ /\ job[j].saw = "none" /\ bonus >= Cost
     /\ bonus' = bonus - Cost
     /\ UNCHANGED <<used, edits, refills>>
  \/ /\ job[j].saw = "room" \/ (job[j].saw = "none" /\ bonus < Cost)
     /\ used' = used + 1
     /\ UNCHANGED <<edits, bonus, refills>>

Start(j) ==
  /\ job[j].state = "created"
  /\ job' = [job EXCEPT ![j].state = "active", ![j].counted = TRUE, ![j].saw = "nothing"]
  /\ IF NeedsCharge(j) THEN Charge(j) ELSE UNCHANGED counters
  /\ UNCHANGED <<deleted, request>>

(* A question to the user gives the slot back; the answer takes one unasked.    *)
Park(j) ==
  /\ job[j].state = "active" /\ job[j].kind = "generation" /\ ~job[j].answered
  /\ job' = [job EXCEPT ![j].state = "parked"]
  /\ UNCHANGED <<deleted, counters, request>>

Resume(j) ==
  /\ job[j].state = "parked"
  /\ job' = [job EXCEPT ![j].state = "active", ![j].answered = TRUE, ![j].resumed = TRUE]
  /\ UNCHANGED <<deleted, counters, request>>

Fail(j) ==
  /\ job[j].state \in Running \cup {"parked"}
  /\ job' = [job EXCEPT ![j].state = "failed", ![j].saw = "nothing"]
  /\ UNCHANGED <<deleted, counters, request>>

GoLive(j) ==
  /\ job[j].state = "active"
  /\ job' = [job EXCEPT ![j].state = "live"]
  /\ UNCHANGED <<deleted, counters, request>>

(* Packs and corrections (TokenLedger) move the balance.                       *)
Refill(n) ==
  /\ n \in bonus + 1 .. MaxBonus
  /\ bonus' = n
  /\ IF bonus < Cost /\ n >= Cost
       THEN refills < MaxRefills /\ refills' = refills + 1
       ELSE UNCHANGED refills
  /\ UNCHANGED <<job, deleted, used, edits, request>>

Correct(n) ==
  /\ n \in 0 .. bonus - 1
  /\ bonus' = n
  /\ UNCHANGED <<job, deleted, used, edits, refills, request>>

(* The counters are kept by month; a charge under way goes to either one. A      *)
(* balance that somebody still counts on is one to spend in the new month.     *)
NewMonth ==
  /\ used > 0 \/ edits > 0
  /\ used' = 0 /\ edits' = 0
  /\ refills' = IF bonus >= Cost \/ Rich # {} THEN 1 ELSE 0
  /\ UNCHANGED <<job, deleted, bonus, request>>

Handle(r) ==
  \/ \E k \in Keys : AskCreate(r, k) \/ \E p \in Jobs : AskEdit(r, k, p)
  \/ \E j \in Jobs : AskRetry(r, j) \/ Insert(r, j)
  \/ Enter(r) \/ Weigh(r) \/ Clash(r) \/ Abort(r)

Next ==
  \/ \E r \in Requests : Handle(r)
  \/ \E p, j \in Jobs : Rollback(p, j)
  \/ \E j \in Jobs : \/ Delete(j) \/ Purge(j) \/ Look(j) \/ Start(j) \/ Park(j) \/ Resume(j)
                     \/ Fail(j) \/ GoLive(j)
  \/ \E n \in 0 .. MaxBonus : Refill(n) \/ Correct(n)
  \/ NewMonth

Spec == Init /\ [][Next]_vars

--------------------------------------------------------------------------------
(* Every row, request and counter is of its type; no balance is negative.       *)
TypeOK ==
  /\ job \in [Jobs -> Rows]
  /\ deleted \subseteq Jobs
  /\ {used, edits, bonus, refills} \subseteq Nat
  /\ request \in [Requests -> Asks]

InFlight == {r \in Requests : request[r].step \in {"counted", "passed"}}
Slack == Cap + Cardinality(Requests) - 1

(* A job holds the slot it was let in for until it stops or asks its question;  *)
(* rollbacks and resumed jobs run beside the cap.                              *)
Holders == {j \in Active : job[j].kind # "rollback" /\ ~job[j].resumed}

(* Requests that raced through the gate exceed the cap by less than their      *)
(* number, however they interleave with jobs that start, park and finish       *)
(* (enforce_quota_gate counts, the caller inserts).                            *)
SlotsBounded == Cardinality(Holders) + Cardinality(InFlight) <= Slack

Unpaid == {j \in Jobs : NeedsCharge(j) /\ job[j].kind = "generation"}
Paying == {r \in InFlight : request[r].step = "passed" /\ request[r].kind = "generation"
                              /\ request[r].parent = None}


(* Requests that bring a generation without asking again what there is to pay with. *)
Coming == Paying \cup Rich
Lag == Slack + Cardinality(Requests)

(* The gate lets a generation in while there was something to pay with, and it  *)
(* starts even when there is nothing left. The month's counter passes the quota *)
(* by less than the slots, and by no more than the slots and the requests that  *)
(* saw the balance for every balance that ran out: a user never gets an         *)
(* unbounded number of generations on one pack (quota_gate step 4,             *)
(* count_generation_start).                                                    *)
StartsCovered ==
  IF bonus >= Cost
    THEN used < Monthly + Slack + (refills - 1) * Lag
    ELSE used + Cardinality(Unpaid) + Cardinality(Coming) < Monthly + Slack + refills * Lag

(* A paid generation is repeated free of charge MaxRetries times, and racing    *)
(* retries exceed it by less than their number (retry_failed_job).             *)
Retrying(p) == {r \in InFlight : request[r].parent # None /\ request[r].project = p}

RetriesBounded ==
  \A p \in Jobs :
    Cardinality(Retries(p)) + Cardinality(Retrying(p)) < MaxRetries + Cardinality(Requests)

(* A failed job has one retry (ADR-053, section E). *)
OneRetryPerJob ==
  \A i, j \in Born : job[i].parent # None /\ job[i].parent = job[j].parent => i = j
================================================================================
