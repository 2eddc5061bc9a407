------------------------------- MODULE AgentCalls -------------------------------
(******************************************************************************)
(* The paid calls of one job: how a delivery of an LLM task (a turn) asks its  *)
(* agents, validates and retries their output, and how the money is counted -  *)
(* llm_usage and spend_usd in Postgres, budget:{job_id} in Redis - against the *)
(* job's budget. A turn works on the row it loaded: spend_usd is read once and *)
(* written back after every call, the cache is incremented before the commit,  *)
(* and a crash, a lost answer, a Celery retry, a re-dispatch of the reconciler *)
(* or a second delivery may fall between any two steps.                        *)
(*                                                                            *)
(* Builds, answers and the wall clock are the environment here (JobPipeline,   *)
(* Clarification); a deleted project is SiteDeploy's.                          *)
(******************************************************************************)
EXTENDS Integers, FiniteSets, FiniteSetsExt, Sequences

CONSTANTS
  Workers,           \* LLM workers that may hold a delivery for this job
  Budget,            \* generation_jobs.budget_usd, in units of 0.0001 USD
  MaxFixAttempts,    \* max_fix_attempts
  MaxOutputRetries,  \* agent_output_max_retries
  MaxTries,          \* retry_policy.MAX_RETRIES
  Catalog,           \* presets of model_service: id -> model
  AgentModel,        \* settings: agent -> AGENTn_MODEL
  Pricing,           \* _MODEL_PRICING: model -> [input, output, read, write]
  Fallback,          \* the priced model an unknown one is charged as
  PerUnit,           \* token prices per unit of cost
  Usages,            \* token counts a call may report
  Replies,           \* replies an agent may give: [form, body]
  MaxFaults,         \* bound: crashes, and calls charged but broken off
  MaxOverlaps,       \* bound: turns begun beside another one
  None

ASSUME AgentCallsAssumption ==
  /\ {Budget, MaxFixAttempts, MaxOutputRetries, MaxTries, MaxFaults, MaxOverlaps} \subseteq Nat
  /\ None \notin Nat
  /\ PerUnit \in Nat \ {0}
  /\ Fallback \in DOMAIN Pricing
  /\ \A model \in DOMAIN Pricing :
       Pricing[model] \in [input : Nat, output : Nat, read : Nat, write : Nat]
  /\ Usages \subseteq [input : Nat, output : Nat, read : Nat, write : Nat]
  /\ Usages # {} /\ IsFiniteSet(Usages)  \* the context window bounds a count

VARIABLES
  job,     \* the row of generation_jobs
  ledger,  \* the sum of the job's rows in llm_usage
  billed,  \* what the provider has charged for, recorded or not
  cache,   \* budget:{job_id}, None when missing
  turn,    \* the delivery each worker holds, with its snapshot of the row
  overlaps,\* turns begun beside another one so far
  faults   \* crashes, and calls charged but broken off, so far

vars == <<job, ledger, billed, cache, turn, overlaps, faults>>

--------------------------------------------------------------------------------
(* Models, prices and replies                                                  *)

Agents == {"agent1", "agent2", "agent3", "agent4"}

(* The user's preset for all agents if the catalog has it, else the agent's.   *)
ModelOf(choice, agent) ==
  IF choice \in DOMAIN Catalog THEN Catalog[choice] ELSE AgentModel[agent]

Price(model) == Pricing[IF model \in DOMAIN Pricing THEN model ELSE Fallback]

(* Decimal.quantize: to the nearest unit, a tie to the even one. *)
Quantize(n) ==
  LET q == n \div PerUnit
      twice == 2 * (n % PerUnit)
  IN  IF twice > PerUnit \/ (twice = PerUnit /\ q % 2 = 1) THEN q + 1 ELSE q

CostOf(model, use) ==
  LET p == Price(model)
  IN  Quantize(p.input * use.input + p.output * use.output
                 + p.read * use.read + p.write * use.write)

CallCosts(agent) == {CostOf(ModelOf(job.model, agent), use) : use \in Usages}

(* What extract_json reads: fences and prose around the first balanced value   *)
(* go, inner quotes are escaped unless what follows looks like the end of the  *)
(* string; a cut value or such a quote is a parse error.                       *)
Readable == {"raw", "fenced", "in_prose", "inner_quotes"}
Unreadable == {"cut", "closing_quotes"}

(* What an agent's validator accepts. *)
Wanted(agent) ==
  CASE agent = "agent1" -> {"questions"}
    [] agent = "agent2" -> {"specification"}
    [] agent = "agent3" -> {"tree"}
    [] agent = "agent4" -> {"tree", "unrecoverable"}

(* The rule a rejected output broke, the signature of the next fix turn: of the *)
(* rules with a signature of their own (files, sizes), one.                    *)
Rule(reply) ==
  IF reply.body = "large_tree" THEN "tree_too_large" ELSE "agent_output_invalid"

Good == {"ok", "gave_up"}
Rules == {"agent_output_invalid", "tree_too_large"}

Verdict(agent, reply) ==
  IF reply.form \in Unreadable THEN "agent_output_invalid"
  ELSE IF reply.body \in Wanted(agent)
       THEN IF reply.body = "unrecoverable" THEN "gave_up" ELSE "ok"
       ELSE Rule(reply)

--------------------------------------------------------------------------------
(* Tasks and turns                                                             *)

Tasks == {"interview", "spec", "edit", "fix"}

AgentsOf(task) ==
  CASE task = "interview" -> <<"agent1">>
    [] task = "spec"      -> <<"agent2", "agent3">>
    [] OTHER              -> <<"agent4">>

(* Mutant of Takes: only a generation is fixed. *)
TakesNoEditFix(task, row) ==
  CASE task = "interview" -> row.state = "CREATED" /\ row.kind = "generation"
    [] task = "spec"      -> row.state = "SPECCING"
    [] task = "edit"      -> row.state \in {"CREATED", "EDITING"} /\ row.kind = "edit"
    [] task = "fix"       -> row.state = "FIXING" /\ row.kind = "generation"

Takes(task, row) ==
  CASE task = "interview" -> row.state = "CREATED" /\ row.kind = "generation"
    [] task = "spec"      -> row.state = "SPECCING"
    [] task = "edit"      -> row.state \in {"CREATED", "EDITING"} /\ row.kind = "edit"
    [] task = "fix"       -> row.state = "FIXING"

Terminal == {"LIVE", "FAILED"}
States == {"CREATED", "INTERVIEWING", "AWAITING_CLARIFICATION", "SPECCING", "EDITING",
           "BUILDING", "FIXING"} \cup Terminal
Reasons == {"budget_exhausted", "wall_clock_exceeded", "build_unrecoverable", "no_progress",
            "invalid_agent_output", "fixer_gave_up", "agent_unavailable",
            "edit_failed_rolled_back"}
ASSUME NoReasonAssumption == None \notin Reasons
Signatures == Rules \cup {"build_error"}

JobRows == [kind : {"generation", "edit"}, model : DOMAIN Catalog \cup {None},
            state : States, reason : Reasons \cup {None}, spend : Nat, retries : Nat,
            log : Signatures \cup {None}, last : Signatures \cup {None}, pending : BOOLEAN]

Steps == {"idle", "retry", "loaded", "gate", "reseed", "guards", "calling", "answered",
          "counted", "closing"}
Turns == [step : Steps, task : Tasks, row : JobRows, at : {1, 2}, attempt : Nat,
          cost : Nat, verdict : Good \cup Rules, tries : Nat]

Active(w) == turn[w].step \notin {"idle", "retry"}
Agent(w) == AgentsOf(turn[w].task)[turn[w].at]

(* A turn that is over keeps nothing; the fields are those of a turn not begun. *)
Fresh(step, task, row, tries) ==
  [step |-> step, task |-> task, row |-> row, at |-> 1, attempt |-> 0, cost |-> 0,
   verdict |-> "ok", tries |-> tries]
Born(kind, model) ==
  [kind |-> kind, model |-> model, state |-> "CREATED", reason |-> None, spend |-> 0,
   retries |-> 0, log |-> None, last |-> None, pending |-> FALSE]
NoTurn == Fresh("idle", "interview", Born("generation", None), 0)

Init ==
  /\ job \in {Born(kind, model) : kind \in {"generation", "edit"},
                                  model \in DOMAIN Catalog \cup {None}}
  /\ ledger = 0 /\ billed = 0 /\ cache = None
  /\ turn = [w \in Workers |-> NoTurn]
  /\ overlaps = 0
  /\ faults = 0

Goes(w, step) == turn' = [turn EXCEPT ![w].step = step]
Ends(w) == turn' = [turn EXCEPT ![w] = NoTurn]

(* transition(): compare-and-set on the row, whatever the snapshot says. *)
Moved(row, state) == IF row.state \in Terminal THEN row ELSE [row EXCEPT !.state = state]
Failed(row, reason) ==
  IF row.state \in Terminal THEN row ELSE [row EXCEPT !.state = "FAILED", !.reason = reason]

(* The end of a task that cannot go on: an edit is rolled back instead. The     *)
(* signature written beside a terminal state is read by nobody and left out.   *)
GiveUp(w, reason) ==
  /\ job' = Failed(job, IF job.kind = "edit" THEN "edit_failed_rolled_back" ELSE reason)
  /\ Ends(w)

--------------------------------------------------------------------------------
(* A turn begins                                                               *)

(* A message is delivered: sent, sent again or redelivered, or its Celery      *)
(* retry is due. It takes its snapshot if the state is one the task works on.  *)
Load(w, task) ==
  /\ \/ turn[w].step = "idle" /\ Takes(task, job)
     \/ turn[w].step = "retry" /\ turn[w].task = task
  /\ IF Takes(task, job)
     THEN turn' = [turn EXCEPT ![w] =
                     Fresh(CASE task = "fix"  -> "gate"
                             [] task = "spec" -> "calling"
                             [] OTHER         -> "loaded", task, job, @.tries)]
     ELSE Ends(w)
  /\ IF \A v \in Workers : ~Active(v)
     THEN overlaps' = overlaps
     ELSE overlaps < MaxOverlaps /\ overlaps' = overlaps + 1
  /\ UNCHANGED <<job, ledger, billed, cache, faults>>

(* The visible state of an interview or an edit; an edit that is resumed has it. *)
Enter(w) ==
  LET state == IF turn[w].task = "edit" THEN "EDITING" ELSE "INTERVIEWING"
  IN  /\ turn[w].step = "loaded"
      /\ IF turn[w].row.state = state
         THEN Goes(w, "calling") /\ job' = job
         ELSE /\ job' = Moved(job, state)
              /\ IF job.state \in Terminal THEN Ends(w) ELSE Goes(w, "calling")
      /\ UNCHANGED <<ledger, billed, cache, overlaps, faults>>

(* The counter is only ever compared with the budget: it is kept up to there. *)
Capped(n) == IF n < Budget THEN n ELSE Budget

(* budget_exhausted on the cached counter; without one (or without Redis) it   *)
(* decides on the snapshot and puts that in the cache.                         *)
CacheGate(w) ==
  /\ turn[w].step = "gate"
  /\ \/ Goes(w, "reseed") /\ job' = job
     \/ /\ cache # None
        /\ IF cache >= Budget THEN GiveUp(w, "budget_exhausted")
                              ELSE Goes(w, "guards") /\ job' = job
  /\ UNCHANGED <<ledger, billed, cache, overlaps, faults>>

Reseed(w) ==
  /\ turn[w].step = "reseed"
  /\ cache' \in {Capped(turn[w].row.spend), cache}
  /\ IF turn[w].row.spend >= Budget THEN GiveUp(w, "budget_exhausted")
                                    ELSE Goes(w, "guards") /\ job' = job
  /\ UNCHANGED <<ledger, billed, overlaps, faults>>

(* The four guards in their order; the last writes the signature and consumes  *)
(* the failure event.                                                          *)
FixGuards(w) ==
  LET row == turn[w].row
      consumed == [row EXCEPT !.last = row.log, !.pending = FALSE]
  IN  /\ turn[w].step = "guards"
      /\ \/ row.retries >= MaxFixAttempts /\ GiveUp(w, "build_unrecoverable")
         \/ /\ row.retries < MaxFixAttempts
            /\ \/ row.spend >= Budget /\ GiveUp(w, "budget_exhausted")
               \/ /\ row.spend < Budget
                  /\ \/ GiveUp(w, "wall_clock_exceeded")
                     \/ IF row.last = row.log /\ row.pending
                        THEN GiveUp(w, "no_progress")
                        ELSE /\ job' = [job EXCEPT !.last = row.log, !.pending = FALSE]
                             /\ turn' = [turn EXCEPT ![w].row = consumed,
                                                     ![w].step = "calling"]
      /\ UNCHANGED <<ledger, billed, cache, overlaps, faults>>

--------------------------------------------------------------------------------
(* One call                                                                    *)

(* Mutant of Affordable: the guard runs before the first call only. *)
AffordableOnce(w) == turn[w].attempt > 0 \/ turn[w].row.spend < Budget

(* check_pre_call_guards, before every call and every retry of one; the deadline *)
(* may have passed at any of them.                                             *)
Affordable(w) == turn[w].row.spend < Budget

Trip(w) ==
  /\ turn[w].step = "calling"
  /\ \/ ~Affordable(w) /\ GiveUp(w, "budget_exhausted")
     \/ Affordable(w) /\ GiveUp(w, "wall_clock_exceeded")
  /\ UNCHANGED <<ledger, billed, cache, overlaps, faults>>

Answer(w) ==
  /\ turn[w].step = "calling" /\ Affordable(w)
  /\ \E cost \in CallCosts(Agent(w)) :
       /\ billed' = billed + cost
       /\ turn' = [turn EXCEPT ![w].step = "answered", ![w].cost = cost]
  /\ UNCHANGED <<job, ledger, cache, overlaps, faults>>

Unavailable(w) == job' = Failed(job, "agent_unavailable") /\ Ends(w)

(* The answer does not come. The connection fails, the stream breaks or falls  *)
(* silent, and Celery retries the whole task while it may; the tokens so far   *)
(* may be charged, and nobody learns how many.                                 *)
Break(w) ==
  /\ turn[w].step = "calling" /\ Affordable(w)
  /\ \/ billed' = billed /\ faults' = faults
     \/ /\ faults < MaxFaults /\ faults' = faults + 1
        /\ \E cost \in CallCosts(Agent(w)) : billed' = billed + cost
  /\ \/ /\ turn[w].tries < MaxTries
        /\ turn' = [turn EXCEPT ![w] =
                       Fresh("retry", turn[w].task, NoTurn.row, turn[w].tries + 1)]
        /\ job' = job
     \/ turn[w].tries >= MaxTries /\ Unavailable(w)
  /\ UNCHANGED <<ledger, cache, overlaps>>

(* The provider refuses: 401, 403, 400. *)
Refuse(w) ==
  /\ turn[w].step = "calling" /\ Affordable(w)
  /\ Unavailable(w)
  /\ UNCHANGED <<ledger, billed, cache, overlaps, faults>>

(* Without a key the wrapper fails the job before the task looks at it, a stale *)
(* delivery's too.                                                             *)
NoKey(w) ==
  /\ turn[w].step \in {"idle", "retry"} /\ job.state \notin Terminal
  /\ Unavailable(w)
  /\ UNCHANGED <<ledger, billed, cache, overlaps, faults>>

(* Mutant of Count: Redis gets the call, the row does not. *)
CountCacheOnly(w) ==
  /\ turn[w].step = "answered"
  /\ cache' \in {Capped((IF cache = None THEN 0 ELSE cache) + turn[w].cost), cache}
  /\ turn' = [turn EXCEPT ![w].step = "counted"]
  /\ UNCHANGED <<job, ledger, billed, overlaps, faults>>

(* Mutant of Count: the cache is incremented by the sum so far. *)
CountSum(w) ==
  /\ turn[w].step = "answered"
  /\ cache' \in {Capped((IF cache = None THEN 0 ELSE cache) + turn[w].row.spend + turn[w].cost),
                 cache}
  /\ turn' = [turn EXCEPT ![w].row.spend = @ + turn[w].cost, ![w].step = "counted"]
  /\ UNCHANGED <<job, ledger, billed, overlaps, faults>>

(* record_usage up to the commit: the row and its sum are in the session, the  *)
(* counter is incremented in Redis (or created with this call alone), if Redis *)
(* answers.                                                                    *)
Count(w) ==
  /\ turn[w].step = "answered"
  /\ cache' \in {Capped((IF cache = None THEN 0 ELSE cache) + turn[w].cost), cache}
  /\ turn' = [turn EXCEPT ![w].row.spend = @ + turn[w].cost, ![w].step = "counted"]
  /\ UNCHANGED <<job, ledger, billed, overlaps, faults>>

(* Where an output leads: a valid one to the task's next agent or its end, an  *)
(* invalid one to another attempt while there is one.                          *)
After(t, verdict) ==
  LET read == [t EXCEPT !.verdict = verdict, !.cost = 0, !.step = "calling"]
  IN  IF verdict \in Good
      THEN IF t.at < Len(AgentsOf(t.task))
           THEN [read EXCEPT !.at = @ + 1, !.attempt = 0]
           ELSE [read EXCEPT !.step = "closing"]
      ELSE IF t.attempt < MaxOutputRetries
           THEN [read EXCEPT !.attempt = @ + 1, !.verdict = "ok"]
           ELSE [read EXCEPT !.step = "closing"]

(* Mutant of Record: only a valid output is recorded. *)
RecordValid(w) ==
  /\ turn[w].step = "counted"
  /\ \E reply \in Replies :
       /\ turn' = [turn EXCEPT ![w] = After(turn[w], Verdict(Agent(w), reply))]
       /\ IF Verdict(Agent(w), reply) \in Good
          THEN /\ job' = [job EXCEPT !.spend = turn[w].row.spend]
               /\ ledger' = ledger + turn[w].cost
          ELSE UNCHANGED <<job, ledger>>
  /\ UNCHANGED <<billed, cache, overlaps, faults>>

(* The commit of after_call, whatever the output is worth - the call is paid - *)
(* and only then the parsing and the validation.                               *)
Record(w) ==
  /\ turn[w].step = "counted"
  /\ job' = [job EXCEPT !.spend = turn[w].row.spend]
  /\ ledger' = ledger + turn[w].cost
  /\ \E reply \in Replies :
       turn' = [turn EXCEPT ![w] = After(turn[w], Verdict(Agent(w), reply))]
  /\ UNCHANGED <<billed, cache, overlaps, faults>>

--------------------------------------------------------------------------------
(* A turn ends                                                                 *)

Deliver(w) ==
  /\ turn[w].step = "closing" /\ turn[w].verdict = "ok"
  /\ job' = CASE turn[w].task = "interview" -> Moved(job, "AWAITING_CLARIFICATION")
              [] turn[w].task = "fix" /\ job.state \notin Terminal ->
                   [job EXCEPT !.state = "BUILDING", !.retries = turn[w].row.retries + 1]
              [] OTHER -> Moved(job, "BUILDING")
  /\ Ends(w)
  /\ UNCHANGED <<ledger, billed, cache, overlaps, faults>>

(* The output stayed invalid. A fix turn writes it as the next failure and     *)
(* stays in FIXING for another turn; retry_count does not move.                *)
Reject(w) ==
  /\ turn[w].step = "closing" /\ turn[w].verdict \in Rules
  /\ IF turn[w].task = "fix"
     THEN /\ job' = [job EXCEPT !.log = turn[w].verdict, !.pending = TRUE]
          /\ Ends(w)
     ELSE GiveUp(w, "invalid_agent_output")
  /\ UNCHANGED <<ledger, billed, cache, overlaps, faults>>

Surrender(w) ==
  /\ turn[w].step = "closing" /\ turn[w].verdict = "gave_up"
  /\ GiveUp(w, "fixer_gave_up")
  /\ UNCHANGED <<ledger, billed, cache, overlaps, faults>>

Crash(w) ==
  /\ Active(w) /\ faults < MaxFaults
  /\ faults' = faults + 1
  /\ Ends(w)
  /\ UNCHANGED <<job, ledger, billed, cache, overlaps>>

--------------------------------------------------------------------------------
(* The environment                                                             *)

Clarify ==
  /\ job.state = "AWAITING_CLARIFICATION"
  /\ job' = [job EXCEPT !.state = "SPECCING"]
  /\ UNCHANGED <<ledger, billed, cache, turn, overlaps, faults>>

Build ==
  /\ job.state = "BUILDING"
  /\ \/ job' = [job EXCEPT !.state = "LIVE"]
     \/ job' = [job EXCEPT !.state = "FIXING", !.log = "build_error", !.pending = TRUE]
  /\ UNCHANGED <<ledger, billed, cache, turn, overlaps, faults>>

(* The key expires, Redis restarts. *)
Forget ==
  /\ cache # None /\ cache' = None
  /\ UNCHANGED <<job, ledger, billed, turn, overlaps, faults>>

Turn(w) ==
  \/ Enter(w) \/ CacheGate(w) \/ Reseed(w) \/ FixGuards(w) \/ Trip(w) \/ Answer(w)
  \/ Count(w) \/ Record(w) \/ Deliver(w) \/ Reject(w) \/ Surrender(w)

Next ==
  \/ \E w \in Workers : \/ \E task \in Tasks : Load(w, task)
                        \/ Turn(w) \/ Break(w) \/ Refuse(w) \/ NoKey(w) \/ Crash(w)
  \/ Clarify \/ Build \/ Forget

(* A worker goes on with its turn (the read timeout ends a silent call), and   *)
(* the reconciler sends a task of a waiting state again until it is taken.     *)
Fairness == \A w \in Workers : WF_vars(Turn(w)) /\ WF_vars(\E task \in Tasks : Load(w, task))

Spec == Init /\ [][Next]_vars /\ Fairness

--------------------------------------------------------------------------------
(* Properties                                                                  *)

TypeOK ==
  /\ job \in JobRows
  /\ ledger \in Nat /\ billed \in Nat /\ cache \in Nat \cup {None}
  /\ overlaps \in 0..MaxOverlaps
  /\ turn \in [Workers -> Turns]
  /\ faults \in 0..MaxFaults

(* spend_usd is the sum of llm_usage as long as the job's turns do not overlap, *)
(* whatever crashes, breaks or is retried (cost.py:3). Two turns at once lose   *)
(* the calls of the one that commits first.                                     *)
SpendIsLedger == overlaps = 0 => job.spend = ledger

Costs == UNION {CallCosts(agent) : agent \in Agents}

(* No retry, of an output, of Celery or of the fix loop, gets round the budget: *)
(* the recorded money stays within it up to the one call that crosses it.       *)
BudgetHolds ==
  overlaps = 0 => ledger = 0 \/ \E cost \in Costs : ledger < Budget + cost

(* A job that fails for its budget has really cost it, though the gate reads a  *)
(* cache that counts before the commit, outlives a rolled-back record and is    *)
(* reseeded from snapshots, and though turns overlap.                           *)
BudgetFailureIsReal == job.reason = "budget_exhausted" => billed >= Budget

(* A call the provider charged is missing from llm_usage only if it is being    *)
(* recorded now or a fault swallowed it, one call a fault: an invalid output is *)
(* never a reason.                                                              *)
UnrecordedBounded ==
  LET open == {w \in Workers : turn[w].step \in {"answered", "counted"}}
  IN  billed - ledger <= Max(Costs) * (faults + Cardinality(open))

(* A fixer whose patches are rejected for ever does not keep the job: FIXING is *)
(* left although rejected patches do not count as attempts, their signatures    *)
(* may alternate, and the wall clock may never strike - the budget ends it.     *)
FixingEnds == job.state = "FIXING" ~> job.state # "FIXING"
================================================================================
