---------------------------- MODULE AgentCallsProofs ----------------------------
(* Proofs about AgentCalls: while the turns of a job do not overlap, spend_usd *)
(* is the sum of llm_usage and the budget is exceeded by one call at most;     *)
(* overlapping or not, a job that fails for its budget has cost it, and what   *)
(* is charged and not recorded is one call for every open one and every fault. *)
EXTENDS AgentCalls, FiniteSetTheorems, WellFoundedInduction, TLAPS

USE AgentCallsAssumption

--------------------------------------------------------------------------------
(* Operators                                                                   *)

(* A call costs a natural number of units, whatever the model. *)
LEMMA CostIsNat ==
  ASSUME NEW model, NEW use \in Usages
  PROVE  CostOf(model, use) \in Nat
<1>1. Price(model) \in [input : Nat, output : Nat, read : Nat, write : Nat]
  BY DEF Price
<1>2. use \in [input : Nat, output : Nat, read : Nat, write : Nat]
  OBVIOUS
<1>3. \A a, b \in Nat : a * b \in Nat
  OBVIOUS
<1>. DEFINE p == Price(model)
            n == p.input * use.input + p.output * use.output
                   + p.read * use.read + p.write * use.write
<1>4. n \in Nat
  <2>1. /\ p.input * use.input \in Nat /\ p.output * use.output \in Nat
        /\ p.read * use.read \in Nat /\ p.write * use.write \in Nat
    BY <1>1, <1>2, <1>3
  <2>. QED BY <2>1
<1>5. \A m \in Nat : Quantize(m) \in Nat
  BY DEF Quantize
<1>. HIDE DEF p, n
<1>6. Quantize(n) \in Nat
  BY <1>4, <1>5
<1>. QED BY <1>6 DEF CostOf, n, p

LEMMA AgentsOfTask ==
  ASSUME NEW task \in Tasks
  PROVE  /\ Len(AgentsOf(task)) \in {1, 2}
         /\ \A at \in 1..Len(AgentsOf(task)) : AgentsOf(task)[at] \in Agents
  BY DEF Tasks, AgentsOf, Agents

LEMMA Verdicts ==
  ASSUME NEW agent, NEW reply
  PROVE  Verdict(agent, reply) \in Good \cup Rules
  BY DEF Verdict, Rule, Good, Rules

LEMMA CappedIsNat == \A n \in Nat : Capped(n) \in Nat
  BY DEF Capped

LEMMA FreshIsTurn ==
  ASSUME NEW step \in Steps, NEW task \in Tasks, NEW row \in JobRows, NEW tries \in Nat
  PROVE  Fresh(step, task, row, tries) \in Turns
  BY DEF Fresh, Turns, Good

LEMMA BornIsRow ==
  ASSUME NEW kind \in {"generation", "edit"}, NEW model \in DOMAIN Catalog \cup {None}
  PROVE  Born(kind, model) \in JobRows
  BY DEF Born, JobRows, States

LEMMA NoTurnIsTurn == NoTurn \in Turns
  BY BornIsRow, FreshIsTurn DEF NoTurn, Steps, Tasks

LEMMA MovedIsRow ==
  ASSUME NEW row \in JobRows, NEW state \in States
  PROVE  Moved(row, state) \in JobRows
  BY DEF Moved, JobRows

LEMMA FailedIsRow ==
  ASSUME NEW row \in JobRows, NEW reason \in Reasons
  PROVE  Failed(row, reason) \in JobRows
  BY DEF Failed, JobRows, States, Terminal

(* What the money of a row is does not depend on its state. *)
LEMMA MovedKeeps ==
  ASSUME NEW row \in JobRows, NEW state
  PROVE  /\ Moved(row, state).spend = row.spend /\ Moved(row, state).model = row.model
         /\ Failed(row, state).spend = row.spend /\ Failed(row, state).model = row.model
  BY DEF Moved, Failed, JobRows

LEMMA AfterIsTurn ==
  ASSUME NEW t \in Turns, t.at <= Len(AgentsOf(t.task)), NEW verdict \in Good \cup Rules
  PROVE  /\ After(t, verdict) \in Turns
         /\ After(t, verdict).at <= Len(AgentsOf(t.task))
         /\ After(t, verdict).task = t.task
         /\ After(t, verdict).row = t.row
         /\ After(t, verdict).step \in {"calling", "closing"}
<1>1. t.task \in Tasks /\ t.at \in {1, 2} /\ t.attempt \in Nat
  BY DEF Turns
<1>2. Len(AgentsOf(t.task)) \in {1, 2}
  BY <1>1, AgentsOfTask
<1>3. "ok" \in Good \cup Rules /\ {"calling", "closing"} \subseteq Steps
  BY DEF Good, Steps
<1>. DEFINE read == [t EXCEPT !.verdict = verdict, !.cost = 0, !.step = "calling"]
<1>4. read \in Turns /\ read.at = t.at /\ read.task = t.task /\ read.row = t.row
      /\ read.attempt = t.attempt /\ read.step = "calling"
  BY <1>3 DEF Turns
<1>5. t.at < Len(AgentsOf(t.task)) => t.at + 1 \in {1, 2} /\ t.at + 1 <= Len(AgentsOf(t.task))
  <2>1. \A at, n \in {1, 2} : at < n => at + 1 \in {1, 2} /\ at + 1 <= n
    OBVIOUS
  <2>. HIDE DEF read
  <2>. QED BY <1>1, <1>2, <2>1
<1>. HIDE DEF read
<1>6. CASE verdict \in Good /\ t.at < Len(AgentsOf(t.task))
  <2>1. After(t, verdict) = [read EXCEPT !.at = @ + 1, !.attempt = 0]
    BY <1>6 DEF After, read
  <2>2. read.at \in {1, 2} /\ read.at + 1 \in {1, 2}
    BY <1>1, <1>4, <1>5, <1>6
  <2>3. /\ [read EXCEPT !.at = @ + 1, !.attempt = 0] \in Turns
        /\ [read EXCEPT !.at = @ + 1, !.attempt = 0].at = t.at + 1
        /\ [read EXCEPT !.at = @ + 1, !.attempt = 0].task = t.task
        /\ [read EXCEPT !.at = @ + 1, !.attempt = 0].row = t.row
        /\ [read EXCEPT !.at = @ + 1, !.attempt = 0].step = "calling"
    BY <2>2, <1>4 DEF Turns
  <2>. QED BY <2>1, <2>3, <1>5, <1>6
<1>7. CASE verdict \notin Good /\ t.attempt < MaxOutputRetries
  <2>1. After(t, verdict) = [read EXCEPT !.attempt = @ + 1, !.verdict = "ok"]
    BY <1>7 DEF After, read
  <2>2. read.attempt + 1 \in Nat
    BY <1>1, <1>4
  <2>3. /\ [read EXCEPT !.attempt = @ + 1, !.verdict = "ok"] \in Turns
        /\ [read EXCEPT !.attempt = @ + 1, !.verdict = "ok"].at = t.at
        /\ [read EXCEPT !.attempt = @ + 1, !.verdict = "ok"].task = t.task
        /\ [read EXCEPT !.attempt = @ + 1, !.verdict = "ok"].row = t.row
        /\ [read EXCEPT !.attempt = @ + 1, !.verdict = "ok"].step = "calling"
    BY <2>2, <1>3, <1>4 DEF Turns
  <2>. QED BY <2>1, <2>3
<1>8. CASE ~(verdict \in Good /\ t.at < Len(AgentsOf(t.task)))
           /\ ~(verdict \notin Good /\ t.attempt < MaxOutputRetries)
  <2>1. After(t, verdict) = [read EXCEPT !.step = "closing"]
    BY <1>8 DEF After, read
  <2>2. /\ [read EXCEPT !.step = "closing"] \in Turns
        /\ [read EXCEPT !.step = "closing"].at = t.at
        /\ [read EXCEPT !.step = "closing"].task = t.task
        /\ [read EXCEPT !.step = "closing"].row = t.row
        /\ [read EXCEPT !.step = "closing"].step = "closing"
    BY <1>3, <1>4 DEF Turns
  <2>. QED BY <2>1, <2>2
<1>. QED BY <1>6, <1>7, <1>8

--------------------------------------------------------------------------------
(* The inductive invariant                                                     *)

Placed(t) == t.at <= Len(AgentsOf(t.task))

TInv == TypeOK /\ \A w \in Workers : Placed(turn[w])

(* What a turn under way knows of the job's money. *)
Sound(t) ==
  /\ t.row.spend = ledger + (IF t.step = "counted" THEN t.cost ELSE 0)
  /\ t.step = "answered" => ledger < Budget
  /\ t.step \in {"answered", "counted"} => t.cost \in Costs
  /\ t.step = "counted" => ledger < Budget

Synced ==
  /\ job.spend = ledger
  /\ \A v, w \in Workers : Active(v) /\ Active(w) => v = w
  /\ \A w \in Workers : Active(w) => Sound(turn[w])

IInv == TInv /\ SpendIsLedger /\ BudgetHolds /\ (overlaps = 0 => Synced)

(* The part of a step that types and placement depend on. *)
Gives(w, t) ==
  /\ turn' = [turn EXCEPT ![w] = t] /\ t \in Turns /\ Placed(t)
  /\ job' \in JobRows /\ job'.model = job.model
  /\ ledger' \in Nat /\ billed' \in Nat /\ cache' \in Nat \cup {None}
  /\ faults' \in 0..MaxFaults

LEMMA GivesTypes ==
  ASSUME TInv, NEW w \in Workers, NEW t, Gives(w, t), overlaps' \in 0..MaxOverlaps
  PROVE  TInv' /\ turn'[w] = t /\ \A v \in Workers \ {w} : turn'[v] = turn[v]
<1>1. turn \in [Workers -> Turns]
  BY DEF TInv, TypeOK
<1>2. turn' \in [Workers -> Turns] /\ turn'[w] = t
      /\ \A v \in Workers \ {w} : turn'[v] = turn[v]
  BY <1>1 DEF Gives
<1>3. TypeOK'
  BY <1>2 DEF Gives, TInv, TypeOK
<1>4. ASSUME NEW v \in Workers PROVE Placed(turn'[v])
  BY <1>2 DEF Gives, TInv
<1>. QED BY <1>2, <1>3, <1>4 DEF TInv, Placed

LEMMA CostsSame == ASSUME job'.model = job.model PROVE Costs' = Costs
<1>1. \A agent : CallCosts(agent)' = CallCosts(agent)
  BY DEF CallCosts
<1>. QED BY <1>1 DEF Costs

LEMMA CostsAreNat == Costs \subseteq Nat
<1>. SUFFICES ASSUME NEW agent \in Agents, NEW use \in Usages
              PROVE  CostOf(ModelOf(job.model, agent), use) \in Nat
  BY DEF Costs, CallCosts
<1>. QED BY CostIsNat

(* A step of w that moves no money between the row and the ledger. *)
LEMMA KeepsStep ==
  ASSUME IInv, NEW w \in Workers, NEW t, Gives(w, t),
         job'.spend = job.spend, ledger' = ledger, overlaps' = overlaps,
         \/ t.step \in {"idle", "retry"}
         \/ Active(w) /\ (overlaps = 0 => Sound(t))
  PROVE  IInv'
<1>1. TInv' /\ turn'[w] = t /\ \A v \in Workers \ {w} : turn'[v] = turn[v]
  <2>1. overlaps' \in 0..MaxOverlaps
    BY DEF IInv, TInv, TypeOK
  <2>. QED BY <2>1, GivesTypes DEF IInv
<1>2. Costs' = Costs
  BY CostsSame DEF Gives
<1>3. SpendIsLedger' /\ BudgetHolds'
  BY <1>2 DEF IInv, SpendIsLedger, BudgetHolds
<1>4. ASSUME overlaps' = 0 PROVE Synced'
  <2>1. Synced /\ overlaps = 0
    BY <1>4 DEF IInv
  <2>2. \A v \in Workers : Active(v)' => Active(v)
    BY <1>1 DEF Active
  <2>3. ASSUME NEW v \in Workers, Active(v)' PROVE Sound(turn[v])'
    <3>1. CASE v = w
      BY <1>1, <1>2, <2>1, <2>3, <3>1 DEF Sound, Active
    <3>2. CASE v # w
      BY <1>1, <1>2, <2>1, <2>3, <3>2 DEF Sound, Active, Synced
    <3>. QED BY <3>1, <3>2
  <2>. QED BY <2>1, <2>2, <2>3 DEF Synced
<1>. QED BY <1>1, <1>3, <1>4 DEF IInv

LEMMA EndsStep ==
  ASSUME IInv, NEW w \in Workers, Ends(w), job' \in JobRows, job'.spend = job.spend,
         job'.model = job.model, UNCHANGED <<ledger, billed, overlaps>>,
         cache' \in Nat \cup {None}, faults' \in 0..MaxFaults
  PROVE  IInv'
<1>1. Placed(NoTurn) /\ NoTurn.step = "idle"
  BY DEF Placed, NoTurn, Fresh, AgentsOf
<1>2. ledger' \in Nat /\ billed' \in Nat
  BY DEF IInv, TInv, TypeOK
<1>3. Gives(w, NoTurn)
  BY <1>1, <1>2, NoTurnIsTurn DEF Gives, Ends
<1>. QED BY <1>1, <1>3, KeepsStep

LEMMA GiveUpStep ==
  ASSUME IInv, NEW w \in Workers, NEW reason \in Reasons, GiveUp(w, reason),
         UNCHANGED <<ledger, billed, overlaps, faults>>, cache' \in Nat \cup {None}
  PROVE  IInv'
<1>. DEFINE why == IF job.kind = "edit" THEN "edit_failed_rolled_back" ELSE reason
<1>1. job \in JobRows /\ faults' \in 0..MaxFaults
  BY DEF IInv, TInv, TypeOK
<1>2. why \in Reasons
  BY DEF Reasons
<1>3. job' = Failed(job, why) /\ Ends(w)
  BY DEF GiveUp
<1>. HIDE DEF why
<1>4. job' \in JobRows /\ job'.spend = job.spend /\ job'.model = job.model
  BY <1>1, <1>2, <1>3, FailedIsRow, MovedKeeps
<1>. QED BY <1>1, <1>3, <1>4, EndsStep

LEMMA UnavailableStep ==
  ASSUME IInv, NEW w \in Workers, Unavailable(w), UNCHANGED <<ledger, billed, overlaps>>,
         cache' \in Nat \cup {None}, faults' \in 0..MaxFaults
  PROVE  IInv'
<1>1. job \in JobRows /\ "agent_unavailable" \in Reasons
  BY DEF IInv, TInv, TypeOK, Reasons
<1>2. job' \in JobRows /\ job'.spend = job.spend /\ job'.model = job.model
  BY <1>1, FailedIsRow, MovedKeeps DEF Unavailable
<1>. QED BY <1>2, EndsStep DEF Unavailable

(* A turn goes on to a step that holds no money. *)
LEMMA GoesStep ==
  ASSUME IInv, NEW w \in Workers, Active(w), turn[w].step \notin {"answered", "counted"},
         NEW step \in Steps \ {"answered", "counted"}, Goes(w, step),
         job' \in JobRows, job'.spend = job.spend, job'.model = job.model,
         UNCHANGED <<ledger, billed, overlaps, faults>>, cache' \in Nat \cup {None}
  PROVE  IInv'
<1>. DEFINE t == [turn[w] EXCEPT !.step = step]
<1>1. turn \in [Workers -> Turns] /\ turn[w] \in Turns /\ Placed(turn[w])
      /\ ledger' \in Nat /\ billed' \in Nat /\ faults' \in 0..MaxFaults
  BY DEF IInv, TInv, TypeOK
<1>2. turn' = [turn EXCEPT ![w] = t]
  BY <1>1 DEF Goes
<1>3. t \in Turns /\ Placed(t) /\ t.step = step /\ t.row = turn[w].row
  BY <1>1 DEF Turns, Placed
<1>. HIDE DEF t
<1>4. Gives(w, t)
  BY <1>1, <1>2, <1>3 DEF Gives
<1>5. overlaps = 0 => Sound(t)
  BY <1>3 DEF IInv, Synced, Sound
<1>. QED BY <1>4, <1>5, KeepsStep

--------------------------------------------------------------------------------
(* The actions                                                                 *)

LEMMA Typed ==
  ASSUME TInv, NEW w \in Workers
  PROVE  /\ job \in JobRows /\ turn \in [Workers -> Turns] /\ turn[w] \in Turns
         /\ Placed(turn[w]) /\ turn[w].row \in JobRows
         /\ ledger \in Nat /\ billed \in Nat /\ cache \in Nat \cup {None}
         /\ faults \in 0..MaxFaults /\ overlaps \in 0..MaxOverlaps
  BY DEF TInv, TypeOK, Turns

LEMMA AgentIsAgent == ASSUME TInv, NEW w \in Workers PROVE Agent(w) \in Agents
<1>1. turn[w].task \in Tasks /\ turn[w].at \in {1, 2} /\ turn[w].at <= Len(AgentsOf(turn[w].task))
  BY Typed DEF Turns, Placed
<1>2. turn[w].at \in 1..Len(AgentsOf(turn[w].task))
  BY <1>1, AgentsOfTask
<1>. QED BY <1>1, <1>2, AgentsOfTask DEF Agent

LEMMA CallCostsAreCosts ==
  ASSUME TInv, NEW w \in Workers
  PROVE  CallCosts(Agent(w)) \subseteq Costs /\ CallCosts(Agent(w)) \subseteq Nat
  BY AgentIsAgent, CostsAreNat DEF Costs

LEMMA LoadStep ==
  ASSUME IInv, NEW w \in Workers, NEW task \in Tasks, Load(w, task)
  PROVE  IInv'
<1>1. UNCHANGED <<job, ledger, billed, cache, faults>> /\ overlaps' \in 0..MaxOverlaps
      /\ (overlaps' = 0 => overlaps = 0 /\ \A v \in Workers : ~Active(v))
  <2>1. overlaps \in 0..MaxOverlaps
    BY Typed DEF IInv
  <2>. QED BY <2>1 DEF Load
<1>2. CASE ~Takes(task, job)
  <2>1. Ends(w)
    BY <1>2 DEF Load
  <2>2. Placed(NoTurn) /\ NoTurn.step = "idle"
    BY DEF Placed, NoTurn, Fresh, AgentsOf
  <2>3. Gives(w, NoTurn)
    BY <1>1, <2>1, <2>2, NoTurnIsTurn, Typed DEF Gives, Ends, IInv
  <2>4. TInv' /\ turn'[w] = NoTurn /\ \A v \in Workers \ {w} : turn'[v] = turn[v]
    BY <1>1, <2>3, GivesTypes DEF IInv
  <2>5. \A v \in Workers : Active(v)' => Active(v)
    BY <2>2, <2>4 DEF Active
  <2>6. (SpendIsLedger /\ BudgetHolds)' /\ (overlaps' = 0 => Synced')
    BY <1>1, <2>5, CostsSame DEF IInv, SpendIsLedger, BudgetHolds, Synced
  <2>. QED BY <2>4, <2>6 DEF IInv
<1>3. CASE Takes(task, job)
  <2>. DEFINE step == CASE task = "fix"  -> "gate"
                        [] task = "spec" -> "calling"
                        [] OTHER         -> "loaded"
              t == Fresh(step, task, job, turn[w].tries)
  <2>1. turn' = [turn EXCEPT ![w] = t]
    BY <1>3, Typed DEF Load, IInv
  <2>2. step \in {"gate", "calling", "loaded"} /\ step \in Steps
    BY DEF Steps
  <2>3. turn[w].tries \in Nat
    BY Typed DEF Turns, IInv
  <2>. HIDE DEF step
  <2>4. t \in Turns
    BY <2>2, <2>3, FreshIsTurn, Typed DEF IInv
  <2>5. Placed(t) /\ t.step = step /\ t.row = job
    <3>1. t.task = task /\ t.at = 1 /\ t.step = step /\ t.row = job
      BY DEF Fresh
    <3>2. Len(AgentsOf(task)) \in {1, 2}
      BY AgentsOfTask
    <3>3. \A n \in {1, 2} : 1 <= n
      OBVIOUS
    <3>. HIDE DEF t
    <3>. QED BY <3>1, <3>2, <3>3 DEF Placed
  <2>. HIDE DEF t
  <2>6. Gives(w, t)
    BY <1>1, <2>1, <2>4, <2>5, Typed DEF Gives, IInv
  <2>7. TInv' /\ turn'[w] = t /\ \A v \in Workers \ {w} : turn'[v] = turn[v]
    BY <1>1, <2>6, GivesTypes DEF IInv
  <2>8. ASSUME overlaps' = 0 PROVE Synced'
    <3>1. Synced /\ \A v \in Workers : Active(v)' => v = w
      BY <1>1, <2>7, <2>8 DEF IInv, Active
    <3>2. Sound(turn[w])'
      BY <1>1, <2>2, <2>5, <2>7, <3>1, Typed DEF Sound, Synced, IInv
    <3>. QED BY <1>1, <3>1, <3>2 DEF Synced
  <2>9. (SpendIsLedger /\ BudgetHolds)'
    BY <1>1, CostsSame DEF IInv, SpendIsLedger, BudgetHolds
  <2>. QED BY <2>7, <2>8, <2>9 DEF IInv
<1>. QED BY <1>2, <1>3

LEMMA EnterStep == ASSUME IInv, NEW w \in Workers, Enter(w) PROVE IInv'
<1>. DEFINE state == IF turn[w].task = "edit" THEN "EDITING" ELSE "INTERVIEWING"
<1>1. state \in States
  BY DEF States
<1>2. job' = job \/ job' = Moved(job, state)
  BY DEF Enter
<1>3. job' \in JobRows /\ job'.spend = job.spend /\ job'.model = job.model
  BY <1>1, <1>2, MovedIsRow, MovedKeeps, Typed DEF IInv
<1>4. Active(w) /\ turn[w].step \notin {"answered", "counted"}
      /\ UNCHANGED <<ledger, billed, cache, overlaps, faults>>
  BY DEF Enter, Active
<1>5. Ends(w) \/ Goes(w, "calling")
  BY DEF Enter
<1>6. cache' \in Nat \cup {None} /\ faults' \in 0..MaxFaults /\ "calling" \in Steps
  BY <1>4, Typed DEF IInv, Steps
<1>. QED BY <1>3, <1>4, <1>5, <1>6, EndsStep, GoesStep

LEMMA GateStep == ASSUME IInv, NEW w \in Workers, CacheGate(w) \/ Reseed(w) PROVE IInv'
<1>1. Active(w) /\ turn[w].step \notin {"answered", "counted"}
      /\ UNCHANGED <<ledger, billed, overlaps, faults>>
  BY DEF CacheGate, Reseed, Active
<1>2. cache' \in Nat \cup {None}
  <2>1. turn[w].row.spend \in Nat
    BY Typed DEF IInv, JobRows
  <2>. QED BY <2>1, CappedIsNat, Typed DEF IInv, CacheGate, Reseed
<1>3. "budget_exhausted" \in Reasons /\ {"reseed", "guards"} \subseteq Steps
  BY DEF Reasons, Steps
<1>4. \/ GiveUp(w, "budget_exhausted")
      \/ job' = job /\ (Goes(w, "reseed") \/ Goes(w, "guards"))
  BY DEF CacheGate, Reseed
<1>5. CASE GiveUp(w, "budget_exhausted")
  BY <1>1, <1>2, <1>3, <1>5, GiveUpStep
<1>6. CASE job' = job /\ (Goes(w, "reseed") \/ Goes(w, "guards"))
  BY <1>1, <1>2, <1>3, <1>6, GoesStep, Typed DEF IInv
<1>. QED BY <1>4, <1>5, <1>6

LEMMA FixGuardsStep == ASSUME IInv, NEW w \in Workers, FixGuards(w) PROVE IInv'
<1>. DEFINE consumed == [turn[w].row EXCEPT !.last = turn[w].row.log, !.pending = FALSE]
            t == [turn[w] EXCEPT !.row = consumed, !.step = "calling"]
<1>1. turn[w].step = "guards" /\ UNCHANGED <<ledger, billed, cache, overlaps, faults>>
  BY DEF FixGuards
<1>2. \/ \E reason \in {"build_unrecoverable", "budget_exhausted", "wall_clock_exceeded",
                        "no_progress"} : GiveUp(w, reason)
      \/ /\ job' = [job EXCEPT !.last = turn[w].row.log, !.pending = FALSE]
         /\ turn' = [turn EXCEPT ![w].row = consumed, ![w].step = "calling"]
  BY DEF FixGuards
<1>3. ASSUME NEW reason \in {"build_unrecoverable", "budget_exhausted",
                             "wall_clock_exceeded", "no_progress"}, GiveUp(w, reason)
      PROVE  IInv'
  <2>1. reason \in Reasons /\ cache' \in Nat \cup {None}
    BY <1>1, Typed DEF Reasons, IInv
  <2>. QED BY <1>1, <1>3, <2>1, GiveUpStep
<1>4. ASSUME job' = [job EXCEPT !.last = turn[w].row.log, !.pending = FALSE],
             turn' = [turn EXCEPT ![w].row = consumed, ![w].step = "calling"]
      PROVE  IInv'
  <2>1. turn' = [turn EXCEPT ![w] = t]
    BY <1>4, Typed DEF IInv
  <2>2. turn[w].row.log \in Signatures \cup {None}
    BY Typed DEF IInv, JobRows
  <2>3. job' \in JobRows /\ job'.spend = job.spend /\ job'.model = job.model
    BY <1>4, <2>2, Typed DEF IInv, JobRows
  <2>4. consumed \in JobRows /\ consumed.spend = turn[w].row.spend
    BY <2>2, Typed DEF IInv, JobRows
  <2>. HIDE DEF consumed
  <2>5. t \in Turns /\ Placed(t) /\ t.step = "calling" /\ t.row = consumed
    BY <2>4, Typed DEF IInv, Turns, Steps, Placed
  <2>. HIDE DEF t
  <2>6. Gives(w, t)
    BY <1>1, <2>1, <2>3, <2>5, Typed DEF Gives, IInv
  <2>7. Active(w) /\ (overlaps = 0 => Sound(t))
    BY <1>1, <2>4, <2>5 DEF Active, IInv, Synced, Sound
  <2>. QED BY <1>1, <2>3, <2>6, <2>7, KeepsStep
<1>. QED BY <1>2, <1>3, <1>4

LEMMA TripStep == ASSUME IInv, NEW w \in Workers, Trip(w) PROVE IInv'
<1>1. \E reason \in {"budget_exhausted", "wall_clock_exceeded"} : GiveUp(w, reason)
  BY DEF Trip
<1>2. {"budget_exhausted", "wall_clock_exceeded"} \subseteq Reasons
      /\ UNCHANGED <<ledger, billed, overlaps, faults>> /\ cache' \in Nat \cup {None}
  BY Typed DEF Reasons, Trip, IInv
<1>. QED BY <1>1, <1>2, GiveUpStep

LEMMA AnswerStep == ASSUME IInv, NEW w \in Workers, Answer(w) PROVE IInv'
<1>1. PICK cost \in CallCosts(Agent(w)) :
        /\ billed' = billed + cost
        /\ turn' = [turn EXCEPT ![w].step = "answered", ![w].cost = cost]
  BY DEF Answer
<1>. DEFINE t == [turn[w] EXCEPT !.step = "answered", !.cost = cost]
<1>2. cost \in Nat /\ cost \in Costs
  BY CallCostsAreCosts DEF IInv
<1>3. turn[w].step = "calling" /\ turn[w].row.spend < Budget
      /\ UNCHANGED <<job, ledger, cache, overlaps, faults>>
  BY DEF Answer, Affordable
<1>4. turn' = [turn EXCEPT ![w] = t]
  BY <1>1, Typed DEF IInv
<1>5. t \in Turns /\ Placed(t) /\ t.step = "answered" /\ t.cost = cost /\ t.row = turn[w].row
  BY <1>2, Typed DEF IInv, Turns, Steps, Placed
<1>6. billed' \in Nat
  BY <1>1, <1>2, Typed DEF IInv
<1>. HIDE DEF t
<1>7. Gives(w, t)
  BY <1>3, <1>4, <1>5, <1>6, Typed DEF Gives, IInv
<1>8. Active(w) /\ (overlaps = 0 => Sound(t))
  <2>1. Active(w)
    BY <1>3 DEF Active
  <2>2. ASSUME overlaps = 0 PROVE turn[w].row.spend = ledger + 0
    BY <1>3, <2>1, <2>2 DEF IInv, Synced, Sound
  <2>3. ledger \in Nat
    BY Typed DEF IInv
  <2>. QED BY <1>2, <1>3, <1>5, <2>1, <2>2, <2>3 DEF Sound
<1>. QED BY <1>3, <1>7, <1>8, KeepsStep

LEMMA BreakStep == ASSUME IInv, NEW w \in Workers, Break(w) PROVE IInv'
<1>1. turn[w].step = "calling" /\ UNCHANGED <<ledger, cache, overlaps>>
  BY DEF Break
<1>2. billed' \in Nat /\ faults' \in 0..MaxFaults
  <2>1. CASE billed' = billed /\ faults' = faults
    BY <2>1, Typed DEF IInv
  <2>2. CASE /\ faults < MaxFaults /\ faults' = faults + 1
             /\ \E cost \in CallCosts(Agent(w)) : billed' = billed + cost
    BY <2>2, CallCostsAreCosts, Typed DEF IInv
  <2>. QED BY <2>1, <2>2 DEF Break
<1>. DEFINE again == Fresh("retry", turn[w].task, NoTurn.row, turn[w].tries + 1)
<1>3. CASE /\ turn' = [turn EXCEPT ![w] = again] /\ job' = job
  <2>1. turn[w].task \in Tasks /\ turn[w].tries + 1 \in Nat /\ NoTurn.row \in JobRows
        /\ "retry" \in Steps
    BY NoTurnIsTurn, Typed DEF IInv, Turns, Steps
  <2>2. again \in Turns
    BY <2>1, FreshIsTurn
  <2>3. again.task = turn[w].task /\ again.at = 1 /\ again.step = "retry"
    BY DEF Fresh
  <2>4. Placed(again)
    <3>1. Len(AgentsOf(turn[w].task)) \in {1, 2} /\ \A n \in {1, 2} : 1 <= n
      BY <2>1, AgentsOfTask
    <3>. HIDE DEF again
    <3>. QED BY <2>3, <3>1 DEF Placed
  <2>. HIDE DEF again
  <2>5. Gives(w, again)
    BY <1>1, <1>2, <1>3, <2>2, <2>4, Typed DEF Gives, IInv
  <2>. QED BY <1>1, <1>3, <2>3, <2>5, KeepsStep
<1>4. CASE Unavailable(w)
  <2>1. job \in JobRows /\ "agent_unavailable" \in Reasons /\ cache' \in Nat \cup {None}
    BY <1>1, Typed DEF IInv, Reasons
  <2>2. job' \in JobRows /\ job'.spend = job.spend /\ job'.model = job.model
    BY <1>4, <2>1, FailedIsRow, MovedKeeps DEF Unavailable
  <2>3. Placed(NoTurn) /\ NoTurn.step = "idle"
    BY DEF Placed, NoTurn, Fresh, AgentsOf
  <2>4. Gives(w, NoTurn)
    BY <1>1, <1>2, <1>4, <2>1, <2>2, <2>3, NoTurnIsTurn, Typed DEF Gives, Unavailable, Ends, IInv
  <2>. QED BY <1>1, <2>2, <2>3, <2>4, KeepsStep
<1>. QED BY <1>3, <1>4 DEF Break

LEMMA CountStep == ASSUME IInv, NEW w \in Workers, Count(w) PROVE IInv'
<1>1. turn[w].step = "answered" /\ UNCHANGED <<job, ledger, billed, overlaps, faults>>
  BY DEF Count
<1>. DEFINE row == [turn[w].row EXCEPT !.spend = turn[w].row.spend + turn[w].cost]
            t == [turn[w] EXCEPT !.row = row, !.step = "counted"]
<1>2. turn' = [turn EXCEPT ![w] = t]
  BY Typed DEF Count, IInv
<1>3. turn[w].row.spend \in Nat /\ turn[w].cost \in Nat
  BY Typed DEF IInv, Turns, JobRows
<1>4. row \in JobRows /\ row.spend = turn[w].row.spend + turn[w].cost
  BY <1>3, Typed DEF IInv, JobRows
<1>5. cache' \in Nat \cup {None}
  BY <1>3, CappedIsNat, Typed DEF IInv, Count
<1>. HIDE DEF row
<1>6. t \in Turns /\ Placed(t) /\ t.step = "counted" /\ t.cost = turn[w].cost /\ t.row = row
  BY <1>4, Typed DEF IInv, Turns, Steps, Placed
<1>. HIDE DEF t
<1>7. Gives(w, t)
  BY <1>1, <1>2, <1>5, <1>6, Typed DEF Gives, IInv
<1>8. Active(w) /\ (overlaps = 0 => Sound(t))
  <2>1. Active(w)
    BY <1>1 DEF Active
  <2>2. ASSUME overlaps = 0
        PROVE  /\ turn[w].row.spend = ledger + 0 /\ ledger < Budget /\ turn[w].cost \in Costs
    BY <1>1, <2>1, <2>2 DEF IInv, Synced, Sound
  <2>3. ledger \in Nat
    BY Typed DEF IInv
  <2>. QED BY <1>3, <1>4, <1>6, <2>1, <2>2, <2>3 DEF Sound
<1>. QED BY <1>1, <1>7, <1>8, KeepsStep

(* The one step that moves money: the row and its sum are committed together. *)
LEMMA RecordStep == ASSUME IInv, NEW w \in Workers, Record(w) PROVE IInv'
<1>1. turn[w].step = "counted" /\ UNCHANGED <<billed, cache, overlaps, faults>>
      /\ job' = [job EXCEPT !.spend = turn[w].row.spend]
      /\ ledger' = ledger + turn[w].cost
  BY DEF Record
<1>2. PICK reply \in Replies :
        turn' = [turn EXCEPT ![w] = After(turn[w], Verdict(Agent(w), reply))]
  BY DEF Record
<1>. DEFINE t == After(turn[w], Verdict(Agent(w), reply))
<1>3. t \in Turns /\ Placed(t) /\ t.row = turn[w].row /\ t.step \in {"calling", "closing"}
  BY AfterIsTurn, Verdicts, Typed DEF IInv, Placed
<1>. HIDE DEF t
<1>4. turn' = [turn EXCEPT ![w] = t]
  BY <1>2 DEF t
<1>5. turn[w].row.spend \in Nat /\ turn[w].cost \in Nat
  BY Typed DEF IInv, Turns, JobRows
<1>6. job' \in JobRows /\ job'.model = job.model /\ job'.spend = turn[w].row.spend
  BY <1>1, <1>5, Typed DEF IInv, JobRows
<1>7. ledger' \in Nat
  BY <1>1, <1>5, Typed DEF IInv
<1>8. Gives(w, t)
  BY <1>1, <1>3, <1>4, <1>6, <1>7, Typed DEF Gives, IInv
<1>9. TInv' /\ turn'[w] = t /\ \A v \in Workers \ {w} : turn'[v] = turn[v]
  <2>1. overlaps' \in 0..MaxOverlaps
    BY <1>1, Typed DEF IInv
  <2>. QED BY <1>8, <2>1, GivesTypes DEF IInv
<1>10. Costs' = Costs
  BY <1>6, CostsSame
<1>11. Active(w)
  BY <1>1 DEF Active
<1>12. ASSUME overlaps = 0
       PROVE  /\ turn[w].row.spend = ledger + turn[w].cost
              /\ ledger < Budget /\ turn[w].cost \in Costs
  BY <1>1, <1>11, <1>12 DEF IInv, Synced, Sound
<1>13. SpendIsLedger'
  BY <1>1, <1>6, <1>12 DEF SpendIsLedger
<1>14. BudgetHolds'
  <2>1. SUFFICES ASSUME overlaps' = 0
                 PROVE  \E cost \in Costs' : ledger' < Budget + cost
    BY DEF BudgetHolds
  <2>2. ledger + turn[w].cost < Budget + turn[w].cost
    BY <1>1, <1>5, <1>12, <2>1, Typed DEF IInv
  <2>. QED BY <1>1, <1>10, <1>12, <2>1, <2>2
<1>15. ASSUME overlaps' = 0 PROVE Synced'
  <2>1. Synced /\ overlaps = 0
    BY <1>1, <1>15 DEF IInv
  <2>2. \A v \in Workers : Active(v)' => v = w
    BY <1>9, <1>11, <2>1 DEF Synced, Active
  <2>3. Sound(turn[w])'
    <3>1. turn'[w].row.spend = ledger' + 0
      BY <1>1, <1>3, <1>7, <1>9, <1>12, <2>1
    <3>. QED BY <1>3, <1>9, <3>1 DEF Sound
  <2>4. job'.spend = ledger'
    BY <1>1, <1>6, <1>12, <2>1
  <2>. QED BY <2>2, <2>3, <2>4 DEF Synced
<1>. QED BY <1>9, <1>13, <1>14, <1>15 DEF IInv

LEMMA DeliverStep == ASSUME IInv, NEW w \in Workers, Deliver(w) PROVE IInv'
<1>1. Ends(w) /\ UNCHANGED <<ledger, billed, cache, overlaps, faults>>
  BY DEF Deliver
<1>2. turn[w].row.retries + 1 \in Nat /\ {"AWAITING_CLARIFICATION", "BUILDING"} \subseteq States
  BY Typed DEF IInv, JobRows, States
<1>3. \/ job' = Moved(job, "AWAITING_CLARIFICATION")
      \/ job' = [job EXCEPT !.state = "BUILDING", !.retries = turn[w].row.retries + 1]
      \/ job' = Moved(job, "BUILDING")
  BY DEF Deliver
<1>4. job' \in JobRows /\ job'.spend = job.spend /\ job'.model = job.model
  <2>1. CASE job' = [job EXCEPT !.state = "BUILDING", !.retries = turn[w].row.retries + 1]
    BY <1>2, <2>1, Typed DEF IInv, JobRows
  <2>2. CASE job' = Moved(job, "AWAITING_CLARIFICATION") \/ job' = Moved(job, "BUILDING")
    BY <1>2, <2>2, MovedIsRow, MovedKeeps, Typed DEF IInv
  <2>. QED BY <1>3, <2>1, <2>2
<1>5. cache' \in Nat \cup {None} /\ faults' \in 0..MaxFaults
  BY <1>1, Typed DEF IInv
<1>. QED BY <1>1, <1>4, <1>5, EndsStep

LEMMA RejectStep == ASSUME IInv, NEW w \in Workers, Reject(w) PROVE IInv'
<1>1. UNCHANGED <<ledger, billed, cache, overlaps, faults>> /\ turn[w].verdict \in Rules
  BY DEF Reject
<1>2. cache' \in Nat \cup {None} /\ faults' \in 0..MaxFaults /\ "invalid_agent_output" \in Reasons
  BY <1>1, Typed DEF IInv, Reasons
<1>3. CASE turn[w].task = "fix"
  <2>1. Ends(w) /\ job' = [job EXCEPT !.log = turn[w].verdict, !.pending = TRUE]
    BY <1>3 DEF Reject
  <2>2. job' \in JobRows /\ job'.spend = job.spend /\ job'.model = job.model
    BY <1>1, <2>1, Typed DEF IInv, JobRows, Signatures
  <2>. QED BY <1>1, <1>2, <2>1, <2>2, EndsStep
<1>4. CASE turn[w].task # "fix"
  <2>1. GiveUp(w, "invalid_agent_output")
    BY <1>4 DEF Reject
  <2>. QED BY <1>1, <1>2, <2>1, GiveUpStep
<1>. QED BY <1>3, <1>4

LEMMA OtherStep ==
  ASSUME IInv, NEW w \in Workers, Refuse(w) \/ NoKey(w) \/ Surrender(w) \/ Crash(w)
  PROVE  IInv'
<1>1. UNCHANGED <<ledger, billed, cache, overlaps>> /\ cache' \in Nat \cup {None}
      /\ "fixer_gave_up" \in Reasons /\ job \in JobRows
  BY Typed DEF Refuse, NoKey, Surrender, Crash, IInv, Reasons
<1>2. CASE Refuse(w) \/ NoKey(w)
  <2>1. Unavailable(w) /\ faults' \in 0..MaxFaults
    BY <1>2, Typed DEF Refuse, NoKey, IInv
  <2>. QED BY <1>1, <2>1, UnavailableStep
<1>3. CASE Surrender(w)
  <2>1. GiveUp(w, "fixer_gave_up") /\ faults' = faults
    BY <1>3 DEF Surrender
  <2>. QED BY <1>1, <2>1, GiveUpStep
<1>4. CASE Crash(w)
  <2>1. Ends(w) /\ job' = job /\ faults' \in 0..MaxFaults
    BY <1>4, Typed DEF Crash, IInv
  <2>. QED BY <1>1, <2>1, EndsStep
<1>. QED BY <1>2, <1>3, <1>4

(* The environment leaves the money and the turns alone. *)
LEMMA EnvironmentStep == ASSUME IInv, Clarify \/ Build \/ Forget PROVE IInv'
<1>1. job \in JobRows /\ turn \in [Workers -> Turns]
  BY DEF IInv, TInv, TypeOK
<1>2. UNCHANGED <<ledger, billed, turn, overlaps, faults>>
  BY DEF Clarify, Build, Forget
<1>3. job' \in JobRows /\ job'.spend = job.spend /\ job'.model = job.model
  <2>1. CASE Clarify
    BY <1>1, <2>1 DEF Clarify, JobRows, States
  <2>2. CASE Build
    BY <1>1, <2>2 DEF Build, JobRows, States, Signatures, Terminal
  <2>3. CASE Forget
    BY <1>1, <2>3 DEF Forget
  <2>. QED BY <2>1, <2>2, <2>3
<1>4. cache' \in Nat \cup {None}
  BY DEF Clarify, Build, Forget, IInv, TInv, TypeOK
<1>5. TInv'
  BY <1>2, <1>3, <1>4 DEF IInv, TInv, TypeOK, Placed
<1>6. Costs' = Costs
  BY <1>3, CostsSame
<1>7. (SpendIsLedger /\ BudgetHolds)' /\ (overlaps' = 0 => Synced')
  BY <1>2, <1>3, <1>6 DEF IInv, SpendIsLedger, BudgetHolds, Synced, Sound, Active
<1>. QED BY <1>5, <1>7 DEF IInv

LEMMA StutterStep == ASSUME IInv, UNCHANGED vars PROVE IInv'
<1>1. TInv'
  BY DEF vars, IInv, TInv, TypeOK, Placed
<1>2. Costs' = Costs
  BY CostsSame DEF vars
<1>3. (SpendIsLedger /\ BudgetHolds)' /\ (overlaps' = 0 => Synced')
  BY <1>2 DEF vars, IInv, SpendIsLedger, BudgetHolds, Synced, Sound, Active
<1>. QED BY <1>1, <1>3 DEF IInv

--------------------------------------------------------------------------------
(* Theorems                                                                    *)

LEMMA InitIInv == Init => IInv
<1>. SUFFICES ASSUME Init PROVE IInv
  OBVIOUS
<1>1. job \in JobRows /\ job.spend = 0
  BY BornIsRow DEF Init, Born
<1>2. turn \in [Workers -> Turns] /\ \A w \in Workers : turn[w] = NoTurn
  BY NoTurnIsTurn DEF Init
<1>3. Placed(NoTurn) /\ NoTurn.step = "idle"
  BY DEF Placed, NoTurn, Fresh, AgentsOf
<1>4. TypeOK
  BY <1>1, <1>2 DEF Init, TypeOK
<1>5. \A w \in Workers : ~Active(w)
  BY <1>2, <1>3 DEF Active
<1>. QED BY <1>1, <1>2, <1>3, <1>4, <1>5
     DEF Init, IInv, TInv, SpendIsLedger, BudgetHolds, Synced

LEMMA NextIInv == IInv /\ [Next]_vars => IInv'
<1>. SUFFICES ASSUME IInv, [Next]_vars PROVE IInv'
  OBVIOUS
<1>1. ASSUME NEW w \in Workers, NEW task \in Tasks, Load(w, task) PROVE IInv'
  BY <1>1, LoadStep
<1>2. ASSUME NEW w \in Workers, Turn(w) PROVE IInv'
  BY <1>2, EnterStep, GateStep, FixGuardsStep, TripStep, AnswerStep, CountStep, RecordStep,
     DeliverStep, RejectStep, OtherStep DEF Turn
<1>3. ASSUME NEW w \in Workers, Break(w) \/ Refuse(w) \/ NoKey(w) \/ Crash(w)
      PROVE  IInv'
  BY <1>3, BreakStep, OtherStep
<1>4. ASSUME Clarify \/ Build \/ Forget PROVE IInv'
  BY <1>4, EnvironmentStep
<1>5. CASE UNCHANGED vars
  BY <1>5, StutterStep
<1>. QED BY <1>1, <1>2, <1>3, <1>4, <1>5 DEF Next

THEOREM Inductive == Spec => []IInv
  BY InitIInv, NextIInv, PTL DEF Spec

(* A turn, its snapshot and the row keep their types, and reasons and          *)
(* signatures stay within the ones the code writes.                            *)
THEOREM TypesHold == Spec => []TypeOK
<1>1. IInv => TypeOK
  BY DEF IInv, TInv
<1>. QED BY <1>1, Inductive, PTL

(* spend_usd is the sum of llm_usage while turns do not overlap, for every      *)
(* number of workers, price list, crash and lost answer.                       *)
THEOREM SpendMatchesLedger == Spec => []SpendIsLedger
<1>1. IInv => SpendIsLedger
  BY DEF IInv
<1>. QED BY <1>1, Inductive, PTL

(* The recorded money stays within the budget up to the one call that crosses   *)
(* it, for every budget, number of output retries and fix attempts.            *)
THEOREM BudgetIsKept == Spec => []BudgetHolds
<1>1. IInv => BudgetHolds
  BY DEF IInv
<1>. QED BY <1>1, Inductive, PTL

--------------------------------------------------------------------------------
(* Maxima and sums                                                             *)

LEMMA LeastNatural ==
  ASSUME NEW T, T \subseteq Nat, T # {}
  PROVE  \E n \in T : \A m \in T : n <= m
<1>. DEFINE less == {ss \in Nat \X Nat : ss[1] < ss[2]}
<1>1. IsWellFoundedOn(less, Nat)
  BY NatLessThanWellFounded DEF OpToRel
<1>2. \A m, n \in Nat : m < n => <<m, n>> \in less
  OBVIOUS
<1>. HIDE DEF less
<1>3. PICK n \in T : \A m \in T : ~ (<<m, n>> \in less)
  BY <1>1, WFMin
<1>4. ASSUME NEW m \in T PROVE n <= m
  <2>1. m \in Nat /\ n \in Nat /\ ~ (m < n)
    BY <1>2, <1>3
  <2>. QED BY <2>1
<1>. QED BY <1>4

LEMMA FiniteMax ==
  ASSUME NEW S, IsFiniteSet(S), S # {}, NEW g \in [S -> Nat]
  PROVE  \E x \in S : \A y \in S : g[x] >= g[y]
<1>. DEFINE Topped(U) == \E x \in U : \A y \in U : g[x] >= g[y]
            T == {n \in Nat : \E U \in SUBSET S : U # {} /\ Cardinality(U) = n /\ ~Topped(U)}
<1>. SUFFICES ASSUME ~Topped(S) PROVE FALSE
  OBVIOUS
<1>1. \A U \in SUBSET S : IsFiniteSet(U) /\ Cardinality(U) \in Nat
  BY FS_Subset, FS_CardinalityType
<1>2. Cardinality(S) \in T
  BY <1>1
<1>3. PICK n \in T : \A m \in T : n <= m
  <2>. HIDE DEF T
  <2>1. T \subseteq Nat
    BY DEF T
  <2>. QED BY <1>2, <2>1, LeastNatural
<1>4. PICK U \in SUBSET S : U # {} /\ Cardinality(U) = n /\ ~Topped(U)
  OBVIOUS
<1>5. PICK z \in U : TRUE
  BY <1>4
<1>. DEFINE V == U \ {z}
<1>6. V \in SUBSET S /\ Cardinality(V) = n - 1
  BY <1>1, <1>4, FS_RemoveElement
<1>7. V # {}
  <2>1. SUFFICES ASSUME V = {} PROVE FALSE
    OBVIOUS
  <2>2. U = {z}
    BY <2>1
  <2>. QED BY <1>4, <2>2
<1>8. Topped(V)
  <2>. HIDE DEF Topped, V
  <2>1. n - 1 \notin T
    BY <1>3 DEF T
  <2>. QED BY <1>1, <1>6, <1>7, <2>1 DEF T
<1>9. PICK x \in V : \A y \in V : g[x] >= g[y]
  BY <1>8
<1>10. CASE g[x] >= g[z]
  <2>1. \A y \in U : g[x] >= g[y]
    BY <1>9, <1>10
  <2>. QED BY <1>4, <2>1
<1>11. CASE g[z] >= g[x]
  <2>1. \A y \in U : g[z] >= g[y]
    BY <1>9, <1>11
  <2>. QED BY <1>4, <2>1
<1>. QED BY <1>10, <1>11

(* The dearest call of the job's models. *)
LEMMA MostIsCost == Max(Costs) \in Costs /\ \A cost \in Costs : cost <= Max(Costs)
<1>1. ASSUME NEW agent \in Agents
      PROVE  \E most \in CallCosts(agent) : \A cost \in CallCosts(agent) : most >= cost
  <2>. DEFINE g == [use \in Usages |-> CostOf(ModelOf(job.model, agent), use)]
  <2>1. g \in [Usages -> Nat]
    BY CostIsNat
  <2>2. \A use \in Usages : g[use] = CostOf(ModelOf(job.model, agent), use)
    OBVIOUS
  <2>. HIDE DEF g
  <2>3. PICK use \in Usages : \A other \in Usages : g[use] >= g[other]
    BY <2>1, FiniteMax
  <2>. QED BY <2>2, <2>3 DEF CallCosts
<1>2. \A agent \in Agents : CallCosts(agent) \subseteq Nat
  BY CostsAreNat DEF Costs
<1>3. ASSUME NEW A \in SUBSET Nat, NEW B \in SUBSET Nat,
             \E most \in A : \A cost \in A : most >= cost,
             \E most \in B : \A cost \in B : most >= cost
      PROVE  \E most \in A \cup B : \A cost \in A \cup B : most >= cost
  <2>1. PICK a \in A : \A cost \in A : a >= cost
    BY <1>3
  <2>2. PICK b \in B : \A cost \in B : b >= cost
    BY <1>3
  <2>3. CASE a >= b
    BY <2>1, <2>2, <2>3
  <2>4. CASE b >= a
    BY <2>1, <2>2, <2>4
  <2>. QED BY <2>3, <2>4
<1>4. Costs = (CallCosts("agent1") \cup CallCosts("agent2"))
              \cup (CallCosts("agent3") \cup CallCosts("agent4"))
  BY DEF Costs, Agents
<1>5. \E most \in Costs : \A cost \in Costs : most >= cost
  <2>1. {"agent1", "agent2", "agent3", "agent4"} \subseteq Agents
    BY DEF Agents
  <2>. DEFINE A == CallCosts("agent1") \cup CallCosts("agent2")
              B == CallCosts("agent3") \cup CallCosts("agent4")
  <2>2. A \in SUBSET Nat /\ \E most \in A : \A cost \in A : most >= cost
    BY <1>1, <1>2, <1>3, <2>1
  <2>3. B \in SUBSET Nat /\ \E most \in B : \A cost \in B : most >= cost
    BY <1>1, <1>2, <1>3, <2>1
  <2>. HIDE DEF A, B
  <2>4. Costs = A \cup B
    BY <1>4 DEF A, B
  <2>. QED BY <1>3, <2>2, <2>3, <2>4
<1>6. Max(Costs) \in Costs /\ \A cost \in Costs : Max(Costs) >= cost
  BY <1>5 DEF Max
<1>. QED BY <1>6, CostsAreNat

(* The sums of the terms c over every set of workers. *)
Sums(c) ==
  {f \in [SUBSET Workers -> Nat] :
     /\ f[{}] = 0
     /\ \A S \in SUBSET Workers : \A w \in Workers \ S : f[S \cup {w}] = f[S] + c[w]}

(* One term changes, and the sums of the sets that have it. *)
Follows(f, g, w, c, d) ==
  \A S \in SUBSET Workers :
    /\ w \notin S => g[S] = f[S]
    /\ w \in S => f[S] = f[S \ {w}] + c[w] /\ g[S] = f[S \ {w}] + d[w]

LEMMA SumsMove ==
  ASSUME NEW c \in [Workers -> Nat], NEW d \in [Workers -> Nat], NEW w \in Workers,
         \A v \in Workers \ {w} : d[v] = c[v], NEW f \in Sums(c)
  PROVE  \E g \in Sums(d) : Follows(f, g, w, c, d)
<1>. DEFINE g == [S \in SUBSET Workers |-> IF w \in S THEN f[S \ {w}] + d[w] ELSE f[S]]
<1>1. f \in [SUBSET Workers -> Nat] /\ f[{}] = 0
      /\ \A S \in SUBSET Workers : \A v \in Workers \ S : f[S \cup {v}] = f[S] + c[v]
  BY DEF Sums
<1>2. \A S \in SUBSET Workers : w \in S => f[S] = f[S \ {w}] + c[w]
  <2>1. \A S \in SUBSET Workers : w \in S => S \ {w} \in SUBSET Workers /\ (S \ {w}) \cup {w} = S
    OBVIOUS
  <2>2. ASSUME NEW S \in SUBSET Workers, w \in S PROVE f[S] = f[S \ {w}] + c[w]
    <3>1. S \ {w} \in SUBSET Workers /\ w \in Workers \ (S \ {w}) /\ (S \ {w}) \cup {w} = S
      BY <2>1, <2>2
    <3>2. f[(S \ {w}) \cup {w}] = f[S \ {w}] + c[w]
      BY <1>1, <3>1
    <3>. QED BY <3>1, <3>2
  <2>. QED BY <2>2
<1>3. g \in [SUBSET Workers -> Nat]
  <2>1. \A S \in SUBSET Workers : f[S] \in Nat /\ f[S \ {w}] + d[w] \in Nat
    <3>1. \A S \in SUBSET Workers : f[S] \in Nat
      BY <1>1
    <3>2. \A S \in SUBSET Workers : S \ {w} \in SUBSET Workers
      OBVIOUS
    <3>. QED BY <3>1, <3>2
  <2>. QED BY <2>1
<1>4. g[{}] = 0
  BY <1>1
<1>5. ASSUME NEW S \in SUBSET Workers, NEW v \in Workers \ S
      PROVE  g[S \cup {v}] = g[S] + d[v]
  <2>1. S \cup {v} \in SUBSET Workers /\ S \ {w} \in SUBSET Workers
    OBVIOUS
  <2>2. CASE v = w
    <3>1. (S \cup {v}) \ {w} = S /\ w \in S \cup {v} /\ w \notin S
      BY <2>2
    <3>. QED BY <2>1, <2>2, <3>1
  <2>3. CASE v # w /\ w \notin S
    BY <1>1, <2>1, <2>3
  <2>4. CASE v # w /\ w \in S
    <3>1. (S \cup {v}) \ {w} = (S \ {w}) \cup {v} /\ v \notin S \ {w}
      BY <2>4
    <3>2. g[S \cup {v}] = f[(S \ {w}) \cup {v}] + d[w]
      BY <2>1, <2>4, <3>1
    <3>3. f[(S \ {w}) \cup {v}] = f[S \ {w}] + c[v] /\ f[S \ {w}] \in Nat
      BY <1>1, <2>1, <3>1
    <3>4. g[S] = f[S \ {w}] + d[w] /\ d[v] = c[v] /\ d[w] \in Nat /\ c[v] \in Nat
      BY <2>4
    <3>. HIDE DEF g
    <3>. QED BY <3>2, <3>3, <3>4
  <2>. QED BY <2>2, <2>3, <2>4
<1>. HIDE DEF g
<1>6. g \in Sums(d)
  BY <1>3, <1>4, <1>5 DEF Sums
<1>7. \A S \in SUBSET Workers : g[S] = IF w \in S THEN f[S \ {w}] + d[w] ELSE f[S]
  BY DEF g
<1>8. Follows(f, g, w, c, d)
  BY <1>2, <1>7 DEF Follows
<1>. QED BY <1>6, <1>8

--------------------------------------------------------------------------------
(* The money of overlapping turns                                              *)

(* What the open calls have cost: answered and not recorded, or not counted.    *)
InFlight ==
  [w \in Workers |-> IF turn[w].step \in {"answered", "counted"} THEN turn[w].cost ELSE 0]
Uncounted == [w \in Workers |-> IF turn[w].step = "answered" THEN turn[w].cost ELSE 0]
Open == {w \in Workers : turn[w].step \in {"answered", "counted"}}
Counter == IF cache = None THEN 0 ELSE cache

(* The provider has charged the ledger and the open calls, and one call more at *)
(* most for a fault; the cache and the calls it waits for stay within that too. *)
Books(f, g) ==
  /\ ledger + f[Workers] <= billed
  /\ Counter + g[Workers] <= billed
  /\ billed <= ledger + f[Workers] + Max(Costs) * faults
  /\ \A S \in SUBSET Workers : /\ g[S] <= f[S]
                               /\ f[S] <= Max(Costs) * Cardinality(Open \cap S)

(* No snapshot claims more than the ledger has, whoever commits first. *)
Honest(t) == t.row.spend <= ledger + (IF t.step = "counted" THEN t.cost ELSE 0)

MInv ==
  /\ IsFiniteSet(Open) /\ \A w \in Open : turn[w].cost <= Max(Costs)
  /\ job.spend <= ledger
  /\ \A w \in Workers : Active(w) => Honest(turn[w])
  /\ BudgetFailureIsReal
  /\ \E f \in Sums(InFlight) : \E g \in Sums(Uncounted) : Books(f, g)

LEMMA TermsAreNat == ASSUME TInv PROVE InFlight \in [Workers -> Nat] /\ Uncounted \in [Workers -> Nat]
<1>1. \A w \in Workers : turn[w].cost \in Nat
  BY Typed DEF Turns
<1>. QED BY <1>1 DEF InFlight, Uncounted

LEMMA MostIsNat == Max(Costs) \in Nat
  BY MostIsCost, CostsAreNat

(* A set of open calls gains or loses one of them. *)
LEMMA RoomMoves ==
  ASSUME NEW P, NEW Q, NEW w, P \ {w} = Q \ {w}, IsFiniteSet(P), NEW most \in Nat, NEW S,
         NEW x \in Nat, x <= most * Cardinality(P \cap (S \ {w})), w \in S,
         NEW y \in Nat, IF w \in Q THEN y <= most ELSE y = 0
  PROVE  x + y <= most * Cardinality(Q \cap S)
<1>. DEFINE R == P \cap (S \ {w})
<1>1. IsFiniteSet(R) /\ w \notin R
  BY FS_Intersection
<1>2. Cardinality(R) \in Nat
  BY <1>1, FS_CardinalityType
<1>3. CASE w \in Q
  <2>1. Q \cap S = R \cup {w}
    BY <1>3
  <2>2. Cardinality(Q \cap S) = Cardinality(R) + 1
    BY <1>1, <2>1, FS_AddElement
  <2>3. \A m, n \in Nat : m * (n + 1) = m * n + m /\ m * n \in Nat
    OBVIOUS
  <2>. HIDE DEF R
  <2>4. most * (Cardinality(R) + 1) = most * Cardinality(R) + most /\ most * Cardinality(R) \in Nat
    BY <1>2, <2>3
  <2>5. x <= most * Cardinality(R) /\ y <= most
    BY <1>3 DEF R
  <2>6. \A z \in Nat : x <= z /\ y <= most => x + y <= z + most
    OBVIOUS
  <2>. QED BY <2>2, <2>4, <2>5, <2>6
<1>4. CASE w \notin Q
  <2>1. Q \cap S = R /\ y = 0
    BY <1>4
  <2>. QED BY <2>1
<1>. QED BY <1>3, <1>4

(* A step of w: what it does to the books, the rest following. *)
LEMMA MoneyStep ==
  ASSUME TInv, TInv', MInv, NEW w \in Workers, \A v \in Workers \ {w} : turn'[v] = turn[v],
         job'.model = job.model, job'.spend <= ledger', ledger <= ledger', billed <= billed',
         Active(w)' => Honest(turn[w])',
         job'.reason = "budget_exhausted" => job.reason = "budget_exhausted" \/ billed >= Budget,
         w \in Open' => turn'[w].cost <= Max(Costs),
         ledger' + InFlight'[w] + billed <= ledger + InFlight[w] + billed',
         \/ Counter' + Uncounted'[w] + billed <= Counter + Uncounted[w] + billed'
         \/ Counter' <= ledger /\ Uncounted'[w] = Uncounted[w] /\ billed' = billed,
         \/ faults' = faults /\ ledger + InFlight[w] + billed' <= ledger' + InFlight'[w] + billed
         \/ /\ faults' = faults + 1
            /\ ledger + InFlight[w] + billed' <= ledger' + InFlight'[w] + billed + Max(Costs)
  PROVE  MInv'
<1>. DEFINE most == Max(Costs)
<1>1. most \in Nat /\ most' = most
  BY MostIsNat, CostsSame
<1>2. ledger \in Nat /\ billed \in Nat /\ faults \in Nat /\ Counter \in Nat
      /\ ledger' \in Nat /\ billed' \in Nat /\ faults' \in Nat /\ Counter' \in Nat
  BY DEF TInv, TypeOK, Counter
<1>3. InFlight \in [Workers -> Nat] /\ Uncounted \in [Workers -> Nat]
  BY TermsAreNat
<1>4. InFlight' \in [Workers -> Nat] /\ Uncounted' \in [Workers -> Nat]
  <2>1. \A v \in Workers : turn'[v].cost \in Nat
    BY DEF TInv, TypeOK, Turns
  <2>. QED BY <2>1 DEF InFlight, Uncounted
<1>5. \A v \in Workers \ {w} : InFlight'[v] = InFlight[v] /\ Uncounted'[v] = Uncounted[v]
  BY DEF InFlight, Uncounted
<1>6. Open \ {w} = Open' \ {w}
  BY DEF Open
<1>7. IsFiniteSet(Open')
  <2>1. IsFiniteSet(Open \ {w})
    BY FS_RemoveElement DEF MInv
  <2>2. IsFiniteSet((Open' \ {w}) \cup {w})
    BY <1>6, <2>1, FS_AddElement
  <2>3. Open' \in SUBSET ((Open' \ {w}) \cup {w})
    OBVIOUS
  <2>. QED BY <2>2, <2>3, FS_Subset
<1>8. PICK f \in Sums(InFlight), g \in Sums(Uncounted) : Books(f, g)
  BY DEF MInv
<1>9. PICK h \in Sums(InFlight') : Follows(f, h, w, InFlight, InFlight')
  BY <1>3, <1>4, <1>5, SumsMove
<1>10. PICK k \in Sums(Uncounted') : Follows(g, k, w, Uncounted, Uncounted')
  BY <1>3, <1>4, <1>5, SumsMove
<1>11. /\ f \in [SUBSET Workers -> Nat] /\ g \in [SUBSET Workers -> Nat]
       /\ h \in [SUBSET Workers -> Nat] /\ k \in [SUBSET Workers -> Nat]
  BY DEF Sums
<1>12. Uncounted'[w] <= InFlight'[w] /\ (w \in Open' => InFlight'[w] <= most)
       /\ (w \notin Open' => InFlight'[w] = 0)
  <2>1. turn'[w].cost \in Nat
    BY DEF TInv, TypeOK, Turns
  <2>. QED BY <2>1 DEF Uncounted, InFlight, Open
<1>13. ASSUME NEW S \in SUBSET Workers
       PROVE  k[S] <= h[S] /\ h[S] <= most * Cardinality(Open' \cap S)
  <2>1. CASE w \notin S
    <3>1. Open' \cap S = Open \cap S
      BY <1>6, <2>1
    <3>2. h[S] = f[S] /\ k[S] = g[S]
      BY <1>9, <1>10, <2>1 DEF Follows
    <3>3. g[S] <= f[S] /\ f[S] <= most * Cardinality(Open \cap S)
      BY <1>8 DEF Books
    <3>. QED BY <3>1, <3>2, <3>3
  <2>2. CASE w \in S
    <3>. DEFINE T == S \ {w}
    <3>1. h[S] = f[T] + InFlight'[w] /\ k[S] = g[T] + Uncounted'[w]
      BY <1>9, <1>10, <2>2 DEF Follows
    <3>2. T \in SUBSET Workers /\ f[T] \in Nat /\ g[T] \in Nat
      BY <1>11
    <3>3. g[T] <= f[T] /\ f[T] <= most * Cardinality(Open \cap T)
      BY <1>8, <3>2 DEF Books
    <3>4. InFlight'[w] \in Nat /\ Uncounted'[w] \in Nat
      BY <1>4
    <3>5. k[S] <= h[S]
      <4>. HIDE DEF T
      <4>. QED BY <1>12, <3>1, <3>2, <3>3, <3>4
    <3>6. f[T] + InFlight'[w] <= most * Cardinality(Open' \cap S)
      <4>1. IsFiniteSet(Open)
        BY DEF MInv
      <4>2. IF w \in Open' THEN InFlight'[w] <= most ELSE InFlight'[w] = 0
        BY <1>12
      <4>. HIDE DEF most
      <4>. QED BY <1>1, <1>6, <2>2, <3>2, <3>3, <3>4, <4>1, <4>2, RoomMoves
    <3>. QED BY <3>1, <3>5, <3>6
  <2>. QED BY <2>1, <2>2
<1>. DEFINE W == Workers \ {w}
<1>14. /\ f[Workers] = f[W] + InFlight[w] /\ h[Workers] = f[W] + InFlight'[w]
       /\ g[Workers] = g[W] + Uncounted[w] /\ k[Workers] = g[W] + Uncounted'[w]
       /\ f[W] \in Nat /\ g[W] \in Nat /\ g[W] <= f[W]
  <2>1. Workers \in SUBSET Workers /\ W \in SUBSET Workers
    OBVIOUS
  <2>. QED BY <1>8, <1>9, <1>10, <1>11, <2>1 DEF Books, Follows
<1>15. InFlight[w] \in Nat /\ InFlight'[w] \in Nat /\ Uncounted[w] \in Nat /\ Uncounted'[w] \in Nat
  BY <1>3, <1>4
<1>16. /\ ledger + f[Workers] <= billed /\ Counter + g[Workers] <= billed
       /\ billed <= ledger + f[Workers] + most * faults
  BY <1>8 DEF Books
<1>17. g[W] + Uncounted[w] <= f[W] + InFlight[w]
  <2>1. Uncounted[w] <= InFlight[w]
    <3>1. turn[w].cost \in Nat
      BY Typed DEF Turns
    <3>. QED BY <3>1 DEF Uncounted, InFlight
  <2>. HIDE DEF W
  <2>. QED BY <1>14, <1>15, <2>1
<1>. HIDE DEF W, most
<1>18. ledger' + h[Workers] <= billed'
  BY <1>2, <1>14, <1>15, <1>16
<1>19. Counter' + k[Workers] <= billed'
  BY <1>2, <1>14, <1>15, <1>16, <1>17
<1>20. billed' <= ledger' + h[Workers] + most * faults'
  <2>1. most * faults \in Nat /\ most * (faults + 1) = most * faults + most
    <3>1. \A m, n \in Nat : m * n \in Nat /\ m * (n + 1) = m * n + m
      OBVIOUS
    <3>. QED BY <1>1, <1>2, <3>1
  <2>2. CASE faults' = faults /\ ledger + InFlight[w] + billed' <= ledger' + InFlight'[w] + billed
    BY <1>2, <1>14, <1>15, <1>16, <2>1, <2>2
  <2>3. CASE /\ faults' = faults + 1
             /\ ledger + InFlight[w] + billed' <= ledger' + InFlight'[w] + billed + most
    <3>1. most * faults' = most * faults + most
      BY <2>1, <2>3
    <3>. QED BY <1>1, <1>2, <1>14, <1>15, <1>16, <2>1, <2>3, <3>1
  <2>. QED BY <2>2, <2>3 DEF most
<1>21. Books(h, k)'
  BY <1>1, <1>13, <1>18, <1>19, <1>20 DEF Books, most
<1>22. ASSUME NEW v \in Workers, Active(v)' PROVE Honest(turn[v])'
  <2>1. CASE v = w
    BY <1>22, <2>1
  <2>2. CASE v # w
    <3>1. turn'[v] = turn[v] /\ Honest(turn[v])
      BY <1>22, <2>2 DEF MInv, Active
    <3>2. turn[v].row.spend \in Nat /\ turn[v].cost \in Nat
      BY Typed DEF Turns, JobRows
    <3>. QED BY <1>2, <3>1, <3>2 DEF Honest
  <2>. QED BY <2>1, <2>2
<1>23. BudgetFailureIsReal'
  BY <1>2 DEF MInv, BudgetFailureIsReal
<1>24. \A v \in Open' : turn'[v].cost <= most'
  <2>1. \A v \in Workers \ {w} : v \in Open' => turn'[v].cost <= most
    BY DEF MInv, Open, most
  <2>2. w \in Open' => turn'[w].cost <= most
    BY DEF most
  <2>. QED BY <1>1, <2>1, <2>2 DEF Open
<1>. QED BY <1>7, <1>21, <1>22, <1>23, <1>24 DEF MInv, most

(* A row that keeps its money, and fails for its budget with good reason only. *)
SameMoney ==
  /\ job'.model = job.model /\ job'.spend = job.spend
  /\ job'.reason = "budget_exhausted" => job.reason = "budget_exhausted" \/ billed >= Budget

LEMMA MovedMoney ==
  ASSUME TInv, NEW state, NEW reason, reason # "budget_exhausted" \/ billed >= Budget,
         job' = job \/ job' = Moved(job, state) \/ job' = Failed(job, reason)
  PROVE  SameMoney
<1>1. job \in JobRows
  BY DEF TInv, TypeOK
<1>2. CASE job' = job
  BY <1>2 DEF SameMoney
<1>3. CASE job' = Moved(job, state)
  BY <1>1, <1>3 DEF SameMoney, Moved, JobRows
<1>4. CASE job' = Failed(job, reason)
  BY <1>1, <1>4 DEF SameMoney, Failed, JobRows
<1>. QED BY <1>2, <1>3, <1>4

LEMMA GiveUpMoney ==
  ASSUME TInv, NEW w \in Workers, NEW reason, GiveUp(w, reason),
         reason # "budget_exhausted" \/ billed >= Budget
  PROVE  SameMoney /\ Ends(w)
<1>1. CASE job.kind = "edit"
  <2>1. job' = Failed(job, "edit_failed_rolled_back") /\ Ends(w)
    BY <1>1 DEF GiveUp
  <2>. QED BY <2>1, MovedMoney
<1>2. CASE job.kind # "edit"
  <2>1. job' = Failed(job, reason) /\ Ends(w)
    BY <1>2 DEF GiveUp
  <2>. QED BY <2>1, MovedMoney
<1>. QED BY <1>1, <1>2

(* The provider has charged all that the row, a snapshot or the cache may say. *)
LEMMA Backed ==
  ASSUME TInv, MInv
  PROVE  /\ ledger <= billed /\ Counter <= billed
         /\ \A w \in Workers : Active(w) /\ turn[w].step # "counted" =>
              turn[w].row.spend <= ledger /\ turn[w].row.spend <= billed
<1>1. PICK f \in Sums(InFlight), g \in Sums(Uncounted) : Books(f, g)
  BY DEF MInv
<1>2. f[Workers] \in Nat /\ g[Workers] \in Nat
  <2>1. Workers \in SUBSET Workers
    OBVIOUS
  <2>. QED BY <2>1 DEF Sums
<1>3. ledger \in Nat /\ billed \in Nat /\ Counter \in Nat
  BY DEF TInv, TypeOK, Counter
<1>4. ledger <= billed /\ Counter <= billed
  <2>1. ledger + f[Workers] <= billed /\ Counter + g[Workers] <= billed
    BY <1>1 DEF Books
  <2>. QED BY <1>2, <1>3, <2>1
<1>5. ASSUME NEW w \in Workers, Active(w), turn[w].step # "counted"
      PROVE  turn[w].row.spend <= ledger /\ turn[w].row.spend <= billed
  <2>1. turn[w].row.spend \in Nat
    BY Typed DEF JobRows
  <2>2. turn[w].row.spend <= ledger + 0
    BY <1>5 DEF MInv, Honest
  <2>. QED BY <1>3, <1>4, <2>1, <2>2
<1>. QED BY <1>4, <1>5

Silent == Steps \ {"answered", "counted"}

(* A step of a turn without an open call, between two such steps. *)
LEMMA QuietStep ==
  ASSUME TInv, TInv', MInv, NEW w \in Workers, NEW t, turn' = [turn EXCEPT ![w] = t],
         turn[w].step \in Silent, t.step \in Silent, SameMoney,
         \/ t.step \in {"idle", "retry"}
         \/ t.row = job
         \/ Active(w) /\ t.row.spend = turn[w].row.spend,
         UNCHANGED <<ledger, billed, faults>>, cache' = cache \/ Counter' <= ledger
  PROVE  MInv'
<1>1. turn'[w] = t /\ \A v \in Workers \ {w} : turn'[v] = turn[v]
  BY DEF TInv, TypeOK
<1>2. /\ InFlight[w] = 0 /\ Uncounted[w] = 0 /\ w \notin Open'
      /\ InFlight'[w] = 0 /\ Uncounted'[w] = 0
  BY <1>1 DEF InFlight, Uncounted, Open, Silent
<1>3. ledger \in Nat /\ billed \in Nat /\ Counter \in Nat
  BY DEF TInv, TypeOK, Counter
<1>4. job.spend \in Nat /\ job.spend <= ledger
  BY DEF TInv, TypeOK, JobRows, MInv
<1>5. Active(w)' => Honest(turn[w])'
  <2>1. SUFFICES ASSUME Active(w)' PROVE t.row.spend <= ledger'
    <3>1. turn'[w].step # "counted" /\ (t.row.spend <= ledger' => t.row.spend <= ledger' + 0)
      BY <1>1, <1>3 DEF Silent
    <3>. QED BY <1>1, <3>1 DEF Honest
  <2>2. t.step \notin {"idle", "retry"}
    BY <1>1, <2>1 DEF Active
  <2>3. CASE t.row = job
    BY <1>4, <2>3
  <2>4. CASE Active(w) /\ t.row.spend = turn[w].row.spend
    BY <2>4, Backed DEF Silent
  <2>. QED BY <2>2, <2>3, <2>4
<1>6. Counter' = Counter \/ Counter' <= ledger
  BY DEF Counter
<1>7. Counter' \in Nat
  BY DEF TInv, TypeOK, Counter
<1>8. ledger' + InFlight'[w] + billed <= ledger + InFlight[w] + billed'
  BY <1>2, <1>3
<1>9. \/ Counter' + Uncounted'[w] + billed <= Counter + Uncounted[w] + billed'
      \/ Counter' <= ledger /\ Uncounted'[w] = Uncounted[w] /\ billed' = billed
  BY <1>2, <1>3, <1>6
<1>10. faults' = faults /\ ledger + InFlight[w] + billed' <= ledger' + InFlight'[w] + billed
  BY <1>2, <1>3
<1>11. job'.spend <= ledger' /\ ledger <= ledger' /\ billed <= billed'
  BY <1>3, <1>4 DEF SameMoney
<1>. QED BY <1>1, <1>2, <1>5, <1>8, <1>9, <1>10, <1>11, MoneyStep DEF SameMoney

LEMMA QuietEnd ==
  ASSUME TInv, TInv', MInv, NEW w \in Workers, Ends(w), turn[w].step \in Silent, SameMoney,
         UNCHANGED <<ledger, billed, faults>>, cache' = cache \/ Counter' <= ledger
  PROVE  MInv'
<1>1. NoTurn.step = "idle" /\ "idle" \in Silent
  BY DEF NoTurn, Fresh, Silent, Steps
<1>2. turn' = [turn EXCEPT ![w] = NoTurn]
  BY DEF Ends
<1>. QED BY <1>1, <1>2, QuietStep

LEMMA QuietGoes ==
  ASSUME TInv, TInv', MInv, NEW w \in Workers, NEW step \in Silent, Goes(w, step), Active(w),
         turn[w].step \in Silent, SameMoney,
         UNCHANGED <<ledger, billed, faults>>, cache' = cache \/ Counter' <= ledger
  PROVE  MInv'
<1>. DEFINE t == [turn[w] EXCEPT !.step = step]
<1>1. turn' = [turn EXCEPT ![w] = t] /\ t.step = step /\ t.row = turn[w].row
  BY Typed DEF Goes, Turns
<1>. HIDE DEF t
<1>. QED BY <1>1, QuietStep

--------------------------------------------------------------------------------
(* The actions and the books                                                   *)

LEMMA LoadMoney ==
  ASSUME TInv, TInv', MInv, NEW w \in Workers, NEW task \in Tasks, Load(w, task)
  PROVE  MInv'
<1>1. UNCHANGED <<job, ledger, billed, cache, faults>> /\ turn[w].step \in {"idle", "retry"}
  BY DEF Load
<1>2. SameMoney /\ turn[w].step \in Silent
  BY <1>1 DEF SameMoney, Silent, Steps
<1>3. CASE ~Takes(task, job)
  <2>1. Ends(w)
    BY <1>3 DEF Load
  <2>. QED BY <1>1, <1>2, <2>1, QuietEnd
<1>4. CASE Takes(task, job)
  <2>. DEFINE step == CASE task = "fix"  -> "gate"
                        [] task = "spec" -> "calling"
                        [] OTHER         -> "loaded"
              t == Fresh(step, task, job, turn[w].tries)
  <2>1. turn' = [turn EXCEPT ![w] = t]
    BY <1>4, Typed DEF Load
  <2>2. step \in Silent
    BY DEF Silent, Steps
  <2>. HIDE DEF step
  <2>3. t.step = step /\ t.row = job
    BY DEF Fresh
  <2>. HIDE DEF t
  <2>. QED BY <1>1, <1>2, <2>1, <2>2, <2>3, QuietStep
<1>. QED BY <1>3, <1>4

LEMMA EnterMoney == ASSUME TInv, TInv', MInv, NEW w \in Workers, Enter(w) PROVE MInv'
<1>1. UNCHANGED <<ledger, billed, cache, faults>> /\ turn[w].step = "loaded"
      /\ (Ends(w) \/ Goes(w, "calling"))
  BY DEF Enter
<1>2. \E state : job' = job \/ job' = Moved(job, state)
  BY DEF Enter
<1>3. SameMoney
  BY <1>2, MovedMoney
<1>4. Active(w) /\ turn[w].step \in Silent /\ "calling" \in Silent
  BY <1>1 DEF Active, Silent, Steps
<1>. QED BY <1>1, <1>3, <1>4, QuietEnd, QuietGoes

LEMMA GateMoney ==
  ASSUME TInv, TInv', MInv, NEW w \in Workers, CacheGate(w) \/ Reseed(w) PROVE MInv'
<1>1. UNCHANGED <<ledger, billed, faults>> /\ turn[w].step \in {"gate", "reseed"}
  BY DEF CacheGate, Reseed
<1>2. Active(w) /\ turn[w].step \in Silent /\ {"reseed", "guards"} \subseteq Silent
      /\ turn[w].step # "counted"
  BY <1>1 DEF Active, Silent, Steps
<1>3. cache' = cache \/ Counter' <= ledger
  <2>1. CASE CacheGate(w)
    BY <2>1 DEF CacheGate
  <2>2. CASE Reseed(w)
    <3>1. turn[w].row.spend <= ledger /\ turn[w].row.spend \in Nat /\ ledger \in Nat
      BY <1>2, Backed, Typed DEF JobRows
    <3>2. Capped(turn[w].row.spend) \in Nat /\ Capped(turn[w].row.spend) <= ledger
      BY <3>1 DEF Capped
    <3>3. cache' = cache \/ cache' = Capped(turn[w].row.spend)
      BY <2>2 DEF Reseed
    <3>. QED BY <3>2, <3>3 DEF Counter
  <2>. QED BY <2>1, <2>2
<1>4. \/ job' = job /\ \E step \in {"reseed", "guards"} : Goes(w, step)
      \/ GiveUp(w, "budget_exhausted") /\ billed >= Budget
  <2>1. CASE CacheGate(w)
    <3>1. cache # None /\ cache >= Budget => billed >= Budget
      BY Backed DEF Counter, TInv, TypeOK
    <3>. QED BY <2>1, <3>1 DEF CacheGate
  <2>2. CASE Reseed(w)
    <3>1. turn[w].row.spend >= Budget => billed >= Budget
      BY <1>2, Backed, Typed DEF JobRows
    <3>. QED BY <2>2, <3>1 DEF Reseed
  <2>. QED BY <2>1, <2>2
<1>5. CASE GiveUp(w, "budget_exhausted") /\ billed >= Budget
  BY <1>1, <1>2, <1>3, <1>5, GiveUpMoney, QuietEnd
<1>6. CASE job' = job /\ \E step \in {"reseed", "guards"} : Goes(w, step)
  BY <1>1, <1>2, <1>3, <1>6, QuietGoes DEF SameMoney
<1>. QED BY <1>4, <1>5, <1>6

LEMMA FixGuardsMoney == ASSUME TInv, TInv', MInv, NEW w \in Workers, FixGuards(w) PROVE MInv'
<1>. DEFINE consumed == [turn[w].row EXCEPT !.last = turn[w].row.log, !.pending = FALSE]
            t == [turn[w] EXCEPT !.row = consumed, !.step = "calling"]
<1>1. UNCHANGED <<ledger, billed, cache, faults>> /\ turn[w].step = "guards"
  BY DEF FixGuards
<1>2. Active(w) /\ turn[w].step \in Silent /\ "calling" \in Silent /\ turn[w].step # "counted"
  BY <1>1 DEF Active, Silent, Steps
<1>3. turn[w].row.spend >= Budget => billed >= Budget
  BY <1>2, Backed, Typed DEF JobRows
<1>4. \/ \E reason : GiveUp(w, reason) /\ (reason # "budget_exhausted" \/ billed >= Budget)
      \/ /\ job' = [job EXCEPT !.last = turn[w].row.log, !.pending = FALSE]
         /\ turn' = [turn EXCEPT ![w].row = consumed, ![w].step = "calling"]
  BY <1>3 DEF FixGuards
<1>5. CASE \E reason : GiveUp(w, reason) /\ (reason # "budget_exhausted" \/ billed >= Budget)
  BY <1>1, <1>2, <1>5, GiveUpMoney, QuietEnd
<1>6. CASE /\ job' = [job EXCEPT !.last = turn[w].row.log, !.pending = FALSE]
           /\ turn' = [turn EXCEPT ![w].row = consumed, ![w].step = "calling"]
  <2>1. SameMoney
    BY <1>6, Typed DEF SameMoney, JobRows
  <2>2. turn' = [turn EXCEPT ![w] = t]
    BY <1>6, Typed
  <2>3. consumed.spend = turn[w].row.spend
    BY Typed DEF JobRows
  <2>. HIDE DEF consumed
  <2>4. t.step = "calling" /\ t.row = consumed
    BY Typed DEF Turns
  <2>. HIDE DEF t
  <2>. QED BY <1>1, <1>2, <2>1, <2>2, <2>3, <2>4, QuietStep
<1>. QED BY <1>4, <1>5, <1>6

(* The ways a turn ends without an open call. *)
LEMMA EndMoney ==
  ASSUME TInv, TInv', MInv, NEW w \in Workers,
         Trip(w) \/ Refuse(w) \/ NoKey(w) \/ Deliver(w) \/ Reject(w) \/ Surrender(w)
  PROVE  MInv'
<1>1. /\ UNCHANGED <<ledger, billed, cache, faults>>
      /\ turn[w].step \in {"calling", "idle", "retry", "closing"}
  BY DEF Trip, Refuse, NoKey, Deliver, Reject, Surrender
<1>2. turn[w].step \in Silent
  BY <1>1 DEF Silent, Steps
<1>3. SameMoney /\ Ends(w)
  <2>1. CASE Trip(w)
    <3>1. Active(w) /\ turn[w].step # "counted"
      BY <2>1 DEF Trip, Active
    <3>2. turn[w].row.spend \in Nat /\ billed \in Nat
      BY Typed DEF JobRows
    <3>3. ~Affordable(w) => billed >= Budget
      BY <3>1, <3>2, Backed DEF Affordable
    <3>4. \E reason : GiveUp(w, reason) /\ (reason # "budget_exhausted" \/ billed >= Budget)
      BY <2>1, <3>3 DEF Trip
    <3>. QED BY <3>4, GiveUpMoney
  <2>2. CASE Refuse(w) \/ NoKey(w)
    <3>1. job' = Failed(job, "agent_unavailable") /\ Ends(w)
      BY <2>2 DEF Refuse, NoKey, Unavailable
    <3>. QED BY <3>1, MovedMoney
  <2>3. CASE Deliver(w)
    <3>1. Ends(w)
      BY <2>3 DEF Deliver
    <3>2. CASE job' = [job EXCEPT !.state = "BUILDING", !.retries = turn[w].row.retries + 1]
      BY <3>1, <3>2, Typed DEF SameMoney, JobRows
    <3>3. CASE \E state : job' = Moved(job, state)
      BY <3>1, <3>3, MovedMoney
    <3>. QED BY <2>3, <3>2, <3>3 DEF Deliver
  <2>4. CASE Reject(w)
    <3>1. CASE turn[w].task = "fix"
      BY <2>4, <3>1, Typed DEF Reject, SameMoney, JobRows
    <3>2. CASE turn[w].task # "fix"
      BY <2>4, <3>2, GiveUpMoney DEF Reject
    <3>. QED BY <3>1, <3>2
  <2>5. CASE Surrender(w)
    BY <2>5, GiveUpMoney DEF Surrender
  <2>. QED BY <2>1, <2>2, <2>3, <2>4, <2>5
<1>. QED BY <1>1, <1>2, <1>3, QuietEnd

LEMMA AnswerMoney == ASSUME TInv, TInv', MInv, NEW w \in Workers, Answer(w) PROVE MInv'
<1>1. PICK cost \in CallCosts(Agent(w)) :
        /\ billed' = billed + cost
        /\ turn' = [turn EXCEPT ![w].step = "answered", ![w].cost = cost]
  BY DEF Answer
<1>2. UNCHANGED <<job, ledger, cache, faults>> /\ turn[w].step = "calling"
  BY DEF Answer
<1>3. cost \in Nat /\ cost <= Max(Costs)
  BY CallCostsAreCosts, MostIsCost
<1>4. /\ turn'[w].step = "answered" /\ turn'[w].cost = cost /\ turn'[w].row = turn[w].row
      /\ \A v \in Workers \ {w} : turn'[v] = turn[v]
  BY <1>1, Typed DEF Turns
<1>5. /\ InFlight[w] = 0 /\ Uncounted[w] = 0
      /\ InFlight'[w] = cost /\ Uncounted'[w] = cost
  BY <1>2, <1>4 DEF InFlight, Uncounted
<1>6. ledger \in Nat /\ billed \in Nat /\ Counter \in Nat /\ Counter' = Counter
      /\ job.spend \in Nat /\ turn[w].row.spend \in Nat
  BY <1>2, Typed DEF Counter, JobRows
<1>7. Honest(turn[w])'
  <2>1. Active(w) /\ turn[w].step # "counted"
    BY <1>2 DEF Active
  <2>2. turn[w].row.spend <= ledger
    BY <2>1, Backed
  <2>. QED BY <1>2, <1>4, <1>6, <2>2 DEF Honest
<1>8. job'.spend <= ledger' /\ ledger <= ledger' /\ billed <= billed'
  BY <1>1, <1>2, <1>3, <1>6 DEF MInv
<1>9. ledger' + InFlight'[w] + billed <= ledger + InFlight[w] + billed'
  BY <1>1, <1>2, <1>3, <1>5, <1>6
<1>10. Counter' + Uncounted'[w] + billed <= Counter + Uncounted[w] + billed'
  BY <1>1, <1>3, <1>5, <1>6
<1>11. faults' = faults /\ ledger + InFlight[w] + billed' <= ledger' + InFlight'[w] + billed
  BY <1>1, <1>2, <1>3, <1>5, <1>6
<1>. QED BY <1>2, <1>3, <1>4, <1>7, <1>8, <1>9, <1>10, <1>11, MoneyStep

(* A call that breaks off may be charged: a fault takes it, and nobody counts it. *)
LEMMA BreakMoney == ASSUME TInv, TInv', MInv, NEW w \in Workers, Break(w) PROVE MInv'
<1>1. UNCHANGED <<ledger, cache>> /\ turn[w].step = "calling"
  BY DEF Break
<1>2. \/ billed' = billed /\ faults' = faults
      \/ /\ faults' = faults + 1
         /\ \E cost \in CallCosts(Agent(w)) : billed' = billed + cost
  BY DEF Break
<1>. DEFINE again == Fresh("retry", turn[w].task, NoTurn.row, turn[w].tries + 1)
<1>3. \E t : turn' = [turn EXCEPT ![w] = t] /\ t.step \in {"idle", "retry"}
  <2>1. CASE turn' = [turn EXCEPT ![w] = again]
    <3>1. again.step = "retry"
      BY DEF Fresh
    <3>. HIDE DEF again
    <3>. QED BY <2>1, <3>1
  <2>2. CASE Unavailable(w)
    <3>1. turn' = [turn EXCEPT ![w] = NoTurn]
      BY <2>2 DEF Unavailable, Ends
    <3>2. NoTurn.step = "idle"
      BY DEF NoTurn, Fresh
    <3>. QED BY <3>1, <3>2
  <2>. QED BY <2>1, <2>2 DEF Break
<1>4. SameMoney
  <2>1. job' = job \/ job' = Failed(job, "agent_unavailable")
    BY DEF Break, Unavailable
  <2>. QED BY <2>1, MovedMoney
<1>5. /\ turn'[w].step \in {"idle", "retry"}
      /\ \A v \in Workers \ {w} : turn'[v] = turn[v]
  BY <1>3, Typed
<1>6. ~Active(w)' /\ w \notin Open'
      /\ InFlight[w] = 0 /\ Uncounted[w] = 0 /\ InFlight'[w] = 0 /\ Uncounted'[w] = 0
  BY <1>1, <1>5 DEF Active, Open, InFlight, Uncounted
<1>7. ledger \in Nat /\ billed \in Nat /\ Counter \in Nat /\ Counter' = Counter
  BY <1>1, Typed DEF Counter
<1>8. \/ billed' = billed /\ faults' = faults
      \/ faults' = faults + 1 /\ billed' \in Nat /\ billed <= billed' /\ billed' <= billed + Max(Costs)
  <2>1. CASE billed' = billed /\ faults' = faults
    BY <2>1
  <2>2. CASE /\ faults' = faults + 1
             /\ \E cost \in CallCosts(Agent(w)) : billed' = billed + cost
    <3>1. PICK cost \in CallCosts(Agent(w)) : billed' = billed + cost
      BY <2>2
    <3>2. cost \in Nat /\ cost <= Max(Costs)
      BY CallCostsAreCosts, MostIsCost
    <3>. QED BY <1>7, <2>2, <3>1, <3>2, MostIsNat
  <2>. QED BY <1>2, <2>1, <2>2
<1>9. job'.spend <= ledger' /\ ledger <= ledger' /\ billed <= billed' /\ billed' \in Nat
  BY <1>1, <1>4, <1>7, <1>8 DEF SameMoney, MInv
<1>10. ledger' + InFlight'[w] + billed <= ledger + InFlight[w] + billed'
  <2>1. ledger' = ledger /\ InFlight[w] = 0 /\ InFlight'[w] = 0
    BY <1>1, <1>6
  <2>2. ledger \in Nat /\ billed \in Nat /\ billed' \in Nat /\ billed <= billed'
    BY <1>7, <1>9
  <2>3. \A l, b, c \in Nat : b <= c => l + 0 + b <= l + 0 + c
    OBVIOUS
  <2>. QED BY <2>1, <2>2, <2>3
<1>11. Counter' + Uncounted'[w] + billed <= Counter + Uncounted[w] + billed'
  BY <1>6, <1>7, <1>9
<1>12. \/ faults' = faults /\ ledger + InFlight[w] + billed' <= ledger' + InFlight'[w] + billed
       \/ /\ faults' = faults + 1
          /\ ledger + InFlight[w] + billed' <= ledger' + InFlight'[w] + billed + Max(Costs)
  BY <1>1, <1>6, <1>7, <1>8, MostIsNat
<1>. QED BY <1>4, <1>5, <1>6, <1>9, <1>10, <1>11, <1>12, MoneyStep DEF SameMoney

LEMMA CountMoney == ASSUME TInv, TInv', MInv, NEW w \in Workers, Count(w) PROVE MInv'
<1>1. turn[w].step = "answered" /\ UNCHANGED <<job, ledger, billed, faults>>
  BY DEF Count
<1>2. turn[w].row.spend \in Nat /\ turn[w].cost \in Nat /\ ledger \in Nat /\ billed \in Nat
      /\ Counter \in Nat /\ job.spend \in Nat
  BY Typed DEF Turns, JobRows, Counter
<1>3. /\ turn'[w].step = "counted" /\ turn'[w].cost = turn[w].cost
      /\ turn'[w].row.spend = turn[w].row.spend + turn[w].cost
      /\ \A v \in Workers \ {w} : turn'[v] = turn[v]
  <2>. DEFINE row == [turn[w].row EXCEPT !.spend = turn[w].row.spend + turn[w].cost]
  <2>1. turn'[w] = [turn[w] EXCEPT !.row = row, !.step = "counted"]
        /\ \A v \in Workers \ {w} : turn'[v] = turn[v]
    BY Typed DEF Count
  <2>2. row.spend = turn[w].row.spend + turn[w].cost
    BY Typed DEF JobRows
  <2>. HIDE DEF row
  <2>. QED BY <2>1, <2>2, Typed DEF Turns
<1>4. Counter' <= Counter + turn[w].cost /\ Counter' \in Nat
  <2>1. \A n \in Nat : Capped(n) <= n /\ Capped(n) \in Nat
    BY DEF Capped
  <2>2. cache' = cache \/ cache' = Capped(Counter + turn[w].cost)
    BY DEF Count, Counter
  <2>3. cache' = cache => Counter' = Counter
    BY DEF Counter
  <2>4. cache' \in Nat => Counter' = cache'
    BY DEF Counter
  <2>. QED BY <1>2, <2>1, <2>2, <2>3, <2>4
<1>5. /\ InFlight[w] = turn[w].cost /\ Uncounted[w] = turn[w].cost
      /\ InFlight'[w] = turn[w].cost /\ Uncounted'[w] = 0
  BY <1>1, <1>3 DEF InFlight, Uncounted
<1>6. turn[w].cost <= Max(Costs)
  BY <1>1 DEF MInv, Open
<1>7. Honest(turn[w])'
  <2>1. turn[w].row.spend <= ledger
    BY <1>1, Backed DEF Active
  <2>. QED BY <1>1, <1>2, <1>3, <2>1 DEF Honest
<1>8. job'.spend <= ledger' /\ ledger <= ledger' /\ billed <= billed'
  BY <1>1, <1>2 DEF MInv
<1>9. ledger' + InFlight'[w] + billed <= ledger + InFlight[w] + billed'
  BY <1>1, <1>2, <1>5
<1>10. Counter' + Uncounted'[w] + billed <= Counter + Uncounted[w] + billed'
  BY <1>1, <1>2, <1>4, <1>5
<1>11. faults' = faults /\ ledger + InFlight[w] + billed' <= ledger' + InFlight'[w] + billed
  BY <1>1, <1>2, <1>5
<1>. QED BY <1>1, <1>3, <1>6, <1>7, <1>8, <1>9, <1>10, <1>11, MoneyStep

LEMMA RecordMoney == ASSUME TInv, TInv', MInv, NEW w \in Workers, Record(w) PROVE MInv'
<1>1. turn[w].step = "counted" /\ UNCHANGED <<billed, cache, faults>>
      /\ job' = [job EXCEPT !.spend = turn[w].row.spend]
      /\ ledger' = ledger + turn[w].cost
  BY DEF Record
<1>2. PICK reply \in Replies :
        turn' = [turn EXCEPT ![w] = After(turn[w], Verdict(Agent(w), reply))]
  BY DEF Record
<1>. DEFINE t == After(turn[w], Verdict(Agent(w), reply))
<1>3. t.row = turn[w].row /\ t.step \in {"calling", "closing"}
  BY AfterIsTurn, Verdicts, Typed DEF Placed
<1>. HIDE DEF t
<1>4. turn'[w] = t /\ \A v \in Workers \ {w} : turn'[v] = turn[v]
  BY <1>2, Typed DEF t
<1>5. turn[w].row.spend \in Nat /\ turn[w].cost \in Nat /\ ledger \in Nat /\ billed \in Nat
      /\ Counter \in Nat /\ Counter' = Counter
  BY <1>1, Typed DEF Turns, JobRows, Counter
<1>6. job'.spend = turn[w].row.spend /\ job'.model = job.model /\ job'.reason = job.reason
  BY <1>1, Typed DEF JobRows
<1>7. turn[w].row.spend <= ledger + turn[w].cost
  <2>1. Active(w)
    BY <1>1 DEF Active
  <2>. QED BY <1>1, <2>1 DEF MInv, Honest
<1>8. /\ InFlight[w] = turn[w].cost /\ Uncounted[w] = 0
      /\ InFlight'[w] = 0 /\ Uncounted'[w] = 0 /\ w \notin Open'
  BY <1>1, <1>3, <1>4 DEF InFlight, Uncounted, Open
<1>9. Honest(turn[w])'
  BY <1>1, <1>3, <1>4, <1>5, <1>7 DEF Honest
<1>10. job'.spend <= ledger' /\ ledger <= ledger' /\ billed <= billed'
  BY <1>1, <1>5, <1>6, <1>7
<1>11. ledger' + InFlight'[w] + billed <= ledger + InFlight[w] + billed'
  BY <1>1, <1>5, <1>8
<1>12. Counter' + Uncounted'[w] + billed <= Counter + Uncounted[w] + billed'
  BY <1>1, <1>5, <1>8
<1>13. faults' = faults /\ ledger + InFlight[w] + billed' <= ledger' + InFlight'[w] + billed
  BY <1>1, <1>5, <1>8
<1>. QED BY <1>4, <1>6, <1>8, <1>9, <1>10, <1>11, <1>12, <1>13, MoneyStep

(* A crash loses the call its turn had open, one call at most. *)
LEMMA CrashMoney == ASSUME TInv, TInv', MInv, NEW w \in Workers, Crash(w) PROVE MInv'
<1>1. UNCHANGED <<job, ledger, billed, cache>> /\ faults' = faults + 1 /\ Ends(w)
  BY DEF Crash
<1>2. turn'[w] = NoTurn /\ \A v \in Workers \ {w} : turn'[v] = turn[v]
  BY <1>1, Typed DEF Ends
<1>3. ~Active(w)' /\ w \notin Open' /\ InFlight'[w] = 0 /\ Uncounted'[w] = 0
  BY <1>2 DEF NoTurn, Fresh, Active, Open, InFlight, Uncounted
<1>4. InFlight[w] \in Nat /\ Uncounted[w] \in Nat
  BY TermsAreNat
<1>5. InFlight[w] <= Max(Costs)
  <2>1. turn[w].step \in {"answered", "counted"} => turn[w].cost <= Max(Costs)
    BY DEF MInv, Open
  <2>. QED BY <2>1, MostIsNat DEF InFlight
<1>6. ledger \in Nat /\ billed \in Nat /\ Counter \in Nat /\ Counter' = Counter
      /\ job.spend \in Nat
  BY <1>1, Typed DEF Counter, JobRows
<1>7. job'.spend <= ledger' /\ ledger <= ledger' /\ billed <= billed'
  BY <1>1, <1>6 DEF MInv
<1>8. ledger' + InFlight'[w] + billed <= ledger + InFlight[w] + billed'
  BY <1>1, <1>3, <1>4, <1>6
<1>9. Counter' + Uncounted'[w] + billed <= Counter + Uncounted[w] + billed'
  BY <1>1, <1>3, <1>4, <1>6
<1>10. ledger + InFlight[w] + billed' <= ledger' + InFlight'[w] + billed + Max(Costs)
  BY <1>1, <1>3, <1>4, <1>5, <1>6, MostIsNat
<1>. QED BY <1>1, <1>2, <1>3, <1>7, <1>8, <1>9, <1>10, MoneyStep

LEMMA EnvironmentMoney ==
  ASSUME TInv, TInv', MInv, Clarify \/ Build \/ Forget \/ UNCHANGED vars PROVE MInv'
<1>1. UNCHANGED <<ledger, billed, turn, faults>>
  BY DEF Clarify, Build, Forget, vars
<1>2. job'.spend = job.spend /\ job'.model = job.model /\ job'.reason = job.reason
  <2>1. job \in JobRows
    BY DEF TInv, TypeOK
  <2>2. CASE Clarify
    BY <2>1, <2>2 DEF Clarify, JobRows
  <2>3. CASE Build
    BY <2>1, <2>3 DEF Build, JobRows
  <2>4. CASE Forget \/ UNCHANGED vars
    BY <2>4 DEF Forget, vars
  <2>. QED BY <2>2, <2>3, <2>4
<1>3. Max(Costs)' = Max(Costs)
  BY <1>2, CostsSame
<1>4. Open' = Open /\ InFlight' = InFlight /\ Uncounted' = Uncounted
  BY <1>1 DEF Open, InFlight, Uncounted
<1>5. Counter' = Counter \/ Counter' = 0
  BY DEF Clarify, Build, Forget, vars, Counter
<1>6. PICK f \in Sums(InFlight), g \in Sums(Uncounted) : Books(f, g)
  BY DEF MInv
<1>7. Counter' + g[Workers] <= billed'
  <2>1. Workers \in SUBSET Workers
    OBVIOUS
  <2>2. g[Workers] \in Nat /\ Counter \in Nat /\ billed \in Nat
    BY <2>1 DEF Sums, Counter, TInv, TypeOK
  <2>. QED BY <1>1, <1>5, <1>6, <2>2 DEF Books
<1>8. Books(f, g)'
  BY <1>1, <1>3, <1>4, <1>6, <1>7 DEF Books
<1>9. \E a \in Sums(InFlight') : \E b \in Sums(Uncounted') : Books(a, b)'
  BY <1>4, <1>8
<1>10. BudgetFailureIsReal' /\ job'.spend <= ledger'
       /\ \A w \in Workers : Active(w)' => Honest(turn[w])'
  BY <1>1, <1>2 DEF MInv, BudgetFailureIsReal, Active, Honest
<1>. QED BY <1>1, <1>3, <1>4, <1>9, <1>10 DEF MInv

LEMMA InitMInv == Init => MInv
<1>. SUFFICES ASSUME Init PROVE MInv
  OBVIOUS
<1>. DEFINE zero == [S \in SUBSET Workers |-> 0]
<1>1. TInv /\ job.spend = 0 /\ job.reason = None
  BY InitIInv DEF IInv, Init, Born
<1>2. \A w \in Workers : turn[w].step = "idle"
  BY DEF Init, NoTurn, Fresh
<1>3. Open = {} /\ \A w \in Workers : ~Active(w) /\ InFlight[w] = 0 /\ Uncounted[w] = 0
  BY <1>2 DEF Open, Active, InFlight, Uncounted
<1>4. zero \in Sums(InFlight) /\ zero \in Sums(Uncounted)
  BY <1>3 DEF Sums
<1>5. ledger = 0 /\ billed = 0 /\ Counter = 0 /\ faults = 0
  BY DEF Init, Counter
<1>6. \A n \in Nat : n * 0 = 0
  OBVIOUS
<1>7. Books(zero, zero)
  <2>1. Max(Costs) * faults = 0 /\ \A S : Max(Costs) * Cardinality(Open \cap S) = 0
    BY <1>3, <1>5, <1>6, MostIsNat, FS_EmptySet
  <2>2. \A S \in SUBSET Workers : zero[S] = 0
    OBVIOUS
  <2>3. zero[Workers] = 0
    OBVIOUS
  <2>. HIDE DEF zero
  <2>4. /\ ledger + zero[Workers] <= billed /\ Counter + zero[Workers] <= billed
        /\ billed <= ledger + zero[Workers] + Max(Costs) * faults
    BY <1>5, <2>1, <2>3
  <2>5. \A S \in SUBSET Workers : zero[S] <= zero[S] /\ zero[S] <= Max(Costs) * Cardinality(Open \cap S)
    <3>1. SUFFICES ASSUME NEW S \in SUBSET Workers
                   PROVE  zero[S] <= zero[S] /\ zero[S] <= Max(Costs) * Cardinality(Open \cap S)
      OBVIOUS
    <3>2. zero[S] = 0 /\ Max(Costs) * Cardinality(Open \cap S) = 0
      BY <2>1, <2>2
    <3>3. 0 <= 0
      OBVIOUS
    <3>. QED BY <3>2, <3>3
  <2>. QED BY <2>4, <2>5 DEF Books
<1>8. BudgetFailureIsReal
  BY <1>1, NoReasonAssumption DEF BudgetFailureIsReal, Reasons
<1>. QED BY <1>1, <1>3, <1>4, <1>5, <1>7, <1>8, FS_EmptySet DEF MInv

LEMMA NextMInv == IInv /\ MInv /\ [Next]_vars => MInv'
<1>. SUFFICES ASSUME IInv, MInv, [Next]_vars PROVE MInv'
  OBVIOUS
<1>1. TInv /\ TInv'
  BY NextIInv DEF IInv
<1>2. ASSUME NEW w \in Workers, NEW task \in Tasks, Load(w, task) PROVE MInv'
  BY <1>1, <1>2, LoadMoney
<1>3. ASSUME NEW w \in Workers, Turn(w) PROVE MInv'
  BY <1>1, <1>3, EnterMoney, GateMoney, FixGuardsMoney, EndMoney, AnswerMoney, CountMoney,
     RecordMoney DEF Turn
<1>4. ASSUME NEW w \in Workers, Break(w) \/ Refuse(w) \/ NoKey(w) \/ Crash(w)
      PROVE  MInv'
  BY <1>1, <1>4, BreakMoney, EndMoney, CrashMoney
<1>5. ASSUME Clarify \/ Build \/ Forget \/ UNCHANGED vars PROVE MInv'
  BY <1>1, <1>5, EnvironmentMoney
<1>. QED BY <1>2, <1>3, <1>4, <1>5 DEF Next

THEOREM MoneyInductive == Spec => []MInv
  BY InitMInv, NextMInv, Inductive, PTL DEF Spec

(* A job that fails for its budget has cost it, for every budget, number of     *)
(* overlapping turns, lost cache and crash.                                    *)
THEOREM FailsForItsBudget == Spec => []BudgetFailureIsReal
<1>1. MInv => BudgetFailureIsReal
  BY DEF MInv
<1>. QED BY <1>1, MoneyInductive, PTL

(* What the provider charged and llm_usage lacks is one call, the dearest at    *)
(* most, for every call under way and every fault, for every price list.        *)
THEOREM LittleIsUnrecorded == Spec => []UnrecordedBounded
<1>1. TInv /\ MInv => UnrecordedBounded
  <2>. SUFFICES ASSUME TInv, MInv PROVE UnrecordedBounded
    OBVIOUS
  <2>. DEFINE most == Max(Costs)
              n == Cardinality(Open)
  <2>1. PICK f \in Sums(InFlight), g \in Sums(Uncounted) : Books(f, g)
    BY DEF MInv
  <2>2. most \in Nat /\ n \in Nat /\ faults \in Nat /\ ledger \in Nat /\ billed \in Nat
    BY MostIsNat, FS_CardinalityType DEF MInv, TInv, TypeOK
  <2>3. f[Workers] \in Nat /\ f[Workers] <= most * n /\ billed <= ledger + f[Workers] + most * faults
    <3>1. Workers \in SUBSET Workers /\ Open \cap Workers = Open
      BY DEF Open
    <3>2. f[Workers] \in Nat
      BY <3>1 DEF Sums
    <3>. QED BY <2>1, <3>1, <3>2 DEF Books
  <2>. HIDE DEF most, n
  <2>4. most * (faults + n) = most * faults + most * n /\ most * faults \in Nat /\ most * n \in Nat
    <3>1. \A a, b, c \in Nat : a * (b + c) = a * b + a * c /\ a * b \in Nat
      OBVIOUS
    <3>. QED BY <2>2, <3>1
  <2>5. billed - ledger <= most * (faults + n)
    BY <2>2, <2>3, <2>4
  <2>. QED BY <2>5 DEF UnrecordedBounded, Open, most, n
<1>2. IInv => TInv
  BY DEF IInv
<1>. QED BY <1>1, <1>2, Inductive, MoneyInductive, PTL
================================================================================
