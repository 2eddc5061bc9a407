# Verification of the website builder's backend

TLA+ modules, TLC model checks and TLAPS proofs for the backend in `src/app/`: an API that
turns a prompt into a generated web site, a pipeline of Celery tasks that call LLM agents,
build the result and deploy it in a container, and the services around it (billing,
authentication, events). Source paths below are relative to `src/app/` unless they begin with
`docs/` (which stands for `src/docs/`).

    tlc  -workers 2 -config <run>.cfg <module>.tla      one run
    tlapm <module>Proofs.tla                             one module of proofs

## 1. The system

### Processes and shared state

| Process | Code | Shared state it touches |
|---|---|---|
| API (FastAPI, many requests at once) | `api/`, `services/` | Postgres rows, Celery messages, Redis counters and streams |
| llm workers | `workers/tasks.py` (interview, spec, fix, edit) | `generation_jobs`, S3, the cost ledger, provider APIs |
| build workers | `workers/tasks.py` (build, deploy), `deploy/` | the same rows, `site_deployments`, Docker, the host directory of a project |
| beat | `workers/beat_tasks.py`, `billing/*sweeper*.py` | job rows, subscriptions, containers |
| providers that call back | `api/routers/billing.py`, `cloudpayments.py`, `storekit.py` | subscriptions, token grants |

Everything is coordinated by rows in Postgres, messages in one Redis broker and containers on
one Docker host. Three facts of the configuration decide what can go wrong:

* `workers/celery_app.py:102-104`: `task_acks_late`, `task_reject_on_worker_lost`, prefetch 1.
  A message is acknowledged after its task, so a dead worker gives it back and a task may run
  again after it has committed;
* `db/session.py`: sessions with `expire_on_commit=False`, `autoflush=False`. A task reads the row
  once and works for minutes on that snapshot; the ORM writes only attributes whose value differs
  from the snapshot;
* `pipeline/events.py:160`: every change of a job's state is an `UPDATE .. WHERE state NOT IN
  (LIVE, FAILED)`. It has no predicate on the *source* state. A refused update rolls back.

### Inventory

For each component: its state; its operations; what is hard; what makes it correct.

1. **Job state machine** (`db/enums.py`, `pipeline/events.py`). `generation_jobs.state` with reason,
   retry count, heartbeat, failure log. `transition`, `fail_job`, `touch_heartbeat`, `record_event`.
   Hard: stale writers. Correct: the first terminal state stands; a reason stands exactly beside
   FAILED.
2. **Pipeline tasks and dispatch** (`workers/tasks.py`, `pipeline/dispatcher.py`, `graceful_fail.py`,
   `workers/retry_policy.py`, `pipeline/fixing.py`, `guards.py`). Six tasks, each a sequence of commits
   around slow calls; `dispatch_for_state` publishes the next one after the commit. Hard: redelivery,
   Celery retries, crash between commit and publish, the fix loop's counters. Correct: bounded
   patches, a charge before work, a failure log in FIXING, no false `no_progress`, one carrier.
3. **Beat** (`workers/beat_tasks.py`). Reconciler with the Redis lock `dispatch:{job}` (300 s), revoke,
   re-dispatch, fail-stuck, wall clock; clarification sweeper. Correct: every job settles; nobody but
   the user, the sweeper or deletion ends a pause.
4. **Clarification answers** (`services/answers_service.py`). Load, validate, conditional UPDATE,
   verdict for the loser, dispatch after the commit. Correct: one winner, whose answers stay;
   truthful 200/409; an answered job goes on.
5. **Usage accounting** (`billing/usage.py`). A marker event and a charge per job. Correct: once.
6. **Site deployment** (`workers/tasks.py:_deploy`, `deploy/docker_deploy.py`, `health.py`, `routing.py`).
   `site_deployments` rows, containers `site_{subdomain}`, `{sites_host_root}/{project}`,
   `projects.current_revision_id`. Hard: the health check takes minutes; one directory is mounted by all
   containers of the project. Correct: rows, containers and job states agree; no downtime.
7. **Rollback** (`deploy/rollback.py`, `tasks.py:_auto_rollback_edit`). The same resources, a fresh
   subdomain per attempt, no barrier around the switch. Correct: the old site stands until the new one
   is healthy; a failed rollback changes nothing.
8. **Project GC** (`services/project_service.py`, `deploy/project_gc.py`). Cancel, teardown, directory, S3,
   rows; each step repeatable. Correct: no container, row or object outlives the project.
9. **Project creation, edits, retries of a job** (`services/project_service.py`, `edit_service.py`,
   `job_retry_service.py`, `api/routers/`). Idempotency keys, the quota gate, the copy of an interview.
   Hard: every limit is a count read before the insertion, without a lock. Correct: one job per key,
   a bounded number of free retries.
10. **Quota gate, plans, concurrency cap** (`billing/quota_gate.py`, `usage.py`, `auth/concurrency.py`).
    Monthly counters, the token balance, the count of active jobs. Hard: a generation is paid for when it
    starts, not when it is let in. Correct: excess over every limit is bounded by the number of requests.
11. **Subscriptions** (`billing/webhook_handler.py`, `resync.py`, `subscription_state.py`,
    `subscription_sweeper.py`). Duplicated, reordered, lost webhooks; a resync that awaits the provider
    between its read and its write; a sweeper that removes containers. Correct: rights end by status alone,
    resync heals what webhooks left, sites go down only after their grace.
12. **Token purchases** (`billing/storekit_purchase.py`, `cloudpayments.py`, the token branch of
    `webhook_handler.py`, `services/crm_admin_service.py`). Callbacks, polling, grants by operators.
    Correct: each payment is credited once, answers are true, reports are repeated until credited.
13. **Agents and budget** (`pipeline/agents/`, `agent_wrapper.py`, `pipeline/cost.py`, `pipeline/guards.py`,
    `observability/budget_cache.py`). Retry of malformed output, spend as a read-modify-write, a cache
    incremented before the commit. Correct: recorded money stays within the budget plus one call, whatever is
    retried; a fix loop of rejected patches ends.
14. **Authentication, rate limits** (`services/auth_service.py`, `auth/`). Tokens are long-lived and
    revoked one by one (there is no refresh); a login lock; counters with an expiry in Redis.
15. **Event stream** (`api/sse.py`, `events.record_event`). Snapshot, replay by id, wake-ups that carry no
    event, heartbeats, a counter of open streams. Correct: frames in order, none twice, none lost without a
    name for why; the end arrives.
16. **Notifications** (`notify/`). At-least-once push per state and device.
17. **Sandbox, storage, catalogues, administration, observability, API shell.** I/O, single writes,
    wiring.

## 2. Modules

| Module | What it is | Code |
|---|---|---|
| `JobLifecycle` | what a client may rely on: documented states, one charge, bounded patches | `docs`, through the code of `events.py`, `tasks.py` |
| `JobPipeline` | one job from creation to its end, with all tasks, queues, beat, API, GC | 1-5 |
| `Clarification` | several paused jobs, concurrent `POST /answers`, batch sweeper, reconciler | 3, 4 |
| `SiteDeploy` | the sites of one project: deploy, edit, rollback, automatic rollback, GC, grace sweeper | 6-8 |
| `AgentCalls` | the paid calls of one job: retries of every kind against one budget | 13 |
| `Admission` | how the jobs of one user are let in, counted, paid for and repeated | 5, 9, 10 |
| `Subscriptions` | the cached subscription of one user and all its writers | 11 |
| `Ledger` | what the token channels promise together (abstract) | 12 |
| `TokenLedger` | four channels that report purchases, and the requests that credit them; implements `Ledger` | 5, 12 |
| `EventDelivery` | how the events of one job reach its clients | 1, 15 |
| `MC...` | model values, symmetries, views of one module each | |
| `...Proofs` | theorems about one module each | |

The modules meet in the row of the job and in the status of the subscription. `JobPipeline` takes from the
others one choice each: an answer (`Clarification` has the race for it), a deployment (`SiteDeploy`), the
outcome of an LLM turn (`AgentCalls`). `Admission` sees a job as created, running, parked or ended;
`AgentCalls` sees builds and answers as its environment; `SiteDeploy` and `Subscriptions` share the
grace sweeper, seen from the containers and from the row.

Each module's rows of `PROJECT.json` "map" give the lines every definition stands for.
Definitions whose comment begins "Mutant of" (or that state an earlier version of the code) are
deliberate errors; substituting one for the definition it names must break the property it is
paired with in `PROJECT.json` "mutants".

### JobPipeline

State and code: `job` is the row; `queue` a bag of messages `[task, tries]`; `worker[w]` a task in
progress with the columns it read (`seen`, `retry`, `log` and so on); `api` a handler between its
commit and its publish; `lock` the Redis key of the reconciler; `expired` the wall-clock deadline.
Every commit is one action: `Load` (take a message, `load_job`, guards), the steps of the six tasks
(`InterviewStart`, `InterviewFinish`, `SpecFinish`, `BuildFinish`, `DeployRun`, `DeployFinish`,
`FixGuards`, `FixFinish`, `EditStart`, `EditCharge`, `EditFinish`), `Dispatch` (publish, then
acknowledge), `Crash` (the message comes back, or is lost between commit and publish), `TaskError`
(retry, exhaustion, unclassified exceptions), `SubmitAnswers`, `ApiSend`, `ApiCrash`, `SweepClarification`,
`Reconcile`, `DeleteProject`, `CancelInflightJobs`, and the passing of time.
`Applies` is the barrier; `Flushed` is the unit of work of the ORM: a column is written only if the task
changed it relative to its snapshot, so two turns on one snapshot may lose an update.

`Overlap` names the one assumption that separates two regimes. `TRUE`: a task may outlive the
stuck threshold and the 300 s lock, and a worker may die between its last commit and the
acknowledgement, so several tasks of a job run at once. `FALSE`: tasks stay inside their time budget.
Properties that need the second regime are checked only there, and the documented properties that
fail in the first one are findings.

Abstractions: agent output, specifications and source trees are reduced to their outcome; a log is its
failure signature; reading a row and the guards on it are one step; the Redis publication of events is
left out; the heartbeat is "stale" or not.

### Clarification

`row` per job (with the answers stored), `req` per request (`Load`, `Complete`, `Update`, `Verdict`
as separate steps because other writers come between them), `sweep` with the batch and whether its
`FOR UPDATE` locks still hold (they are gone with the first `fail_job`, which commits), `queue` and
`running` for the spec task, `waited` as history. BUILDING stands for all later states.

### SiteDeploy

`row` by site id, `container` by site id (down, empty, or serving the files built for a site), `dir` (whose
files lie in the directory of the project), `current`, `job`, `base`, `queue`, `worker`, `project`, `gc`. A
deployment goes through `InsertRow`, `Publish`, `Run`, `Health`, then a deploy through `RecheckProject`,
`RecheckState`, `GoLive` and a redeploy through `TakePrevious`, `Switch`, `Verdict`; `Abort` is the teardown of
this attempt. `Publish` empties the directory *under* the containers that mount it, as `shutil.rmtree` does; a
copy that fails after it leaves the directory empty. The GC's five steps are `GcCancel`, `GcTeardown`,
`GcVolume`, `GcDelete` with `GcCrash` at any of them.

Abstractions: routing is by path (the production mode), so a job has one site id for all attempts;
revisions are named by the job that made them, and the revisions of a job's fix turns are one;
`is_good` is TRUE from the creation of a revision (`tasks.py:_create_revision`), so it is no guard;
a rollback targets a revision that has been deployed;
the re-dispatch of a rollback job goes to `task_deploy`, which finds no dist and fails the job (part of
`FailJob`); the sweeper is one step per project; a GC message that is lost is one that waits until
the next DELETE. The module has no liveness claim. S3 objects are left out.

### AgentCalls

`job` holds the columns the money depends on (state, `spend_usd`, retry count, signatures, reason); `ledger`
is the sum of the job's rows in `llm_usage`, `billed` what the provider has charged, `cache` the Redis key
`budget:{job_id}` or its absence. `turn[w]` is a delivery of an LLM task with the row it loaded.
A turn is `Load`, `Enter` (the transition of the task and the row's own budget guard), `CacheGate` and
`Reseed` (the read-through gate), `FixGuards`, then per call `Answer` or `Break` (a charged call that is
lost) or `Refuse` or `NoKey` (a provider or a preflight that says no), `Count` (INCRBYFLOAT, before the
commit), `Record` (the row of `llm_usage` and `spend_usd` written from the snapshot), and `Deliver`, `Reject`
(the validator, with the output retries) or `Surrender`. `Trip` is a guard that fails the job, `Crash` a dead
worker, `Forget` a Redis that lost its keys, `Clarify` and `Build` the environment. `overlaps` and
`faults` count the deviations from one undisturbed turn at a time.

Abstractions: prices are computed as in `cost.py` (per-agent model, fallback price, four kinds of tokens,
rounding half to even) in units of 0.0001 USD; replies are a form (fenced, cut) and a body; the
rules a tree of files must keep are two classes (recoverable, not); the cache is capped at the budget, since
the gate compares and never subtracts; the wall clock may strike at any time or never.

### Admission

`job[j]` is a row of one user with its kind, key, project, parent and what its start found (`saw`);
`used`, `edits`, `bonus` are the month's counters and the token balance; `request[r]` is what a handler has
found so far. A handler is authenticated (`Enter`), looks its key up, reads the counts one by one (each read
a step where another commit may come between), and inserts; a refusal changes nothing and is a step not
taken. The balance it weighs is the one it was authenticated with: `session.get(User)` in
`billing/quota_gate.py:37` finds the object of `api/dependencies.py` in the identity map of the same session,
which expires nothing at a commit. Edits and retries weigh no balance and enter with their first question.
`Start` looks (`Look`) and charges as `count_generation_start` does, `Park`, `Resume`, `Fail`, `GoLive` are the
pipeline, `Refill`, `Correct`, `NewMonth` the balance and the calendar, `Delete` and `Purge` the end of a
project: the GC frees its rows and keys, the counters stay. The entitlement is taken as given. `refills`
counts how often in a month the balance came to the price of a generation, and is history.

### Subscriptions

`row` is the row of `subscriptions` (status, level, whether `grace_until` is absent, running or past, whether
`synced_at` is fresh), `ledger` the keys of `billing_events`, `handler[h]` a webhook or a grant between its
read and its commit, `resync[a]` a resync before, during and after `getProfile`, `sweep` the sweeper under its
row lock, `profile` the provider's truth, `mail` the webhooks still delivered. Each writer saves
the columns whose value it changed relative to its snapshot (`autoflush=False`, no lock), so a row may keep
halves of two writers. Event types with the same effect are one type; a product is one paid level.

### Ledger and TokenLedger

`Ledger` has a balance per user, the set of credited purchases, and the sum of all other changes;
`Credit` adds new purchases, `Change` a correction or a charge that the balance covers. `TokenLedger` keeps
the same three and `recorded` (the unique keys of `billing_events`, `store_transactions`,
`cloudpayments_payments`, `credit_grants`), `worker[w]` (what a request has listed or checked), and the
world outside: payments `listed` by the aggregator, `old`, reports `pending` and `acked`. All purchases
are made and reported from the beginning; an order of purchases is an order of their reports.
Adapty webhooks and grants look their key up and insert later; StoreKit relies on the primary key alone; a
CloudPayments callback lists the buyer's payments, keeps the new ones and credits them in one transaction.
`RollBack` is a key that clashed, `Abort` a dead request. A pack is one unit of balance; `Cost` a generation.

`Unknown` are purchases of a product that is not in the settings, `Nameless` those whose report names nobody
the database knows. An Adapty event of either sort is stored (`Ignored`), answered `ignored`, and its
repeat is a `duplicate`; a CloudPayments payment of an unknown product is stored; a StoreKit one is
answered without a trace; a CloudPayments callback that names nobody is answered 200 and forgotten, but
the payment may still be listed for its buyer, and then any other callback of his credits it.

### EventDelivery

`next` is the sequence of `job_events.id`; `writing` the open transactions, each with an event it has inserted
and not committed (tasks, requests, the sweeper and the progress hook write at once; a change of state holds
the row of the job, a note holds nothing); `log` and `changes` the committed rows; `final` the
terminal event; `stream[c]` the request of a connection, and its generator with the last id seen and a batch
being sent; `frames` what the client has received over all its connections. A wake-up carries no event,
so it is only `Wake`, which may not come; `Listen` is the heartbeat's read. `Leave`, `Crash` cut streams; a
client comes back with its last id. `late` names the ids that were committed after a larger one.

`count` is the Redis counter of the key, shared with its streams of other jobs (`Others`), and each
command on it is a step: `Ask` is INCR, whose answer decides; `Refuse` the DECR of a refused attempt;
`Release` the DECR of a closed stream and, if that went below zero, `Clear` the SET 0 that follows as a
command of its own (`clearing` holds those who owe it). `Expire` is the lapse, at any time, also between
two commands; requests die between any two (`Crash`). So the counter is below zero after a lapse, stays so if
the release dies, and a SET 0 forgets whoever asked in between, all as in the code. Two history variables
say how far it can be off: `debt`, the requests that held a slot when the counter last became 0 under them,
and `leaked`, the slots of dead requests since then.

## 3. Runs

| Run | Shows | Bounds |
|---|---|---|
| `pipeline_overlap` | Barrier, fix guards, charge and log under two concurrent workers, redelivery, duplicates | 2 workers, 1 fix attempt, 1 waiting message, no Celery retry |
| `pipeline_sequential` | One carrier, one charge, counted patches, undisturbed pauses, true `no_progress`; implements `JobLifecycle` | 2 workers, 3 fix attempts, 2 messages, 1 retry |
| `pipeline_settles` | Every job ends | 1 worker, 1 fix attempt, 2 messages |
| `clarification_races` | One winner, true verdicts, answered jobs go on | 2 jobs, 2 requests, 2 answer sets, incomplete answers |
| `site_deploy` | Rows, containers, jobs and current revision agree; no downtime by a redeploy; the GC finds leftovers | 2 generation/edit jobs, 1 rollback, 1 fresh site, 2 workers |
| `subscriptions` | No site goes down but after its grace, no paid level is lost, resync heals, grace is acted on | 2 handlers, 1 resync, 2 events |
| `token_ledger` | The channels implement `Ledger`; answers are true; reports are not dropped early | 2 users, 2 workers, 7 purchases: 2 StoreKit (one of an unknown product), 2 CloudPayments (one with a callback that names nobody), 2 Adapty (one of an unknown user), 1 grant; a generation costs 2 packs |
| `admission` | What limits checked before the insertion guarantee | 2 requests, 3 jobs, 3 keys, limits of 1 (3 projects), a generation costs 2, balance up to 2, 1 refill |
| `event_delivery` | Frames in order, none twice, none lost but the named ones; slots bounded and refusals justified; the end arrives | 1 client, 2 connections to other jobs, 2 open transactions, 3 ids, 1 stream slot, 1 cut |
| `agent_calls` | What is counted, what may be missing, the budget, the end of a fix loop | 2 workers, a budget of 3 units against calls of 0, 1 and 2, 2 fix attempts, 1 output retry, 1 Celery retry, 1 fault, 1 overlap |
| `subscriptions_resync` | (violation) a resync overwrites a fresher webhook | as `subscriptions` |
| `admission_retry` | (violation) one failed job is repeated twice | as `admission` |

A type invariant is an invariant of one run only (`pipeline_overlap`); the proof of `TypeCorrect`
(`TypesHold`) of each module holds for every instance.

Why the bounds suffice. Every race of a job is between two carriers: a third message meets the same
terminal barrier and the same guards, and a counter that two turns cannot push past its limit of one
cannot be pushed past a larger one in a new way (the proof of `RetryCounterBounded` is for every bound).
`pipeline_sequential` keeps the default of three patches, because the signature of `no_progress` needs
two failures and a patch between them. Two signatures are "the same" and "another". In `Clarification`
a race needs two requests and a batch needs two jobs. In `SiteDeploy` two jobs, a rollback and an
automatic rollback give every pair of writers; with a second fresh site the same properties hold (2.7
million states, five minutes). `Newest` is exercised by edits, which do not supersede. A lost column of
`Subscriptions` needs two writers with one snapshot and a resync across both; two events are enough for a
duplicate, a reordering and a loss. The clash of two CloudPayments callbacks needs two payments of one
buyer; either user may present a StoreKit transaction; each way a report can end without a credit (unknown
product or nobody named, stored or forgotten) has a purchase. In `Admission` limits of one make every
excess visible, three jobs allow a failed job and two retries, or the two generations that are let in for
one balance and one more, since `Purge` gives ids and keys back; with two requests, one slot, one
generation a month and one refill the counter reaches 6, one below the bound of `StartsCovered`, so
the bound is exact there. In `EventDelivery` three ids are enough for one that is committed late
between two others; three connections for a slot that is held, one that is refused and one that is
released at once; connections to other jobs need no events. The run holds every order of INCR, DECR,
SET 0, lapse and death of three requests. A budget of three units is
crossed by the second call of two units, in a fix turn or in its output retry, with one call lost before.

`VIEW WithoutHistory` hides `hist` and the text of the reason, which no action reads (`TerminalIsFinal` and the
invariants of that run do not either, and `TypeOK` is proved). `VIEW Matters` hides the base and the messages of
ended jobs, the directory while nobody is about to mount it, and which files a container serves while nobody
asks it. The `VIEW Matters` of `Admission` hides from a row what no later step or property of that run reads
(whether a started job was counted, what an ended one without a result was), names keys by who holds them, and
balances by whether they reach the price. Symmetry is used in the safety runs only. Deadlock is not checked
where the system may rest: a job that has ended, a paused one, a deleted project, a closed stream, a request
that was refused.

### Fairness

Only what the code schedules by itself is fair. `JobPipeline!FairSpec`: the clock (`Age`, `LockExpires`,
`WallClockExpires`) and the two beat tasks (`Reconcile`, `SweepClarification`). No worker, API handler
or message is fair, because each may crash or hang: `Settles` says that the reconciler, the deadline and the
sweeper suffice. `Clarification!FairSpec`: `Age` and `Reconcile`. Beat is a process of the deployment
with `restart: unless-stopped` whose tasks run on a schedule; a beat that never runs again ends every
liveness claim.

`Subscriptions!FairSpec`: the clock, and each step of the resync and of the sweeper strongly fair, because
both are beat tasks that come back after a crash, a provider that did not answer or a lock that was
taken; a provider that is never reached again ends the claim. No webhook is fair: all may be lost.
`EventDelivery!FairSpec`: the loop of an open stream goes on (a heartbeat every `sse_heartbeat_s`
reads the table); no wake-up is fair. `AgentCalls`: a worker goes on with its turn (the read timeout ends
a silent call), and a task is delivered to an idle worker again and again (the reconciler sends it while
the job waits in its state). Crashes, broken calls and the environment are not fair, and neither is
the wall clock: `FixingEnds` holds without it, because each call of the fixer costs at least one unit.

## 4. Proofs

Every safety invariant and every action property that a passing run checks is stated by a theorem, for every
value of the constants that satisfies the module's named assumption.

`JobPipelineProofs` (for any workers, signatures and bounds, from `ConstantsAssumption` alone). With either
value of `Overlap`:

* `TypeCorrect`.
* `TerminalStateIsFinal`, `ReasonStandsBesideFailed`, `FixingJobHasLog` follow from `StepEffect`: whatever the
  step, the row *stays*, *moves* under the barrier, or *fails* with a reason, or the GC takes LIVE down. The
  lemma is proved once, action by action.
* `RetryCounterBounded`: `RetryWithinLimit` is not inductive, because `FixFinish` writes the counter of its
  snapshot plus one. `RetryInv` adds that a turn past the guards read a counter below the limit.
* `WorkIsCharged`: `ChargeInv` adds that while nothing is charged no worker is past the first step of any
  task but the charge, which is what makes duplicates harmless.

In the sequential regime (`~Overlap` is a hypothesis; with overlapping tasks `ChargedOnce` and
`PatchesBounded` fail, section 5): `OneCarrier` (`AtMostOneCarrier`), `ChargedAtMostOnce` (`ChargedOnce`),
`PatchesAreCounted` (`RetryCountsPatches`), `PauseIsTheUsers` (`OnlyAnswersResume`), `NoProgressVerdict`
(`NoProgressIsReal`) and `PipelineImplementsLifecycle`, the refinement of `JobLifecycle` step by step.
They share `OneTaskInv`, whose parts need each other:

* `Seated`: nobody, a message, a worker or an API handler carries the job, and whoever does is alone. It is
  kept because a re-dispatch by the reconciler needs a stale row whose lock is free.
* `TurnsInv`: a turn still finds the row where it has left it, or failed, and the columns it will write are as
  it has read them. This is where the snapshot of a turn stops being able to lose an update.
* `RowInv`: nobody carries a paused or a LIVE job (`Parked`); a stale row is free or locked (`Guarded`); each
  patch and charge is counted once; a failure signature is on the row only in the fix loop, and is repeated
  only after the fixer has spoken (`Unfixed`, `Spoken`).

`ClarificationProofs` (any jobs, requests and answer sets): `TypeCorrect`, `OneAnswerWins`, `VerdictsAreTrue`.
The strengthening `RaceInv` says what each request *knows* at its program counter: the answers stored are
its own after the update, another's after a lost one, and stored answers never change (`RowStep`).

`SiteDeployProofs` (from `SiteAssumption`): `TypeCorrect` and `CollectorFindsLeftovers` (`GcFindsLeftovers`) in
either regime; `FailedSitesAreDown` and `JobAndSiteAgree` (`FailedIsDown`, `StatesAgree`),
`CurrentMovesOnSuccess` (`CurrentIsPublished`) and `PreviousSiteStands` (`PreviousStands`) for `~Overlap`. None
is inductive. The layers are proved one after the other:

* `Accounted` (either regime): a container that is up has a row while there are rows, and once the
  containers were taken down only sites that were being deployed then can have one.
* `Carriage`: no job and no site is in two hands (`Exclusive`), a message waits only for a job that
  nobody works on and that is not in its fix loop (`Employed`, `Waiting`), the collector runs only on a
  deleted project (`Collected`). `Passes` is all that a deployment may do to it, proved once per step.
* `Rowing`: what a worker may rely on although its reads are minutes old (`Keeps`: its row is still
  building, the one it replaces is down and stays so) and what every site satisfies (`Sound`, which
  adds to the two properties that no deployment is active while its job is in the pipeline). `Touch` is
  all a step may do to a site of somebody else, so each action is argued on its own site only.
* `Standing`: the row of a deployment keeps the revision it was made for, and the container it started stays
  up until the verdict while the project is alive.

`~Overlap` is needed: a duplicate delivery breaks `LiveKeepsDeployment` and `StatesAgree`.

`AgentCallsProofs` (any workers, budget, limits, prices, models and replies): `TypesHold`,
`SpendMatchesLedger` (`SpendIsLedger`) and `BudgetIsKept` (`BudgetHolds`), in which no turn has overlapped
another; `FailsForItsBudget` (`BudgetFailureIsReal`) and `LittleIsUnrecorded` (`UnrecordedBounded`), in which
turns may. For the first two: while no turn has overlapped another there is at most one active turn, and its
snapshot agrees with the row and the ledger (`Synced`); `KeepsStep` is all that a step of a turn other than
`Record` does to the money; `Record` moves row and ledger together, and only after a guard that saw less
than the budget. For the last two, `MInv` keeps the books of any number of open calls: what they cost
together is a value of a function over sets of workers that is additive (`Sums`), and a step changes one
term of it (`SumsMove`). Such a sum needs no recursion, so no induction over data; the cache and the ledger
with their open calls stay below what is billed (`Books`), and a snapshot never claims more than the
ledger has (`Honest`). The dearest call exists because token counts are bounded by the context window:
`AgentCallsAssumption` says that `Usages` is finite and not empty. `NoReasonAssumption` says that the mark
of "no reason yet" is not a reason.

`AdmissionProofs` (any requests, jobs and limits): `TypeCorrect`, `CapHolds` (`SlotsBounded`),
`RetriesAreLimited` (`RetriesBounded`), `StartsArePaid` (`StartsCovered`). `SlotsBounded` counts requests in
flight beside the jobs they will insert, so that an insertion only moves one from one side to the other; a
request that passes the gate sees at most `Cap - 1` holders. `StartsCovered` holds the whole gate to account: a
request that passes on a balance may have read it long before (`Rich`), so for every time the balance comes to
the price not only `Slack` jobs may start without paying, but also each of the requests (`Lag`). `Covered`
counts the starts that are due (`Due`): with a balance that pays, those that saw room in the month before it was
full, with `Lag` in reserve for when it runs out; without one, all unpaid jobs, all requests past the gate, and
all that still hold an old balance. `Looked` and `Refilled` say that a job that found the month full looked when
it was, and that whoever holds a balance has been paid for by a refill. `DueIsSlots` bounds what is due by the
slots and the requests. `CoverStep` is then the only inequality: a step takes no more than it leaves due, or
finds room in the month, or begins a new round with a refill, which pays `Lag`.

`SubscriptionsProofs` (any handlers, resyncs and events): `TypeCorrect`; `SweeperIsRight`
(`TornDownAfterGrace`), `PaidLevelStays` (`LevelKept`). Both are properties of steps, and neither follows
from the types: `ReadBefore` says that a resync past its load has read a row that exists (it
never inserts), `Held` that the row the sweeper has locked stays in a grace that is over.

`TokenLedgerProofs` (any users, workers, purchases, channels and reports that name nobody, a finite set of
purchases): `TypeCorrect`, `AnswersAreTrue`, `ReportsStay`; `ChannelsImplementLedger`, the refinement `Spec =>
Abstract!Spec`; and what `Ledger` promises, of the channels themselves: `BalancesAddUp`, `OneCreditPerPurchase`,
`NoDebt` (`Abstract!BalanceIsLedger`, `CreditedOnce`, `NeverNegative`). The inductive invariant says that a
recorded key has its grant unless it is stored without one (`KeysHaveGrants`) and that what a request is about
to credit is new or will clash (`RequestsAreSound`).

`EventDeliveryProofs` (any writers, connections, ids and limits): `TypeCorrect`, `ClientsMissNothing`
(`FramesFaithful`), `LimitHolds` (`SlotsBounded`), `RefusalIsJustified` (`RefusedForCause`). `Streamed` relates a
stream to the frames of its client over all connections: it goes by the last frame, and its batch has
every timely event between that and any event of the batch, so that sending the first of a batch leaves
no gap. `Counted` holds the counter between two numbers although it forgets and goes below zero: at
least the requests with a claim less the `debt`, at most those claims and the `leaked` slots.
The batch is a set whose first is sent next, which is the order `ORDER BY id` gives.

Model-checked only: liveness (`Settles`, `AnsweredSettles`, `ResyncHeals`, `GraceIsSettled`, `EndArrives`,
`FixingEnds`), because fairness and ENABLED are out of the installed provers' reach. No module declares a
RECURSIVE operator, and no theorem needs an induction over data.

## 5. Findings

Two have a run; `PROJECT.json` "findings" quotes the lines.

1. `subscriptions_resync`: a resync that asked the provider before a webhook overwrites its status.
2. `admission_retry`: two concurrent retries of one failed job both start.

Nine more are properties stated in the modules, which documents or comments claim and the code does not
keep. Each is reproduced by putting the name into the cfg given in place of its properties, with the changes
said (a VIEW hides state these properties read):

| Property | Where | What happens |
|---|---|---|
| `PatchesBounded` | `JobPipelineOverlap.cfg` without VIEW | two fix turns of one snapshot apply two patches and count one |
| `ChargedOnce` | the same, one Celery retry | a redelivered interview beside its own Celery retry charges twice |
| `AnsweredNotTimedOut` | `ClarificationRaces.cfg` | the sweeper's first commit releases its other locks; accepted answers time out |
| `StuckMeansWaited` | `ClarificationRaces.cfg` | answers do not move the heartbeat; a resumed job can be failed at once |
| `FailedRollbackKeepsSite` | `SiteDeploy.cfg` without VIEW | a rollback that fails has already replaced the files of the current site |
| `GoneMeansDown` | `SiteDeploy.cfg` without VIEW | the re-check meant to prevent an orphan raises when the GC has finished first |
| `LiveKeepsDeployment` | `SiteDeploy.cfg` without VIEW, `Overlap = TRUE` | a duplicate deploy takes a LIVE site down |
| `DuplicateMeansProcessed` | `TokenLedger.cfg` | the repeat of an event stored for an unknown user or product is a `duplicate` too (`billing/webhook_handler.py:215`, `:235` promises that it is not lost), and nothing reads it again |
| `StreamsEnd` | `EventDelivery.cfg` | a client that resumes after the terminal id is served pings for ever (`docs/adr/ADR-012`, section 6) |

Observations met while modelling, each visible in the actions named, without a property of its own:

* `Subscriptions`: `get_subscription_for_update` is used by nobody, although `docs/03-architecture.md:164`
  relies on it, so two webhooks may each keep half of the other's columns; a `grace` whose `grace_until`
  is NULL is never swept; of two first webhooks of a user the loser is answered `duplicate` and its
  event is gone; a resync that finds the profile inactive goes from active to expired without grace.
* `TokenLedger`: a CloudPayments callback that comes before the aggregator lists the payment is answered
  `ignored` and not repeated; a StoreKit purchase of an unknown product leaves no trace; one payment listed
  twice in an answer clashes with itself on every callback.
* `Admission`: the balance the gate weighs is that of the authentication, older than the resync, the counts and
  everything other requests have done since; retries use the stub of `auth/concurrency.py` with a cap of one,
  where ADR-053 section C promises the ordinary cap; ADR-053 section B says that the failed attempt has been
  charged, which a job that failed in CREATED has not; resumed interviews and rollbacks run beside the cap; of
  two concurrent requests with one key the loser may get 402 for the winner's job.
* `EventDelivery`: refused attempts renew the expiry of the slot counter (`sse.py:80`), and their DECR is
  not held at zero; the counter "never goes below 0" (`sse.py:91`) only after a second command, which
  forgets the streams that were counted in between; a note recorded
  without the row lock of the job may be committed after the terminal event.
* `AgentCalls`: two turns at once lose the calls of the one that commits first, so `spend_usd` is
  less than the ledger that `cost.py:3` says it sums; a call that breaks off is charged and not recorded; a
  rejected patch does not count in `retry_count`, though `tasks.py:1402-1406` speaks of counting it.
* `SiteDeploy`: `docs/modules/deploy/03-architecture.md:161` supersedes the active deployment when a new
  revision is LIVE, `_deploy` does not, so several stay active.

## 6. Not modelled, and the plan

Not modelled because there is no state machine to get wrong: sandbox, storage, prompt composition,
templates, styles, models, observability, most of administration, schemas and wiring (see "components").
Left for later, in this order:

| Module | Question | Properties worth stating |
|---|---|---|
| `AuthLimits` | login lock, revoked tokens, INCR and EXPIRE as two commands | the lock ends; a revoked token opens nothing; a counter expires (expected to fail after a crash) |
| `Push` | marks per state and device under at-least-once delivery, a device registered again in flight | one push per state and device; a live token is not marked invalid (expected to fail) |
| a `dist` variable in `SiteDeploy`; `live_url` | shared dist key of a revision; newest row | the active site serves files of its own base |
| operators for `failure_signature`, `language`, `upload_refs` | pure functions against a definition | idempotent, order of rules |
| the plan of sections in `AgentCalls` | partial trees over several calls | nothing is delivered twice |

A module that is added gets its theorems with it: of `AuthLimits` that a revoked token opens nothing, of
`Push` that a state is pushed to a device once, both from what a request has read before its commit.
