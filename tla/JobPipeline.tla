------------------------------ MODULE JobPipeline ------------------------------
(******************************************************************************)
(* One generation job driven through the Celery pipeline: the row of          *)
(* generation_jobs, the two task queues, the workers that execute the tasks,  *)
(* the beat process (reconciler, clarification sweeper), the API that answers *)
(* and dispatches, and the project GC that cancels.                           *)
(*                                                                            *)
(* A task reads the row once (load_job), works for minutes on that snapshot   *)
(* and writes back through transition(), a compare-and-set whose only         *)
(* condition is "not LIVE, not FAILED". Messages are acknowledged after the   *)
(* task (task_acks_late), so a dead worker gives its message back, and the    *)
(* reconciler sends a message for any job whose heartbeat is old. The model   *)
(* keeps every commit of a task as a step of its own.                         *)
(******************************************************************************)
EXTENDS Integers, Functions

CONSTANTS
  Workers,         \* worker processes of the llm and build queues
  Signatures,      \* failure signatures (compute_failure_signature of a log)
  NoSignature,     \* NULL
  MaxFixAttempts,  \* generation_jobs.max_fix_attempts
  MaxTries,        \* bound: Celery retries of one message (MAX_RETRIES)
  MaxMessages,     \* bound: queued messages beyond which no duplicate is sent
  Overlap          \* TRUE: a task may outlast the stuck threshold or the dispatch
                   \* lock, and a worker may die between its last commit (or its
                   \* retry) and the ack

ASSUME ConstantsAssumption ==
  /\ NoSignature \notin Signatures
  /\ MaxFixAttempts \in Nat
  /\ MaxTries \in Nat
  /\ MaxMessages \in Nat
  /\ Overlap \in BOOLEAN

VARIABLES
  job,      \* the row: kind, state, failure_reason, retry_count, ...
  charges,  \* usage_counted / edit_usage_counted markers written for the job
  queue,    \* messages waiting in the broker, a bag
  worker,   \* what each worker executes, with its snapshot of the row
  api,      \* the task an API handler has committed to send and not sent yet
  lock,     \* the Redis key dispatch:{job_id} is set
  expired,  \* wall_clock_deadline has passed
  deleted,  \* projects.deleted_at is set
  hist      \* history: patches applied; Agent 4 spoke since the guard's last pass

vars == <<job, charges, queue, worker, api, lock, expired, deleted, hist>>

JobStates == {"CREATED", "INTERVIEWING", "AWAITING_CLARIFICATION", "SPECCING",
              "BUILDING", "DEPLOYING", "LIVE", "FIXING", "FAILED", "EDITING"}
TerminalStates == {"LIVE", "FAILED"}
ResumableStates == {"BUILDING", "DEPLOYING", "FIXING"}
(* The watched states before EDITING was introduced.                                *)
StuckStatesWithoutEditing == ResumableStates \cup {"CREATED", "INTERVIEWING", "SPECCING"}
(* A reconciler that watches every job it could fail, paused ones too.               *)
StuckStatesWithPause == JobStates \ TerminalStates
StuckStates == ResumableStates \cup {"CREATED", "INTERVIEWING", "SPECCING", "EDITING"}
Kinds == {"generation", "edit"}

LlmTasks == {"interview", "spec", "fix", "edit"}
Tasks == LlmTasks \cup {"build", "deploy"}
Messages == [task : Tasks, tries : 0..MaxTries]

AgentFailures == {"budget_exhausted", "wall_clock_exceeded", "invalid_agent_output"}
Reasons == AgentFailures \cup
  {"none", "build_unrecoverable", "no_progress", "fixer_gave_up", "stuck_timeout",
   "project_deleted", "agent_unavailable", "infra_error", "clarification_timeout",
   "edit_failed_rolled_back"}

(* dispatch_for_state: the task a state is routed to. *)
TaskFor(kind, state) ==
  CASE state = "CREATED" -> IF kind = "edit" THEN "edit" ELSE "interview"
    [] state = "EDITING" -> "edit"
    [] state = "SPECCING" -> "spec"
    [] state = "BUILDING" -> "build"
    [] state = "DEPLOYING" -> "deploy"
    [] state = "FIXING" -> "fix"
    [] OTHER -> "none"

(* The guard every task body starts with: the states it accepts, else *_skip. *)
Accepts(task) ==
  CASE task = "interview" -> job.state = "CREATED"
    [] task = "spec" -> job.state = "SPECCING"
    [] task = "build" -> job.state = "BUILDING"
    [] task = "deploy" -> job.state = "DEPLOYING"
    [] task = "fix" -> job.state = "FIXING"
    [] task = "edit" -> job.state \in {"CREATED", "EDITING"} /\ job.kind = "edit"

--------------------------------------------------------------------------------
(* The row and its writers. *)

Signature == Signatures \cup {NoSignature}
JobRows == [kind : Kinds, state : JobStates, reason : Reasons, retry : Nat,
            lastSig : Signature, logSig : Signature, pending : BOOLEAN, stale : BOOLEAN]

(* transition() without its barrier: what the CAS would be with no predicate. *)
AlwaysApplies == TRUE

(* The barrier of transition(): UPDATE ... WHERE state NOT IN (LIVE, FAILED). *)
Applies == job.state \notin TerminalStates

(* The row after a transition that applied; last_transition_at becomes now. *)
Moved(to) == [job EXCEPT !.state = to, !.stale = FALSE]

(* fail_job whose lost CAS does not roll the session back.                          *)
FailedLeaky(reason) ==
  IF Applies THEN [Moved("FAILED") EXCEPT !.reason = reason]
  ELSE [job EXCEPT !.reason = reason]

(* fail_job: FAILED with a reason, nothing when the barrier refuses. *)
Failed(reason) ==
  IF Applies THEN [Moved("FAILED") EXCEPT !.reason = reason] ELSE job

(* The ORM flushes an attribute only when it differs from the loaded value. *)
Flushed(loaded, new, current) == IF new = loaded THEN current ELSE new

--------------------------------------------------------------------------------
(* Workers and messages. *)

Pcs == {"idle", "run", "charge", "agent", "checked", "ack"}
WorkerStates ==
  [pc : Pcs, task : Tasks \cup {"none"}, tries : 0..MaxTries, seen : JobStates,
   retry : Nat, lastSig : Signature, sig : Signature, pending : BOOLEAN,
   counted : BOOLEAN, next : Tasks \cup {"none"}]

Idle == [pc |-> "idle", task |-> "none", tries |-> 0, seen |-> "CREATED", retry |-> 0,
         lastSig |-> NoSignature, sig |-> NoSignature, pending |-> FALSE,
         counted |-> FALSE, next |-> "none"]

Fresh(task) == [task |-> task, tries |-> 0]
Retry(m) == [m EXCEPT !.tries = @ + 1]
Put(m) == [queue EXCEPT ![m] = @ + 1]
Backlog == FoldFunction(LAMBDA a, b : a + b, 0, queue)
Room == Backlog < MaxMessages
Waiting == {m \in Messages : queue[m] > 0}
Quiet == Waiting = {} /\ api = "none" /\ \A w \in Workers : worker[w].pc = "idle"

(* The worker has something left to do beyond the ack.                             *)
Carries(rec) == rec.pc \notin {"idle", "ack"} \/ rec.next # "none"

At(w, task, pc) == worker[w].task = task /\ worker[w].pc = pc
Release(w) == worker' = [worker EXCEPT ![w] = Idle]
Goto(w, pc) == worker' = [worker EXCEPT ![w].pc = pc]
(* The task has committed its last write; what is left is to publish and to ack.    *)
ThenDispatch(w, task) ==
  worker' = [worker EXCEPT ![w] = [@ EXCEPT !.pc = "ack", !.next = task]]
End(w) == ThenDispatch(w, "none")

(* The snapshot a task works on. Only a fix turn uses the counter and the two     *)
(* signatures, only turns that can record a failure use the pending flag, and only  *)
(* the tasks that charge look for the marker event (nothing locks it until the      *)
(* charge is committed).                                                            *)
Snapshot(m) ==
  LET fix == m.task = "fix" IN
  [pc |-> "run", task |-> m.task, tries |-> m.tries, seen |-> job.state,
   retry |-> IF fix THEN job.retry ELSE 0,
   lastSig |-> IF fix THEN job.lastSig ELSE NoSignature,
   sig |-> IF fix THEN job.logSig ELSE NoSignature,
   pending |-> m.task \in {"build", "deploy", "fix"} /\ job.pending,
   counted |-> m.task \in {"interview", "edit"} /\ charges > 0,
   next |-> "none"]

(* A worker takes a message: it skips a job in another state, fails the job of a   *)
(* deleted project or a fix turn without a failure log, and else starts the task.  *)
Load(w, m) ==
  /\ worker[w].pc = "idle"
  /\ queue[m] > 0
  /\ queue' = [queue EXCEPT ![m] = @ - 1]
  /\ \/ /\ ~Accepts(m.task)
        /\ UNCHANGED <<job, worker>>
     \/ /\ Accepts(m.task)
        /\ deleted
        /\ job' = Failed("project_deleted")
        /\ UNCHANGED worker
     \/ /\ Accepts(m.task)
        /\ ~deleted
        /\ m.task = "fix" /\ job.logSig = NoSignature
        /\ job' = Failed("infra_error")
        /\ UNCHANGED worker
     \/ /\ Accepts(m.task)
        /\ ~deleted
        /\ m.task = "fix" => job.logSig # NoSignature
        /\ worker' = [worker EXCEPT ![w] = Snapshot(m)]
        /\ UNCHANGED job
  /\ UNCHANGED <<charges, api, lock, expired, deleted, hist>>

(* The preflight of an LLM task finds no credential: it fails the job before it    *)
(* looks at the state the message was meant for.                                   *)
Preflight(m) ==
  /\ m.task \in LlmTasks
  /\ queue[m] > 0
  /\ queue' = [queue EXCEPT ![m] = @ - 1]
  /\ job' = Failed("agent_unavailable")
  /\ UNCHANGED <<charges, worker, api, lock, expired, deleted, hist>>

(* Publishing the next task, if there is one, and acking the message.              *)
Dispatch(w) ==
  /\ worker[w].pc = "ack"
  /\ queue' = IF worker[w].next = "none" THEN queue ELSE Put(Fresh(worker[w].next))
  /\ Release(w)
  /\ UNCHANGED <<job, charges, api, lock, expired, deleted, hist>>

(* The process dies: the broker redelivers the message it had not acked, before or  *)
(* after the next task, or the retry of this one, was published.                    *)
Crash(w) ==
  LET rec == worker[w]
      m == [task |-> rec.task, tries |-> rec.tries]
  IN
  /\ rec.pc # "idle"
  /\ \/ /\ Carries(rec) \/ Overlap
        /\ queue' = Put(m)
     \/ /\ rec.pc = "ack" /\ rec.next # "none" /\ Overlap /\ Room
        /\ queue' = [Put(m) EXCEPT ![Fresh(rec.next)] = @ + 1]
     \/ /\ Carries(rec) /\ rec.tries < MaxTries /\ Overlap /\ Room
        /\ queue' = [Put(m) EXCEPT ![Retry(m)] = @ + 1]
  /\ Release(w)
  /\ UNCHANGED <<job, charges, api, lock, expired, deleted, hist>>

(* An exception leaves the task body: a transient one is retried by Celery while   *)
(* retries remain, an exhausted or permanent one fails the job, any other one only *)
(* ends the task.                                                                  *)
TaskError(w) ==
  LET rec == worker[w] IN
  /\ Carries(rec)
  /\ \/ /\ rec.tries < MaxTries
        /\ queue' = Put(Retry([task |-> rec.task, tries |-> rec.tries]))
        /\ UNCHANGED job
     \/ /\ \/ rec.task \in LlmTasks /\ job' = Failed("agent_unavailable")
           \/ rec.tries = MaxTries /\ job' = Failed("infra_error")
        /\ UNCHANGED queue
     \/ UNCHANGED <<job, queue>>
  /\ Release(w)
  /\ UNCHANGED <<charges, api, lock, expired, deleted, hist>>

--------------------------------------------------------------------------------
(* The task bodies. *)

(* A commit that needs the barrier: the row moves and the worker goes on, or the   *)
(* session is rolled back and the task ends.                                       *)
Commit(w, row, onward) ==
  IF Applies THEN job' = row /\ onward ELSE UNCHANGED job /\ End(w)

EndWith(w, reason) == job' = Failed(reason) /\ End(w)

(* A guard that ran before the agent call, or output that stayed invalid.          *)
AgentTrips(w) ==
  \E r \in AgentFailures :
    /\ r = "wall_clock_exceeded" => expired
    /\ EndWith(w, r)

(* count_generation_start / count_edit_start without their marker check.           *)
ChargeAgain(w) == charges' = charges + 1

(* count_generation_start / count_edit_start: unless the marker event was there.    *)
Charge(w) == charges' = IF worker[w].counted THEN charges ELSE charges + 1

(* CREATED -> INTERVIEWING: the charge and the transition in one transaction.      *)
InterviewStart(w) ==
  /\ At(w, "interview", "run")
  /\ Commit(w, Moved("INTERVIEWING"), Goto(w, "agent"))
  /\ IF Applies THEN Charge(w) ELSE UNCHANGED charges
  /\ UNCHANGED <<queue, api, lock, expired, deleted, hist>>

InterviewFinish(w) ==
  /\ At(w, "interview", "agent")
  /\ \/ Commit(w, Moved("AWAITING_CLARIFICATION"), End(w))
     \/ AgentTrips(w)
  /\ UNCHANGED <<charges, queue, api, lock, expired, deleted, hist>>

SpecFinish(w) ==
  /\ At(w, "spec", "run")
  /\ \/ Commit(w, Moved("BUILDING"), ThenDispatch(w, "build"))
     \/ AgentTrips(w)
  /\ UNCHANGED <<charges, queue, api, lock, expired, deleted, hist>>

(* enter_fixing that moves the job and forgets the log.                             *)
EnterFixingUnlogged(w) == Commit(w, Moved("FIXING"), ThenDispatch(w, "fix"))

(* enter_fixing: a new failure log, the pending flag and FIXING in one commit.     *)
EnterFixing(w) ==
  \E sig \in Signatures :
    Commit(w, [Moved("FIXING") EXCEPT
                 !.logSig = sig,
                 !.pending = Flushed(worker[w].pending, TRUE, job.pending)],
           ThenDispatch(w, "fix"))

BuildFinish(w) ==
  /\ At(w, "build", "run")
  /\ \/ Commit(w, Moved("DEPLOYING"), ThenDispatch(w, "deploy"))
     \/ EnterFixing(w)
  /\ UNCHANGED <<charges, queue, api, lock, expired, deleted, hist>>

(* The container runs and answers: deleted_at and state are read again.            *)
DeployRun(w) ==
  /\ At(w, "deploy", "run")
  /\ \/ EndWith(w, "infra_error")
     \/ EnterFixing(w)
     \/ deleted /\ EndWith(w, "project_deleted")
     \/ ~deleted /\ job.state # "DEPLOYING" /\ End(w) /\ UNCHANGED job
     \/ ~deleted /\ job.state = "DEPLOYING" /\ Goto(w, "checked") /\ UNCHANGED job
  /\ UNCHANGED <<charges, queue, api, lock, expired, deleted, hist>>

DeployFinish(w) ==
  /\ At(w, "deploy", "checked")
  /\ Commit(w, Moved("LIVE"), End(w))
  /\ UNCHANGED <<charges, queue, api, lock, expired, deleted, hist>>

(* _finalize_fix_failure: an edit is rolled back whatever the reason.              *)
FixFails(w, reason) ==
  EndWith(w, IF job.kind = "edit" THEN "edit_failed_rolled_back" ELSE reason)

(* check_fix_guards with an off-by-one in the hard cap (a).                        *)
FixGuardLate(w) ==
  LET rec == worker[w] IN
  CASE rec.retry > MaxFixAttempts -> "build_unrecoverable"
    [] rec.retry <= MaxFixAttempts /\ expired -> "wall_clock_exceeded"
    [] rec.retry <= MaxFixAttempts /\ ~expired /\ rec.lastSig = rec.sig /\ rec.pending
         -> "no_progress"
    [] OTHER -> "pass"

(* check_fix_guards that forgets to ask for a new failure event in (d).            *)
FixGuardNoEvent(w) ==
  LET rec == worker[w] IN
  CASE rec.retry >= MaxFixAttempts -> "build_unrecoverable"
    [] rec.retry < MaxFixAttempts /\ expired -> "wall_clock_exceeded"
    [] rec.retry < MaxFixAttempts /\ ~expired /\ rec.lastSig = rec.sig -> "no_progress"
    [] OTHER -> "pass"

(* check_fix_guards on the snapshot: hard cap, wall clock, no-progress. The budget  *)
(* is a choice of FixGuards.                                                       *)
FixGuard(w) ==
  LET rec == worker[w] IN
  CASE rec.retry >= MaxFixAttempts -> "build_unrecoverable"
    [] rec.retry < MaxFixAttempts /\ expired -> "wall_clock_exceeded"
    [] rec.retry < MaxFixAttempts /\ ~expired /\ rec.lastSig = rec.sig /\ rec.pending
         -> "no_progress"
    [] OTHER -> "pass"

(* The guards before Agent 4. A pass records the signature and consumes the event,  *)
(* by a plain UPDATE of the attributes that changed.                                *)
FixGuards(w) ==
  LET rec == worker[w] IN
  /\ At(w, "fix", "run")
  /\ \/ FixFails(w, "budget_exhausted") /\ UNCHANGED hist
     \/ FixGuard(w) # "pass" /\ FixFails(w, FixGuard(w)) /\ UNCHANGED hist
     \/ /\ FixGuard(w) = "pass"
        /\ job' = [job EXCEPT !.lastSig = Flushed(rec.lastSig, rec.sig, job.lastSig),
                              !.pending = Flushed(rec.pending, FALSE, job.pending)]
        /\ worker' = [worker EXCEPT ![w] = [rec EXCEPT !.pc = "agent", !.lastSig = rec.sig,
                                                        !.pending = FALSE]]
        /\ hist' = [hist EXCEPT !.spoke = FALSE]
  /\ UNCHANGED <<charges, queue, api, lock, expired, deleted>>

(* History only: patches are counted up to one more than the cap.                  *)
PatchCounted == [patches |-> IF hist.patches > MaxFixAttempts THEN hist.patches
                             ELSE hist.patches + 1,
                 spoke |-> TRUE]

(* Agent 4 answers: a patch (retry_count of the snapshot plus one, BUILDING), an    *)
(* invalid patch (a new failure event, heartbeat, the same state, no barrier), or   *)
(* it gives up or a guard stops it.                                                *)
FixFinish(w) ==
  LET rec == worker[w] IN
  /\ At(w, "fix", "agent")
  /\ \/ /\ Commit(w, [Moved("BUILDING") EXCEPT !.retry = rec.retry + 1],
                  ThenDispatch(w, "build"))
        /\ hist' = IF Applies THEN PatchCounted ELSE hist
     \/ /\ \E sig \in Signatures :
             job' = [job EXCEPT !.logSig = sig, !.pending = TRUE, !.stale = FALSE]
        /\ ThenDispatch(w, "fix")
        /\ hist' = [hist EXCEPT !.spoke = TRUE]
     \/ /\ \E r \in {"budget_exhausted", "wall_clock_exceeded", "fixer_gave_up"} :
             /\ r = "wall_clock_exceeded" => expired
             /\ FixFails(w, r)
        /\ UNCHANGED hist
  /\ UNCHANGED <<charges, queue, api, lock, expired, deleted>>

(* A resumed edit that takes the charge of its first run for granted.               *)
EditStartUncharged(w) ==
  /\ At(w, "edit", "run")
  /\ \/ EndWith(w, "invalid_agent_output")
     \/ worker[w].seen = "CREATED" /\ Commit(w, Moved("EDITING"), Goto(w, "charge"))
     \/ worker[w].seen = "EDITING" /\ UNCHANGED job /\ Goto(w, "agent")
  /\ UNCHANGED <<charges, queue, api, lock, expired, deleted, hist>>

(* An edit without its base revision fails; a first run moves CREATED -> EDITING,   *)
(* a resumed one is in EDITING already.                                            *)
EditStart(w) ==
  /\ At(w, "edit", "run")
  /\ \/ EndWith(w, "invalid_agent_output")
     \/ worker[w].seen = "CREATED" /\ Commit(w, Moved("EDITING"), Goto(w, "charge"))
     \/ worker[w].seen = "EDITING" /\ UNCHANGED job /\ Goto(w, "charge")
  /\ UNCHANGED <<charges, queue, api, lock, expired, deleted, hist>>

(* count_edit_start, in a transaction after the one that showed EDITING.           *)
EditCharge(w) ==
  /\ At(w, "edit", "charge")
  /\ Charge(w)
  /\ Goto(w, "agent")
  /\ UNCHANGED <<job, queue, api, lock, expired, deleted, hist>>

EditFinish(w) ==
  /\ At(w, "edit", "agent")
  /\ \/ Commit(w, Moved("BUILDING"), ThenDispatch(w, "build"))
     \/ EndWith(w, "edit_failed_rolled_back")
  /\ UNCHANGED <<charges, queue, api, lock, expired, deleted, hist>>

TaskStep(w) ==
  \/ InterviewStart(w) \/ InterviewFinish(w) \/ SpecFinish(w) \/ BuildFinish(w)
  \/ DeployRun(w) \/ DeployFinish(w) \/ FixGuards(w) \/ FixFinish(w)
  \/ EditStart(w) \/ EditCharge(w) \/ EditFinish(w)

--------------------------------------------------------------------------------
(* The API, beat, the project GC and time. *)

(* POST /answers: a conditional UPDATE that sets state and nothing else of the     *)
(* heartbeat; the task is sent after the commit.                                   *)
SubmitAnswers ==
  /\ job.state = "AWAITING_CLARIFICATION"
  /\ api = "none" /\ ~deleted
  /\ job' = [job EXCEPT !.state = "SPECCING"]
  /\ api' = "spec"
  /\ UNCHANGED <<charges, queue, worker, lock, expired, deleted, hist>>

ApiSend ==
  /\ api # "none"
  /\ queue' = Put(Fresh(api))
  /\ api' = "none"
  /\ UNCHANGED <<job, charges, worker, lock, expired, deleted, hist>>

(* The API process dies, or the broker refuses, between the commit and the send.   *)
ApiCrash ==
  /\ api # "none"
  /\ api' = "none"
  /\ UNCHANGED <<job, charges, queue, worker, lock, expired, deleted, hist>>

(* sweep_clarifications, for one job.                                              *)
SweepClarification ==
  /\ job.state = "AWAITING_CLARIFICATION" /\ job.stale
  /\ job' = Failed("clarification_timeout")
  /\ UNCHANGED <<charges, queue, worker, api, lock, expired, deleted, hist>>

(* SET dispatch:{job_id} NX without the NX.                                        *)
LockIgnored == TRUE

(* SET dispatch:{job_id} NX EX 300.                                                *)
LockFree == ~lock

(* A revoke that believes its record: the message is gone already.                 *)
RevokeBlind == \E m \in Messages : queue' = [queue EXCEPT ![m] = @ - 1] /\ UNCHANGED worker

(* _maybe_revoke_live_task: the recorded task is killed, discarded, or missed.     *)
Revoke ==
  \/ UNCHANGED <<queue, worker>>
  \/ \E w \in Workers : worker[w].pc # "idle" /\ Release(w) /\ UNCHANGED queue
  \/ \E m \in Messages : /\ queue[m] > 0
                         /\ queue' = [queue EXCEPT ![m] = @ - 1]
                         /\ UNCHANGED worker

(* _reconcile_one, under the row lock: wall clock, else re-dispatch of a resumable  *)
(* state (the heartbeat stays old), else fail-stuck of an LLM phase. A re-dispatch  *)
(* may be lost with the beat process.                                               *)
Reconcile ==
  /\ job.state \in StuckStates /\ job.stale
  /\ LockFree
  /\ lock' = TRUE
  /\ \/ expired /\ job' = Failed("wall_clock_exceeded") /\ Revoke
     \/ /\ ~expired /\ job.state \in ResumableStates
        /\ \/ Room /\ queue' = Put(Fresh(TaskFor(job.kind, job.state)))
           \/ UNCHANGED queue
        /\ UNCHANGED <<job, worker>>
     \/ /\ ~expired /\ job.state \notin ResumableStates
        /\ job' = Failed("stuck_timeout") /\ Revoke
  /\ UNCHANGED <<charges, api, expired, deleted, hist>>

(* DELETE /projects sets deleted_at; project.gc later cancels what is not FAILED,   *)
(* a LIVE job too, without the barrier.                                             *)
DeleteProject ==
  /\ ~deleted
  /\ deleted' = TRUE
  /\ UNCHANGED <<job, charges, queue, worker, api, lock, expired, hist>>

CancelInflightJobs ==
  /\ deleted /\ job.state # "FAILED"
  /\ job' = [job EXCEPT !.state = "FAILED", !.reason = "project_deleted"]
  /\ UNCHANGED <<charges, queue, worker, api, lock, expired, deleted, hist>>

(* STUCK_THRESHOLD_S passes since the last heartbeat. With Overlap FALSE no task    *)
(* and no message outlives the threshold.                                           *)
Age ==
  /\ job.state \notin TerminalStates /\ ~job.stale
  /\ Overlap \/ Quiet
  /\ job' = [job EXCEPT !.stale = TRUE]
  /\ UNCHANGED <<charges, queue, worker, api, lock, expired, deleted, hist>>

(* The TTL of the dispatch lock passes; same proviso.                               *)
LockExpires ==
  /\ lock
  /\ Overlap \/ Quiet
  /\ lock' = FALSE
  /\ UNCHANGED <<job, charges, queue, worker, api, expired, deleted, hist>>

WallClockExpires ==
  /\ ~expired
  /\ expired' = TRUE
  /\ UNCHANGED <<job, charges, queue, worker, api, lock, deleted, hist>>

--------------------------------------------------------------------------------
Row(kind, state) ==
  [kind |-> kind, state |-> state, reason |-> "none", retry |-> 0,
   lastSig |-> NoSignature, logSig |-> NoSignature, pending |-> FALSE, stale |-> FALSE]

(* POST /projects, POST /edits, and POST /retry, whose job carries the marker of    *)
(* the settled charge and skips the interview when the answers were complete.       *)
Init ==
  /\ \/ \E kind \in Kinds : job = Row(kind, "CREATED") /\ charges = 0
     \/ \E state \in {"CREATED", "SPECCING"} : job = Row("generation", state) /\ charges = 1
  /\ api = TaskFor(job.kind, job.state)
  /\ queue = [m \in Messages |-> 0]
  /\ worker = [w \in Workers |-> Idle]
  /\ lock = FALSE /\ expired = FALSE /\ deleted = FALSE
  /\ hist = [patches |-> 0, spoke |-> FALSE]

Broker == \E m \in Messages : Preflight(m) \/ \E w \in Workers : Load(w, m)
Worker(w) == TaskStep(w) \/ Dispatch(w) \/ Crash(w) \/ TaskError(w)
Beat == SweepClarification \/ Reconcile
Api == SubmitAnswers \/ ApiSend \/ ApiCrash \/ DeleteProject \/ CancelInflightJobs
Time == Age \/ LockExpires \/ WallClockExpires

Next == Broker \/ (\E w \in Workers : Worker(w)) \/ Beat \/ Api \/ Time

Spec == Init /\ [][Next]_vars

(* Only the clock and beat are fair: no worker has to run, no crash has to end.     *)
BeatFairness ==
  /\ WF_vars(Age) /\ WF_vars(LockExpires) /\ WF_vars(WallClockExpires)
  /\ WF_vars(Reconcile) /\ WF_vars(SweepClarification)

FairSpec == Spec /\ BeatFairness

--------------------------------------------------------------------------------
(* Properties. *)

(* Every variable stays in its set.                                                *)
TypeOK ==
  /\ job \in JobRows
  /\ charges \in Nat
  /\ queue \in [Messages -> Nat]
  /\ worker \in [Workers -> WorkerStates]
  /\ api \in Tasks \cup {"none"}
  /\ lock \in BOOLEAN /\ expired \in BOOLEAN /\ deleted \in BOOLEAN
  /\ hist \in [patches : 0..(MaxFixAttempts + 1), spoke : BOOLEAN]

(* transition(): whoever writes the terminal state first has the last word, however *)
(* many tasks, retries and reconciler passes are still running on old snapshots. The *)
(* one exception is the GC of a deleted project, which takes a LIVE job to FAILED.   *)
TerminalIsFinal ==
  [][job.state \in TerminalStates /\ job'.state # job.state
       => job.state = "LIVE" /\ job'.state = "FAILED" /\ deleted]_vars

(* LIVE is shown only for a job that has not failed and after its deploy: whatever  *)
(* the duplicates do, a failure reason never stands beside LIVE, and FAILED always   *)
(* carries its reason.                                                               *)
ReasonIffFailed == job.reason # "none" <=> job.state = "FAILED"

(* check_fix_guards (a): the retry counter stays within max_fix_attempts even when  *)
(* several fix turns run on the same snapshot.                                       *)
RetryWithinLimit == job.retry <= MaxFixAttempts

(* usage.py: no job gets past its first agent call without having been charged,      *)
(* through redeliveries, resumed edits and free retries (whose marker is written at   *)
(* birth); duplicates of old turns never carry an uncharged job into the build.       *)
ChargedBeforeWork ==
  job.state \notin {"CREATED", "EDITING", "FAILED"} => charges > 0

(* usage.py, count_generation_start: no double charge under acks_late and replays.    *)
ChargedOnce == charges <= 1

(* enter_fixing / _handle_invalid_patch: a job in FIXING has a failure log, so the   *)
(* task's infra_error branch for a missing log is dead.                              *)
FixingHasLog == job.state = "FIXING" => job.logSig # NoSignature

(* A paused interview is the user's: it is left by the answers (with the task that    *)
(* follows them about to be sent), by the clarification sweeper or by deletion. No     *)
(* reconciler pass, wall clock or task from before the pause moves it.                *)
OnlyAnswersResume ==
  [][job.state = "AWAITING_CLARIFICATION" /\ job'.state # job.state
       => \/ job'.state = "SPECCING" /\ api' = "spec"
          \/ /\ job'.state = "FAILED"
             /\ job'.reason \in {"clarification_timeout", "project_deleted"}]_vars

(* With every task inside its time budget the dispatch lock, the acks and the        *)
(* commit-then-publish order leave at most one carrier of the job: a queued message,  *)
(* a running task or an API handler about to send.                                    *)
Carriers ==
  (UNION {{<<"message", m, copy>> : copy \in 1..queue[m]} : m \in Waiting})
    \cup {<<"worker", w>> : w \in {v \in Workers : Carries(worker[v])}}
    \cup (IF api = "none" THEN {} ELSE {<<"api">>})
AtMostOneCarrier == \A c, d \in Carriers : c = d

(* docs: retry_count is the number of applied patches, and at most max_fix_attempts. *)
RetryCountsPatches == hist.patches = job.retry

(* docs, part C(a): no more than max_fix_attempts patches of Agent 4 per job.        *)
PatchesBounded == hist.patches <= MaxFixAttempts

(* check_fix_guards (d): no_progress is a verdict on Agent 4, so between the failure *)
(* that set last_failure_signature and the verdict Agent 4 has spoken.               *)
NoProgressIsReal ==
  [][job'.reason = "no_progress" /\ job.reason # "no_progress" => hist.spoke]_vars

(* Every job reaches LIVE or FAILED and so gives its concurrency slot back, even if   *)
(* no worker ever finishes anything: the reconciler, the wall clock and the sweeper   *)
(* are enough.                                                                        *)
Settles == <>(job.state \in TerminalStates)

(* Without overlapping tasks the pipeline implements the documented state machine:   *)
(* only its edges, one charge before the work counts, at most max_fix_attempts       *)
(* patches.                                                                          *)
Lifecycle == INSTANCE JobLifecycle
  WITH state <- job.state, charged <- charges > 0, patches <- hist.patches

ImplementsLifecycle == Lifecycle!Spec
================================================================================
