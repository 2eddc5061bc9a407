--------------------------- MODULE JobPipelineProofs ---------------------------
(* Theorems about JobPipeline, for every number of workers, signatures, patches,    *)
(* retries and messages: first those that hold with and without overlapping tasks,   *)
(* then the sequential regime (~Overlap), in which a job has one carrier.            *)
EXTENDS JobPipeline, TLAPS

USE ConstantsAssumption

--------------------------------------------------------------------------------
(* The helpers stay in their sets. *)

(* The idle record is a worker state.                                              *)
LEMMA IdleType == Idle \in WorkerStates
BY DEF Idle, WorkerStates, Pcs, Tasks, LlmTasks, JobStates, Signature

(* A first delivery is a message.                                                  *)
LEMMA FreshType == ASSUME NEW t \in Tasks PROVE Fresh(t) \in Messages
BY DEF Fresh, Messages

(* dispatch_for_state finds a task for every state that holds work.                *)
LEMMA TaskForType ==
  /\ \A kind \in Kinds, s \in JobStates : TaskFor(kind, s) \in Tasks \cup {"none"}
  /\ \A kind \in Kinds, s \in ResumableStates : TaskFor(kind, s) \in Tasks
BY DEF TaskFor, Tasks, LlmTasks, JobStates, Kinds, ResumableStates

(* transition() and fail_job leave a row of the table.                             *)
LEMMA RowType ==
  ASSUME job \in JobRows
  PROVE  /\ \A to \in JobStates : Moved(to) \in JobRows
         /\ \A r \in Reasons : Failed(r) \in JobRows
BY DEF JobRows, Moved, Failed, JobStates

(* Putting a message in the queue and taking one out keep it a bag.                *)
LEMMA PutType ==
  ASSUME queue \in [Messages -> Nat], NEW m \in Messages
  PROVE  Put(m) \in [Messages -> Nat]
BY DEF Put

(* The ways a worker goes on keep its state a worker state.                        *)
LEMMA WorkerType ==
  ASSUME worker \in [Workers -> WorkerStates], NEW w \in Workers
  PROVE  /\ Release(w) => worker' \in [Workers -> WorkerStates]
         /\ End(w) => worker' \in [Workers -> WorkerStates]
         /\ \A pc \in Pcs : Goto(w, pc) => worker' \in [Workers -> WorkerStates]
         /\ \A t \in Tasks : ThenDispatch(w, t) => worker' \in [Workers -> WorkerStates]
<1>1. Release(w) => worker' \in [Workers -> WorkerStates]
  BY IdleType DEF Release
<1>2. \A pc \in Pcs : Goto(w, pc) => worker' \in [Workers -> WorkerStates]
  BY DEF Goto, WorkerStates
<1>3. \A t \in Tasks \cup {"none"} :
        ThenDispatch(w, t) => worker' \in [Workers -> WorkerStates]
  <2>1. \A t \in Tasks \cup {"none"} :
          [worker[w] EXCEPT !.pc = "ack", !.next = t] \in WorkerStates
    BY DEF WorkerStates, Pcs
  <2>2. QED
    BY <2>1 DEF ThenDispatch
<1>4. QED
  BY <1>1, <1>2, <1>3 DEF End

(* The ways a task ends a turn, with what they do to the row and the worker.       *)
LEMMA EndType ==
  ASSUME TypeOK, NEW w \in Workers
  PROVE  /\ \A r \in Reasons : EndWith(w, r) =>
               job' \in JobRows /\ worker' \in [Workers -> WorkerStates]
         /\ AgentTrips(w) => job' \in JobRows /\ worker' \in [Workers -> WorkerStates]
         /\ \A r \in Reasons : FixFails(w, r) =>
               job' \in JobRows /\ worker' \in [Workers -> WorkerStates]
         /\ EnterFixing(w) => job' \in JobRows /\ worker' \in [Workers -> WorkerStates]
         /\ \A to \in JobStates : Commit(w, Moved(to), End(w)) =>
               job' \in JobRows /\ worker' \in [Workers -> WorkerStates]
         /\ \A to \in JobStates, t \in Tasks : Commit(w, Moved(to), ThenDispatch(w, t)) =>
               job' \in JobRows /\ worker' \in [Workers -> WorkerStates]
         /\ \A to \in JobStates, pc \in Pcs : Commit(w, Moved(to), Goto(w, pc)) =>
               job' \in JobRows /\ worker' \in [Workers -> WorkerStates]
<1>1. \A r \in Reasons : EndWith(w, r) =>
        job' \in JobRows /\ worker' \in [Workers -> WorkerStates]
  BY RowType, WorkerType DEF TypeOK, EndWith
<1>2. AgentFailures \subseteq Reasons
  BY DEF Reasons
<1>3. AgentTrips(w) => job' \in JobRows /\ worker' \in [Workers -> WorkerStates]
  BY <1>1, <1>2 DEF AgentTrips
<1>4. "edit_failed_rolled_back" \in Reasons
  BY DEF Reasons
<1>5. \A r \in Reasons : FixFails(w, r) =>
        job' \in JobRows /\ worker' \in [Workers -> WorkerStates]
  BY <1>1, <1>4 DEF FixFails
<1>6. ASSUME EnterFixing(w)
      PROVE  job' \in JobRows /\ worker' \in [Workers -> WorkerStates]
  <2>1. PICK sig \in Signatures :
          Commit(w, [Moved("FIXING") EXCEPT
                       !.logSig = sig,
                       !.pending = Flushed(worker[w].pending, TRUE, job.pending)],
                 ThenDispatch(w, "fix"))
    BY <1>6 DEF EnterFixing
  <2>2. worker' \in [Workers -> WorkerStates]
    BY <2>1, WorkerType DEF TypeOK, Commit, Tasks, LlmTasks
  <2>3. Flushed(worker[w].pending, TRUE, job.pending) \in BOOLEAN
    BY DEF TypeOK, Flushed, JobRows
  <2>4. Moved("FIXING") \in JobRows
    BY RowType DEF TypeOK, JobStates
  <2>5. [Moved("FIXING") EXCEPT
           !.logSig = sig,
           !.pending = Flushed(worker[w].pending, TRUE, job.pending)] \in JobRows
    BY <2>3, <2>4 DEF JobRows, Signature
  <2>6. QED
    BY <2>1, <2>2, <2>5 DEF TypeOK, Commit
<1>7. ASSUME NEW to \in JobStates
      PROVE  /\ Commit(w, Moved(to), End(w)) =>
                   job' \in JobRows /\ worker' \in [Workers -> WorkerStates]
             /\ \A t \in Tasks : Commit(w, Moved(to), ThenDispatch(w, t)) =>
                   job' \in JobRows /\ worker' \in [Workers -> WorkerStates]
             /\ \A pc \in Pcs : Commit(w, Moved(to), Goto(w, pc)) =>
                   job' \in JobRows /\ worker' \in [Workers -> WorkerStates]
  BY RowType, WorkerType DEF TypeOK, Commit
<1>8. QED
  BY <1>1, <1>3, <1>5, <1>6, <1>7

(* What Load writes in the worker.                                                 *)
LEMMA SnapshotType ==
  ASSUME TypeOK, NEW m \in Messages
  PROVE  Snapshot(m) \in WorkerStates
BY DEF TypeOK, Snapshot, WorkerStates, Messages, JobRows, Pcs, Signature

--------------------------------------------------------------------------------
(* Type correctness. *)

(* Every action keeps the types; one step per action.                              *)
LEMMA TypeStep == TypeOK /\ [Next]_vars => TypeOK'
<1> SUFFICES ASSUME TypeOK, [Next]_vars PROVE TypeOK'
  OBVIOUS
<1> DEFINE WorkersOK == worker' \in [Workers -> WorkerStates]
<1>1. CASE UNCHANGED vars
  BY <1>1 DEF TypeOK, vars
<1>2. ASSUME NEW m \in Messages, Preflight(m) PROVE TypeOK'
  <2>1. job' \in JobRows
    BY <1>2, RowType DEF Preflight, TypeOK, Reasons
  <2>2. QED
    BY <1>2, <2>1 DEF Preflight, TypeOK
<1>3. ASSUME NEW w \in Workers, NEW m \in Messages, Load(w, m) PROVE TypeOK'
  <2>1. "project_deleted" \in Reasons /\ "infra_error" \in Reasons
    BY DEF Reasons
  <2>2. job' \in JobRows /\ WorkersOK
    BY <1>3, <2>1, RowType, SnapshotType DEF Load, TypeOK
  <2>3. queue' \in [Messages -> Nat]
    BY <1>3 DEF Load, TypeOK
  <2>4. QED
    BY <1>3, <2>2, <2>3 DEF Load, TypeOK
<1>4. ASSUME NEW w \in Workers, Dispatch(w) PROVE TypeOK'
  <2>1. worker[w].next # "none" => worker[w].next \in Tasks
    BY DEF TypeOK, WorkerStates
  <2>2. queue' \in [Messages -> Nat]
    BY <1>4, <2>1, FreshType, PutType DEF Dispatch, TypeOK
  <2>3. QED
    BY <1>4, <2>2, WorkerType DEF Dispatch, TypeOK
<1>5. ASSUME NEW w \in Workers, Crash(w) PROVE TypeOK'
  <2>1. queue' \in [Messages -> Nat]
    BY <1>5 DEF Crash, Put, TypeOK
  <2>2. QED
    BY <1>5, <2>1, WorkerType DEF Crash, TypeOK
<1>6. ASSUME NEW w \in Workers, TaskError(w) PROVE TypeOK'
  <2>1. queue' \in [Messages -> Nat]
    BY <1>6 DEF TaskError, Put, TypeOK
  <2>2. job' \in JobRows
    BY <1>6, RowType DEF TaskError, TypeOK, Reasons
  <2>3. QED
    BY <1>6, <2>1, <2>2, WorkerType DEF TaskError, TypeOK
<1>7. ASSUME NEW w \in Workers, TaskStep(w) PROVE TypeOK'
  <2> \A to \in {"INTERVIEWING", "AWAITING_CLARIFICATION", "BUILDING", "DEPLOYING", "LIVE",
                 "EDITING"} : to \in JobStates
    BY DEF JobStates
  <2> "agent" \in Pcs /\ "charge" \in Pcs /\ "checked" \in Pcs
    BY DEF Pcs
  <2> "build" \in Tasks /\ "deploy" \in Tasks /\ "fix" \in Tasks
    BY DEF Tasks, LlmTasks
  <2> \A r \in {"infra_error", "project_deleted", "budget_exhausted", "wall_clock_exceeded",
                "build_unrecoverable", "no_progress", "fixer_gave_up", "invalid_agent_output",
                "edit_failed_rolled_back"} : r \in Reasons
    BY DEF Reasons, AgentFailures
  <2>1. CASE InterviewStart(w)
    <3>1. job' \in JobRows /\ WorkersOK
      BY <2>1, EndType DEF InterviewStart
    <3>2. charges' \in Nat
      BY <2>1 DEF InterviewStart, Charge, TypeOK
    <3>3. QED
      BY <2>1, <3>1, <3>2 DEF InterviewStart, TypeOK
  <2>2. CASE InterviewFinish(w)
    <3>1. job' \in JobRows /\ WorkersOK
      BY <2>2, EndType DEF InterviewFinish
    <3>2. QED
      BY <2>2, <3>1 DEF InterviewFinish, TypeOK
  <2>3. CASE SpecFinish(w)
    <3>1. job' \in JobRows /\ WorkersOK
      BY <2>3, EndType DEF SpecFinish
    <3>2. QED
      BY <2>3, <3>1 DEF SpecFinish, TypeOK
  <2>4. CASE BuildFinish(w)
    <3>1. job' \in JobRows /\ WorkersOK
      BY <2>4, EndType DEF BuildFinish
    <3>2. QED
      BY <2>4, <3>1 DEF BuildFinish, TypeOK
  <2>5. CASE DeployRun(w)
    <3>1. job' \in JobRows /\ WorkersOK
      BY <2>5, EndType, WorkerType DEF DeployRun, TypeOK
    <3>2. QED
      BY <2>5, <3>1 DEF DeployRun, TypeOK
  <2>6. CASE DeployFinish(w)
    <3>1. job' \in JobRows /\ WorkersOK
      BY <2>6, EndType DEF DeployFinish
    <3>2. QED
      BY <2>6, <3>1 DEF DeployFinish, TypeOK
  <2>7. CASE FixGuards(w)
    <3>1. CASE FixFails(w, "budget_exhausted") /\ UNCHANGED hist
      <4>1. job' \in JobRows /\ WorkersOK
        BY <3>1, EndType
      <4>2. QED
        BY <2>7, <3>1, <4>1 DEF FixGuards, TypeOK
    <3>2. CASE FixGuard(w) # "pass" /\ FixFails(w, FixGuard(w)) /\ UNCHANGED hist
      <4>1. FixGuard(w) \in Reasons
        BY <3>2 DEF FixGuard
      <4>2. job' \in JobRows /\ WorkersOK
        BY <3>2, <4>1, EndType
      <4>3. QED
        BY <2>7, <3>2, <4>2 DEF FixGuards, TypeOK
    <3>3. CASE /\ FixGuard(w) = "pass"
               /\ job' = [job EXCEPT
                            !.lastSig = Flushed(worker[w].lastSig, worker[w].sig, job.lastSig),
                            !.pending = Flushed(worker[w].pending, FALSE, job.pending)]
               /\ worker' = [worker EXCEPT ![w] =
                               [worker[w] EXCEPT !.pc = "agent", !.lastSig = worker[w].sig,
                                                 !.pending = FALSE]]
               /\ hist' = [hist EXCEPT !.spoke = FALSE]
      <4>1. worker[w] \in WorkerStates /\ job \in JobRows
        BY DEF TypeOK
      <4>2. job' \in JobRows
        <5>1. /\ Flushed(worker[w].lastSig, worker[w].sig, job.lastSig) \in Signature
              /\ Flushed(worker[w].pending, FALSE, job.pending) \in BOOLEAN
          BY <4>1 DEF Flushed, JobRows, WorkerStates
        <5>2. QED
          BY <3>3, <4>1, <5>1 DEF JobRows
      <4>3. [worker[w] EXCEPT !.pc = "agent", !.lastSig = worker[w].sig, !.pending = FALSE]
              \in WorkerStates
        BY <4>1 DEF WorkerStates
      <4>4. WorkersOK
        BY <3>3, <4>3 DEF TypeOK
      <4>5. hist' \in [patches : 0..(MaxFixAttempts + 1), spoke : BOOLEAN]
        BY <3>3 DEF TypeOK
      <4>6. QED
        BY <2>7, <4>2, <4>4, <4>5 DEF FixGuards, TypeOK
    <3>4. QED
      BY <2>7, <3>1, <3>2, <3>3 DEF FixGuards
  <2>8. CASE FixFinish(w)
    <3>1. worker[w] \in WorkerStates /\ job \in JobRows
      BY DEF TypeOK
    <3>2. hist' \in [patches : 0..(MaxFixAttempts + 1), spoke : BOOLEAN]
      <4>1. hist \in [patches : 0..(MaxFixAttempts + 1), spoke : BOOLEAN]
        BY DEF TypeOK
      <4>2. hist.patches \in 0..(MaxFixAttempts + 1)
        BY <4>1
      <4>3. PatchCounted \in [patches : 0..(MaxFixAttempts + 1), spoke : BOOLEAN]
        BY <4>2 DEF PatchCounted
      <4>4. [hist EXCEPT !.spoke = TRUE] \in [patches : 0..(MaxFixAttempts + 1), spoke : BOOLEAN]
        BY <4>1
      <4>5. hist' \in {PatchCounted, [hist EXCEPT !.spoke = TRUE], hist}
        BY <2>8 DEF FixFinish
      <4>6. QED
        BY <4>1, <4>3, <4>4, <4>5
    <3>3. CASE Commit(w, [Moved("BUILDING") EXCEPT !.retry = worker[w].retry + 1],
                      ThenDispatch(w, "build"))
      <4>1. Moved("BUILDING") \in JobRows
        BY RowType DEF TypeOK
      <4>2. [Moved("BUILDING") EXCEPT !.retry = worker[w].retry + 1] \in JobRows
        BY <3>1, <4>1 DEF JobRows, WorkerStates
      <4>3. job' \in JobRows /\ WorkersOK
        BY <3>3, <4>2, WorkerType DEF Commit, TypeOK
      <4>4. QED
        BY <2>8, <3>2, <4>3 DEF FixFinish, TypeOK
    <3>4. CASE /\ \E sig \in Signatures :
                    job' = [job EXCEPT !.logSig = sig, !.pending = TRUE, !.stale = FALSE]
               /\ ThenDispatch(w, "fix")
      <4>1. job' \in JobRows
        BY <3>1, <3>4 DEF JobRows, Signature
      <4>2. WorkersOK
        BY <3>4, WorkerType DEF TypeOK
      <4>3. QED
        BY <2>8, <3>2, <4>1, <4>2 DEF FixFinish, TypeOK
    <3>5. CASE \E r \in {"budget_exhausted", "wall_clock_exceeded", "fixer_gave_up"} :
                 FixFails(w, r)
      <4>1. job' \in JobRows /\ WorkersOK
        BY <3>5, EndType
      <4>2. QED
        BY <2>8, <3>2, <4>1 DEF FixFinish, TypeOK
    <3>6. QED
      BY <2>8, <3>3, <3>4, <3>5 DEF FixFinish
  <2>9. CASE EditStart(w)
    <3>1. job' \in JobRows /\ WorkersOK
      BY <2>9, EndType, WorkerType DEF EditStart, TypeOK
    <3>2. QED
      BY <2>9, <3>1 DEF EditStart, TypeOK
  <2>10. CASE EditCharge(w)
    <3>1. charges' \in Nat
      BY <2>10 DEF EditCharge, Charge, TypeOK
    <3>2. QED
      BY <2>10, <3>1, WorkerType DEF EditCharge, TypeOK
  <2>11. CASE EditFinish(w)
    <3>1. job' \in JobRows /\ WorkersOK
      BY <2>11, EndType DEF EditFinish
    <3>2. QED
      BY <2>11, <3>1 DEF EditFinish, TypeOK
  <2>12. QED
    BY <1>7, <2>1, <2>2, <2>3, <2>4, <2>5, <2>6, <2>7, <2>8, <2>9, <2>10, <2>11 DEF TaskStep
<1>8. CASE Beat
  <2>1. CASE SweepClarification
    <3>1. job' \in JobRows
      BY <2>1, RowType DEF SweepClarification, TypeOK, Reasons
    <3>2. QED
      BY <2>1, <3>1 DEF SweepClarification, TypeOK
  <2>2. CASE Reconcile
    <3>1. ASSUME Revoke PROVE queue' \in [Messages -> Nat] /\ WorkersOK
      BY <3>1, WorkerType DEF Revoke, TypeOK
    <3>2. job' \in JobRows
      BY <2>2, RowType DEF Reconcile, TypeOK, Reasons, AgentFailures
    <3>3. job.kind \in Kinds
      BY DEF TypeOK, JobRows
    <3>4. queue' \in [Messages -> Nat] /\ WorkersOK
      BY <2>2, <3>1, <3>3, TaskForType, FreshType, PutType DEF Reconcile, TypeOK
    <3>5. QED
      BY <2>2, <3>2, <3>4 DEF Reconcile, TypeOK
  <2>3. QED
    BY <1>8, <2>1, <2>2 DEF Beat
<1>9. CASE Api
  <2>1. CASE SubmitAnswers
    BY <2>1 DEF SubmitAnswers, TypeOK, JobRows, JobStates, Tasks, LlmTasks
  <2>2. CASE ApiSend
    BY <2>2, FreshType, PutType DEF ApiSend, TypeOK
  <2>3. CASE ApiCrash
    BY <2>3 DEF ApiCrash, TypeOK
  <2>4. CASE DeleteProject
    BY <2>4 DEF DeleteProject, TypeOK
  <2>5. CASE CancelInflightJobs
    BY <2>5 DEF CancelInflightJobs, TypeOK, JobRows, JobStates, Reasons
  <2>6. QED
    BY <1>9, <2>1, <2>2, <2>3, <2>4, <2>5 DEF Api
<1>10. CASE Time
  <2>1. CASE Age
    BY <2>1 DEF Age, TypeOK, JobRows
  <2>2. CASE LockExpires
    BY <2>2 DEF LockExpires, TypeOK
  <2>3. CASE WallClockExpires
    BY <2>3 DEF WallClockExpires, TypeOK
  <2>4. QED
    BY <1>10, <2>1, <2>2, <2>3 DEF Time
<1>11. QED
  BY <1>1, <1>2, <1>3, <1>4, <1>5, <1>6, <1>7, <1>8, <1>9, <1>10 DEF Next, Broker, Worker

(* A row as the services insert it is a row of the table.                          *)
LEMMA InitType == Init => TypeOK
<1> SUFFICES ASSUME Init PROVE TypeOK
  OBVIOUS
<1>1. \A kind \in Kinds, state \in JobStates : Row(kind, state) \in JobRows
  BY DEF Row, JobRows, Reasons, Signature
<1>2. job \in JobRows /\ charges \in Nat
  BY <1>1 DEF Init, Kinds, JobStates
<1>3. api \in Tasks \cup {"none"}
  BY <1>2, TaskForType DEF Init, JobRows
<1>4. worker \in [Workers -> WorkerStates] /\ queue \in [Messages -> Nat]
  BY IdleType DEF Init
<1>5. hist \in [patches : 0..(MaxFixAttempts + 1), spoke : BOOLEAN]
  BY DEF Init
<1>6. QED
  BY <1>2, <1>3, <1>4, <1>5 DEF Init, TypeOK

(* The variables of the pipeline stay in their sets.                               *)
THEOREM TypeCorrect == Spec => []TypeOK
BY InitType, TypeStep, PTL DEF Spec

--------------------------------------------------------------------------------
(* What a step can do to the row. *)

Stays == /\ job'.state = job.state /\ job'.reason = job.reason
         /\ job.logSig # NoSignature => job'.logSig # NoSignature
Moves == /\ Applies /\ job'.state # "FAILED" /\ job'.reason = job.reason
         /\ job'.state = "FIXING" => job'.logSig # NoSignature
Fails == Applies /\ job'.state = "FAILED" /\ job'.reason # "none"
Cancelled == /\ deleted /\ job.state # "FAILED"
             /\ job'.state = "FAILED" /\ job'.reason # "none"
RowEffect == Stays \/ Moves \/ Fails \/ Cancelled

(* fail_job either fails the job or leaves the row alone.                          *)
LEMMA FailedEffect ==
  ASSUME job \in JobRows, NEW r \in Reasons \ {"none"}, job' = Failed(r)
  PROVE  Stays \/ Fails
BY DEF Failed, Moved, Stays, Fails, JobRows

(* A transition that applies moves the state and keeps the rest of the row.        *)
LEMMA MovedEffect ==
  ASSUME job \in JobRows, Applies, NEW to \in JobStates \ {"FAILED", "FIXING"},
         job' = Moved(to)
  PROVE  Moves
BY DEF Moved, Moves, JobRows

(* The turns that end a task, seen from the row.                                   *)
LEMMA EndEffect ==
  ASSUME TypeOK, NEW w \in Workers
  PROVE  /\ \A r \in Reasons \ {"none"} : EndWith(w, r) => RowEffect
         /\ AgentTrips(w) => RowEffect
         /\ \A r \in Reasons \ {"none"} : FixFails(w, r) => RowEffect
         /\ EnterFixing(w) => RowEffect
<1>1. \A r \in Reasons \ {"none"} : EndWith(w, r) => RowEffect
  BY FailedEffect DEF TypeOK, EndWith, RowEffect
<1>2. AgentFailures \subseteq Reasons \ {"none"}
  BY DEF Reasons, AgentFailures
<1>3. AgentTrips(w) => RowEffect
  BY <1>1, <1>2 DEF AgentTrips
<1>4. "edit_failed_rolled_back" \in Reasons \ {"none"}
  BY DEF Reasons
<1>5. \A r \in Reasons \ {"none"} : FixFails(w, r) => RowEffect
  BY <1>1, <1>4 DEF FixFails
<1>6. ASSUME EnterFixing(w) PROVE RowEffect
  <2>1. PICK sig \in Signatures :
          \/ /\ Applies
             /\ job' = [Moved("FIXING") EXCEPT
                          !.logSig = sig,
                          !.pending = Flushed(worker[w].pending, TRUE, job.pending)]
          \/ UNCHANGED job
    BY <1>6 DEF EnterFixing, Commit
  <2>2. QED
    BY <2>1 DEF TypeOK, Moved, JobRows, RowEffect, Moves, Stays
<1>7. QED
  BY <1>1, <1>3, <1>5, <1>6

(* Every step has one of the four effects; the only writer past the barrier is the *)
(* cancellation of a deleted project's jobs.                                       *)
LEMMA StepEffect == TypeOK /\ [Next]_vars => RowEffect
<1> SUFFICES ASSUME TypeOK, [Next]_vars PROVE RowEffect
  OBVIOUS
<1> job \in JobRows
  BY DEF TypeOK
<1> \A r \in {"agent_unavailable", "infra_error", "project_deleted", "clarification_timeout",
              "stuck_timeout", "wall_clock_exceeded", "budget_exhausted", "build_unrecoverable",
              "no_progress", "fixer_gave_up", "invalid_agent_output",
              "edit_failed_rolled_back"} : r \in Reasons \ {"none"}
  BY DEF Reasons, AgentFailures
<1>1. ASSUME UNCHANGED job PROVE RowEffect
  BY <1>1 DEF RowEffect, Stays
<1>2. CASE UNCHANGED vars
  BY <1>1, <1>2 DEF vars
<1>3. ASSUME NEW m \in Messages, Preflight(m) PROVE RowEffect
  BY <1>3, FailedEffect DEF Preflight, RowEffect
<1>4. ASSUME NEW w \in Workers, NEW m \in Messages, Load(w, m) PROVE RowEffect
  BY <1>1, <1>4, FailedEffect DEF Load, RowEffect
<1>5. ASSUME NEW w \in Workers, Dispatch(w) \/ Crash(w) PROVE RowEffect
  BY <1>1, <1>5 DEF Dispatch, Crash
<1>6. ASSUME NEW w \in Workers, TaskError(w) PROVE RowEffect
  BY <1>1, <1>6, FailedEffect DEF TaskError, RowEffect
<1>7. ASSUME NEW w \in Workers, TaskStep(w) PROVE RowEffect
  <2> \A to \in {"INTERVIEWING", "AWAITING_CLARIFICATION", "BUILDING", "DEPLOYING", "LIVE",
                 "EDITING"} : to \in JobStates \ {"FAILED", "FIXING"}
    BY DEF JobStates
  <2>1. CASE \/ InterviewStart(w) \/ InterviewFinish(w) \/ SpecFinish(w) \/ EditStart(w)
             \/ EditFinish(w) \/ DeployFinish(w) \/ BuildFinish(w)
    <3>1. CASE \E to \in JobStates \ {"FAILED", "FIXING"} : Applies /\ job' = Moved(to)
      BY <3>1, MovedEffect DEF RowEffect
    <3>2. CASE \/ EnterFixing(w) \/ AgentTrips(w) \/ EndWith(w, "invalid_agent_output")
               \/ EndWith(w, "edit_failed_rolled_back")
      BY <3>2, EndEffect
    <3>3. \/ UNCHANGED job
          \/ \E to \in JobStates \ {"FAILED", "FIXING"} : Applies /\ job' = Moved(to)
          \/ EnterFixing(w) \/ AgentTrips(w) \/ EndWith(w, "invalid_agent_output")
          \/ EndWith(w, "edit_failed_rolled_back")
      BY <2>1 DEF InterviewStart, InterviewFinish, SpecFinish, EditStart, EditFinish,
                  DeployFinish, BuildFinish, Commit
    <3>4. QED
      BY <1>1, <3>1, <3>2, <3>3
  <2>2. CASE DeployRun(w)
    BY <2>2, <1>1, EndEffect DEF DeployRun
  <2>3. CASE FixGuards(w)
    <3>1. FixGuard(w) \in {"build_unrecoverable", "wall_clock_exceeded", "no_progress", "pass"}
      BY DEF FixGuard
    <3>2. CASE FixGuard(w) = "pass" /\ \E a, b : job' = [job EXCEPT !.lastSig = a, !.pending = b]
      BY <3>2 DEF RowEffect, Stays, JobRows
    <3>3. QED
      BY <2>3, <3>1, <3>2, EndEffect DEF FixGuards
  <2>4. CASE FixFinish(w)
    <3>1. CASE Commit(w, [Moved("BUILDING") EXCEPT !.retry = worker[w].retry + 1],
                      ThenDispatch(w, "build"))
      BY <3>1 DEF Commit, Moved, JobRows, RowEffect, Moves, Stays
    <3>2. CASE \E sig \in Signatures :
                 job' = [job EXCEPT !.logSig = sig, !.pending = TRUE, !.stale = FALSE]
      BY <3>2 DEF JobRows, RowEffect, Stays
    <3>3. QED
      BY <2>4, <3>1, <3>2, EndEffect DEF FixFinish
  <2>5. CASE EditCharge(w)
    BY <2>5, <1>1 DEF EditCharge
  <2>6. QED
    BY <1>7, <2>1, <2>2, <2>3, <2>4, <2>5 DEF TaskStep
<1>8. CASE Beat
  BY <1>1, <1>8, FailedEffect DEF Beat, SweepClarification, Reconcile, RowEffect
<1>9. CASE Api
  <2>1. CASE SubmitAnswers
    BY <2>1 DEF SubmitAnswers, JobRows, RowEffect, Moves, Applies, TerminalStates
  <2>2. CASE CancelInflightJobs
    BY <2>2 DEF CancelInflightJobs, JobRows, RowEffect, Cancelled
  <2>3. QED
    BY <1>1, <1>9, <2>1, <2>2 DEF Api, ApiSend, ApiCrash, DeleteProject
<1>10. CASE Time
  <2>1. CASE Age
    BY <2>1 DEF Age, JobRows, RowEffect, Stays
  <2>2. QED
    BY <1>1, <1>10, <2>1 DEF Time, LockExpires, WallClockExpires
<1>11. QED
  BY <1>2, <1>3, <1>4, <1>5, <1>6, <1>7, <1>8, <1>9, <1>10 DEF Next, Broker, Worker

--------------------------------------------------------------------------------
(* The theorems that follow from the effects. *)

(* transition(): the first terminal write is final, but for the deletion of a live  *)
(* site's project.                                                                  *)
THEOREM TerminalStateIsFinal == Spec => TerminalIsFinal
<1>1. TypeOK /\ [Next]_vars
        => [job.state \in TerminalStates /\ job'.state # job.state
              => job.state = "LIVE" /\ job'.state = "FAILED" /\ deleted]_vars
  BY StepEffect DEF RowEffect, Stays, Moves, Fails, Cancelled, Applies, TerminalStates
<1>2. QED
  BY <1>1, TypeCorrect, PTL DEF Spec, TerminalIsFinal

(* A failure reason stands exactly beside FAILED.                                   *)
THEOREM ReasonStandsBesideFailed == Spec => []ReasonIffFailed
<1>1. Init => ReasonIffFailed
  BY DEF Init, Row, ReasonIffFailed
<1>2. TypeOK /\ ReasonIffFailed /\ [Next]_vars => ReasonIffFailed'
  BY StepEffect
  DEF ReasonIffFailed, RowEffect, Stays, Moves, Fails, Cancelled, Applies, TerminalStates
<1>3. QED
  BY <1>1, <1>2, TypeCorrect, PTL DEF Spec

(* A job in FIXING has the log of its last failure.                                 *)
THEOREM FixingJobHasLog == Spec => []FixingHasLog
<1>1. Init => FixingHasLog
  BY DEF Init, Row, FixingHasLog
<1>2. TypeOK /\ FixingHasLog /\ [Next]_vars => FixingHasLog'
  BY StepEffect DEF FixingHasLog, RowEffect, Stays, Moves, Fails, Cancelled
<1>3. QED
  BY <1>1, <1>2, TypeCorrect, PTL DEF Spec

--------------------------------------------------------------------------------
(* The retry counter. RetryWithinLimit is not inductive: a fix turn writes its own   *)
(* snapshot plus one, so the invariant must also say that every turn past the guards *)
(* loaded a counter below the cap.                                                   *)

RetryInv ==
  /\ RetryWithinLimit
  /\ \A w \in Workers : At(w, "fix", "agent") => worker[w].retry < MaxFixAttempts

(* Every write of the worker table that does not pass the guards keeps the claim     *)
(* about the turns past them.                                                        *)
LEMMA RetryOfTurns ==
  ASSUME TypeOK, RetryInv, NEW w \in Workers, NEW rec \in WorkerStates,
         ~(rec.task = "fix" /\ rec.pc = "agent") \/ rec.retry < MaxFixAttempts,
         worker' = [worker EXCEPT ![w] = rec]
  PROVE  \A v \in Workers : At(v, "fix", "agent")' => worker'[v].retry < MaxFixAttempts
BY DEF TypeOK, RetryInv, At

(* The ways a task goes on, short of Agent 4, write a record of that kind.           *)
LEMMA RetryOfEnds ==
  ASSUME TypeOK, RetryInv, NEW w \in Workers,
         \/ Release(w) \/ End(w) \/ \E t \in Tasks : ThenDispatch(w, t)
         \/ \E pc \in Pcs : Goto(w, pc) /\ ~(pc = "agent" /\ worker[w].task = "fix")
  PROVE  \A v \in Workers : At(v, "fix", "agent")' => worker'[v].retry < MaxFixAttempts
<1>1. worker[w] \in WorkerStates
  BY DEF TypeOK
<1>2. CASE Release(w)
  BY <1>2, IdleType, RetryOfTurns DEF Release, Idle
<1>3. CASE End(w) \/ \E t \in Tasks : ThenDispatch(w, t)
  <2>1. PICK t \in Tasks \cup {"none"} : ThenDispatch(w, t)
    BY <1>3 DEF End
  <2>2. [worker[w] EXCEPT !.pc = "ack", !.next = t] \in WorkerStates
    BY <1>1, <2>1 DEF WorkerStates, Pcs
  <2>3. [worker[w] EXCEPT !.pc = "ack", !.next = t].pc = "ack"
    BY <1>1 DEF WorkerStates
  <2>4. QED
    BY <2>1, <2>2, <2>3, RetryOfTurns DEF ThenDispatch
<1>4. CASE \E pc \in Pcs : Goto(w, pc) /\ ~(pc = "agent" /\ worker[w].task = "fix")
  <2>1. PICK pc \in Pcs : Goto(w, pc) /\ ~(pc = "agent" /\ worker[w].task = "fix")
    BY <1>4
  <2>2. [worker[w] EXCEPT !.pc = pc] \in WorkerStates
    BY <1>1, <2>1 DEF WorkerStates
  <2>3. worker' = [worker EXCEPT ![w] = [worker[w] EXCEPT !.pc = pc]]
    BY <2>1 DEF Goto, TypeOK
  <2>4. /\ [worker[w] EXCEPT !.pc = pc].pc = pc
        /\ [worker[w] EXCEPT !.pc = pc].task = worker[w].task
    BY <1>1 DEF WorkerStates
  <2>5. QED
    BY <2>1, <2>2, <2>3, <2>4, RetryOfTurns
<1>5. QED
  BY <1>2, <1>3, <1>4

(* A step that is not the guards' pass or the patch keeps the counter.               *)
LEMMA RetryKept ==
  ASSUME TypeOK, NEW w \in Workers
  PROVE  /\ \A r \in Reasons : job' = Failed(r) => job'.retry = job.retry
         /\ \A to \in JobStates : job' = Moved(to) => job'.retry = job.retry
         /\ \A r \in Reasons : EndWith(w, r) => job'.retry = job.retry
         /\ AgentTrips(w) => job'.retry = job.retry
         /\ \A r \in Reasons : FixFails(w, r) => job'.retry = job.retry
         /\ EnterFixing(w) => job'.retry = job.retry
<1>1. \A r \in Reasons : job' = Failed(r) => job'.retry = job.retry
  BY DEF TypeOK, JobRows, Failed, Moved
<1>2. \A to \in JobStates : job' = Moved(to) => job'.retry = job.retry
  BY DEF TypeOK, JobRows, Moved
<1>3. \A r \in Reasons : EndWith(w, r) => job'.retry = job.retry
  BY <1>1 DEF EndWith
<1>4. AgentFailures \subseteq Reasons /\ "edit_failed_rolled_back" \in Reasons
  BY DEF Reasons
<1>5. EnterFixing(w) => job'.retry = job.retry
  BY DEF EnterFixing, Commit, Moved, TypeOK, JobRows
<1>6. QED
  BY <1>1, <1>2, <1>3, <1>4, <1>5 DEF AgentTrips, FixFails

(* The invariant of the retry counter is inductive.                                  *)
LEMMA RetryStep == TypeOK /\ RetryInv /\ [Next]_vars => RetryInv'
<1> SUFFICES ASSUME TypeOK, RetryInv, [Next]_vars PROVE RetryInv'
  OBVIOUS
<1> DEFINE Turns == \A v \in Workers : At(v, "fix", "agent")' => worker'[v].retry < MaxFixAttempts
<1> DEFINE Kept == job'.retry = job.retry
<1> \A r \in {"agent_unavailable", "infra_error", "project_deleted", "clarification_timeout",
              "stuck_timeout", "wall_clock_exceeded", "budget_exhausted", "build_unrecoverable",
              "no_progress", "fixer_gave_up", "invalid_agent_output",
              "edit_failed_rolled_back"} : r \in Reasons
  BY DEF Reasons, AgentFailures
<1>1. ASSUME Kept, Turns PROVE RetryInv'
  BY <1>1 DEF RetryInv, RetryWithinLimit
<1>2. ASSUME UNCHANGED worker PROVE Turns
  BY <1>2 DEF RetryInv, At
<1>3. CASE UNCHANGED vars
  BY <1>1, <1>2, <1>3 DEF vars
<1>4. ASSUME NEW m \in Messages, Preflight(m) PROVE RetryInv'
  <2>1. Kept
    BY <1>4 DEF Preflight, TypeOK, JobRows, Failed, Moved
  <2>2. QED
    BY <1>1, <1>2, <1>4, <2>1 DEF Preflight
<1>5. ASSUME NEW w \in Workers, NEW m \in Messages, Load(w, m) PROVE RetryInv'
  <2>1. Kept
    BY <1>5, RetryKept DEF Load
  <2>2. Snapshot(m) \in WorkerStates /\ Snapshot(m).pc = "run"
    BY SnapshotType DEF Snapshot
  <2>3. CASE worker' = [worker EXCEPT ![w] = Snapshot(m)]
    BY <1>1, <2>1, <2>2, <2>3, RetryOfTurns
  <2>4. QED
    BY <1>1, <1>2, <1>5, <2>1, <2>3 DEF Load
<1>6. ASSUME NEW w \in Workers, Dispatch(w) \/ Crash(w) PROVE RetryInv'
  <2>1. Turns
    BY <1>6, RetryOfEnds DEF Dispatch, Crash
  <2>2. QED
    BY <1>1, <1>6, <2>1 DEF Dispatch, Crash
<1>7. ASSUME NEW w \in Workers, TaskError(w) PROVE RetryInv'
  <2>1. Turns
    BY <1>7, RetryOfEnds DEF TaskError
  <2>2. Kept
    BY <1>7, RetryKept DEF TaskError
  <2>3. QED
    BY <1>1, <2>1, <2>2
<1>8. ASSUME NEW w \in Workers, TaskStep(w) PROVE RetryInv'
  <2> \A to \in {"INTERVIEWING", "AWAITING_CLARIFICATION", "BUILDING", "DEPLOYING", "LIVE",
                 "EDITING"} : to \in JobStates
    BY DEF JobStates
  <2> DEFINE Ended == \/ Release(w) \/ End(w) \/ \E t \in Tasks : ThenDispatch(w, t)
                      \/ \E pc \in Pcs : Goto(w, pc) /\ ~(pc = "agent" /\ worker[w].task = "fix")
  <2>1. ASSUME Kept, Ended PROVE RetryInv'
    BY <1>1, <2>1, RetryOfEnds
  <2>2. \A r : EndWith(w, r) => Ended
    BY DEF EndWith
  <2>3. AgentTrips(w) => Ended
    BY <2>2 DEF AgentTrips
  <2>4. \A r : FixFails(w, r) => Ended
    BY <2>2 DEF FixFails
  <2>5. EnterFixing(w) => Ended
    BY DEF EnterFixing, Commit, Tasks, LlmTasks
  <2>6. CASE \/ InterviewStart(w) \/ InterviewFinish(w) \/ SpecFinish(w) \/ EditStart(w)
             \/ EditCharge(w) \/ EditFinish(w) \/ DeployFinish(w) \/ BuildFinish(w)
             \/ DeployRun(w)
    <3>1. Kept
      BY <2>6, RetryKept
      DEF InterviewStart, InterviewFinish, SpecFinish, EditStart, EditCharge, EditFinish,
          DeployFinish, BuildFinish, DeployRun, Commit
    <3>2. Ended
      BY <2>2, <2>3, <2>5, <2>6
      DEF InterviewStart, InterviewFinish, SpecFinish, EditStart, EditCharge, EditFinish,
          DeployFinish, BuildFinish, DeployRun, Commit, At, Pcs, Tasks, LlmTasks
    <3>3. QED
      BY <2>1, <3>1, <3>2
  <2>7. CASE FixGuards(w)
    <3>1. FixGuard(w) \in {"build_unrecoverable", "wall_clock_exceeded", "no_progress", "pass"}
      BY DEF FixGuard
    <3>2. CASE \E r \in Reasons : FixFails(w, r)
      BY <2>1, <2>4, <3>2, RetryKept
    <3>3. CASE /\ FixGuard(w) = "pass"
               /\ \E a, b : job' = [job EXCEPT !.lastSig = a, !.pending = b]
               /\ worker' = [worker EXCEPT ![w] =
                               [worker[w] EXCEPT !.pc = "agent", !.lastSig = worker[w].sig,
                                                 !.pending = FALSE]]
      <4>1. worker[w].retry < MaxFixAttempts
        BY <3>3 DEF FixGuard, TypeOK, WorkerStates
      <4>2. Kept
        BY <3>3 DEF TypeOK, JobRows
      <4>3. worker[w] \in WorkerStates
        BY DEF TypeOK
      <4>4. LET rec == [worker[w] EXCEPT !.pc = "agent", !.lastSig = worker[w].sig,
                                         !.pending = FALSE]
            IN  rec \in WorkerStates /\ rec.retry = worker[w].retry
        BY <4>3 DEF WorkerStates, Pcs
      <4>5. Turns
        BY <3>3, <4>1, <4>4, RetryOfTurns
      <4>6. QED
        BY <1>1, <4>2, <4>5
    <3>4. QED
      BY <2>7, <3>1, <3>2, <3>3 DEF FixGuards
  <2>8. CASE FixFinish(w)
    <3>1. CASE Commit(w, [Moved("BUILDING") EXCEPT !.retry = worker[w].retry + 1],
                      ThenDispatch(w, "build"))
      <4>1. worker[w].retry < MaxFixAttempts /\ worker[w].retry \in Nat
        BY <2>8 DEF FixFinish, RetryInv, TypeOK, WorkerStates
      <4>2. job'.retry \in {job.retry, worker[w].retry + 1}
        BY <3>1 DEF Commit, Moved, TypeOK, JobRows
      <4>3. job'.retry <= MaxFixAttempts
        BY <4>1, <4>2 DEF RetryInv, RetryWithinLimit
      <4>4. Ended
        BY <3>1 DEF Commit, Tasks
      <4>5. Turns
        BY <4>4, RetryOfEnds
      <4>6. QED
        BY <4>3, <4>5 DEF RetryInv, RetryWithinLimit
    <3>2. CASE /\ \E sig \in Signatures :
                    job' = [job EXCEPT !.logSig = sig, !.pending = TRUE, !.stale = FALSE]
               /\ ThenDispatch(w, "fix")
      <4>1. Kept
        BY <3>2 DEF TypeOK, JobRows
      <4>2. QED
        BY <2>1, <3>2, <4>1 DEF Tasks, LlmTasks
    <3>3. CASE \E r \in Reasons : FixFails(w, r)
      BY <2>1, <2>4, <3>3, RetryKept
    <3>4. QED
      BY <2>8, <3>1, <3>2, <3>3 DEF FixFinish
  <2>9. QED
    BY <1>8, <2>6, <2>7, <2>8 DEF TaskStep
<1>9. CASE Beat
  <2>1. Kept
    BY <1>9 DEF Beat, SweepClarification, Reconcile, TypeOK, JobRows, Failed, Moved
  <2>2. UNCHANGED worker \/ \E w \in Workers : Release(w)
    BY <1>9 DEF Beat, SweepClarification, Reconcile, Revoke
  <2>3. Turns
    BY <1>2, <2>2, RetryOfEnds
  <2>4. QED
    BY <1>1, <2>1, <2>3
<1>10. CASE Api \/ Time
  <2>1. Kept /\ UNCHANGED worker
    BY <1>10
    DEF Api, Time, SubmitAnswers, ApiSend, ApiCrash, DeleteProject, CancelInflightJobs, Age,
        LockExpires, WallClockExpires, TypeOK, JobRows
  <2>2. QED
    BY <1>1, <1>2, <2>1
<1>11. QED
  BY <1>3, <1>4, <1>5, <1>6, <1>7, <1>8, <1>9, <1>10 DEF Next, Broker, Worker

(* check_fix_guards (a): the counter never passes max_fix_attempts, with any number  *)
(* of fix turns running at once.                                                     *)
THEOREM RetryCounterBounded == Spec => []RetryWithinLimit
<1>1. Init => RetryInv
  BY DEF Init, Row, RetryInv, RetryWithinLimit, At, Idle
<1>2. RetryInv => RetryWithinLimit
  BY DEF RetryInv
<1>3. QED
  BY <1>1, <1>2, RetryStep, TypeCorrect, PTL DEF Spec
--------------------------------------------------------------------------------
(* The charge. While the job is uncharged nothing beyond the first commit of its     *)
(* interview or edit has begun: the invariant says so of the row and of the workers.  *)

NotBegun(rec) ==
  /\ ~rec.counted
  /\ \/ rec.pc \in {"idle", "ack"}
     \/ rec.task \in {"interview", "edit"} /\ rec.pc \in {"run", "charge"}
ChargeInv ==
  charges = 0 => /\ job.state \in {"CREATED", "EDITING", "FAILED"}
                 /\ \A w \in Workers : NotBegun(worker[w])

(* Writing one worker record that has not begun keeps the claim about all of them.    *)
LEMMA ChargeOfTurns ==
  ASSUME TypeOK, \A v \in Workers : NotBegun(worker[v]), NEW w \in Workers,
         \/ Release(w) \/ End(w) \/ \E t : ThenDispatch(w, t)
         \/ worker[w].task = "edit" /\ Goto(w, "charge")
  PROVE  \A v \in Workers : NotBegun(worker'[v])
<1>1. worker[w] \in WorkerStates
  BY DEF TypeOK
<1>2. CASE Release(w)
  BY <1>2 DEF Release, Idle, NotBegun, TypeOK
<1>3. CASE End(w) \/ \E t : ThenDispatch(w, t)
  <2>1. PICK t : worker' = [worker EXCEPT ![w] = [worker[w] EXCEPT !.pc = "ack", !.next = t]]
    BY <1>3 DEF End, ThenDispatch, TypeOK
  <2>2. NotBegun([worker[w] EXCEPT !.pc = "ack", !.next = t])
    BY <1>1 DEF NotBegun, WorkerStates
  <2>3. QED
    BY <2>1, <2>2 DEF TypeOK
<1>4. CASE worker[w].task = "edit" /\ Goto(w, "charge")
  <2>1. worker' = [worker EXCEPT ![w] = [worker[w] EXCEPT !.pc = "charge"]]
    BY <1>4 DEF Goto, TypeOK
  <2>2. NotBegun([worker[w] EXCEPT !.pc = "charge"])
    BY <1>1, <1>4 DEF NotBegun, WorkerStates
  <2>3. QED
    BY <2>1, <2>2 DEF TypeOK
<1>5. QED
  BY <1>2, <1>3, <1>4

(* The ways a task fails the job, from the row of an uncharged job.                   *)
LEMMA UnchargedFails ==
  ASSUME TypeOK, job.state \in {"CREATED", "EDITING", "FAILED"},
         \E r : job' = Failed(r)
  PROVE  job'.state \in {"CREATED", "EDITING", "FAILED"}
BY DEF TypeOK, JobRows, Failed, Moved

(* The invariant of the charge is inductive.                                          *)
LEMMA ChargeStep == TypeOK /\ ChargeInv /\ [Next]_vars => ChargeInv'
<1> SUFFICES ASSUME TypeOK, ChargeInv, [Next]_vars, charges' = 0
             PROVE  /\ job'.state \in {"CREATED", "EDITING", "FAILED"}
                    /\ \A v \in Workers : NotBegun(worker'[v])
  BY DEF ChargeInv
<1> DEFINE Row0 == job'.state \in {"CREATED", "EDITING", "FAILED"}
<1> DEFINE Turns == \A v \in Workers : NotBegun(worker'[v])
<1>1. charges = 0
  <2>1. charges' = charges \/ \E w \in Workers : Charge(w)
    BY DEF Next, vars, Broker, Preflight, Load, Worker, Dispatch, Crash, TaskError, TaskStep,
           InterviewStart, InterviewFinish, SpecFinish, BuildFinish, DeployRun, DeployFinish,
           FixGuards, FixFinish, EditStart, EditCharge, EditFinish, Beat, SweepClarification,
           Reconcile, Api, SubmitAnswers, ApiSend, ApiCrash, DeleteProject,
           CancelInflightJobs, Time, Age, LockExpires, WallClockExpires
  <2>2. QED
    BY <2>1 DEF Charge, TypeOK
<1>2. /\ job.state \in {"CREATED", "EDITING", "FAILED"}
      /\ \A v \in Workers : NotBegun(worker[v])
  BY <1>1 DEF ChargeInv
<1>3. ASSUME UNCHANGED worker PROVE Turns
  BY <1>2, <1>3
<1>4. ASSUME UNCHANGED job PROVE Row0
  BY <1>2, <1>4
<1>5. ASSUME NEW r, job' = Failed(r) PROVE Row0
  BY <1>2, <1>5, UnchargedFails
<1>6. ASSUME NEW w \in Workers, NEW r, EndWith(w, r) PROVE Row0 /\ Turns
  BY <1>2, <1>5, <1>6, ChargeOfTurns DEF EndWith
<1>7. CASE UNCHANGED vars
  BY <1>3, <1>4, <1>7 DEF vars
<1>8. ASSUME NEW m \in Messages, Preflight(m) PROVE Row0 /\ Turns
  BY <1>3, <1>5, <1>8 DEF Preflight
<1>9. ASSUME NEW w \in Workers, NEW m \in Messages, Load(w, m) PROVE Row0 /\ Turns
  <2>1. Row0
    BY <1>4, <1>5, <1>9 DEF Load
  <2>2. CASE UNCHANGED worker
    BY <1>3, <2>1, <2>2
  <2>3. CASE Accepts(m.task) /\ worker' = [worker EXCEPT ![w] = Snapshot(m)]
    <3>1. m.task \in {"interview", "edit"}
      BY <1>2, <2>3 DEF Accepts, Messages, Tasks, LlmTasks
    <3>2. NotBegun(Snapshot(m))
      <4>1. ~(charges > 0)
        BY <1>1
      <4>2. Snapshot(m).counted = FALSE
        BY <4>1 DEF Snapshot
      <4>3. Snapshot(m).task = m.task /\ Snapshot(m).pc = "run"
        BY DEF Snapshot
      <4>4. QED
        BY <3>1, <4>2, <4>3 DEF NotBegun
    <3>3. QED
      BY <1>2, <2>1, <2>3, <3>2 DEF TypeOK
  <2>4. QED
    BY <1>9, <2>2, <2>3 DEF Load
<1>10. ASSUME NEW w \in Workers, Dispatch(w) \/ Crash(w) \/ TaskError(w) PROVE Row0 /\ Turns
  BY <1>2, <1>4, <1>5, <1>10, ChargeOfTurns DEF Dispatch, Crash, TaskError
<1>11. ASSUME NEW w \in Workers, TaskStep(w) PROVE Row0 /\ Turns
  <2>1. NotBegun(worker[w]) /\ worker[w] \in WorkerStates
    BY <1>2 DEF TypeOK
  <2>2. CASE InterviewStart(w)
    <3>1. ~Applies
      BY <1>1, <2>1, <2>2 DEF InterviewStart, Charge, NotBegun
    <3>2. QED
      BY <1>2, <1>4, <2>2, <3>1, ChargeOfTurns DEF InterviewStart, Commit
  <2>3. CASE EditStart(w)
    <3>1. CASE EndWith(w, "invalid_agent_output")
      BY <1>6, <3>1
    <3>2. CASE Commit(w, Moved("EDITING"), Goto(w, "charge"))
      <4>1. Row0
        BY <1>4, <3>2 DEF Commit, Moved, TypeOK, JobRows
      <4>2. QED
        BY <1>2, <2>3, <3>2, <4>1, ChargeOfTurns DEF Commit, EditStart, At
    <3>3. CASE UNCHANGED job /\ Goto(w, "charge")
      BY <1>2, <1>4, <2>3, <3>3, ChargeOfTurns DEF EditStart, At
    <3>4. QED
      BY <2>3, <3>1, <3>2, <3>3 DEF EditStart
  <2>4. CASE EditCharge(w)
    BY <1>1, <2>1, <2>4 DEF EditCharge, Charge, NotBegun
  <2>5. CASE \/ InterviewFinish(w) \/ SpecFinish(w) \/ BuildFinish(w) \/ DeployRun(w)
             \/ DeployFinish(w) \/ FixGuards(w) \/ FixFinish(w) \/ EditFinish(w)
    BY <2>1, <2>5
    DEF InterviewFinish, SpecFinish, BuildFinish, DeployRun, DeployFinish, FixGuards, FixFinish,
        EditFinish, At, NotBegun
  <2>6. QED
    BY <1>11, <2>2, <2>3, <2>4, <2>5 DEF TaskStep
<1>12. CASE Beat
  <2>1. UNCHANGED job \/ \E r : job' = Failed(r)
    BY <1>12 DEF Beat, SweepClarification, Reconcile
  <2>2. UNCHANGED worker \/ \E w \in Workers : Release(w)
    BY <1>12 DEF Beat, SweepClarification, Reconcile, Revoke
  <2>3. QED
    BY <1>2, <1>3, <1>4, <1>5, <2>1, <2>2, ChargeOfTurns
<1>13. CASE Api \/ Time
  <2>1. UNCHANGED worker
    BY <1>13 DEF Api, Time, SubmitAnswers, ApiSend, ApiCrash, DeleteProject, CancelInflightJobs,
                 Age, LockExpires, WallClockExpires
  <2>2. Row0
    BY <1>2, <1>4, <1>13
    DEF Api, Time, SubmitAnswers, ApiSend, ApiCrash, DeleteProject, CancelInflightJobs,
        Age, LockExpires, WallClockExpires, TypeOK, JobRows
  <2>3. QED
    BY <1>3, <2>1, <2>2
<1>14. QED
  BY <1>7, <1>8, <1>9, <1>10, <1>11, <1>12, <1>13 DEF Next, Broker, Worker

(* usage.py: whatever is redelivered, retried or resumed, a job that has got past its  *)
(* first agent call has been charged.                                                 *)
THEOREM WorkIsCharged == Spec => []ChargedBeforeWork
<1>1. Init => ChargeInv
  BY DEF Init, Row, ChargeInv, NotBegun, Idle
<1>2. TypeOK /\ ChargeInv => ChargedBeforeWork
  BY DEF TypeOK, ChargeInv, ChargedBeforeWork
<1>3. QED
  BY <1>1, <1>2, ChargeStep, TypeCorrect, PTL DEF Spec

--------------------------------------------------------------------------------
(* Without overlapping tasks (~Overlap) the job has one carrier. The invariant has     *)
(* three parts: Seated, who carries it; TurnsInv, what a turn may rely on although the  *)
(* row was read when it began; RowInv, what the row says for itself.                    *)

Empty == [m \in Messages |-> 0]
Only(m) == [Empty EXCEPT ![m] = 1]
NoneWorks == \A w \in Workers : ~Carries(worker[w])

Free == api = "none" /\ queue = Empty /\ NoneWorks
Sending == api # "none" /\ queue = Empty /\ NoneWorks
Queued(m) == api = "none" /\ queue = Only(m) /\ NoneWorks
Held(w) == /\ api = "none" /\ queue = Empty /\ Carries(worker[w])
           /\ \A v \in Workers \ {w} : ~Carries(worker[v])

Seated == \/ Free \/ Sending
          \/ \E m \in Messages : Queued(m)
          \/ \E w \in Workers : Held(w)

(* Whoever is seen carrying the job is alone.                                           *)
LEMMA Alone ==
  ASSUME Seated
  PROVE  /\ \A w \in Workers : Carries(worker[w]) => Held(w)
         /\ \A m \in Messages : queue[m] > 0 => Queued(m)
         /\ api # "none" => Sending
<1>1. ASSUME NEW w \in Workers, Carries(worker[w]) PROVE Held(w)
  BY <1>1 DEF Seated, Free, Sending, Queued, Held, NoneWorks
<1>2. \A m \in Messages : Empty[m] = 0
  BY DEF Empty
<1>3. \A m, n \in Messages : Only(m)[n] > 0 => m = n
  BY <1>2 DEF Only, Empty
<1>4. QED
  BY <1>1, <1>2, <1>3 DEF Seated, Free, Sending, Queued, Held

(* A message put into an empty queue, or taken out of a queue of one.                   *)
LEMMA QueueOfOne ==
  ASSUME NEW m \in Messages
  PROVE  /\ queue = Empty => Put(m) = Only(m)
         /\ queue = Only(m) => [queue EXCEPT ![m] = @ - 1] = Empty
<1>1. Empty \in [Messages -> Nat] /\ \A n \in Messages : Empty[n] = 0
  BY DEF Empty
<1>2. Only(m) \in [Messages -> Nat] /\ Only(m)[m] = 1
  BY <1>1 DEF Only
<1>3. \A n \in Messages \ {m} : Only(m)[n] = Empty[n]
  BY <1>1 DEF Only
<1>4. ASSUME queue = Empty PROVE Put(m) = Only(m)
  <2>1. Put(m) = [Empty EXCEPT ![m] = queue[m] + 1]
    BY <1>4 DEF Put
  <2>2. queue[m] + 1 = 1
    BY <1>1, <1>4
  <2>3. QED
    BY <2>1, <2>2 DEF Only
<1>5. ASSUME queue = Only(m) PROVE [queue EXCEPT ![m] = @ - 1] = Empty
  <2>1. queue[m] - 1 = 0
    BY <1>2, <1>5
  <2>2. [queue EXCEPT ![m] = @ - 1] = [n \in Messages |-> IF n = m THEN queue[m] - 1 ELSE queue[n]]
    BY <1>2, <1>5
  <2>3. QED
    BY <1>1, <1>2, <1>3, <1>5, <2>1, <2>2 DEF Empty
<1>6. QED
  BY <1>4, <1>5

(* The ways a turn ends or goes on, seen from the seats.                                *)
LEMMA SeatOfTurn ==
  ASSUME TypeOK, NEW w \in Workers, \A v \in Workers \ {w} : ~Carries(worker[v])
  PROVE  /\ Release(w) \/ End(w) => NoneWorks'
         /\ (\E t \in Tasks : ThenDispatch(w, t)) \/ (\E pc \in Pcs : Goto(w, pc))
              => \A v \in Workers \ {w} : ~Carries(worker'[v])
         /\ \A t \in Tasks : ThenDispatch(w, t) => Carries(worker'[w])
         /\ \A pc \in Pcs \ {"idle", "ack"} : Goto(w, pc) => Carries(worker'[w])
<1>1. worker[w] \in WorkerStates /\ worker \in [Workers -> WorkerStates]
  BY DEF TypeOK
<1>2. ~Carries(Idle)
  BY DEF Idle, Carries
<1>3. Release(w) => NoneWorks'
  BY <1>1, <1>2 DEF Release, NoneWorks
<1>4. ~Carries([worker[w] EXCEPT !.pc = "ack", !.next = "none"])
  BY <1>1 DEF Carries, WorkerStates
<1>5. End(w) => NoneWorks'
  BY <1>1, <1>4 DEF End, ThenDispatch, NoneWorks
<1>6. (\E t \in Tasks : ThenDispatch(w, t)) \/ (\E pc \in Pcs : Goto(w, pc))
        => \A v \in Workers \ {w} : ~Carries(worker'[v])
  BY <1>1 DEF ThenDispatch, Goto
<1>7. ASSUME NEW t \in Tasks, ThenDispatch(w, t) PROVE Carries(worker'[w])
  BY <1>1, <1>7 DEF ThenDispatch, Carries, WorkerStates, Tasks, LlmTasks
<1>8. ASSUME NEW pc \in Pcs \ {"idle", "ack"}, Goto(w, pc) PROVE Carries(worker'[w])
  BY <1>1, <1>8 DEF Goto, Carries, WorkerStates
<1>9. QED
  BY <1>3, <1>5, <1>6, <1>7, <1>8

(* A worker that only has to acknowledge is nobody's carrier; when it is released the   *)
(* seats are as before.                                                                 *)
LEMMA SeatOfAck ==
  ASSUME TypeOK, Seated, NEW w \in Workers, ~Carries(worker[w]), Release(w),
         UNCHANGED <<queue, api>>
  PROVE  Seated' /\ (Free => Free')
<1>1. worker \in [Workers -> WorkerStates] /\ ~Carries(Idle)
  BY DEF TypeOK, Idle, Carries
<1>2. \A v \in Workers : Carries(worker'[v]) <=> Carries(worker[v])
  BY <1>1 DEF Release
<1>3. NoneWorks => NoneWorks'
  BY <1>2 DEF NoneWorks
<1>4. \A v \in Workers : Held(v) => Held(v)'
  BY <1>2 DEF Held
<1>5. QED
  BY <1>3, <1>4 DEF Seated, Free, Sending, Queued

Busy(rec) == rec.pc \notin {"idle", "ack"}
InPlace(rec, state) ==
  \/ rec.task = "interview" /\ rec.pc = "run" /\ state = "CREATED"
  \/ rec.task = "interview" /\ rec.pc = "agent" /\ state = "INTERVIEWING"
  \/ rec.task = "spec" /\ rec.pc = "run" /\ state = "SPECCING"
  \/ rec.task = "build" /\ rec.pc = "run" /\ state = "BUILDING"
  \/ rec.task = "deploy" /\ rec.pc \in {"run", "checked"} /\ state = "DEPLOYING"
  \/ rec.task = "fix" /\ rec.pc \in {"run", "agent"} /\ state = "FIXING"
  \/ /\ rec.task = "edit" /\ rec.pc = "run" /\ rec.seen = state
     /\ state \in {"CREATED", "EDITING"}
  \/ rec.task = "edit" /\ rec.pc \in {"charge", "agent"} /\ state = "EDITING"
Knows(rec, row, markers) ==
  /\ rec.task = "fix" => /\ rec.retry = row.retry /\ rec.lastSig = row.lastSig
                         /\ rec.sig = row.logSig /\ rec.pending = row.pending
  /\ rec.task \in {"interview", "edit"} /\ rec.pc \in {"run", "charge"}
       => (rec.counted <=> markers > 0)
Relies(rec, row, markers) ==
  (row.state = "FAILED" \/ InPlace(rec, row.state)) /\ Knows(rec, row, markers)

(* The row of a turn is where the turn has left it, or has been failed meanwhile, and    *)
(* the columns the turn has read and will write are as it has read them.                *)
TurnsInv ==
  \A w \in Workers : Busy(worker[w]) => Relies(worker[w], job, charges)

Parked == job.state \in {"AWAITING_CLARIFICATION", "LIVE"} => Free
Guarded == job.stale /\ job.state \notin TerminalStates \cup {"SPECCING"} => Free \/ lock
Unfixed == job.state \notin ResumableStates \cup TerminalStates => job.lastSig = NoSignature
Spoken ==
  job.lastSig # NoSignature /\ (job.pending \/ job.state \in {"BUILDING", "DEPLOYING"})
    => hist.spoke
RowInv == Parked /\ Guarded /\ RetryCountsPatches /\ ChargedOnce /\ Unfixed /\ Spoken

(* A task step is taken by the holder, who goes on, has something to publish, or is done. *)
LEMMA TurnOutcome ==
  ASSUME TypeOK, NEW w \in Workers, TaskStep(w)
  PROVE  /\ Busy(worker[w]) /\ UNCHANGED <<queue, api>>
         /\ \/ End(w)
            \/ \E t \in Tasks : ThenDispatch(w, t)
            \/ \E pc \in Pcs \ {"idle", "ack"} :
                 worker' = [worker EXCEPT ![w] = worker'[w]] /\ worker'[w].pc = pc
<1> worker[w] \in WorkerStates /\ worker \in [Workers -> WorkerStates]
  BY DEF TypeOK
<1>1. Busy(worker[w]) /\ UNCHANGED <<queue, api>>
  BY DEF TaskStep, InterviewStart, InterviewFinish, SpecFinish, BuildFinish, DeployRun,
         DeployFinish, FixGuards, FixFinish, EditStart, EditCharge, EditFinish, At, Busy
<1> DEFINE Onward == \E pc \in Pcs \ {"idle", "ack"} :
                       worker' = [worker EXCEPT ![w] = worker'[w]] /\ worker'[w].pc = pc
<1> DEFINE Published == \E t \in Tasks : ThenDispatch(w, t)
<1>2. \A pc \in {"agent", "charge", "checked"} : Goto(w, pc) => Onward
  BY DEF Goto, Pcs, WorkerStates
<1>3. \A r : EndWith(w, r) => End(w)
  BY DEF EndWith
<1>4. /\ AgentTrips(w) => End(w)
      /\ \A r : FixFails(w, r) => End(w)
  BY <1>3 DEF AgentTrips, FixFails
<1>5. {"build", "deploy", "fix"} \subseteq Tasks
  BY DEF Tasks, LlmTasks
<1>6. EnterFixing(w) => End(w) \/ Published
  BY <1>5 DEF EnterFixing, Commit
<1>7. CASE InterviewStart(w) \/ EditStart(w) \/ EditCharge(w)
  BY <1>1, <1>2, <1>3, <1>7 DEF InterviewStart, EditStart, EditCharge, Commit
<1>8. CASE InterviewFinish(w) \/ SpecFinish(w) \/ EditFinish(w)
  BY <1>1, <1>3, <1>4, <1>5, <1>8 DEF InterviewFinish, SpecFinish, EditFinish, Commit
<1>9. CASE BuildFinish(w) \/ DeployRun(w) \/ DeployFinish(w)
  BY <1>1, <1>2, <1>3, <1>5, <1>6, <1>9 DEF BuildFinish, DeployRun, DeployFinish, Commit
<1>10. CASE FixGuards(w)
  <2>1. CASE worker' = [worker EXCEPT ![w] = [worker[w] EXCEPT !.pc = "agent",
                                        !.lastSig = worker[w].sig, !.pending = FALSE]]
    <3>1. Onward
      BY <2>1 DEF Pcs, WorkerStates
    <3>2. QED
      BY <1>1, <3>1
  <2>2. QED
    BY <1>1, <1>4, <1>10, <2>1 DEF FixGuards
<1>11. CASE FixFinish(w)
  BY <1>1, <1>4, <1>5, <1>11 DEF FixFinish, Commit
<1>12. QED
  BY <1>7, <1>8, <1>9, <1>10, <1>11 DEF TaskStep

(* One carrier stays one carrier, whatever is redelivered, retried, killed or sent again. *)
LEMMA SeatStep ==
  ASSUME ~Overlap, TypeOK, Seated, RowInv, [Next]_vars
  PROVE  Seated'
<1>1. ASSUME UNCHANGED <<queue, worker, api>> PROVE Seated'
  BY <1>1 DEF Seated, Free, Sending, Queued, Held, NoneWorks
<1>2. CASE UNCHANGED vars
  BY <1>1, <1>2 DEF vars
<1>3. ASSUME NEW m \in Messages, Preflight(m) PROVE Seated'
  <2>1. Queued(m)
    BY <1>3, Alone DEF Preflight
  <2>2. Free'
    BY <1>3, <2>1, QueueOfOne DEF Preflight, Queued, Free, NoneWorks
  <2>3. QED
    BY <2>2 DEF Seated
<1>4. ASSUME NEW w \in Workers, NEW m \in Messages, Load(w, m) PROVE Seated'
  <2>1. Queued(m)
    BY <1>4, Alone DEF Load
  <2>2. queue' = Empty /\ api' = "none"
    BY <1>4, <2>1, QueueOfOne DEF Load, Queued
  <2>3. CASE UNCHANGED worker
    BY <2>1, <2>2, <2>3 DEF Queued, Free, NoneWorks, Seated
  <2>4. CASE worker' = [worker EXCEPT ![w] = Snapshot(m)]
    <3>1. Carries(Snapshot(m))
      BY DEF Carries, Snapshot
    <3>2. Held(w)'
      BY <2>1, <2>2, <2>4, <3>1 DEF Queued, Held, NoneWorks, TypeOK
    <3>3. QED
      BY <3>2 DEF Seated
  <2>5. QED
    BY <1>4, <2>3, <2>4 DEF Load
<1>5. ASSUME NEW w \in Workers, Dispatch(w) PROVE Seated'
  <2>1. CASE worker[w].next = "none"
    BY <1>5, <2>1, SeatOfAck DEF Dispatch, Carries
  <2>2. CASE worker[w].next # "none"
    <3>1. Held(w)
      BY <2>2, Alone DEF Carries
    <3>2. worker[w].next \in Tasks
      BY <2>2 DEF TypeOK, WorkerStates
    <3>3. PICK m \in Messages : m = Fresh(worker[w].next)
      BY <3>2, FreshType
    <3>4. queue' = Only(m)
      BY <1>5, <2>2, <3>1, <3>3, QueueOfOne DEF Dispatch, Held
    <3>5. NoneWorks'
      BY <1>5, <3>1, SeatOfTurn DEF Dispatch, Held
    <3>6. QED
      BY <1>5, <3>1, <3>4, <3>5 DEF Dispatch, Held, Queued, Seated
  <2>3. QED
    BY <2>1, <2>2
<1>6. ASSUME NEW w \in Workers, Crash(w) PROVE Seated'
  <2> DEFINE m == [task |-> worker[w].task, tries |-> worker[w].tries]
  <2>1. Carries(worker[w]) /\ queue' = Put(m)
    BY <1>6 DEF Crash
  <2>2. Held(w)
    BY <2>1, Alone
  <2>3. CASE worker[w].task \in Tasks
    <3>1. m \in Messages
      BY <2>3 DEF Messages, TypeOK, WorkerStates
    <3>2. queue' = Only(m)
      BY <2>1, <2>2, <3>1, QueueOfOne DEF Held
    <3>3. NoneWorks'
      BY <1>6, <2>2, SeatOfTurn DEF Crash, Held
    <3>4. QED
      BY <1>6, <2>2, <3>1, <3>2, <3>3 DEF Crash, Held, Queued, Seated
  <2>4. CASE worker[w].task \notin Tasks
    <3>1. m \notin Messages
      BY <2>4 DEF Messages
    <3>2. queue' = Empty
      BY <2>1, <2>2, <3>1 DEF Put, Held, Empty
    <3>3. NoneWorks'
      BY <1>6, <2>2, SeatOfTurn DEF Crash, Held
    <3>4. QED
      BY <1>6, <2>2, <3>2, <3>3 DEF Crash, Held, Free, Seated
  <2>5. QED
    BY <2>3, <2>4
<1>7. ASSUME NEW w \in Workers, TaskError(w) PROVE Seated'
  <2>1. Held(w)
    BY <1>7, Alone DEF TaskError
  <2>2. NoneWorks' /\ api' = "none"
    BY <1>7, <2>1, SeatOfTurn DEF TaskError, Held
  <2>3. CASE queue' = queue
    BY <2>1, <2>2, <2>3 DEF Held, Free, Seated
  <2>4. CASE queue' = Put(Retry([task |-> worker[w].task, tries |-> worker[w].tries]))
    <3> DEFINE m == Retry([task |-> worker[w].task, tries |-> worker[w].tries])
    <3>1. CASE m \in Messages
      <4>1. queue' = Only(m)
        BY <2>1, <2>4, <3>1, QueueOfOne DEF Held
      <4>2. QED
        BY <2>2, <3>1, <4>1 DEF Queued, Seated
    <3>2. CASE m \notin Messages
      <4>1. queue' = Empty
        BY <2>1, <2>4, <3>2 DEF Put, Held, Empty
      <4>2. QED
        BY <2>2, <4>1 DEF Free, Seated
    <3>3. QED
      BY <3>1, <3>2
  <2>5. QED
    BY <1>7, <2>3, <2>4 DEF TaskError
<1>8. ASSUME NEW w \in Workers, TaskStep(w) PROVE Seated'
  <2>1. Held(w) /\ UNCHANGED <<queue, api>>
    BY <1>8, Alone, TurnOutcome DEF Busy, Carries
  <2>2. CASE End(w)
    BY <2>1, <2>2, SeatOfTurn DEF Held, Free, Seated
  <2>3. ASSUME NEW t \in Tasks, ThenDispatch(w, t) PROVE Seated'
    BY <2>1, <2>3, SeatOfTurn DEF Held, Seated
  <2>4. ASSUME NEW pc \in Pcs \ {"idle", "ack"},
               worker' = [worker EXCEPT ![w] = worker'[w]], worker'[w].pc = pc
        PROVE  Seated'
    <3>1. Carries(worker'[w])
      BY <2>4 DEF Carries
    <3>2. \A v \in Workers \ {w} : worker'[v] = worker[v]
      BY <2>4 DEF TypeOK
    <3>3. Held(w)'
      BY <2>1, <3>1, <3>2 DEF Held
    <3>4. QED
      BY <3>3 DEF Seated
  <2>5. QED
    BY <1>8, <2>2, <2>3, <2>4, TurnOutcome
<1>9. CASE SweepClarification
  BY <1>1, <1>9 DEF SweepClarification
<1>10. CASE Reconcile
  <2>1. CASE Revoke
    <3>1. CASE UNCHANGED <<queue, worker>>
      BY <1>1, <1>10, <3>1 DEF Reconcile
    <3>2. ASSUME NEW w \in Workers, Release(w), UNCHANGED queue PROVE Seated'
      <4>1. CASE Carries(worker[w])
        <5>1. Held(w)
          BY <4>1, Alone
        <5>2. QED
          BY <1>10, <3>2, <5>1, SeatOfTurn DEF Reconcile, Held, Free, Seated
      <4>2. QED
        BY <1>10, <3>2, <4>1, SeatOfAck DEF Reconcile
    <3>3. ASSUME NEW m \in Messages, queue[m] > 0, queue' = [queue EXCEPT ![m] = @ - 1],
                 UNCHANGED worker
          PROVE  Seated'
      <4>1. Queued(m)
        BY <3>3, Alone
      <4>2. queue' = Empty
        BY <3>3, <4>1, QueueOfOne DEF Queued
      <4>3. QED
        BY <1>10, <3>3, <4>1, <4>2 DEF Reconcile, Queued, Free, NoneWorks, Seated
    <3>4. QED
      BY <2>1, <3>1, <3>2, <3>3 DEF Revoke
  <2>2. CASE ~expired /\ job.state \in ResumableStates /\ UNCHANGED <<job, worker>>
    <3>1. Free
      BY <1>10, <2>2 DEF Reconcile, LockFree, RowInv, Guarded, ResumableStates, TerminalStates
    <3>2. TaskFor(job.kind, job.state) \in Tasks
      BY <2>2, TaskForType DEF TypeOK, JobRows
    <3>3. PICK m \in Messages : m = Fresh(TaskFor(job.kind, job.state))
      BY <3>2, FreshType
    <3>4. CASE queue' = Put(m)
      <4>1. queue' = Only(m)
        BY <3>1, <3>4, QueueOfOne DEF Free
      <4>2. QED
        BY <1>10, <2>2, <3>1, <4>1 DEF Reconcile, Free, Queued, NoneWorks, Seated
    <3>5. CASE UNCHANGED queue
      BY <1>1, <1>10, <2>2, <3>5 DEF Reconcile
    <3>6. QED
      BY <1>10, <2>2, <3>3, <3>4, <3>5 DEF Reconcile
  <2>3. QED
    BY <1>10, <2>1, <2>2 DEF Reconcile
<1>11. CASE Api
  <2>1. CASE SubmitAnswers
    <3>1. Free
      BY <2>1 DEF SubmitAnswers, RowInv, Parked
    <3>2. QED
      BY <2>1, <3>1 DEF SubmitAnswers, Free, Sending, NoneWorks, Seated
  <2>2. CASE ApiSend
    <3>1. Sending /\ api \in Tasks
      BY <2>2, Alone DEF ApiSend, TypeOK
    <3>2. PICK m \in Messages : m = Fresh(api)
      BY <3>1, FreshType
    <3>3. queue' = Only(m)
      BY <2>2, <3>1, <3>2, QueueOfOne DEF ApiSend, Sending
    <3>4. QED
      BY <2>2, <3>1, <3>3 DEF ApiSend, Sending, Queued, NoneWorks, Seated
  <2>3. CASE ApiCrash
    BY <2>3, Alone DEF ApiCrash, Sending, Free, NoneWorks, Seated
  <2>4. QED
    BY <1>1, <1>11, <2>1, <2>2, <2>3 DEF Api, DeleteProject, CancelInflightJobs
<1>12. CASE Time
  BY <1>1, <1>12 DEF Time, Age, LockExpires, WallClockExpires
<1>13. QED
  BY <1>2, <1>3, <1>4, <1>5, <1>6, <1>7, <1>8, <1>9, <1>10, <1>11, <1>12
  DEF Next, Broker, Worker, Beat

--------------------------------------------------------------------------------
(* What a turn can do, without overlap: the columns it writes are the ones it has read,  *)
(* and the state it leaves is the one it entered by.                                    *)

(* The row is as it was, or failed; nothing was charged, patched or said.               *)
Keeps ==
  /\ job'.state \in {job.state, "FAILED"}
  /\ job'.retry = job.retry /\ job'.lastSig = job.lastSig
  /\ job'.logSig = job.logSig /\ job'.pending = job.pending
  /\ UNCHANGED <<charges, hist>>
Advances(from, to) == job.state = from /\ job' = Moved(to) /\ UNCHANGED <<charges, hist>>
OnTo(w) == \E t \in Tasks : ThenDispatch(w, t)

StartsInterview(w) ==
  /\ At(w, "interview", "run") /\ job.state = "CREATED"
  /\ job' = Moved("INTERVIEWING") /\ Goto(w, "agent") /\ Charge(w) /\ UNCHANGED hist
Finishes(w) ==
  /\ \/ Advances("INTERVIEWING", "AWAITING_CLARIFICATION")
     \/ Advances("DEPLOYING", "LIVE")
  /\ End(w)
HandsOver(w) ==
  /\ \/ Advances("SPECCING", "BUILDING")
     \/ Advances("EDITING", "BUILDING") /\ At(w, "edit", "agent")
     \/ Advances("BUILDING", "DEPLOYING")
  /\ OnTo(w)
Fixes(w) ==
  /\ job.state \in {"BUILDING", "DEPLOYING"}
  /\ \E sig \in Signatures, p \in BOOLEAN :
       job' = [Moved("FIXING") EXCEPT !.logSig = sig, !.pending = p]
  /\ OnTo(w) /\ UNCHANGED <<charges, hist>>
Rechecks(w) ==
  /\ At(w, "deploy", "run") /\ job.state = "DEPLOYING"
  /\ Goto(w, "checked") /\ UNCHANGED <<job, charges, hist>>
Passes(w) ==
  /\ At(w, "fix", "run") /\ job.state \in {"FIXING", "FAILED"}
  /\ job' = [job EXCEPT !.lastSig = job.logSig, !.pending = FALSE]
  /\ worker' = [worker EXCEPT ![w] = [worker[w] EXCEPT !.pc = "agent", !.lastSig = worker[w].sig,
                                                       !.pending = FALSE]]
  /\ hist' = [hist EXCEPT !.spoke = FALSE] /\ UNCHANGED charges
Patches(w) ==
  /\ At(w, "fix", "agent") /\ job.state = "FIXING"
  /\ job' = [Moved("BUILDING") EXCEPT !.retry = worker[w].retry + 1]
  /\ OnTo(w) /\ hist' = PatchCounted /\ UNCHANGED charges
Rejects(w) ==
  /\ job.state \in {"FIXING", "FAILED"}
  /\ \E sig \in Signatures :
       job' = [job EXCEPT !.logSig = sig, !.pending = TRUE, !.stale = FALSE]
  /\ OnTo(w) /\ hist' = [hist EXCEPT !.spoke = TRUE] /\ UNCHANGED charges
Edits(w) ==
  /\ At(w, "edit", "run")
  /\ \/ Advances("CREATED", "EDITING")
     \/ job.state \in {"EDITING", "FAILED"} /\ UNCHANGED <<job, charges, hist>>
  /\ Goto(w, "charge")
ChargesEdit(w) ==
  /\ At(w, "edit", "charge") /\ job.state \in {"EDITING", "FAILED"}
  /\ Goto(w, "agent") /\ Charge(w) /\ UNCHANGED <<job, hist>>

TurnEffect(w) ==
  \/ End(w) /\ Keeps
  \/ StartsInterview(w) \/ Finishes(w) \/ HandsOver(w) \/ Fixes(w) \/ Rechecks(w)
  \/ Passes(w) \/ Patches(w) \/ Rejects(w) \/ Edits(w) \/ ChargesEdit(w)

(* fail_job keeps every column but the state, the reason and the heartbeat.             *)
LEMMA FailedKeeps ==
  ASSUME job \in JobRows, NEW r, job' = Failed(r), UNCHANGED <<charges, hist>>
  PROVE  Keeps
BY DEF JobRows, Failed, Moved, Keeps

(* A turn has one of these effects.                                                     *)
LEMMA TurnOf ==
  ASSUME TypeOK, TurnsInv, NEW w \in Workers, TaskStep(w)
  PROVE  TurnEffect(w)
<1> DEFINE rec == worker[w]
<1> job \in JobRows /\ rec \in WorkerStates
  BY DEF TypeOK
<1>1. Busy(rec)
  BY TurnOutcome
<1>2. (job.state = "FAILED" \/ InPlace(rec, job.state)) /\ Knows(rec, job, charges)
  BY <1>1 DEF TurnsInv, Relies
<1>3. Applies => InPlace(rec, job.state)
  BY <1>2 DEF Applies, TerminalStates
<1>4. ASSUME UNCHANGED job, UNCHANGED <<charges, hist>> PROVE Keeps
  BY <1>4 DEF Keeps
<1>5. ASSUME NEW r, EndWith(w, r), UNCHANGED <<charges, hist>> PROVE TurnEffect(w)
  BY <1>5, FailedKeeps DEF EndWith, TurnEffect
<1>6. ASSUME AgentTrips(w), UNCHANGED <<charges, hist>> PROVE TurnEffect(w)
  BY <1>5, <1>6 DEF AgentTrips
<1>7. ASSUME NEW r, FixFails(w, r), UNCHANGED <<charges, hist>> PROVE TurnEffect(w)
  BY <1>5, <1>7 DEF FixFails
<1>8. {"build", "deploy", "fix"} \subseteq Tasks
  BY DEF Tasks, LlmTasks
<1>9. ASSUME ~Applies, UNCHANGED job, End(w), UNCHANGED <<charges, hist>> PROVE TurnEffect(w)
  BY <1>4, <1>9 DEF TurnEffect
<1>10. ASSUME EnterFixing(w), Applies => job.state \in {"BUILDING", "DEPLOYING"},
              UNCHANGED <<charges, hist>>
       PROVE  TurnEffect(w)
  <2>1. CASE ~Applies
    BY <1>9, <1>10, <2>1 DEF EnterFixing, Commit
  <2>2. CASE Applies
    <3>1. PICK sig \in Signatures :
            /\ job' = [Moved("FIXING") EXCEPT
                         !.logSig = sig, !.pending = Flushed(rec.pending, TRUE, job.pending)]
            /\ ThenDispatch(w, "fix")
      BY <1>10, <2>2 DEF EnterFixing, Commit
    <3>2. Flushed(rec.pending, TRUE, job.pending) \in BOOLEAN
      BY DEF Flushed, JobRows
    <3>3. Fixes(w)
      BY <1>8, <1>10, <2>2, <3>1, <3>2 DEF Fixes, OnTo
    <3>4. QED
      BY <3>3 DEF TurnEffect
  <2>3. QED
    BY <2>1, <2>2
<1>11. CASE InterviewStart(w)
  <2>1. CASE Applies
    BY <1>3, <1>11, <2>1 DEF InterviewStart, Commit, At, InPlace, StartsInterview, TurnEffect
  <2>2. QED
    BY <1>9, <1>11, <2>1 DEF InterviewStart, Commit
<1>12. CASE InterviewFinish(w)
  <2>1. CASE Commit(w, Moved("AWAITING_CLARIFICATION"), End(w)) /\ Applies
    BY <1>3, <1>12, <2>1
    DEF InterviewFinish, Commit, At, InPlace, Advances, Finishes, TurnEffect
  <2>2. QED
    BY <1>6, <1>9, <1>12, <2>1 DEF InterviewFinish, Commit
<1>13. CASE SpecFinish(w)
  <2>1. CASE Commit(w, Moved("BUILDING"), ThenDispatch(w, "build")) /\ Applies
    BY <1>3, <1>8, <1>13, <2>1
    DEF SpecFinish, Commit, At, InPlace, Advances, OnTo, HandsOver, TurnEffect
  <2>2. QED
    BY <1>6, <1>9, <1>13, <2>1 DEF SpecFinish, Commit
<1>14. CASE BuildFinish(w)
  <2>1. Applies => job.state = "BUILDING"
    BY <1>3, <1>14 DEF BuildFinish, At, InPlace
  <2>2. CASE Commit(w, Moved("DEPLOYING"), ThenDispatch(w, "deploy")) /\ Applies
    BY <1>8, <1>14, <2>1, <2>2 DEF BuildFinish, Commit, Advances, OnTo, HandsOver, TurnEffect
  <2>3. QED
    BY <1>9, <1>10, <1>14, <2>1, <2>2 DEF BuildFinish, Commit
<1>15. CASE DeployRun(w)
  <2>1. Applies => job.state = "DEPLOYING"
    BY <1>3, <1>15 DEF DeployRun, At, InPlace
  <2>2. CASE EnterFixing(w)
    BY <1>10, <1>15, <2>1, <2>2 DEF DeployRun
  <2>3. CASE UNCHANGED job /\ End(w)
    BY <1>4, <1>15, <2>3 DEF DeployRun, TurnEffect
  <2>4. CASE job.state = "DEPLOYING" /\ Goto(w, "checked") /\ UNCHANGED job
    BY <1>15, <2>4 DEF DeployRun, Rechecks, TurnEffect
  <2>5. QED
    BY <1>5, <1>15, <2>2, <2>3, <2>4 DEF DeployRun
<1>16. CASE DeployFinish(w)
  <2>1. CASE Applies
    BY <1>3, <1>16, <2>1
    DEF DeployFinish, Commit, At, InPlace, Advances, Finishes, TurnEffect
  <2>2. QED
    BY <1>9, <1>16, <2>1 DEF DeployFinish, Commit
<1>17. CASE FixGuards(w)
  <2>1. CASE \E r : FixFails(w, r) /\ UNCHANGED hist
    BY <1>7, <1>17, <2>1 DEF FixGuards
  <2>2. CASE /\ job' = [job EXCEPT
                          !.lastSig = Flushed(rec.lastSig, rec.sig, job.lastSig),
                          !.pending = Flushed(rec.pending, FALSE, job.pending)]
             /\ worker' = [worker EXCEPT ![w] =
                             [rec EXCEPT !.pc = "agent", !.lastSig = rec.sig, !.pending = FALSE]]
             /\ hist' = [hist EXCEPT !.spoke = FALSE]
    <3>1. /\ rec.lastSig = job.lastSig /\ rec.sig = job.logSig /\ rec.pending = job.pending
          /\ job.state \in {"FIXING", "FAILED"}
      BY <1>2, <1>17 DEF FixGuards, At, Knows, InPlace
    <3>2. /\ Flushed(rec.lastSig, rec.sig, job.lastSig) = job.logSig
          /\ Flushed(rec.pending, FALSE, job.pending) = FALSE
      BY <3>1 DEF Flushed
    <3>3. Passes(w)
      BY <1>17, <2>2, <3>1, <3>2 DEF FixGuards, Passes
    <3>4. QED
      BY <3>3 DEF TurnEffect
  <2>3. QED
    BY <1>17, <2>1, <2>2 DEF FixGuards
<1>18. CASE FixFinish(w)
  <2>1. job.state \in {"FIXING", "FAILED"}
    BY <1>2, <1>18 DEF FixFinish, At, InPlace
  <2>2. CASE /\ Commit(w, [Moved("BUILDING") EXCEPT !.retry = rec.retry + 1],
                       ThenDispatch(w, "build"))
             /\ hist' = IF Applies THEN PatchCounted ELSE hist
    <3>1. CASE Applies
      BY <1>8, <1>18, <2>1, <2>2, <3>1
      DEF FixFinish, Applies, TerminalStates, Commit, OnTo, Patches, TurnEffect
    <3>2. QED
      BY <1>9, <1>18, <2>2, <3>1 DEF FixFinish, Commit
  <2>3. CASE /\ \E sig \in Signatures :
                  job' = [job EXCEPT !.logSig = sig, !.pending = TRUE, !.stale = FALSE]
             /\ ThenDispatch(w, "fix")
             /\ hist' = [hist EXCEPT !.spoke = TRUE]
    BY <1>8, <1>18, <2>1, <2>3 DEF FixFinish, OnTo, Rejects, TurnEffect
  <2>4. CASE \E r : FixFails(w, r) /\ UNCHANGED hist
    BY <1>7, <1>18, <2>4 DEF FixFinish
  <2>5. QED
    BY <1>18, <2>2, <2>3, <2>4 DEF FixFinish
<1>19. CASE EditStart(w)
  <2>1. CASE Commit(w, Moved("EDITING"), Goto(w, "charge")) /\ Applies /\ rec.seen = "CREATED"
    BY <1>3, <1>19, <2>1 DEF EditStart, Commit, At, InPlace, Advances, Edits, TurnEffect
  <2>2. CASE rec.seen = "EDITING" /\ UNCHANGED job /\ Goto(w, "charge")
    BY <1>2, <1>19, <2>2 DEF EditStart, At, InPlace, Edits, TurnEffect
  <2>3. QED
    BY <1>5, <1>9, <1>19, <2>1, <2>2 DEF EditStart, Commit
<1>20. CASE EditCharge(w)
  BY <1>2, <1>20 DEF EditCharge, At, InPlace, ChargesEdit, TurnEffect
<1>21. CASE EditFinish(w)
  <2>1. CASE Commit(w, Moved("BUILDING"), ThenDispatch(w, "build")) /\ Applies
    BY <1>3, <1>8, <1>21, <2>1
    DEF EditFinish, Commit, At, InPlace, Advances, OnTo, HandsOver, TurnEffect
  <2>2. QED
    BY <1>5, <1>9, <1>21, <2>1 DEF EditFinish, Commit
<1>22. QED
  BY <1>11, <1>12, <1>13, <1>14, <1>15, <1>16, <1>17, <1>18, <1>19, <1>20, <1>21 DEF TaskStep

(* The steps that are nobody's turn: they keep the row or fail it, or resume it.         *)
LEMMA OtherStep ==
  ASSUME TypeOK, [Next]_vars
  PROVE  Keeps \/ SubmitAnswers \/ \E w \in Workers : TaskStep(w)
<1> job \in JobRows
  BY DEF TypeOK
<1>1. ASSUME UNCHANGED <<job, charges, hist>> PROVE Keeps
  BY <1>1 DEF Keeps
<1>2. ASSUME NEW r, job' = Failed(r), UNCHANGED <<charges, hist>> PROVE Keeps
  BY <1>2, FailedKeeps
<1>3. CASE UNCHANGED vars
  BY <1>1, <1>3 DEF vars
<1>4. ASSUME NEW m \in Messages, Preflight(m) PROVE Keeps
  BY <1>2, <1>4 DEF Preflight
<1>5. ASSUME NEW w \in Workers, NEW m \in Messages, Load(w, m) PROVE Keeps
  BY <1>1, <1>2, <1>5 DEF Load
<1>6. ASSUME NEW w \in Workers, Dispatch(w) \/ Crash(w) \/ TaskError(w) PROVE Keeps
  BY <1>1, <1>2, <1>6 DEF Dispatch, Crash, TaskError
<1>7. CASE Beat
  BY <1>1, <1>2, <1>7 DEF Beat, SweepClarification, Reconcile
<1>8. CASE ApiSend \/ ApiCrash \/ DeleteProject
  BY <1>1, <1>8 DEF ApiSend, ApiCrash, DeleteProject
<1>9. CASE CancelInflightJobs \/ Time
  BY <1>9 DEF CancelInflightJobs, Time, Age, LockExpires, WallClockExpires, Keeps, JobRows
<1>10. QED
  BY <1>3, <1>4, <1>5, <1>6, <1>7, <1>8, <1>9 DEF Next, Broker, Worker, Api

(* A worker that is executing a task is a carrier: with none, no turn has anything to    *)
(* rely on.                                                                              *)
LEMMA NobodyRelies == ASSUME NoneWorks' PROVE TurnsInv'
<1>1. \A w \in Workers : ~Busy(worker'[w])
  BY DEF NoneWorks, Carries, Busy
<1>2. QED
  BY <1>1 DEF TurnsInv

(* A step that keeps the row, or fails it, disturbs no turn that goes on.                 *)
LEMMA TurnsKept ==
  ASSUME TurnsInv, Keeps, \A w \in Workers : Busy(worker'[w]) => worker'[w] = worker[w]
  PROVE  TurnsInv'
<1> SUFFICES ASSUME NEW w \in Workers, Busy(worker'[w])
             PROVE  Relies(worker[w], job', charges')
  BY DEF TurnsInv
<1>1. Busy(worker[w])
  BY DEF Busy
<1>2. Relies(worker[w], job, charges)
  BY <1>1 DEF TurnsInv
<1>3. Knows(worker[w], job', charges')
  BY <1>2 DEF Relies, Knows, Keeps
<1>4. job'.state = "FAILED" \/ InPlace(worker[w], job'.state)
  BY <1>2 DEF Relies, Keeps
<1>5. QED
  BY <1>3, <1>4 DEF Relies

(* The holder goes on: only what it relies on has to be shown.                           *)
LEMMA HolderRelies ==
  ASSUME TypeOK, NEW w \in Workers, \A v \in Workers \ {w} : ~Carries(worker[v]),
         NEW rec, worker' = [worker EXCEPT ![w] = rec],
         Relies(rec, job', charges')
  PROVE  TurnsInv'
<1>1. \A v \in Workers \ {w} : ~Busy(worker'[v])
  BY DEF TypeOK, Carries, Busy
<1>2. worker'[w] = rec
  BY DEF TypeOK
<1>3. QED
  BY <1>1, <1>2 DEF TurnsInv

(* What a turn has read stays what the row says: the invariant of the turns is kept.      *)
LEMMA TurnsStep ==
  ASSUME TypeOK, Seated, TurnsInv, [Next]_vars
  PROVE  TurnsInv'
<1> worker \in [Workers -> WorkerStates] /\ job \in JobRows
  BY DEF TypeOK
<1>1. ASSUME Keeps, UNCHANGED worker \/ \E w \in Workers : Release(w) PROVE TurnsInv'
  <2>1. \A w \in Workers : Busy(worker'[w]) => worker'[w] = worker[w]
    BY <1>1 DEF Release, Idle, Busy
  <2>2. QED
    BY <1>1, <2>1, TurnsKept
<1>2. CASE UNCHANGED vars
  BY <1>1, <1>2 DEF vars, Keeps
<1>3. ASSUME NEW m \in Messages, Preflight(m) PROVE TurnsInv'
  BY <1>1, <1>3, FailedKeeps DEF Preflight
<1>4. ASSUME NEW w \in Workers, NEW m \in Messages, Load(w, m) PROVE TurnsInv'
  <2>1. CASE UNCHANGED worker
    BY <1>1, <1>4, <2>1, FailedKeeps DEF Load, Keeps
  <2>2. CASE Accepts(m.task) /\ worker' = [worker EXCEPT ![w] = Snapshot(m)] /\ UNCHANGED job
    <3>1. \A v \in Workers : ~Carries(worker[v])
      BY <1>4, Alone DEF Load, Queued, NoneWorks
    <3>2. UNCHANGED <<job, charges>>
      BY <1>4, <2>2 DEF Load
    <3>3. InPlace(Snapshot(m), job.state)
      <4>1. /\ Snapshot(m).task = m.task /\ Snapshot(m).pc = "run"
            /\ Snapshot(m).seen = job.state
        BY DEF Snapshot
      <4>2. QED
        BY <2>2, <4>1 DEF Accepts, InPlace, Messages, Tasks, LlmTasks
    <3>4. Knows(Snapshot(m), job, charges)
      <4> DEFINE rec == Snapshot(m)
      <4>1. rec.task = "fix" => /\ rec.retry = job.retry /\ rec.lastSig = job.lastSig
                                /\ rec.sig = job.logSig
        BY DEF Snapshot
      <4>2. rec.task = "fix" => rec.pending = job.pending
        <5>1. job.pending \in BOOLEAN
          BY DEF JobRows
        <5>2. rec.pending = (m.task \in {"build", "deploy", "fix"} /\ job.pending)
          BY DEF Snapshot
        <5>3. rec.task = m.task
          BY DEF Snapshot
        <5>4. QED
          BY <5>1, <5>2, <5>3
      <4>3. rec.task \in {"interview", "edit"} => (rec.counted <=> charges > 0)
        <5>1. rec.counted = (m.task \in {"interview", "edit"} /\ charges > 0)
          BY DEF Snapshot
        <5>2. rec.task = m.task
          BY DEF Snapshot
        <5>3. QED
          BY <5>1, <5>2
      <4>4. QED
        BY <4>1, <4>2, <4>3 DEF Knows
    <3>5. Relies(Snapshot(m), job', charges')
      BY <3>2, <3>3, <3>4 DEF Relies
    <3>6. QED
      BY <2>2, <3>1, <3>5, HolderRelies
  <2>3. QED
    BY <1>4, <2>1, <2>2 DEF Load
<1>5. ASSUME NEW w \in Workers, Dispatch(w) \/ Crash(w) \/ TaskError(w) PROVE TurnsInv'
  BY <1>1, <1>5, FailedKeeps DEF Dispatch, Crash, TaskError, Keeps
<1>6. ASSUME NEW w \in Workers, TaskStep(w) PROVE TurnsInv'
  <2>1. TurnEffect(w)
    BY <1>6, TurnOf
  <2>2. Held(w)
    BY <1>6, Alone, TurnOutcome DEF Busy, Carries
  <2>3. \A v \in Workers \ {w} : ~Carries(worker[v])
    BY <2>2 DEF Held
  <2>4. worker[w] \in WorkerStates /\ Busy(worker[w])
    BY <1>6, TurnOutcome
  <2>5. CASE End(w)
    BY <2>3, <2>5, SeatOfTurn, NobodyRelies
  <2>6. CASE OnTo(w)
    <3>1. \A v \in Workers : ~Busy(worker'[v])
      BY <2>3, <2>6 DEF OnTo, ThenDispatch, Carries, Busy, WorkerStates
    <3>2. QED
      BY <3>1 DEF TurnsInv
  <2>7. CASE StartsInterview(w)
    <3> DEFINE rec == [worker[w] EXCEPT !.pc = "agent"]
    <3>1. worker' = [worker EXCEPT ![w] = rec] /\ rec.task = "interview" /\ rec.pc = "agent"
      BY <2>4, <2>7 DEF StartsInterview, Goto, At, WorkerStates
    <3>2. job'.state = "INTERVIEWING"
      BY <2>7 DEF StartsInterview, Moved, JobRows
    <3>3. Relies(rec, job', charges')
      BY <3>1, <3>2 DEF InPlace, Knows, Relies
    <3>4. QED
      BY <2>3, <3>1, <3>3, HolderRelies
  <2>8. CASE Rechecks(w)
    <3> DEFINE rec == [worker[w] EXCEPT !.pc = "checked"]
    <3>1. worker' = [worker EXCEPT ![w] = rec] /\ rec.task = "deploy" /\ rec.pc = "checked"
      BY <2>4, <2>8 DEF Rechecks, Goto, At, WorkerStates
    <3>2. job'.state = "DEPLOYING"
      BY <2>8 DEF Rechecks
    <3>3. Relies(rec, job', charges')
      BY <3>1, <3>2 DEF InPlace, Knows, Relies
    <3>4. QED
      BY <2>3, <3>1, <3>3, HolderRelies
  <2>9. CASE Passes(w)
    <3> DEFINE rec == [worker[w] EXCEPT !.pc = "agent", !.lastSig = worker[w].sig,
                                        !.pending = FALSE]
    <3>1. /\ worker' = [worker EXCEPT ![w] = rec] /\ rec.task = "fix" /\ rec.pc = "agent"
          /\ rec.retry = worker[w].retry /\ rec.sig = worker[w].sig
          /\ rec.lastSig = worker[w].sig /\ rec.pending = FALSE
      BY <2>4, <2>9 DEF Passes, At, WorkerStates
    <3>2. worker[w].retry = job.retry /\ worker[w].sig = job.logSig
      BY <2>4, <2>9 DEF Passes, At, TurnsInv, Relies, Knows
    <3>3. /\ job'.state = job.state /\ job'.retry = job.retry /\ job'.logSig = job.logSig
          /\ job'.lastSig = job.logSig /\ job'.pending = FALSE
      BY <2>9 DEF Passes, JobRows
    <3>4. Knows(rec, job', charges')
      BY <3>1, <3>2, <3>3 DEF Knows
    <3>5. job'.state = "FAILED" \/ InPlace(rec, job'.state)
      BY <2>9, <3>1, <3>3 DEF Passes, InPlace
    <3>6. QED
      BY <2>3, <3>1, <3>4, <3>5, HolderRelies DEF Relies
  <2>10. CASE Edits(w)
    <3> DEFINE rec == [worker[w] EXCEPT !.pc = "charge"]
    <3>1. /\ worker' = [worker EXCEPT ![w] = rec] /\ rec.task = "edit" /\ rec.pc = "charge"
          /\ rec.counted = worker[w].counted
      BY <2>4, <2>10 DEF Edits, Goto, At, WorkerStates
    <3>2. job'.state \in {"EDITING", "FAILED"} /\ charges' = charges
      BY <2>10 DEF Edits, Advances, Moved, JobRows
    <3>3. worker[w].counted <=> charges > 0
      BY <2>4, <2>10 DEF Edits, At, TurnsInv, Relies, Knows
    <3>4. Knows(rec, job', charges')
      BY <3>1, <3>2, <3>3 DEF Knows
    <3>5. job'.state = "FAILED" \/ InPlace(rec, job'.state)
      BY <3>1, <3>2 DEF InPlace
    <3>6. QED
      BY <2>3, <3>1, <3>4, <3>5, HolderRelies DEF Relies
  <2>11. CASE ChargesEdit(w)
    <3> DEFINE rec == [worker[w] EXCEPT !.pc = "agent"]
    <3>1. worker' = [worker EXCEPT ![w] = rec] /\ rec.task = "edit" /\ rec.pc = "agent"
      BY <2>4, <2>11 DEF ChargesEdit, Goto, At, WorkerStates
    <3>2. job'.state \in {"EDITING", "FAILED"}
      BY <2>11 DEF ChargesEdit
    <3>3. Relies(rec, job', charges')
      BY <3>1, <3>2 DEF InPlace, Knows, Relies
    <3>4. QED
      BY <2>3, <3>1, <3>3, HolderRelies
  <2>12. QED
    BY <2>1, <2>5, <2>6, <2>7, <2>8, <2>9, <2>10, <2>11
    DEF TurnEffect, Finishes, HandsOver, Fixes, Patches, Rejects
<1>7. CASE Beat
  <2>1. UNCHANGED worker \/ \E w \in Workers : Release(w)
    BY <1>7 DEF Beat, SweepClarification, Reconcile, Revoke
  <2>2. Keeps
    BY <1>7, FailedKeeps DEF Beat, SweepClarification, Reconcile, Keeps
  <2>3. QED
    BY <1>1, <2>1, <2>2
<1>8. CASE SubmitAnswers
  <2>1. \A w \in Workers : ~Relies(worker[w], job, charges)
    BY <1>8 DEF SubmitAnswers, Relies, InPlace
  <2>2. \A w \in Workers : ~Busy(worker[w])
    BY <2>1 DEF TurnsInv
  <2>3. QED
    BY <1>8, <2>2 DEF SubmitAnswers, TurnsInv
<1>9. CASE ApiSend \/ ApiCrash \/ DeleteProject \/ CancelInflightJobs \/ Time
  <2>1. UNCHANGED worker
    BY <1>9 DEF ApiSend, ApiCrash, DeleteProject, CancelInflightJobs, Time, Age, LockExpires,
                WallClockExpires
  <2>2. Keeps
    BY <1>9 DEF ApiSend, ApiCrash, DeleteProject, CancelInflightJobs, Time, Age, LockExpires,
                WallClockExpires, Keeps, JobRows
  <2>3. QED
    BY <1>1, <2>1, <2>2
<1>10. QED
  BY <1>2, <1>3, <1>4, <1>5, <1>6, <1>7, <1>8, <1>9 DEF Next, Broker, Worker, Api

(* A worker that is idle has published what it had to publish.                            *)
Rested == \A w \in Workers : worker[w].pc = "idle" => worker[w].next = "none"

(* Only a release makes a worker idle.                                                    *)
LEMMA RestedStep ==
  ASSUME TypeOK, Rested, [Next]_vars
  PROVE  Rested'
<1> worker \in [Workers -> WorkerStates]
  BY DEF TypeOK
<1>1. ASSUME UNCHANGED worker PROVE Rested'
  BY <1>1 DEF Rested
<1>2. ASSUME NEW w \in Workers, NEW rec, rec.pc = "idle" => rec.next = "none",
             worker' = [worker EXCEPT ![w] = rec]
      PROVE  Rested'
  BY <1>2 DEF Rested
<1>3. ASSUME NEW w \in Workers, Release(w) PROVE Rested'
  BY <1>2, <1>3 DEF Release, Idle
<1>4. ASSUME NEW w \in Workers, NEW m \in Messages, Load(w, m) PROVE Rested'
  <2>1. Snapshot(m).pc = "run"
    BY DEF Snapshot
  <2>2. QED
    BY <1>1, <1>2, <1>4, <2>1 DEF Load
<1>5. ASSUME NEW w \in Workers, TaskStep(w) PROVE Rested'
  <2>1. ASSUME NEW t, ThenDispatch(w, t) PROVE Rested'
    <3>1. /\ worker' = [worker EXCEPT ![w] = [worker[w] EXCEPT !.pc = "ack", !.next = t]]
          /\ [worker[w] EXCEPT !.pc = "ack", !.next = t].pc = "ack"
      BY <2>1 DEF ThenDispatch, WorkerStates
    <3>2. QED
      BY <1>2, <3>1
  <2>2. ASSUME worker' = [worker EXCEPT ![w] = worker'[w]], worker'[w].pc # "idle"
        PROVE  Rested'
    BY <1>2, <2>2
  <2>3. QED
    BY <1>5, <2>1, <2>2, TurnOutcome DEF End
<1>6. QED
  BY <1>1, <1>3, <1>4, <1>5
  DEF Next, vars, Broker, Preflight, Worker, Dispatch, Crash, TaskError, Beat,
      SweepClarification, Reconcile, Revoke, Api, SubmitAnswers, ApiSend, ApiCrash,
      DeleteProject, CancelInflightJobs, Time, Age, LockExpires, WallClockExpires

(* When everything is quiet nobody carries the job.                                       *)
LEMMA QuietIsFree == ASSUME TypeOK, Rested, Quiet PROVE Free
<1>1. \A m \in Messages : queue[m] = 0
  BY DEF Quiet, Waiting, TypeOK
<1>2. queue = Empty
  BY <1>1 DEF Empty, TypeOK
<1>3. QED
  BY <1>2 DEF Quiet, Free, NoneWorks, Rested, Carries

(* The patches counted and the markers written.                                           *)
LEMMA CountsStep ==
  ASSUME TypeOK, Seated, TurnsInv, RetryInv, RetryCountsPatches, ChargedOnce, [Next]_vars
  PROVE  RetryCountsPatches' /\ ChargedOnce'
<1> job \in JobRows
  BY DEF TypeOK
<1>1. CASE Keeps
  BY <1>1 DEF Keeps, RetryCountsPatches, ChargedOnce
<1>2. CASE SubmitAnswers
  BY <1>2 DEF SubmitAnswers, RetryCountsPatches, ChargedOnce, JobRows
<1>3. ASSUME NEW w \in Workers, TaskStep(w) PROVE RetryCountsPatches' /\ ChargedOnce'
  <2>1. TurnEffect(w) /\ Busy(worker[w])
    BY <1>3, TurnOf, TurnOutcome
  <2>2. Knows(worker[w], job, charges)
    BY <2>1 DEF TurnsInv, Relies
  <2>3. ASSUME Charge(w), worker[w].counted <=> charges > 0 PROVE ChargedOnce'
    BY <2>3 DEF Charge, ChargedOnce, TypeOK
  <2>4. CASE StartsInterview(w)
    <3>1. ChargedOnce'
      BY <2>2, <2>3, <2>4 DEF StartsInterview, At, Knows
    <3>2. job'.retry = job.retry
      BY <2>4 DEF StartsInterview, Moved, JobRows
    <3>3. QED
      BY <2>4, <3>1, <3>2 DEF StartsInterview, RetryCountsPatches
  <2>5. CASE ChargesEdit(w)
    <3>1. ChargedOnce'
      BY <2>2, <2>3, <2>5 DEF ChargesEdit, At, Knows
    <3>2. QED
      BY <2>5, <3>1 DEF ChargesEdit, RetryCountsPatches
  <2>6. CASE Patches(w)
    <3>1. worker[w].retry = job.retry /\ worker[w].retry < MaxFixAttempts
      BY <2>2, <2>6 DEF Patches, At, Knows, RetryInv
    <3>2. hist'.patches = hist.patches + 1
      BY <2>6, <3>1 DEF Patches, PatchCounted, RetryCountsPatches, TypeOK, JobRows
    <3>3. job'.retry = job.retry + 1
      BY <2>6, <3>1 DEF Patches, Moved, JobRows
    <3>4. QED
      BY <2>6, <3>2, <3>3 DEF Patches, RetryCountsPatches, ChargedOnce
  <2>7. CASE \/ Keeps \/ Finishes(w) \/ HandsOver(w) \/ Fixes(w) \/ Rechecks(w) \/ Passes(w)
             \/ Rejects(w) \/ Edits(w)
    <3>1. charges' = charges
      BY <2>7 DEF Keeps, Finishes, HandsOver, Fixes, Rechecks, Passes, Rejects, Edits, Advances
    <3>2. job'.retry = job.retry
      BY <2>7
      DEF Keeps, Finishes, HandsOver, Fixes, Rechecks, Passes, Rejects, Edits, Advances, Moved,
          JobRows
    <3>3. hist'.patches = hist.patches
      BY <2>7
      DEF Keeps, Finishes, HandsOver, Fixes, Rechecks, Passes, Rejects, Edits, Advances, TypeOK
    <3>4. QED
      BY <3>1, <3>2, <3>3 DEF RetryCountsPatches, ChargedOnce
  <2>8. QED
    BY <2>1, <2>4, <2>5, <2>6, <2>7 DEF TurnEffect
<1>4. QED
  BY <1>1, <1>2, <1>3, OtherStep

(* The two signatures and what Agent 4 has said.                                          *)
LEMMA SignaturesStep ==
  ASSUME TypeOK, Seated, TurnsInv, Unfixed, Spoken, [Next]_vars
  PROVE  Unfixed' /\ Spoken'
<1> job \in JobRows /\ hist \in [patches : 0..(MaxFixAttempts + 1), spoke : BOOLEAN]
  BY DEF TypeOK
<1> USE DEF ResumableStates, TerminalStates
<1>1. ASSUME Keeps PROVE Unfixed' /\ Spoken'
  BY <1>1 DEF Keeps, Unfixed, Spoken
<1>2. CASE SubmitAnswers
  <2>1. /\ job'.state = "SPECCING" /\ job'.lastSig = job.lastSig /\ job'.pending = job.pending
        /\ UNCHANGED hist
    BY <1>2 DEF SubmitAnswers, JobRows
  <2>2. QED
    BY <1>2, <2>1 DEF SubmitAnswers, Unfixed, Spoken
<1>3. ASSUME NEW w \in Workers, TaskStep(w) PROVE Unfixed' /\ Spoken'
  <2>1. TurnEffect(w)
    BY <1>3, TurnOf
  <2>2. ASSUME NEW to \in JobStates, job' = Moved(to)
        PROVE  job'.state = to /\ job'.lastSig = job.lastSig /\ job'.pending = job.pending
    BY <2>2 DEF Moved, JobRows
  <2>3. ASSUME job'.lastSig = NoSignature PROVE Unfixed' /\ Spoken'
    BY <2>3 DEF Unfixed, Spoken
  <2>4. CASE StartsInterview(w) \/ Edits(w) \/ Finishes(w) \/ HandsOver(w)
    <3>1. CASE UNCHANGED <<job, hist>>
      BY <3>1 DEF Unfixed, Spoken
    <3>2. CASE \E to \in {"INTERVIEWING", "EDITING", "AWAITING_CLARIFICATION", "BUILDING"} :
                 /\ job' = Moved(to)
                 /\ job.state \notin ResumableStates \cup TerminalStates
      <4>1. job'.lastSig = NoSignature
        BY <2>2, <3>2 DEF Unfixed, JobStates
      <4>2. QED
        BY <2>3, <4>1
    <3>3. CASE Advances("BUILDING", "DEPLOYING") \/ Advances("DEPLOYING", "LIVE")
      <4>1. /\ job.state \in {"BUILDING", "DEPLOYING"} /\ job'.state \in {"DEPLOYING", "LIVE"}
            /\ job'.lastSig = job.lastSig /\ job'.pending = job.pending /\ hist' = hist
        BY <2>2, <3>3 DEF Advances, JobStates
      <4>2. QED
        BY <4>1 DEF Unfixed, Spoken
    <3>4. QED
      BY <2>4, <3>1, <3>2, <3>3 DEF StartsInterview, Edits, Finishes, HandsOver, Advances
  <2>5. CASE Fixes(w)
    <3>1. job'.state = "FIXING" /\ job'.lastSig = job.lastSig
      BY <2>5 DEF Fixes, Moved, JobRows
    <3>2. QED
      BY <2>5, <3>1 DEF Fixes, Unfixed, Spoken
  <2>6. CASE Passes(w)
    <3>1. job'.state \in {"FIXING", "FAILED"} /\ job'.pending = FALSE
      BY <2>6 DEF Passes, JobRows
    <3>2. QED
      BY <3>1 DEF Unfixed, Spoken
  <2>7. CASE Patches(w) \/ Rejects(w)
    <3>1. hist'.spoke = TRUE
      <4>1. PatchCounted.spoke = TRUE /\ [hist EXCEPT !.spoke = TRUE].spoke = TRUE
        BY DEF PatchCounted
      <4>2. hist' \in {PatchCounted, [hist EXCEPT !.spoke = TRUE]}
        BY <2>7 DEF Patches, Rejects
      <4>3. QED
        BY <4>1, <4>2
    <3>2. job'.state \in {"BUILDING", "FIXING", "FAILED"}
      BY <2>7 DEF Patches, Rejects, Moved, JobRows
    <3>3. QED
      BY <3>1, <3>2 DEF Unfixed, Spoken
  <2>8. CASE Rechecks(w) \/ ChargesEdit(w)
    BY <2>8 DEF Rechecks, ChargesEdit, Unfixed, Spoken
  <2>9. QED
    BY <1>1, <2>1, <2>4, <2>5, <2>6, <2>7, <2>8 DEF TurnEffect
<1>4. QED
  BY <1>1, <1>2, <1>3, OtherStep

(* A turn that is not over leaves the job its carrier; what it moves is fresh.             *)
LEMMA TurnLeaves ==
  ASSUME TypeOK, TurnsInv, NEW w \in Workers, TaskStep(w)
  PROVE  \/ End(w)
         \/ job'.state = job.state /\ job'.stale \in {job.stale, FALSE}
         \/ /\ job'.state \notin {"AWAITING_CLARIFICATION", "LIVE"}
            /\ job'.stale = FALSE
<1> job \in JobRows
  BY DEF TypeOK
<1>1. TurnEffect(w)
  BY TurnOf
<1>2. ASSUME NEW to \in JobStates, job' = Moved(to)
      PROVE  job'.state = to /\ job'.stale = FALSE
  BY <1>2 DEF Moved, JobRows
<1>3. CASE StartsInterview(w) \/ HandsOver(w) \/ Edits(w)
  BY <1>2, <1>3 DEF StartsInterview, HandsOver, Edits, Advances, JobStates
<1>4. CASE Fixes(w) \/ Patches(w)
  BY <1>4 DEF Fixes, Patches, Moved, JobRows
<1>5. CASE Rechecks(w) \/ ChargesEdit(w) \/ Passes(w) \/ Rejects(w)
  BY <1>5 DEF Rechecks, ChargesEdit, Passes, Rejects, JobRows
<1>6. QED
  BY <1>1, <1>3, <1>4, <1>5 DEF TurnEffect, Finishes

(* The states that wait for nobody's task have no carrier, and a stale job whose task is    *)
(* still about is behind the dispatch lock.                                                *)
LEMMA CarriersStep ==
  ASSUME ~Overlap, TypeOK, Rested, Seated, TurnsInv, Parked, Guarded, [Next]_vars
  PROVE  Parked' /\ Guarded'
<1> job \in JobRows /\ worker \in [Workers -> WorkerStates]
  BY DEF TypeOK
<1> USE DEF TerminalStates
<1>1. ASSUME Free' PROVE Parked' /\ Guarded'
  BY <1>1 DEF Parked, Guarded
<1>2. ASSUME job'.state = "FAILED" PROVE Parked' /\ Guarded'
  BY <1>2 DEF Parked, Guarded
<1>3. ASSUME ~Free \/ Free', job'.state = job.state, job'.stale \in {job.stale, FALSE},
             UNCHANGED lock
      PROVE  Parked' /\ Guarded'
  BY <1>1, <1>3 DEF Parked, Guarded
<1>4. ASSUME UNCHANGED <<queue, worker, api>> PROVE Free => Free'
  BY <1>4 DEF Free, NoneWorks
<1>5. ASSUME NEW r, job' = Failed(r) PROVE job'.state = "FAILED" \/ UNCHANGED job
  BY <1>5 DEF Failed, Moved, JobRows
<1>6. CASE UNCHANGED vars
  BY <1>3, <1>4, <1>6 DEF vars
<1>7. ASSUME NEW m \in Messages, Preflight(m) PROVE Parked' /\ Guarded'
  <2>1. Queued(m)
    BY <1>7, Alone DEF Preflight
  <2>2. Free'
    BY <1>7, <2>1, QueueOfOne DEF Preflight, Queued, Free, NoneWorks
  <2>3. QED
    BY <1>1, <2>2
<1>8. ASSUME NEW w \in Workers, NEW m \in Messages, Load(w, m) PROVE Parked' /\ Guarded'
  <2>1. Queued(m)
    BY <1>8, Alone DEF Load
  <2>2. CASE UNCHANGED worker
    <3>1. Free'
      BY <1>8, <2>1, <2>2, QueueOfOne DEF Load, Queued, Free, NoneWorks
    <3>2. QED
      BY <1>1, <3>1
  <2>3. CASE UNCHANGED job
    <3>1. queue # Empty
      BY <1>8 DEF Load, Empty
    <3>2. QED
      BY <1>3, <1>8, <2>3, <3>1 DEF Load, Free
  <2>4. QED
    BY <1>8, <2>2, <2>3 DEF Load
<1>9. ASSUME NEW w \in Workers, Dispatch(w) \/ Crash(w) \/ TaskError(w) PROVE Parked' /\ Guarded'
  <2>1. CASE Carries(worker[w])
    <3>1. ~Free
      BY <2>1 DEF Free, NoneWorks
    <3>2. (\E r : job' = Failed(r)) \/ UNCHANGED job
      BY <1>9 DEF Dispatch, Crash, TaskError
    <3>3. UNCHANGED lock
      BY <1>9 DEF Dispatch, Crash, TaskError
    <3>4. QED
      BY <1>2, <1>3, <1>5, <3>1, <3>2, <3>3
  <2>2. CASE ~Carries(worker[w])
    <3>1. Dispatch(w) /\ UNCHANGED queue
      BY <1>9, <2>2 DEF Dispatch, Crash, TaskError, Carries
    <3>2. Free => Free'
      BY <2>2, <3>1, SeatOfAck DEF Dispatch
    <3>3. QED
      BY <1>3, <3>1, <3>2 DEF Dispatch
  <2>3. QED
    BY <2>1, <2>2
<1>10. ASSUME NEW w \in Workers, TaskStep(w) PROVE Parked' /\ Guarded'
  <2>1. Held(w) /\ UNCHANGED <<queue, api>>
    BY <1>10, Alone, TurnOutcome DEF Busy, Carries
  <2>2. CASE End(w)
    <3>1. Free'
      BY <2>1, <2>2, SeatOfTurn DEF Held, Free
    <3>2. QED
      BY <1>1, <3>1
  <2>3. ~Free
    BY <2>1 DEF Held, Free, NoneWorks
  <2>4. UNCHANGED lock
    BY <1>10
    DEF TaskStep, InterviewStart, InterviewFinish, SpecFinish, BuildFinish, DeployRun,
        DeployFinish, FixGuards, FixFinish, EditStart, EditCharge, EditFinish
  <2>5. CASE job'.state \notin {"AWAITING_CLARIFICATION", "LIVE"} /\ job'.stale = FALSE
    BY <2>5 DEF Parked, Guarded
  <2>6. QED
    BY <1>3, <1>10, <2>2, <2>3, <2>4, <2>5, TurnLeaves
<1>11. CASE SweepClarification
  <2>1. job'.state = "FAILED" \/ UNCHANGED job
    BY <1>5, <1>11 DEF SweepClarification
  <2>2. QED
    BY <1>2, <1>3, <1>4, <1>11, <2>1 DEF SweepClarification
<1>12. CASE Reconcile
  <2>1. Applies /\ lock' = TRUE
    BY <1>12 DEF Reconcile, StuckStates, ResumableStates, Applies
  <2>2. CASE \E r : job' = Failed(r)
    BY <1>2, <2>1, <2>2 DEF Failed, Moved, JobRows
  <2>3. CASE UNCHANGED job /\ job.state \in ResumableStates
    BY <2>1, <2>3 DEF Parked, Guarded, ResumableStates
  <2>4. QED
    BY <1>12, <2>2, <2>3 DEF Reconcile
<1>13. CASE SubmitAnswers
  <2>1. job'.state = "SPECCING"
    BY <1>13 DEF SubmitAnswers, JobRows
  <2>2. QED
    BY <2>1 DEF Parked, Guarded
<1>14. CASE ApiSend \/ ApiCrash
  <2>1. ~Free /\ UNCHANGED <<job, lock>>
    BY <1>14 DEF ApiSend, ApiCrash, Free
  <2>2. QED
    BY <1>3, <2>1
<1>15. CASE DeleteProject \/ WallClockExpires
  BY <1>3, <1>4, <1>15 DEF DeleteProject, WallClockExpires
<1>16. CASE CancelInflightJobs
  BY <1>2, <1>16 DEF CancelInflightJobs, JobRows
<1>17. CASE Age \/ LockExpires
  <2>1. Free'
    BY <1>4, <1>17, QuietIsFree DEF Age, LockExpires
  <2>2. QED
    BY <1>1, <2>1
<1>18. QED
  BY <1>6, <1>7, <1>8, <1>9, <1>10, <1>11, <1>12, <1>13, <1>14, <1>15, <1>16, <1>17
  DEF Next, Broker, Worker, Beat, Api, Time

--------------------------------------------------------------------------------
(* The sequential regime, put together.                                                    *)

OneTaskInv == TypeOK /\ RetryInv /\ Rested /\ Seated /\ TurnsInv /\ RowInv

(* Before the first message is sent the API or nobody carries the job.                      *)
LEMMA OneTaskInit == Init => OneTaskInv
<1> SUFFICES ASSUME Init PROVE OneTaskInv
  OBVIOUS
<1>1. TypeOK
  BY InitType
<1>2. \A w \in Workers : worker[w] = Idle
  BY DEF Init
<1>3. /\ job.state \in {"CREATED", "SPECCING"} /\ ~job.stale /\ job.retry = 0
      /\ job.lastSig = NoSignature /\ hist.patches = 0 /\ charges \in {0, 1}
  BY DEF Init, Row
<1>4. RetryInv
  BY <1>2, <1>3 DEF RetryInv, RetryWithinLimit, At, Idle
<1>5. Rested
  BY <1>2 DEF Rested, Idle
<1>6. NoneWorks /\ queue = Empty
  BY <1>2 DEF Init, NoneWorks, Carries, Idle, Empty
<1>7. Seated
  BY <1>6 DEF Seated, Free, Sending
<1>8. TurnsInv
  BY <1>2 DEF TurnsInv, Busy, Idle
<1>9. RowInv
  BY <1>3 DEF RowInv, Parked, Guarded, Unfixed, Spoken, RetryCountsPatches, ChargedOnce,
              TerminalStates
<1>10. QED
  BY <1>1, <1>4, <1>5, <1>7, <1>8, <1>9 DEF OneTaskInv

(* Every step keeps the whole of it.                                                       *)
LEMMA OneTaskStep == ASSUME ~Overlap PROVE OneTaskInv /\ [Next]_vars => OneTaskInv'
<1> SUFFICES ASSUME OneTaskInv, [Next]_vars PROVE OneTaskInv'
  OBVIOUS
<1> USE DEF OneTaskInv
<1>1. TypeOK' /\ RetryInv' /\ Rested' /\ Seated' /\ TurnsInv'
  BY TypeStep, RetryStep, RestedStep, SeatStep, TurnsStep
<1>2. RowInv'
  BY CarriersStep, CountsStep, SignaturesStep DEF RowInv
<1>3. QED
  BY <1>1, <1>2

LEMMA OneTaskHolds == ASSUME ~Overlap PROVE Spec => []OneTaskInv
BY OneTaskInit, OneTaskStep, PTL DEF Spec

(* Whoever is seated is the only one of the Carriers.                                      *)
LEMMA SeatedIsOne == ASSUME TypeOK, Seated PROVE AtMostOneCarrier
<1> DEFINE Copies(m) == {<<"message", m, copy>> : copy \in 1..queue[m]}
           Holders == {v \in Workers : Carries(worker[v])}
<1> SUFFICES ASSUME NEW c \in Carriers, NEW d \in Carriers PROVE c = d
  BY DEF AtMostOneCarrier
<1>1. \A x \in Carriers : \/ \E m \in Waiting : x \in Copies(m)
                          \/ \E v \in Holders : x = <<"worker", v>>
                          \/ api # "none" /\ x = <<"api">>
  BY DEF Carriers
<1>2. queue = Empty => Waiting = {}
  BY DEF Empty, Waiting
<1>3. NoneWorks => Holders = {}
  BY DEF NoneWorks
<1>4. CASE Free
  BY <1>1, <1>2, <1>3, <1>4 DEF Free
<1>5. CASE Sending
  <2>1. \A x \in Carriers : x = <<"api">>
    BY <1>1, <1>2, <1>3, <1>5 DEF Sending
  <2>2. QED
    BY <2>1
<1>6. ASSUME NEW m \in Messages, Queued(m) PROVE c = d
  <2>1. queue[m] = 1 /\ \A n \in Messages : n # m => queue[n] = 0
    BY <1>6 DEF Queued, Only, Empty
  <2>2. Waiting = {m}
    BY <2>1 DEF Waiting
  <2>3. Copies(m) = {<<"message", m, 1>>}
    <3>1. 1..1 = {1}
      OBVIOUS
    <3>2. QED
      BY <2>1, <3>1
  <2>4. \A x \in Carriers : x \in Copies(m)
    BY <1>1, <1>3, <1>6, <2>2 DEF Queued
  <2>5. QED
    BY <2>3, <2>4
<1>7. ASSUME NEW w \in Workers, Held(w) PROVE c = d
  <2>1. Holders = {w}
    BY <1>7 DEF Held
  <2>2. \A x \in Carriers : x = <<"worker", w>>
    BY <1>1, <1>2, <1>7, <2>1 DEF Held
  <2>3. QED
    BY <2>2
<1>8. QED
  BY <1>4, <1>5, <1>6, <1>7 DEF Seated

(* tasks.py: while no task outlasts the stuck threshold or the dispatch lock, acks after    *)
(* the task, publishing after the commit and the reconciler never put two carriers of a     *)
(* job into the system.                                                                     *)
THEOREM OneCarrier == ASSUME ~Overlap PROVE Spec => []AtMostOneCarrier
<1>1. OneTaskInv => AtMostOneCarrier
  BY SeatedIsOne DEF OneTaskInv
<1>2. QED
  BY <1>1, OneTaskHolds, PTL

(* usage.py: no redelivery and no resumed edit charges a job a second time.                 *)
THEOREM ChargedAtMostOnce == ASSUME ~Overlap PROVE Spec => []ChargedOnce
<1>1. OneTaskInv => ChargedOnce
  BY DEF OneTaskInv, RowInv
<1>2. QED
  BY <1>1, OneTaskHolds, PTL

(* retry_count is the number of patches that were applied.                                  *)
THEOREM PatchesAreCounted == ASSUME ~Overlap PROVE Spec => []RetryCountsPatches
<1>1. OneTaskInv => RetryCountsPatches
  BY DEF OneTaskInv, RowInv
<1>2. QED
  BY <1>1, OneTaskHolds, PTL

(* A paused interview has no carrier, so nothing but its three ways out is enabled that     *)
(* could move it.                                                                           *)
THEOREM PauseIsTheUsers == ASSUME ~Overlap PROVE Spec => OnlyAnswersResume
<1> DEFINE Out == \/ job'.state = "SPECCING" /\ api' = "spec"
                  \/ /\ job'.state = "FAILED"
                     /\ job'.reason \in {"clarification_timeout", "project_deleted"}
<1>1. ASSUME OneTaskInv, [Next]_vars, job.state = "AWAITING_CLARIFICATION",
             job'.state # job.state
      PROVE  Out
  <2>1. Free /\ job \in JobRows
    BY <1>1 DEF OneTaskInv, RowInv, Parked, TypeOK
  <2>2. \A m \in Messages : ~(queue[m] > 0)
    BY <2>1 DEF Free, Empty
  <2>3. \A w \in Workers : ~TaskStep(w) /\ ~TaskError(w)
    BY <1>1, <2>1, TurnOutcome DEF OneTaskInv, Free, NoneWorks, Busy, Carries, TaskError
  <2>4. CASE SweepClarification \/ CancelInflightJobs
    BY <1>1, <2>1, <2>4
    DEF SweepClarification, CancelInflightJobs, Failed, Moved, Applies, TerminalStates, JobRows
  <2>5. CASE SubmitAnswers
    BY <2>1, <2>5 DEF SubmitAnswers, JobRows
  <2>6. CASE Reconcile
    BY <1>1, <2>6 DEF Reconcile, StuckStates, ResumableStates
  <2>7. CASE Age
    BY <1>1, <2>1, <2>7 DEF Age, JobRows
  <2>8. QED
    BY <1>1, <2>2, <2>3, <2>4, <2>5, <2>6, <2>7
    DEF Next, vars, Broker, Preflight, Load, Worker, Dispatch, Crash, Beat, Api, ApiSend,
        ApiCrash, DeleteProject, Time, LockExpires, WallClockExpires
<1>2. OneTaskInv /\ [Next]_vars
        => [job.state = "AWAITING_CLARIFICATION" /\ job'.state # job.state => Out]_vars
  BY <1>1
<1>3. QED
  BY <1>2, OneTaskHolds, PTL DEF Spec, OnlyAnswersResume

(* The reasons a task may fail the job with, other than the guards' verdict.                *)
LEMMA VerdictIsTheGuards ==
  ASSUME TypeOK, [Next]_vars, job'.reason = "no_progress", job.reason # "no_progress"
  PROVE  \E w \in Workers : /\ At(w, "fix", "run") /\ FixGuard(w) = "no_progress"
                            /\ Applies
<1> job \in JobRows
  BY DEF TypeOK
<1>1. job'.reason # job.reason /\ ~UNCHANGED job
  OBVIOUS
<1>2. ASSUME NEW r, job' = Failed(r) PROVE r = "no_progress" /\ Applies
  BY <1>2 DEF Failed, Moved, JobRows
<1>3. ASSUME NEW w \in Workers, NEW r, EndWith(w, r) PROVE r = "no_progress" /\ Applies
  BY <1>2, <1>3 DEF EndWith
<1>4. ASSUME NEW w \in Workers, NEW r, FixFails(w, r) PROVE r = "no_progress" /\ Applies
  BY <1>3, <1>4 DEF FixFails
<1>5. \A w \in Workers : ~AgentTrips(w)
  BY <1>3 DEF AgentTrips, AgentFailures
<1>6. \A to \in JobStates : job' # Moved(to)
  BY DEF Moved, JobRows
<1>7. \A w \in Workers : ~EnterFixing(w)
  BY DEF EnterFixing, Commit, Moved, JobRows
<1>8. PICK w \in Workers : TaskStep(w)
  <2>1. \A m \in Messages : ~Preflight(m) /\ \A w \in Workers : ~Load(w, m)
    BY <1>2 DEF Preflight, Load
  <2>2. \A w \in Workers : ~Dispatch(w) /\ ~Crash(w) /\ ~TaskError(w)
    BY <1>2 DEF Dispatch, Crash, TaskError
  <2>3. ~Beat
    BY <1>2 DEF Beat, SweepClarification, Reconcile
  <2>4. ~Api
    BY DEF Api, SubmitAnswers, ApiSend, ApiCrash, DeleteProject, CancelInflightJobs, JobRows
  <2>5. ~Time
    BY DEF Time, Age, LockExpires, WallClockExpires, JobRows
  <2>6. QED
    BY <2>1, <2>2, <2>3, <2>4, <2>5 DEF Next, vars, Broker, Worker
<1>9. FixGuards(w)
  <2>1. \A to \in {"INTERVIEWING", "AWAITING_CLARIFICATION", "BUILDING", "DEPLOYING", "LIVE",
                   "EDITING"} : to \in JobStates
    BY DEF JobStates
  <2>2. ~InterviewStart(w) /\ ~InterviewFinish(w) /\ ~SpecFinish(w)
    BY <1>5, <1>6, <2>1 DEF InterviewStart, InterviewFinish, SpecFinish, Commit
  <2>3. ~BuildFinish(w) /\ ~DeployRun(w) /\ ~DeployFinish(w)
    BY <1>3, <1>6, <1>7, <2>1 DEF BuildFinish, DeployRun, DeployFinish, Commit
  <2>4. ~EditStart(w) /\ ~EditCharge(w) /\ ~EditFinish(w)
    BY <1>3, <1>6, <2>1 DEF EditStart, EditCharge, EditFinish, Commit
  <2>5. ~FixFinish(w)
    <3>1. ~Commit(w, [Moved("BUILDING") EXCEPT !.retry = worker[w].retry + 1],
                  ThenDispatch(w, "build"))
      BY DEF Commit, Moved, JobRows
    <3>2. ~\E sig \in Signatures :
             job' = [job EXCEPT !.logSig = sig, !.pending = TRUE, !.stale = FALSE]
      BY DEF JobRows
    <3>3. QED
      BY <1>4, <3>1, <3>2 DEF FixFinish
  <2>6. QED
    BY <1>8, <2>2, <2>3, <2>4, <2>5 DEF TaskStep
<1>10. FixFails(w, FixGuard(w))
  <2>1. ~FixFails(w, "budget_exhausted")
    BY <1>4
  <2>2. \A a, b : job' # [job EXCEPT !.lastSig = a, !.pending = b]
    BY DEF JobRows
  <2>3. QED
    BY <1>9, <2>1, <2>2 DEF FixGuards
<1>11. QED
  BY <1>4, <1>9, <1>10 DEF FixGuards

(* check_fix_guards (d): whoever is told that Agent 4 makes no progress was given an answer *)
(* by Agent 4 since the guards last passed.                                                  *)
THEOREM NoProgressVerdict == ASSUME ~Overlap PROVE Spec => NoProgressIsReal
<1>1. ASSUME OneTaskInv, FixingHasLog, [Next]_vars,
             job'.reason = "no_progress", job.reason # "no_progress"
      PROVE  hist.spoke
  <2> TypeOK /\ TurnsInv /\ Spoken
    BY <1>1 DEF OneTaskInv, RowInv
  <2>1. PICK w \in Workers : /\ At(w, "fix", "run") /\ FixGuard(w) = "no_progress"
                             /\ Applies
    BY <1>1, VerdictIsTheGuards
  <2>2. Relies(worker[w], job, charges)
    BY <2>1 DEF TurnsInv, At, Busy
  <2>3. job.state = "FIXING"
    BY <2>1, <2>2 DEF Relies, InPlace, At, Applies, TerminalStates
  <2>4. worker[w].lastSig = worker[w].sig /\ worker[w].pending
    BY <2>1 DEF FixGuard
  <2>5. job.lastSig = job.logSig /\ job.pending
    BY <2>1, <2>2, <2>4 DEF Relies, Knows, At
  <2>6. job.lastSig # NoSignature
    BY <1>1, <2>3, <2>5 DEF FixingHasLog
  <2>7. QED
    BY <2>5, <2>6 DEF Spoken
<1>2. OneTaskInv /\ FixingHasLog /\ [Next]_vars
        => [job'.reason = "no_progress" /\ job.reason # "no_progress" => hist.spoke]_vars
  BY <1>1
<1>3. QED
  BY <1>2, OneTaskHolds, FixingJobHasLog, PTL DEF Spec, NoProgressIsReal

--------------------------------------------------------------------------------
(* The pipeline implements the documented state machine.                                    *)

(* A step seen by the client of the job: an edge of the state machine, or nothing.          *)
LEMMA LifecycleStep ==
  ASSUME OneTaskInv, ChargeInv, [Next]_vars
  PROVE  [Lifecycle!Next]_(Lifecycle!vars)
<1> job \in JobRows /\ TypeOK /\ TurnsInv /\ RetryCountsPatches
  BY DEF OneTaskInv, TypeOK, RowInv
<1> USE DEF Lifecycle!Next, Lifecycle!vars
<1>1. CASE Keeps
  <2>1. CASE job'.state = job.state
    BY <1>1, <2>1 DEF Keeps
  <2>2. CASE job'.state = "FAILED" /\ job.state \notin {"LIVE", "FAILED"}
    BY <1>1, <2>2 DEF Keeps, Lifecycle!Fail
  <2>3. CASE job'.state = "FAILED" /\ job.state = "LIVE"
    BY <1>1, <2>3 DEF Keeps, Lifecycle!Takedown, Lifecycle!Forward
  <2>4. QED
    BY <1>1, <2>1, <2>2, <2>3 DEF Keeps
<1>2. CASE SubmitAnswers
  <2>1. job'.state = "SPECCING"
    BY <1>2 DEF SubmitAnswers, JobRows
  <2>2. QED
    BY <1>2, <2>1 DEF SubmitAnswers, Lifecycle!Advance, Lifecycle!Forward
<1>3. ASSUME NEW w \in Workers, TaskStep(w) PROVE [Lifecycle!Next]_(Lifecycle!vars)
  <2>1. TurnEffect(w) /\ Relies(worker[w], job, charges)
    BY <1>3, TurnOf, TurnOutcome DEF TurnsInv
  <2>2. ASSUME NEW to \in JobStates, job' = Moved(to) PROVE job'.state = to
    BY <2>2 DEF Moved, JobRows
  <2>3. Charge(w) /\ (worker[w].counted <=> charges > 0) => charges' > 0
    BY DEF Charge, TypeOK
  <2>4. CASE StartsInterview(w)
    <3>1. charges' > 0
      BY <2>1, <2>3, <2>4 DEF StartsInterview, At, Relies, Knows
    <3>2. job'.state = "INTERVIEWING"
      BY <2>2, <2>4 DEF StartsInterview, JobStates
    <3>3. QED
      BY <2>4, <3>1, <3>2 DEF StartsInterview, Lifecycle!Start
  <2>5. CASE Finishes(w)
    BY <2>2, <2>5 DEF Finishes, Advances, JobStates, Lifecycle!Advance, Lifecycle!Forward
  <2>6. CASE HandsOver(w)
    <3>1. At(w, "edit", "agent") => charges > 0
      BY DEF ChargeInv, At, NotBegun, TypeOK
    <3>2. QED
      BY <2>2, <2>6, <3>1
      DEF HandsOver, Advances, JobStates, Lifecycle!Advance, Lifecycle!Forward
  <2>7. CASE Fixes(w)
    <3>1. job'.state = "FIXING"
      BY <2>7 DEF Fixes, Moved, JobRows
    <3>2. QED
      BY <2>7, <3>1 DEF Fixes, Lifecycle!Advance, Lifecycle!Forward
  <2>8. CASE Rechecks(w)
    BY <2>8 DEF Rechecks
  <2>9. CASE Passes(w) \/ Rejects(w)
    <3>1. job'.state = job.state /\ hist'.patches = hist.patches /\ charges' = charges
      BY <2>9 DEF Passes, Rejects, JobRows, TypeOK
    <3>2. QED
      BY <3>1
  <2>10. CASE Patches(w)
    <3>1. worker[w].retry = job.retry /\ worker[w].retry < MaxFixAttempts
      BY <2>1, <2>10 DEF Patches, At, Relies, Knows, RetryInv, OneTaskInv
    <3>2. hist.patches < MaxFixAttempts /\ hist'.patches = hist.patches + 1
      BY <2>10, <3>1 DEF Patches, PatchCounted, RetryCountsPatches, TypeOK, JobRows
    <3>3. job'.state = "BUILDING"
      BY <2>10 DEF Patches, Moved, JobRows
    <3>4. QED
      BY <2>10, <3>2, <3>3 DEF Patches, Lifecycle!Patch
  <2>11. CASE Edits(w)
    BY <2>2, <2>11 DEF Edits, Advances, JobStates, Lifecycle!StartEdit
  <2>12. CASE ChargesEdit(w)
    <3>1. charges' > 0
      BY <2>1, <2>3, <2>12 DEF ChargesEdit, At, Relies, Knows
    <3>2. QED
      BY <2>12, <3>1 DEF ChargesEdit, Lifecycle!ChargeEdit
  <2>13. QED
    BY <1>1, <2>1, <2>4, <2>5, <2>6, <2>7, <2>8, <2>9, <2>10, <2>11, <2>12 DEF TurnEffect
<1>4. QED
  BY <1>1, <1>2, <1>3, OtherStep

(* Whoever watches a job sees the documented machine: its edges, one charge before the work *)
(* counts, at most max_fix_attempts patches.                                                *)
THEOREM PipelineImplementsLifecycle == ASSUME ~Overlap PROVE Spec => ImplementsLifecycle
<1>1. Init => Lifecycle!Init
  BY DEF Init, Row, Lifecycle!Init
<1>2. Init => ChargeInv
  BY DEF Init, Row, ChargeInv, NotBegun, Idle
<1>3. OneTaskInv => TypeOK
  BY DEF OneTaskInv
<1>4. QED
  BY <1>1, <1>2, <1>3, ChargeStep, OneTaskHolds, LifecycleStep, PTL
  DEF Spec, ImplementsLifecycle, Lifecycle!Spec
================================================================================
