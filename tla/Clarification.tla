----------------------------- MODULE Clarification -----------------------------
(******************************************************************************)
(* The human-in-the-loop pause of several jobs: POST /jobs/{id}/answers from  *)
(* concurrent clients, the sweeper that fails unanswered jobs in a batch, the *)
(* reconciler, and the spec task the answers resume. JobPipeline follows one   *)
(* job from end to end; this module opens the steps inside the pause, where    *)
(* requests race each other and one sweep holds the rows of several jobs.      *)
(******************************************************************************)
EXTENDS FiniteSets, Naturals

CONSTANTS
  Jobs,        \* jobs of the users, all paused for answers
  Requests,    \* requests POST /jobs/{id}/answers
  AnswerSets,  \* complete answers to the questions of a job
  Incomplete,  \* answers with a missing, foreign or doubled question
  NoAnswers    \* no row in answers for the job

ASSUME AnswersAssumption ==
  /\ Incomplete \notin AnswerSets
  /\ NoAnswers \notin AnswerSets \cup {Incomplete}
  /\ Jobs # {}

VARIABLES
  row,     \* generation_jobs, with the answers of the job
  req,     \* what each request is doing
  sweep,   \* the rows of the sweeper's pass, and whether its locks still hold
  queue,   \* jobs with a task_spec message in the broker
  running, \* jobs whose task_spec runs
  waited   \* history: jobs in their present state for STUCK_THRESHOLD_S

vars == <<row, req, sweep, queue, running, waited>>

Reasons == {"none", "clarification_timeout", "stuck_timeout", "invalid_agent_output"}
(* BUILDING stands for every state after the spec task. *)
States == {"AWAITING_CLARIFICATION", "SPECCING", "BUILDING", "FAILED"}
Outcomes == {"none", "200", "202", "409", "422"}
Rows == [state : States, reason : Reasons, answers : AnswerSets \cup {NoAnswers},
         stale : BOOLEAN, old : BOOLEAN]
Reqs == [pc : {"new", "loaded", "won", "lost", "done"}, job : Jobs,
         answers : AnswerSets \cup {Incomplete, NoAnswers}, seen : States, outcome : Outcomes]

(* FOR UPDATE locks of the sweeper: gone with its first commit. *)
Locked(j) == sweep.holds /\ j \in sweep.batch

(* The barrier of transition(). *)
Applies(j) == row[j].state # "FAILED"

(* transition(): the state and both timestamps. *)
Moved(j, to, why) ==
  [row EXCEPT ![j] = [@ EXCEPT !.state = to, !.reason = why, !.stale = FALSE, !.old = FALSE]]

Finish(r, outcome) == req' = [req EXCEPT ![r] = [@ EXCEPT !.pc = "done", !.outcome = outcome]]
Goto(r, pc) == req' = [req EXCEPT ![r].pc = pc]

--------------------------------------------------------------------------------
(* POST /answers. *)

(* _load_owned_job: the state the request will decide on. *)
Load(r) ==
  /\ req[r].pc = "new"
  /\ \E j \in Jobs, a \in AnswerSets \cup {Incomplete} :
       req' = [req EXCEPT ![r] = [@ EXCEPT !.pc = "loaded", !.job = j, !.answers = a,
                                           !.seen = row[j].state]]
  /\ UNCHANGED <<row, sweep, queue, running, waited>>

(* The questions of the body are the questions of the job, each once.               *)
Complete(r) == req[r].answers # Incomplete

(* 422 before anything is written. *)
Reject(r) ==
  /\ req[r].pc = "loaded" /\ ~Complete(r)
  /\ Finish(r, "422")
  /\ UNCHANGED <<row, sweep, queue, running, waited>>

(* UPDATE ... WHERE id without the state.                                          *)
WinsAlways(j) == TRUE

(* The conditional UPDATE matches. *)
Wins(j) == row[j].state = "AWAITING_CLARIFICATION"

(* The UPDATE writes state, and through onupdate updated_at, but not the heartbeat *)
(* last_transition_at; the answers are in the same transaction.                     *)
Resumed(j, answers) ==
  [row EXCEPT ![j] = [@ EXCEPT !.state = "SPECCING", !.answers = answers, !.old = FALSE]]

(* The branch of a request that loaded a paused job. It waits for the row lock.    *)
Update(r) ==
  LET j == req[r].job IN
  /\ req[r].pc = "loaded" /\ Complete(r)
  /\ req[r].seen = "AWAITING_CLARIFICATION"
  /\ ~Locked(j)
  /\ \/ /\ Wins(j)
        /\ row' = Resumed(j, req[r].answers)
        /\ waited' = waited \ {j}
        /\ Goto(r, "won")
     \/ /\ ~Wins(j)
        /\ Goto(r, "lost")
        /\ UNCHANGED <<row, waited>>
  /\ UNCHANGED <<sweep, queue, running>>

(* A comparison that is content with the presence of answers.                       *)
AnyStored(r) == row[req[r].job].answers # NoAnswers

(* The stored answers are the ones of the request. *)
Matches(r) == row[req[r].job].answers = req[r].answers

(* The loser of the race reads the winner's answers. *)
Reread(r) ==
  /\ req[r].pc = "lost"
  /\ Finish(r, IF Matches(r) THEN "200" ELSE "409")
  /\ UNCHANGED <<row, sweep, queue, running, waited>>

(* A request that loaded a job past its pause. *)
Compare(r) ==
  /\ req[r].pc = "loaded" /\ Complete(r)
  /\ req[r].seen # "AWAITING_CLARIFICATION"
  /\ Finish(r, IF req[r].seen # "FAILED" /\ Matches(r) THEN "200" ELSE "409")
  /\ UNCHANGED <<row, sweep, queue, running, waited>>

(* After the commit: dispatch_for_state, then 202. *)
Send(r) ==
  /\ req[r].pc = "won"
  /\ queue' = queue \cup {req[r].job}
  /\ Finish(r, "202")
  /\ UNCHANGED <<row, sweep, running, waited>>

(* The API process dies, or the broker refuses, before the message is sent. *)
SendLost(r) ==
  /\ req[r].pc = "won"
  /\ Finish(r, "none")
  /\ UNCHANGED <<row, sweep, queue, running, waited>>

--------------------------------------------------------------------------------
(* The spec task. *)

SpecLoad(j) ==
  /\ j \in queue
  /\ queue' = queue \ {j}
  /\ running' = IF row[j].state = "SPECCING" THEN running \cup {j} ELSE running
  /\ UNCHANGED <<row, req, sweep, waited>>

SpecFinish(j) ==
  /\ j \in running
  /\ running' = running \ {j}
  /\ IF Applies(j)
       THEN /\ row' \in {Moved(j, "BUILDING", "none"),
                         Moved(j, "FAILED", "invalid_agent_output")}
            /\ waited' = waited \ {j}
       ELSE UNCHANGED <<row, waited>>
  /\ UNCHANGED <<req, sweep, queue>>

(* The worker dies and its message, not acked, comes back; or an exception that nobody *)
(* classifies ends the task and the message with it.                                 *)
SpecCrash(j) ==
  /\ j \in running
  /\ running' = running \ {j}
  /\ queue' \in {queue, queue \cup {j}}
  /\ UNCHANGED <<row, req, sweep, waited>>

--------------------------------------------------------------------------------
(* Beat and time. *)

(* SELECT ... FOR UPDATE SKIP LOCKED of the expired rows. *)
SweepSelect ==
  LET batch == {j \in Jobs : row[j].state = "AWAITING_CLARIFICATION" /\ row[j].old} IN
  /\ sweep.batch = {} /\ batch # {}
  /\ sweep' = [batch |-> batch, holds |-> TRUE]
  /\ UNCHANGED <<row, req, queue, running, waited>>

(* fail_job of one row of the pass. Its commit ends the transaction with the locks  *)
(* of the rows to come. When the barrier refuses, the rollback expires the loaded    *)
(* rows and the pass ends on reading the next one.                                   *)
SweepFail(j) ==
  /\ j \in sweep.batch
  /\ \/ /\ Applies(j)
        /\ row' = Moved(j, "FAILED", "clarification_timeout")
        /\ waited' = waited \ {j}
        /\ sweep' = [batch |-> sweep.batch \ {j}, holds |-> FALSE]
     \/ /\ ~Applies(j)
        /\ sweep' = [batch |-> {}, holds |-> FALSE]
        /\ UNCHANGED <<row, waited>>
  /\ UNCHANGED <<req, queue, running>>

SweepCrash ==
  /\ sweep.batch # {}
  /\ sweep' = [batch |-> {}, holds |-> FALSE]
  /\ UNCHANGED <<row, req, queue, running, waited>>

(* The states the reconciler watched before the LLM phases were added.             *)
WatchedResumable == {"BUILDING"}
(* _STUCK_STATES, as far as this module goes. *)
Watched == {"SPECCING", "BUILDING"}

(* _reconcile_one on an LLM phase; BUILDING is re-dispatched elsewhere. The row is    *)
(* locked and the heartbeat read again, so one step stands for it; the revoke of the   *)
(* running task may miss. The dispatch lock and the wall clock are in JobPipeline.     *)
Reconcile(j) ==
  /\ row[j].state \in Watched \ {"BUILDING"} /\ row[j].stale
  /\ row' = Moved(j, "FAILED", "stuck_timeout")
  /\ waited' = waited \ {j}
  /\ running' \in {running, running \ {j}}
  /\ UNCHANGED <<req, sweep, queue>>

(* STUCK_THRESHOLD_S passes in the present state of a job. *)
Age(j) ==
  /\ row[j].state \in {"AWAITING_CLARIFICATION", "SPECCING"}
  /\ j \notin waited
  /\ row' = [row EXCEPT ![j].stale = TRUE]
  /\ waited' = waited \cup {j}
  /\ UNCHANGED <<req, sweep, queue, running>>

(* CLARIFICATION_TTL_S passes; it is longer than STUCK_THRESHOLD_S. *)
TtlPasses(j) ==
  /\ row[j].state = "AWAITING_CLARIFICATION" /\ j \in waited /\ ~row[j].old
  /\ row' = [row EXCEPT ![j].old = TRUE]
  /\ UNCHANGED <<req, sweep, queue, running, waited>>

--------------------------------------------------------------------------------
Init ==
  /\ row = [j \in Jobs |-> [state |-> "AWAITING_CLARIFICATION", reason |-> "none",
                            answers |-> NoAnswers, stale |-> FALSE, old |-> FALSE]]
  /\ req = [r \in Requests |-> [pc |-> "new", job |-> CHOOSE j \in Jobs : TRUE,
                               answers |-> NoAnswers, seen |-> "AWAITING_CLARIFICATION",
                               outcome |-> "none"]]
  /\ sweep = [batch |-> {}, holds |-> FALSE]
  /\ queue = {} /\ running = {} /\ waited = {}

Request(r) ==
  Load(r) \/ Reject(r) \/ Update(r) \/ Reread(r) \/ Compare(r) \/ Send(r) \/ SendLost(r)
SpecTask(j) == SpecLoad(j) \/ SpecFinish(j) \/ SpecCrash(j)
Beat == SweepSelect \/ SweepCrash \/ \E j \in Jobs : SweepFail(j) \/ Reconcile(j)
Time == \E j \in Jobs : Age(j) \/ TtlPasses(j)

Next == (\E r \in Requests : Request(r)) \/ (\E j \in Jobs : SpecTask(j)) \/ Beat \/ Time

Spec == Init /\ [][Next]_vars

(* The clock and the reconciler run; nobody else has to.                            *)
FairSpec == Spec /\ \A j \in Jobs : WF_vars(Age(j)) /\ WF_vars(Reconcile(j))

--------------------------------------------------------------------------------
(* Properties. *)

(* Every variable stays in its set.                                                *)
TypeOK ==
  /\ row \in [Jobs -> Rows]
  /\ req \in [Requests -> Reqs]
  /\ sweep \in [batch : SUBSET Jobs, holds : BOOLEAN]
  /\ queue \subseteq Jobs /\ running \subseteq Jobs /\ waited \subseteq Jobs

Stored(r) == row[req[r].job].answers
Accepted(r) == req[r].pc = "won" \/ req[r].outcome = "202"

(* submit_answers: of the requests that raced for a job one at most was accepted, the *)
(* answers stored are its own, and they stay whatever comes later.                    *)
AcceptedIsKept ==
  \A r \in Requests : Accepted(r) =>
    /\ Stored(r) = req[r].answers
    /\ \A q \in Requests \ {r} : Accepted(q) => req[q].job # req[r].job

(* The verdicts of the other requests: 200 means the stored answers are the same as   *)
(* the client's, 409 that they differ or that the job has failed; a repeated request   *)
(* is never told of a conflict with itself.                                           *)
VerdictsAgree ==
  \A r \in Requests :
    /\ req[r].outcome = "200" => Stored(r) = req[r].answers
    /\ req[r].outcome = "409" =>
         Stored(r) # req[r].answers \/ row[req[r].job].state = "FAILED"

(* Answers are never left lying in SPECCING, even when the message was lost with the    *)
(* API process: the job goes on or is failed by the reconciler.                        *)
AnsweredSettles ==
  \A j \in Jobs : row[j].state = "SPECCING" ~> row[j].state \in {"BUILDING", "FAILED"}

(* beat_tasks.py, sweep_clarifications: the sweeper does not compete with a resume. A   *)
(* job whose answers were accepted is not failed for having none.                      *)
AnsweredNotTimedOut ==
  \A j \in Jobs : row[j].reason = "clarification_timeout" => row[j].answers = NoAnswers

(* models.py, last_transition_at: the heartbeat is the moment the job entered its       *)
(* present state, so stuck_timeout strikes only a job that has been in it for the        *)
(* threshold.                                                                          *)
StuckMeansWaited ==
  [][\A j \in Jobs : row'[j].reason = "stuck_timeout" /\ row[j].reason # "stuck_timeout"
       => j \in waited]_vars
================================================================================
