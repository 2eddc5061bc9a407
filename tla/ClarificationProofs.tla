-------------------------- MODULE ClarificationProofs --------------------------
(* Theorems about Clarification, for every set of jobs, requests and answers.       *)
EXTENDS Clarification, TLAPS

USE AnswersAssumption

(* What a step that accepts no answers does to the row of a job: the answers stay, a *)
(* job never comes back to its pause, and FAILED stays.                              *)
Kept(j) ==
  /\ row'[j].answers = row[j].answers
  /\ row[j].state # "AWAITING_CLARIFICATION" => row'[j].state # "AWAITING_CLARIFICATION"
  /\ row[j].state = "FAILED" => row'[j].state = "FAILED"

(* What is known of a request at each of its steps: the row has left the pause behind *)
(* it, and the verdict was drawn from answers that no later step changes.             *)
Known(r) ==
  LET q == req[r]
      job == row[q.job]
  IN
  /\ q.pc = "loaded" /\ q.seen # "AWAITING_CLARIFICATION"
       => job.state # "AWAITING_CLARIFICATION"
  /\ q.pc = "loaded" /\ q.seen = "FAILED" => job.state = "FAILED"
  /\ q.pc = "lost" \/ q.outcome \in {"200", "409"} => job.state # "AWAITING_CLARIFICATION"
  /\ Accepted(r) => job.answers = q.answers /\ q.answers # NoAnswers
  /\ q.outcome = "200" => job.answers = q.answers
  /\ q.outcome = "409" => job.answers # q.answers \/ job.state = "FAILED"
  /\ q.pc # "done" => q.outcome = "none"
  /\ q.pc # "new" => q.answers # NoAnswers

(* The inductive invariant: a paused job has no answers, what is known of every        *)
(* request, and no two accepted requests for one job.                                 *)
RaceInv ==
  /\ \A j \in Jobs : row[j].state = "AWAITING_CLARIFICATION" => row[j].answers = NoAnswers
  /\ \A r \in Requests : Known(r)
  /\ \A r \in Requests : \A q \in Requests \ {r} :
       Accepted(r) /\ Accepted(q) => req[q].job # req[r].job

--------------------------------------------------------------------------------
(* Type correctness. *)

(* transition() leaves a row of the table.                                           *)
LEMMA MovedType ==
  ASSUME TypeOK, NEW j \in Jobs, NEW to \in States, NEW why \in Reasons
  PROVE  Moved(j, to, why) \in [Jobs -> Rows]
BY DEF TypeOK, Moved, Rows

(* Every action keeps the types.                                                     *)
LEMMA TypeStep == TypeOK /\ [Next]_vars => TypeOK'
<1> SUFFICES ASSUME TypeOK, [Next]_vars PROVE TypeOK'
  OBVIOUS
<1>1. CASE UNCHANGED vars
  BY <1>1 DEF TypeOK, vars
<1>2. ASSUME NEW r \in Requests, Request(r) PROVE TypeOK'
  <2> req[r] \in Reqs
    BY DEF TypeOK
  <2>1. req' \in [Requests -> Reqs]
    <3>1. CASE Load(r)
      <4>1. PICK j \in Jobs, a \in AnswerSets \cup {Incomplete} :
              req' = [req EXCEPT ![r] = [@ EXCEPT !.pc = "loaded", !.job = j, !.answers = a,
                                                  !.seen = row[j].state]]
        BY <3>1 DEF Load
      <4>2. row[j].state \in States
        BY DEF TypeOK, Rows
      <4>3. [req[r] EXCEPT !.pc = "loaded", !.job = j, !.answers = a, !.seen = row[j].state]
              \in Reqs
        BY <4>2 DEF Reqs
      <4>4. QED
        BY <4>1, <4>3 DEF TypeOK
    <3>2. CASE Reject(r) \/ Reread(r) \/ Compare(r) \/ Send(r) \/ SendLost(r)
      <4>1. PICK o \in Outcomes :
              req' = [req EXCEPT ![r] = [@ EXCEPT !.pc = "done", !.outcome = o]]
        BY <3>2 DEF Reject, Reread, Compare, Send, SendLost, Finish, Outcomes
      <4>2. [req[r] EXCEPT !.pc = "done", !.outcome = o] \in Reqs
        BY DEF Reqs
      <4>3. QED
        BY <4>1, <4>2 DEF TypeOK
    <3>3. CASE Update(r)
      BY <3>3 DEF Update, Goto, TypeOK, Reqs
    <3>4. QED
      BY <1>2, <3>1, <3>2, <3>3 DEF Request
  <2>2. row' \in [Jobs -> Rows]
    <3>1. CASE Update(r) /\ row' = Resumed(req[r].job, req[r].answers)
      <4>1. Complete(r) /\ req[r].job \in Jobs
        BY <3>1 DEF Update, Reqs
      <4>2. req[r].answers \in AnswerSets \cup {NoAnswers}
        BY <4>1 DEF Complete, Reqs
      <4>3. QED
        BY <3>1, <4>1, <4>2 DEF Resumed, TypeOK, Rows, States
    <3>2. QED
      BY <1>2, <3>1
      DEF Request, Load, Reject, Update, Reread, Compare, Send, SendLost, TypeOK
  <2>3. queue' \subseteq Jobs /\ waited' \subseteq Jobs
    BY <1>2 DEF Request, Load, Reject, Update, Reread, Compare, Send, SendLost, TypeOK, Reqs
  <2>4. UNCHANGED <<sweep, running>>
    BY <1>2 DEF Request, Load, Reject, Update, Reread, Compare, Send, SendLost
  <2>5. QED
    BY <2>1, <2>2, <2>3, <2>4 DEF TypeOK
<1>3. ASSUME NEW j \in Jobs, SpecTask(j) PROVE TypeOK'
  <2>1. row' \in [Jobs -> Rows]
    <3>1. /\ Moved(j, "BUILDING", "none") \in [Jobs -> Rows]
          /\ Moved(j, "FAILED", "invalid_agent_output") \in [Jobs -> Rows]
      BY MovedType DEF States, Reasons
    <3>2. QED
      BY <1>3, <3>1 DEF SpecTask, SpecLoad, SpecFinish, SpecCrash, TypeOK
  <2>2. QED
    BY <1>3, <2>1 DEF SpecTask, SpecLoad, SpecFinish, SpecCrash, TypeOK
<1>4. CASE Beat
  <2> DEFINE Sweeps == [batch : SUBSET Jobs, holds : BOOLEAN]
  <2>1. CASE SweepSelect \/ SweepCrash
    <3>1. \E batch \in SUBSET Jobs, holds \in BOOLEAN :
            sweep' = [batch |-> batch, holds |-> holds]
      BY <2>1 DEF SweepSelect, SweepCrash
    <3>2. sweep' \in Sweeps
      BY <3>1
    <3>3. QED
      BY <2>1, <3>2 DEF SweepSelect, SweepCrash, TypeOK
  <2>2. ASSUME NEW j \in Jobs, SweepFail(j) PROVE TypeOK'
    <3>1. row' \in [Jobs -> Rows]
      <4>1. Moved(j, "FAILED", "clarification_timeout") \in [Jobs -> Rows]
        BY MovedType DEF States, Reasons
      <4>2. QED
        BY <2>2, <4>1 DEF SweepFail, TypeOK
    <3>2. sweep.batch \in SUBSET Jobs
      BY DEF TypeOK
    <3>3. \E batch \in SUBSET Jobs : sweep' = [batch |-> batch, holds |-> FALSE]
      BY <2>2, <3>2 DEF SweepFail
    <3>4. sweep' \in Sweeps
      BY <3>3
    <3>5. waited' \subseteq Jobs
      BY <2>2 DEF SweepFail, TypeOK
    <3>6. QED
      BY <2>2, <3>1, <3>4, <3>5 DEF SweepFail, TypeOK
  <2>3. ASSUME NEW j \in Jobs, Reconcile(j) PROVE TypeOK'
    <3>1. row' \in [Jobs -> Rows]
      BY <2>3, MovedType DEF Reconcile, TypeOK, States, Reasons
    <3>2. QED
      BY <2>3, <3>1 DEF Reconcile, TypeOK
  <2>4. QED
    BY <1>4, <2>1, <2>2, <2>3 DEF Beat
<1>5. CASE Time
  <2>1. ASSUME NEW j \in Jobs, Age(j) \/ TtlPasses(j) PROVE TypeOK'
    <3>1. /\ [row[j] EXCEPT !.stale = TRUE] \in Rows
          /\ [row[j] EXCEPT !.old = TRUE] \in Rows
      BY DEF TypeOK, Rows
    <3>2. row' \in [Jobs -> Rows]
      BY <2>1, <3>1 DEF Age, TtlPasses, TypeOK
    <3>3. QED
      BY <2>1, <3>2 DEF Age, TtlPasses, TypeOK
  <2>2. QED
    BY <1>5, <2>1 DEF Time
<1>6. QED
  BY <1>1, <1>2, <1>3, <1>4, <1>5 DEF Next

(* The variables stay in their sets.                                                 *)
THEOREM TypeCorrect == Spec => []TypeOK
<1>1. ASSUME Init PROVE TypeOK
  <2>1. (CHOOSE j \in Jobs : TRUE) \in Jobs
    OBVIOUS
  <2>2. req \in [Requests -> Reqs]
    BY <1>1, <2>1 DEF Init, Reqs, States, Outcomes
  <2>3. row \in [Jobs -> Rows]
    BY <1>1 DEF Init, Rows, States, Reasons
  <2>4. QED
    BY <1>1, <2>2, <2>3 DEF Init, TypeOK
<1>2. QED
  BY <1>1, TypeStep, PTL DEF Spec

--------------------------------------------------------------------------------
(* The race for the answers. *)

(* Every step that is not the winning UPDATE keeps the answers and the way out of the *)
(* pause.                                                                             *)
LEMMA RowStep ==
  ASSUME TypeOK, [Next]_vars, ~\E r \in Requests : Update(r) /\ Wins(req[r].job), NEW j \in Jobs
  PROVE  Kept(j)
<1> row \in [Jobs -> Rows] /\ row[j] \in Rows
  BY DEF TypeOK
<1>1. ASSUME row' = row PROVE Kept(j)
  BY <1>1 DEF Kept
<1>2. ASSUME NEW i \in Jobs, NEW to \in States \ {"AWAITING_CLARIFICATION"}, NEW why \in Reasons,
             row' = Moved(i, to, why), row[i].state # "FAILED"
      PROVE  Kept(j)
  BY <1>2 DEF Moved, Kept, Rows
<1>3. ASSUME NEW r \in Requests, Request(r) PROVE Kept(j)
  BY <1>1, <1>3 DEF Request, Load, Reject, Update, Reread, Compare, Send, SendLost
<1>4. ASSUME NEW i \in Jobs, SpecTask(i) PROVE Kept(j)
  BY <1>1, <1>2, <1>4
  DEF SpecTask, SpecLoad, SpecFinish, SpecCrash, Applies, States, Reasons
<1>5. ASSUME NEW i \in Jobs, SweepFail(i) PROVE Kept(j)
  BY <1>1, <1>2, <1>5 DEF SweepFail, Applies, States, Reasons, TypeOK
<1>6. ASSUME NEW i \in Jobs, Reconcile(i) PROVE Kept(j)
  BY <1>2, <1>6 DEF Reconcile, Watched, States, Reasons
<1>7. CASE SweepSelect \/ SweepCrash
  BY <1>1, <1>7 DEF SweepSelect, SweepCrash
<1>8. CASE Time
  BY <1>8 DEF Time, Age, TtlPasses, Kept, Rows
<1>9. CASE UNCHANGED vars
  BY <1>1, <1>9 DEF vars
<1>10. QED
  BY <1>3, <1>4, <1>5, <1>6, <1>7, <1>8, <1>9 DEF Next, Beat

(* What is known of a request survives a step that leaves the request alone and keeps *)
(* the row of its job.                                                                *)
LEMMA KnownKept ==
  ASSUME TypeOK, NEW r \in Requests, Known(r), req'[r] = req[r], Kept(req[r].job)
  PROVE  Known(r)'
BY DEF Known, Kept, Accepted, TypeOK, Reqs

(* The invariant is inductive.                                                        *)
LEMMA RaceStep == TypeOK /\ RaceInv /\ [Next]_vars => RaceInv'
<1> SUFFICES ASSUME TypeOK, RaceInv, [Next]_vars PROVE RaceInv'
  OBVIOUS
<1> \A r \in Requests : Known(r) /\ req[r] \in Reqs /\ req[r].job \in Jobs
  BY DEF RaceInv, TypeOK, Reqs
<1>1. ASSUME NEW r \in Requests, Update(r), Wins(req[r].job) PROVE RaceInv'
  <2> DEFINE j == req[r].job
  <2>1. /\ row[j].state = "AWAITING_CLARIFICATION" /\ row[j].answers = NoAnswers
        /\ row[j] \in Rows /\ req[r].pc = "loaded" /\ req[r].answers # NoAnswers
    BY <1>1 DEF Wins, RaceInv, Update, Known, TypeOK
  <2>2. /\ row' = [row EXCEPT ![j] = [@ EXCEPT !.state = "SPECCING", !.answers = req[r].answers,
                                               !.old = FALSE]]
        /\ req' = [req EXCEPT ![r].pc = "won"]
    BY <1>1 DEF Update, Goto, Resumed
  <2>3. /\ row'[j].state = "SPECCING" /\ row'[j].answers = req[r].answers
        /\ \A i \in Jobs \ {j} : row'[i] = row[i]
    BY <2>1, <2>2 DEF TypeOK, Rows
  <2>4. /\ req'[r].pc = "won" /\ req'[r].job = j /\ req'[r].answers = req[r].answers
        /\ req'[r].outcome = "none"
        /\ \A q \in Requests \ {r} : req'[q] = req[q]
    BY <2>1, <2>2 DEF TypeOK, Reqs, Known
  <2>5. \A q \in Requests \ {r} : Accepted(q) => req[q].job # j
    BY <2>1 DEF Known
  <2>6. Known(r)'
    BY <2>1, <2>3, <2>4 DEF Known, Accepted
  <2>7. ASSUME NEW q \in Requests \ {r} PROVE Known(q)'
    <3>1. CASE req[q].job = j
      BY <2>1, <2>3, <2>4, <2>5, <3>1 DEF Known, Accepted
    <3>2. CASE req[q].job # j
      BY <2>3, <2>4, <3>2 DEF Known, Accepted
    <3>3. QED
      BY <3>1, <3>2
  <2>8. \A i \in Jobs : row'[i].state = "AWAITING_CLARIFICATION" => row'[i].answers = NoAnswers
    BY <2>3 DEF RaceInv
  <2>9. \A p \in Requests : \A q \in Requests \ {p} :
          Accepted(p)' /\ Accepted(q)' => req'[q].job # req'[p].job
    BY <2>4, <2>5 DEF RaceInv, Accepted
  <2>10. QED
    BY <2>6, <2>7, <2>8, <2>9 DEF RaceInv
<1>2. CASE ~\E r \in Requests : Update(r) /\ Wins(req[r].job)
  <2>1. \A j \in Jobs : Kept(j)
    BY <1>2, RowStep
  <2>2. \A j \in Jobs : row'[j].state = "AWAITING_CLARIFICATION" => row'[j].answers = NoAnswers
    BY <2>1 DEF Kept, RaceInv
  <2>3. ASSUME NEW r \in Requests, Request(r)
        PROVE  /\ Known(r)' /\ \A q \in Requests \ {r} : req'[q] = req[q]
               /\ Accepted(r)' => Accepted(r) /\ req'[r].job = req[r].job
    <3>1. /\ Kept(req[r].job) /\ Known(r) /\ req \in [Requests -> Reqs]
      BY <2>1 DEF TypeOK
    <3>2. CASE Load(r)
      <4>1. PICK j \in Jobs, a \in AnswerSets \cup {Incomplete} :
              req' = [req EXCEPT ![r] = [@ EXCEPT !.pc = "loaded", !.job = j, !.answers = a,
                                                  !.seen = row[j].state]]
        BY <3>2 DEF Load
      <4>2. /\ req'[r].pc = "loaded" /\ req'[r].job = j /\ req'[r].answers = a
            /\ req'[r].seen = row[j].state /\ req'[r].outcome = "none" /\ row' = row
        BY <3>1, <3>2, <4>1 DEF Load, Reqs, Known
      <4>3. QED
        BY <3>1, <4>1, <4>2 DEF Known, Accepted
    <3>3. CASE Update(r)
      <4>1. /\ req' = [req EXCEPT ![r].pc = "lost"] /\ row' = row /\ ~Wins(req[r].job)
            /\ req[r].pc = "loaded"
        BY <1>2, <3>3 DEF Update, Goto
      <4>2. QED
        BY <3>1, <4>1 DEF Known, Accepted, Reqs, Wins
    <3>4. CASE Reject(r) \/ Reread(r) \/ Compare(r) \/ Send(r) \/ SendLost(r)
      <4>1. row' = row
        BY <3>4 DEF Reject, Reread, Compare, Send, SendLost
      <4>2. PICK o \in Outcomes :
              /\ req' = [req EXCEPT ![r] = [@ EXCEPT !.pc = "done", !.outcome = o]]
              /\ o = "202" => req[r].pc = "won"
              /\ o = "200" => Matches(r)
              /\ o = "409" => ~Matches(r) \/ (req[r].pc = "loaded" /\ req[r].seen = "FAILED")
              /\ o \in {"200", "409"} =>
                   \/ req[r].pc = "lost"
                   \/ req[r].pc = "loaded" /\ req[r].seen # "AWAITING_CLARIFICATION"
        <5>1. CASE Reject(r)
          BY <5>1 DEF Reject, Finish, Outcomes
        <5>2. CASE Reread(r)
          BY <5>2 DEF Reread, Finish, Outcomes
        <5>3. CASE Compare(r)
          BY <5>3 DEF Compare, Finish, Outcomes
        <5>4. CASE Send(r) \/ SendLost(r)
          BY <5>4 DEF Send, SendLost, Finish, Outcomes
        <5>5. QED
          BY <3>4, <5>1, <5>2, <5>3, <5>4
      <4>3. req[r].pc # "new"
        BY <3>4 DEF Reject, Reread, Compare, Send, SendLost
      <4>4. /\ req'[r].pc = "done" /\ req'[r].outcome = o /\ req'[r].job = req[r].job
            /\ req'[r].answers = req[r].answers /\ req'[r].seen = req[r].seen
            /\ \A q \in Requests \ {r} : req'[q] = req[q]
        BY <3>1, <4>2 DEF Reqs
      <4>5. QED
        BY <3>1, <4>1, <4>2, <4>3, <4>4 DEF Known, Accepted, Matches
    <3>5. QED
      BY <2>3, <3>2, <3>3, <3>4 DEF Request
  <2>4. CASE UNCHANGED req
    BY <2>1, <2>2, <2>4, KnownKept DEF RaceInv, Accepted
  <2>5. ASSUME NEW r \in Requests, Request(r) PROVE RaceInv'
    <3>1. \A q \in Requests : Known(q)'
      BY <2>1, <2>3, <2>5, KnownKept
    <3>2. \A q \in Requests : Accepted(q)' => Accepted(q) /\ req'[q].job = req[q].job
      BY <2>3, <2>5 DEF Accepted
    <3>3. QED
      BY <2>2, <3>1, <3>2 DEF RaceInv
  <2>6. QED
    BY <2>4, <2>5
    DEF Next, vars, SpecTask, SpecLoad, SpecFinish, SpecCrash, Beat, SweepSelect, SweepCrash,
        SweepFail, Reconcile, Time, Age, TtlPasses
<1>3. QED
  BY <1>1, <1>2

(* The invariant holds in every reachable state.                                      *)
LEMMA RaceInvariance == Spec => []RaceInv
<1>1. Init => RaceInv
  BY DEF Init, RaceInv, Known, Accepted
<1>2. QED
  BY <1>1, RaceStep, TypeCorrect, PTL DEF Spec

(* submit_answers: one accepted request per job at most, and its answers are the ones  *)
(* that stay.                                                                         *)
THEOREM OneAnswerWins == Spec => []AcceptedIsKept
<1>1. RaceInv => AcceptedIsKept
  BY DEF RaceInv, Known, AcceptedIsKept, Stored
<1>2. QED
  BY <1>1, RaceInvariance, PTL

(* submit_answers: 200 and 409 tell every other client the truth about its answers.    *)
THEOREM VerdictsAreTrue == Spec => []VerdictsAgree
<1>1. RaceInv => VerdictsAgree
  BY DEF RaceInv, Known, VerdictsAgree, Stored
<1>2. QED
  BY <1>1, RaceInvariance, PTL
================================================================================
