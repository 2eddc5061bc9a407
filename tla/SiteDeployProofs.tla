---------------------------- MODULE SiteDeployProofs ----------------------------
(******************************************************************************)
(* Proofs about SiteDeploy for any jobs, rollbacks, site ids and workers.     *)
(* Type correctness holds in either regime. That failed sites are down and    *)
(* that the two state machines agree needs one deployment per job at a time   *)
(* (~Overlap); its inductive invariant has two parts: Carriage, who works on  *)
(* what, and Rowing, what the row and the container of each site may be; the  *)
(* action properties need a third, Standing, of the pointers of a project.    *)
(* What the collector finds (Accounted) holds in either regime again.         *)
(******************************************************************************)
EXTENDS SiteDeploy, FiniteSetTheorems, TLAPS

--------------------------------------------------------------------------------
(* Type correctness. *)

LEMMA IdleIs == Idle.pc = "idle" /\ \A d \in Deployments : d.pc # "idle"
BY DEF Idle, Deployments

(* The ways the worker table is written.                                           *)
LEMMA WorkerType ==
  ASSUME TypeOK, NEW w \in Workers
  PROVE  /\ Leave(w) => worker' \in [Workers -> Deployments \cup {Idle}]
         /\ \A pc \in {"publish", "run", "health", "recheck", "restate", "live", "previous",
                       "switch", "good", "bad"} :
              worker[w].pc # "idle" /\ Goto(w, pc)
                => worker' \in [Workers -> Deployments \cup {Idle}]
<1>1. Leave(w) => worker' \in [Workers -> Deployments \cup {Idle}]
  BY DEF Leave, TypeOK
<1>2. ASSUME NEW pc \in {"publish", "run", "health", "recheck", "restate", "live", "previous",
                       "switch", "good", "bad"},
             worker[w].pc # "idle", Goto(w, pc)
      PROVE  worker' \in [Workers -> Deployments \cup {Idle}]
  <2>1. worker[w] \in Deployments
    BY <1>2, IdleIs DEF TypeOK
  <2>2. [worker[w] EXCEPT !.pc = pc] \in Deployments
    BY <2>1 DEF Deployments
  <2>3. QED
    BY <1>2, <2>2 DEF Goto, TypeOK
<1>3. QED
  BY <1>1, <1>2

LEMMA BeginType ==
  ASSUME TypeOK, NEW w \in Workers, NEW kind \in {"deploy", "rollback", "restore"},
         NEW j \in AllJobs, NEW s \in Sites, NEW r \in Jobs \cup {None}, Begin(w, kind, j, s, r)
  PROVE  worker' \in [Workers -> Deployments \cup {Idle}]
<1>1. [pc |-> "row", kind |-> kind, job |-> j, site |-> s, rev |-> r, kept |-> current = r,
       prev |-> None] \in Deployments
  BY DEF Deployments
<1>2. QED
  BY <1>1 DEF Begin, TypeOK

(* docker rm -f and the removal of the directory write containers that are known.     *)
LEMMA ContainerType ==
  ASSUME TypeOK
  PROVE  /\ \A S : Down(S) \in [Sites -> Sites \cup {"down", "empty"}]
         /\ Emptied \in [Sites -> Sites \cup {"down", "empty"}]
         /\ Mounted \in Sites \cup {"down", "empty"}
BY DEF TypeOK, Down, Emptied, Mounted

(* A row may be built, activated, failed or superseded.                              *)
LEMMA RowType ==
  ASSUME TypeOK, NEW st \in RowStates
  PROVE  \A s \in Sites : [row[s] EXCEPT !.status = st] \in Rows
BY DEF TypeOK, Rows

(* The container of the attempt goes down, and no other one. *)
Falls(w) ==
  /\ container'[worker[w].site] = "down"
  /\ \A t \in Sites \ {worker[w].site} : container'[t] = "down" <=> container[t] = "down"

(* What is left of the other containers differs in their files only. *)
LEMMA Falling ==
  ASSUME TypeOK, NEW w \in Workers, worker[w].pc # "idle",
         \/ container' = Down({worker[w].site})
         \/ container' = [container EXCEPT ![worker[w].site] = "down"]
         \/ container' = [Emptied EXCEPT ![worker[w].site] = "down"]
  PROVE  Falls(w)
<1>1. worker[w].site \in Sites
  BY IdleIs DEF TypeOK, Deployments
<1>. QED BY <1>1 DEF Falls, Down, Emptied, TypeOK

(* What a foreseen failure writes.                                                   *)
LEMMA AbortType ==
  ASSUME TypeOK, NEW w \in Workers, worker[w].pc # "idle", NEW left \in {container, Emptied},
         NEW Outcomes \in SUBSET {"FIXING", "FAILED"}, Abort(w, Outcomes, left)
  PROVE  /\ container' \in [Sites -> Sites \cup {"down", "empty"}]
         /\ row' \in [Sites -> Rows]
         /\ job' \in [AllJobs -> JobStates]
         /\ worker' \in [Workers -> Deployments \cup {Idle}]
<1>1. container' \in [Sites -> Sites \cup {"down", "empty"}]
  BY ContainerType DEF Abort, TypeOK
<1>2. row' \in [Sites -> Rows]
  <2>1. row' = row \/ row' = [row EXCEPT ![worker[w].site].status = "failed"]
    BY DEF Abort
  <2>2. QED
    BY <2>1, RowType DEF TypeOK, RowStates
<1>3. job' \in [AllJobs -> JobStates]
  BY DEF Abort, TypeOK, JobStates
<1>4. worker' \in [Workers -> Deployments \cup {Idle}]
  <2>1. Leave(w) \/ Goto(w, "bad")
    BY DEF Abort
  <2>2. QED
    BY <2>1, WorkerType
<1>5. QED
  BY <1>1, <1>2, <1>3, <1>4

(* Every action keeps the types.                                                     *)
LEMMA TypeStep == TypeOK /\ [Next]_vars => TypeOK'
<1> SUFFICES ASSUME TypeOK, [Next]_vars PROVE TypeOK'
  OBVIOUS
<1>1. CASE UNCHANGED vars
  BY <1>1 DEF TypeOK, vars
<1>2. ASSUME NEW w \in Workers, Start(w) PROVE TypeOK'
  <2>1. ASSUME NEW j \in Jobs, LoadDeploy(w, j) PROVE TypeOK'
    <3>1. Begin(w, "deploy", j, j, j) => worker' \in [Workers -> Deployments \cup {Idle}]
      BY BeginType DEF Sites, AllJobs
    <3>2. job' \in [AllJobs -> JobStates] /\ queue' \subseteq AllJobs
      BY <2>1 DEF LoadDeploy, TypeOK, JobStates
    <3>3. QED
      BY <2>1, <3>1, <3>2 DEF LoadDeploy, TypeOK
  <2>2. ASSUME NEW j \in Jobs, GiveUp(w, j) PROVE TypeOK'
    <3>1. \A s \in Fresh : Begin(w, "restore", j, s, base[j])
                             => worker' \in [Workers -> Deployments \cup {Idle}]
      <4>1. j \in AllJobs /\ base[j] \in Jobs \cup {None} /\ Fresh \subseteq Sites
        BY DEF TypeOK, AllJobs, Fresh, Sites
      <4>2. QED
        BY <4>1, BeginType
    <3>2. job' \in [AllJobs -> JobStates]
      BY <2>2 DEF GiveUp, TypeOK, JobStates
    <3>3. QED
      BY <2>2, <3>1, <3>2 DEF GiveUp, TypeOK
  <2>3. ASSUME NEW b \in Rollbacks, LoadRollback(w, b) PROVE TypeOK'
    <3>1. \A s \in Fresh : Begin(w, "rollback", b, s, base[b])
                             => worker' \in [Workers -> Deployments \cup {Idle}]
      <4>1. b \in AllJobs /\ base[b] \in Jobs \cup {None} /\ Fresh \subseteq Sites
        BY DEF TypeOK, AllJobs, Fresh, Sites
      <4>2. QED
        BY <4>1, BeginType
    <3>2. job' \in [AllJobs -> JobStates] /\ queue' \subseteq AllJobs
      BY <2>3 DEF LoadRollback, TypeOK, JobStates
    <3>3. QED
      BY <2>3, <3>1, <3>2 DEF LoadRollback, TypeOK
  <2>4. QED
    BY <1>2, <2>1, <2>2, <2>3 DEF Start
<1>3. ASSUME NEW w \in Workers, DeployStep(w) PROVE TypeOK'
  <2>1. CASE InsertRow(w)
    <3>1. worker' \in [Workers -> Deployments \cup {Idle}]
      BY <2>1, WorkerType DEF InsertRow, At
    <3>2. ASSUME project # "gone" PROVE row' \in [Sites -> Rows]
      <4> DEFINE n == Cardinality({t \in Sites : row[t].status # "none"})
                 s == worker[w].site
      <4>1. n \in Nat
        <5>1. IsFiniteSet(Sites)
          BY SiteAssumption, FS_Union DEF Sites
        <5>2. QED
          BY <5>1, FS_Subset, FS_CardinalityType
      <4>2. worker[w] \in Deployments
        BY <2>1, IdleIs DEF InsertRow, At, TypeOK
      <4>3. s \in Sites /\ worker[w].rev \in Jobs \cup {None}
        BY <4>2 DEF Deployments
      <4>4. row[s].born \in Nat
        BY <4>3 DEF TypeOK, Rows
      <4>5. PICK b \in Nat :
              row' = [row EXCEPT ![s] = [status |-> "building", rev |-> worker[w].rev, born |-> b]]
        BY <2>1, <3>2, <4>1, <4>4 DEF InsertRow
      <4>6. [status |-> "building", rev |-> worker[w].rev, born |-> b] \in Rows
        BY <4>3 DEF Rows, RowStates
      <4>7. QED
        BY <4>5, <4>6 DEF TypeOK
    <3>3. row' \in [Sites -> Rows]
      BY <2>1, <3>2 DEF InsertRow, TypeOK
    <3>4. QED
      BY <2>1, <3>1, <3>3 DEF InsertRow, TypeOK
  <2>2. CASE Publish(w)
    <3>1. worker[w] \in Deployments
      BY <2>2, IdleIs DEF Publish, At, TypeOK
    <3>2. worker[w].site \in Sites /\ worker[w].pc # "idle"
      BY <3>1, IdleIs DEF Deployments
    <3>3. CASE Goto(w, "run") /\ dir' = worker[w].site /\ container' = Emptied
               /\ UNCHANGED <<job, row>>
      BY <2>2, <3>2, <3>3, WorkerType, ContainerType DEF Publish, TypeOK
    <3>4. CASE dir' \in {None, dir} /\ \E left \in {container, Emptied} : Abort(w, {"FIXING"}, left)
      BY <2>2, <3>2, <3>4, AbortType DEF Publish, TypeOK
    <3>5. QED
      BY <2>2, <3>3, <3>4 DEF Publish
  <2>3. CASE Run(w)
    <3>1. worker[w].pc # "idle"
      BY <2>3 DEF Run, At
    <3>2. CASE Goto(w, "health") /\ container' = [container EXCEPT ![worker[w].site] = Mounted]
               /\ UNCHANGED <<job, row>>
      BY <2>3, <3>1, <3>2, WorkerType, ContainerType DEF Run, TypeOK
    <3>3. CASE Abort(w, {"FIXING", "FAILED"}, container)
      BY <2>3, <3>1, <3>3, AbortType DEF Run, TypeOK
    <3>4. QED
      BY <2>3, <3>2, <3>3 DEF Run
  <2>4. CASE Health(w)
    <3>1. worker[w].pc # "idle"
      BY <2>4 DEF Health, At
    <3>2. CASE Abort(w, {"FIXING"}, container)
      BY <2>4, <3>1, <3>2, AbortType DEF Health, TypeOK
    <3>3. CASE UNCHANGED <<job, row, container>>
               /\ (Leave(w) \/ Goto(w, "recheck") \/ Goto(w, "previous"))
      BY <2>4, <3>1, <3>3, WorkerType DEF Health, TypeOK
    <3>4. QED
      BY <2>4, <3>2, <3>3 DEF Health
  <2>5. CASE RecheckProject(w) \/ RecheckState(w)
    <3>1. worker' \in [Workers -> Deployments \cup {Idle}]
      BY <2>5, WorkerType DEF RecheckProject, RecheckState, At
    <3>2. row' \in [Sites -> Rows]
      <4>1. row' = row \/ row' = [row EXCEPT ![worker[w].site].status = "failed"]
        BY <2>5 DEF RecheckProject, RecheckState
      <4>2. QED
        BY <4>1, RowType DEF TypeOK, RowStates
    <3>3. job' \in [AllJobs -> JobStates]
      BY <2>5 DEF RecheckProject, RecheckState, TypeOK, JobStates
    <3>4. container' \in [Sites -> Sites \cup {"down", "empty"}]
      BY <2>5, ContainerType DEF RecheckProject, RecheckState, TypeOK
    <3>5. QED
      BY <2>5, <3>1, <3>2, <3>3, <3>4 DEF RecheckProject, RecheckState, TypeOK
  <2>6. CASE GoLive(w)
    <3>1. row' \in [Sites -> Rows]
      <4>1. row' = row \/ row' = [row EXCEPT ![worker[w].site].status = "active"]
        BY <2>6 DEF GoLive
      <4>2. QED
        BY <4>1, RowType DEF TypeOK, RowStates
    <3>2. current' \in Jobs \cup {None}
      BY <2>6, IdleIs DEF GoLive, Published, At, TypeOK, Deployments
    <3>3. job' \in [AllJobs -> JobStates]
      BY <2>6 DEF GoLive, TypeOK, JobStates
    <3>4. QED
      BY <2>6, <3>1, <3>2, <3>3, WorkerType DEF GoLive, TypeOK
  <2>7. CASE TakePrevious(w)
    <3>1. worker[w] \in Deployments
      BY <2>7, IdleIs DEF TakePrevious, At, TypeOK
    <3>2. worker' \in [Workers -> Deployments \cup {Idle}]
      <4>1. ASSUME NEW p \in Sites
            PROVE  [worker[w] EXCEPT !.pc = "switch", !.prev = p] \in Deployments
        BY <3>1 DEF Deployments
      <4>2. Newest(Active) \subseteq Sites
        BY DEF Newest, Active
      <4>3. CASE Goto(w, "switch")
        BY <2>7, <4>3, WorkerType DEF TakePrevious, At
      <4>4. ASSUME NEW p \in Newest(Active),
                   worker' = [worker EXCEPT ![w] = [@ EXCEPT !.pc = "switch", !.prev = p]]
            PROVE  worker' \in [Workers -> Deployments \cup {Idle}]
        <5>1. [worker[w] EXCEPT !.pc = "switch", !.prev = p] \in Deployments
          BY <4>1, <4>2
        <5>2. worker' = [worker EXCEPT ![w] = [worker[w] EXCEPT !.pc = "switch", !.prev = p]]
          BY <4>4 DEF TypeOK
        <5>3. QED
          BY <5>1, <5>2 DEF TypeOK
      <4>5. QED
        BY <2>7, <4>3, <4>4 DEF TakePrevious
    <3>3. QED
      BY <2>7, <3>2, ContainerType DEF TakePrevious, TypeOK
  <2>8. CASE Switch(w)
    <3>1. row' \in [Sites -> Rows]
      <4>1. ASSUME project # "gone"
            PROVE \A s \in Sites : row'[s] \in {row[s], [row[s] EXCEPT !.status = "active"],
                                                [row[s] EXCEPT !.status = "superseded"]}
        BY <2>8, <4>1 DEF Switch
      <4>2. \A s \in Sites : row'[s] \in Rows
        BY <2>8, <4>1, RowType DEF Switch, TypeOK, RowStates
      <4>3. row' = [s \in Sites |-> row'[s]]
        BY <2>8 DEF Switch, TypeOK
      <4>4. QED
        BY <4>2, <4>3
    <3>2. current' \in Jobs \cup {None}
      BY <2>8, IdleIs DEF Switch, Published, At, TypeOK, Deployments
    <3>3. worker' \in [Workers -> Deployments \cup {Idle}]
      BY <2>8, WorkerType DEF Switch, At
    <3>4. QED
      BY <2>8, <3>1, <3>2, <3>3 DEF Switch, TypeOK
  <2>9. CASE Verdict(w)
    BY <2>9, WorkerType DEF Verdict, TypeOK, JobStates
  <2>10. CASE Crash(w)
    <3>1. worker[w].job \in AllJobs
      BY <2>10, IdleIs DEF Crash, Busy, TypeOK, Deployments
    <3>2. QED
      BY <2>10, <3>1, WorkerType DEF Crash, TypeOK
  <2>11. QED
    BY <1>3, <2>1, <2>2, <2>3, <2>4, <2>5, <2>6, <2>7, <2>8, <2>9, <2>10 DEF DeployStep
<1>4. CASE JobStep
  <2>1. ASSUME NEW j \in AllJobs, FailJob(j) \/ Redispatch(j) \/ Rebuilt(j) PROVE TypeOK'
    BY <2>1 DEF FailJob, Redispatch, Rebuilt, TypeOK, JobStates
  <2>2. ASSUME NEW j \in Jobs, Request(j) PROVE TypeOK'
    BY <2>2 DEF Request, TypeOK, JobStates, AllJobs
  <2>3. ASSUME NEW b \in Rollbacks, StartRollback(b) PROVE TypeOK'
    BY <2>3 DEF StartRollback, TypeOK, JobStates, AllJobs
  <2>4. QED
    BY <1>4, <2>1, <2>2, <2>3 DEF JobStep
<1>5. CASE Gc
  <2>1. CASE Delete \/ GcCrash
    BY <2>1 DEF Delete, GcCrash, TypeOK
  <2>2. CASE GcCancel
    BY <2>2 DEF GcCancel, TypeOK, JobStates
  <2>3. CASE GcTeardown
    <3>1. hist' \subseteq Sites
      BY <2>3, IdleIs DEF GcTeardown, Busy, TypeOK, Deployments
    <3>2. QED
      BY <2>3, <3>1, ContainerType DEF GcTeardown, TypeOK
  <2>4. CASE GcVolume
    BY <2>4, ContainerType DEF GcVolume, TypeOK
  <2>5. CASE GcDelete
    BY <2>5 DEF GcDelete, TypeOK, JobStates, NoRow, Rows, RowStates
  <2>6. QED
    BY <1>5, <2>1, <2>2, <2>3, <2>4, <2>5 DEF Gc
<1>6. CASE Sweep
  <2>1. row' \in [Sites -> Rows]
    <3>1. \A s \in Sites : row[s] \in Rows /\ [row[s] EXCEPT !.status = "superseded"] \in Rows
      BY RowType DEF TypeOK, RowStates
    <3>2. QED
      BY <1>6, <3>1 DEF Sweep, TypeOK
  <2>2. QED
    BY <1>6, <2>1, ContainerType DEF Sweep, TypeOK
<1>7. QED
  BY <1>1, <1>2, <1>3, <1>4, <1>5, <1>6 DEF Next

(* The variables stay in their sets.                                                 *)
THEOREM TypeCorrect == Spec => []TypeOK
<1>1. Init => TypeOK
  BY DEF Init, TypeOK, JobStates, NoRow, Rows, RowStates
<1>2. QED
  BY <1>1, TypeStep, PTL DEF Spec

--------------------------------------------------------------------------------
(* The inductive invariant. *)

Building == {"publish", "run", "health", "recheck", "restate", "live", "previous", "switch"}
DeployOnly == {"recheck", "restate", "live"}
RedeployOnly == {"previous", "switch", "good", "bad"}

(* A worker at work on its own job, with a site id of the right kind.             *)
Employed(w) ==
  LET rec == worker[w] IN
  rec.pc # "idle" =>
    /\ rec.job \notin queue
    /\ rec.kind = "deploy" =>
         /\ rec.job \in Jobs /\ rec.site = rec.job
         /\ job[rec.job] \in {"DEPLOYING", "FAILED", "new"}
         /\ rec.pc \notin RedeployOnly
    /\ rec.kind # "deploy" => rec.site \in Attempts /\ rec.pc \notin DeployOnly
    /\ rec.kind = "rollback" => rec.job \in Rollbacks
    /\ rec.kind = "restore" => rec.job \in Jobs
    /\ project # "gone" => job[rec.job] # "new"

(* No job and no site is in two hands.                                            *)
Exclusive ==
  \A v, w \in Workers : v # w /\ worker[v].pc # "idle" /\ worker[w].pc # "idle"
    => worker[v].job # worker[w].job /\ worker[v].site # worker[w].site

(* A message waits only for a job that is there and not in its fix loop.           *)
Waiting ==
  /\ \A j \in AllJobs : job[j] = "FIXING" => j \in Jobs \ queue
  /\ project # "gone" => \A j \in queue : job[j] # "new"

(* The collector runs on a deleted project and leaves nothing of it.               *)
Collected ==
  /\ gc # "idle" => project = "deleted"
  /\ project = "gone" => /\ \A j \in AllJobs : job[j] = "new"
                         /\ \A s \in Sites : row[s].status = "none"

Carriage == (\A w \in Workers : Employed(w)) /\ Exclusive /\ Waiting /\ Collected

(* What a worker that is at work may rely on about its row and the one it replaces. *)
Keeps(w) ==
  LET rec == worker[w] IN
  rec.pc # "idle" /\ project # "gone" =>
    /\ rec.pc \notin {"switch", "good", "bad"} => rec.prev = None
    /\ rec.pc \in Building => row[rec.site].status = "building"
    /\ rec.pc = "row" /\ rec.kind # "deploy" => row[rec.site].status = "none"
    /\ rec.kind = "deploy" => row[rec.site].status \notin {"active", "superseded"}
    /\ rec.pc = "switch" /\ rec.prev # None =>
         /\ row[rec.prev].status \in {"active", "superseded"}
         /\ container[rec.prev] = "down"

(* A site and the job that has its id: FailedIsDown and StatesAgree, and what makes   *)
(* them last: no deployment outlives the return of its job to the pipeline.           *)
Sound(s) ==
  /\ row[s].status \in {"failed", "superseded"} => container[s] = "down"
  /\ s \in Jobs =>
       /\ project # "gone" /\ job[s] \notin {"LIVE", "FAILED"}
            => row[s].status \notin {"active", "superseded"}
       /\ job[s] = "LIVE" => row[s].status \in {"active", "superseded"}
       /\ job[s] = "FIXING" => row[s].status = "failed"
       /\ row[s].status = "active" => job[s] = "LIVE" \/ project = "deleted"

Rowing == (\A w \in Workers : Keeps(w)) /\ \A s \in Sites : Sound(s)

--------------------------------------------------------------------------------
(* Carriage. *)

(* A step of a deployment changes its own job, while it is there, and passes the job *)
(* on: to the broker, to the fix loop or to nobody.                                 *)
Passes(w) ==
  LET rec == worker[w] IN
  /\ rec.pc # "idle"
  /\ UNCHANGED <<project, gc>>
  /\ project = "gone" => row' = row
  /\ \/ job' = job
     \/ /\ project # "gone" /\ Leave(w) /\ queue' = queue
        /\ \E to \in {"FIXING", "FAILED", "LIVE"} :
             /\ job' = [job EXCEPT ![rec.job] = to]
             /\ to = "FIXING" => rec.kind = "deploy"
  /\ \/ Leave(w) /\ queue' = queue
     \/ Leave(w) /\ queue' = queue \cup {rec.job} /\ rec.kind # "restore" /\ job' = job
     \/ /\ queue' = queue /\ job' = job
        /\ \E d \in Deployments :
             /\ worker' = [worker EXCEPT ![w] = d]
             /\ d.job = rec.job /\ d.site = rec.site /\ d.kind = rec.kind
             /\ d.kind = "deploy" => d.pc \notin RedeployOnly
             /\ d.kind # "deploy" => d.pc \notin DeployOnly

LEMMA GotoPasses ==
  ASSUME TypeOK, NEW w \in Workers, worker[w].pc # "idle",
         NEW pc \in {"publish", "run", "health", "recheck", "restate", "live", "previous",
                     "switch", "good", "bad"},
         Goto(w, pc),
         worker[w].kind = "deploy" => pc \notin RedeployOnly,
         worker[w].kind # "deploy" => pc \notin DeployOnly
  PROVE  \E d \in Deployments :
           /\ worker' = [worker EXCEPT ![w] = d]
           /\ d.job = worker[w].job /\ d.site = worker[w].site /\ d.kind = worker[w].kind
           /\ d.kind = "deploy" => d.pc \notin RedeployOnly
           /\ d.kind # "deploy" => d.pc \notin DeployOnly
<1>1. worker[w] \in Deployments
  BY IdleIs DEF TypeOK
<1> DEFINE d == [worker[w] EXCEPT !.pc = pc]
<1>2. d \in Deployments /\ d.pc = pc
      /\ d.job = worker[w].job /\ d.site = worker[w].site /\ d.kind = worker[w].kind
  BY <1>1 DEF Deployments
<1>3. worker' = [worker EXCEPT ![w] = d]
  BY DEF Goto, TypeOK
<1> HIDE DEF d
<1>4. QED
  BY <1>2, <1>3

LEMMA AbortPasses ==
  ASSUME TypeOK, Carriage, NEW w \in Workers, worker[w].pc # "idle", NEW left,
         NEW Outcomes \in SUBSET {"FIXING", "FAILED"}, Abort(w, Outcomes, left),
         UNCHANGED <<project, gc, queue>>
  PROVE  Passes(w)
<1>1. project = "gone" => ~Applies(worker[w].job)
  BY DEF Applies
<1>2. CASE Deploys(w)
  BY <1>1, <1>2 DEF Abort, Passes, Deploys
<1>3. CASE ~Deploys(w)
  <2>1. CASE Leave(w)
    BY <1>3, <2>1 DEF Abort, Passes
  <2>2. CASE Goto(w, "bad")
    <3>1. "bad" \notin DeployOnly
      BY DEF DeployOnly
    <3>2. QED
      BY <1>3, <2>2, <3>1, GotoPasses DEF Abort, Passes, Deploys
  <2>3. QED
    BY <1>3, <2>1, <2>2 DEF Abort
<1>4. QED
  BY <1>2, <1>3

LEMMA StepPasses ==
  ASSUME TypeOK, Carriage, NEW w \in Workers, DeployStep(w)
  PROVE  Passes(w)
<1> USE DEF DeployOnly, RedeployOnly
<1>1. CASE InsertRow(w)
  <2>1. CASE project = "gone"
    BY <1>1, <2>1 DEF InsertRow, Passes, At
  <2>2. CASE project # "gone"
    BY <1>1, <2>2, GotoPasses DEF InsertRow, Passes, At
  <2>3. QED
    BY <2>1, <2>2
<1>2. CASE Publish(w)
  <2>1. CASE Goto(w, "run") /\ UNCHANGED <<job, row>>
    BY <1>2, <2>1, GotoPasses DEF Publish, Passes, At
  <2>2. CASE \E left \in {container, Emptied} : Abort(w, {"FIXING"}, left)
    BY <1>2, <2>2, AbortPasses DEF Publish, At
  <2>3. QED
    BY <1>2, <2>1, <2>2 DEF Publish
<1>3. CASE Run(w)
  <2>1. CASE Goto(w, "health") /\ UNCHANGED <<job, row>>
    BY <1>3, <2>1, GotoPasses DEF Run, Passes, At
  <2>2. CASE Abort(w, {"FIXING", "FAILED"}, container)
    BY <1>3, <2>2, AbortPasses DEF Run, At
  <2>3. QED
    BY <1>3, <2>1, <2>2 DEF Run
<1>4. CASE Health(w)
  <2>1. CASE Goto(w, IF Deploys(w) THEN "recheck" ELSE "previous") /\ UNCHANGED <<job, row>>
    BY <1>4, <2>1, GotoPasses DEF Health, Passes, At, Deploys
  <2>2. CASE Abort(w, {"FIXING"}, container)
    BY <1>4, <2>2, AbortPasses DEF Health, At
  <2>3. CASE Leave(w) /\ UNCHANGED <<job, row>>
    BY <1>4, <2>3 DEF Health, Passes, At
  <2>4. QED
    BY <1>4, <2>1, <2>2, <2>3 DEF Health
<1>5. CASE RecheckProject(w)
  <2>1. Employed(w)
    BY DEF Carriage
  <2>2. CASE Goto(w, "restate") /\ UNCHANGED <<job, row>>
    BY <1>5, <2>1, <2>2, GotoPasses DEF RecheckProject, Passes, At, Employed
  <2>3. CASE Leave(w)
    BY <1>5, <2>3 DEF RecheckProject, Passes, At
  <2>4. QED
    BY <1>5, <2>2, <2>3 DEF RecheckProject
<1>6. CASE RecheckState(w)
  <2>1. Employed(w)
    BY DEF Carriage
  <2>2. CASE Goto(w, "live") /\ UNCHANGED <<job, row>>
    BY <1>6, <2>1, <2>2, GotoPasses DEF RecheckState, Passes, At, Employed
  <2>3. CASE Leave(w)
    BY <1>6, <2>3 DEF RecheckState, Passes, At
  <2>4. QED
    BY <1>6, <2>2, <2>3 DEF RecheckState
<1>7. CASE GoLive(w)
  BY <1>7 DEF GoLive, Passes, At, Applies
<1>8. CASE TakePrevious(w)
  <2>1. Employed(w) /\ worker[w] \in Deployments
    BY <1>8, IdleIs DEF TakePrevious, At, Carriage, TypeOK
  <2>2. CASE Goto(w, "switch")
    BY <1>8, <2>1, <2>2, GotoPasses DEF TakePrevious, Passes, At, Employed
  <2>3. ASSUME NEW p \in Newest(Active),
               worker' = [worker EXCEPT ![w] = [@ EXCEPT !.pc = "switch", !.prev = p]]
        PROVE  Passes(w)
    <3> DEFINE d == [worker[w] EXCEPT !.pc = "switch", !.prev = p]
    <3>1. p \in Sites
      BY DEF Newest, Active
    <3>2. d \in Deployments /\ d.pc = "switch"
          /\ d.job = worker[w].job /\ d.site = worker[w].site /\ d.kind = worker[w].kind
      BY <2>1, <3>1 DEF Deployments
    <3>3. worker' = [worker EXCEPT ![w] = d]
      BY <2>3 DEF TypeOK
    <3>4. worker[w].kind # "deploy"
      BY <1>8, <2>1 DEF TakePrevious, At, Employed
    <3> HIDE DEF d
    <3>5. QED
      BY <1>8, <3>2, <3>3, <3>4 DEF TakePrevious, Passes, At
  <2>4. QED
    BY <1>8, <2>2, <2>3 DEF TakePrevious
<1>9. CASE Switch(w)
  <2>1. Employed(w)
    BY DEF Carriage
  <2>2. CASE project = "gone"
    BY <1>9, <2>2 DEF Switch, Passes, At
  <2>3. CASE project # "gone"
    BY <1>9, <2>1, <2>3, GotoPasses DEF Switch, Passes, At, Employed
  <2>4. QED
    BY <2>2, <2>3
<1>10. CASE Verdict(w)
  BY <1>10 DEF Verdict, Passes, Applies
<1>11. CASE Crash(w)
  BY <1>11 DEF Crash, Passes, Busy
<1>12. QED
  BY <1>1, <1>2, <1>3, <1>4, <1>5, <1>6, <1>7, <1>8, <1>9, <1>10, <1>11 DEF DeployStep

LEMMA PassKeepsCarriage ==
  ASSUME TypeOK, Carriage, NEW w \in Workers, Passes(w)
  PROVE  Carriage'
<1> USE IdleIs
<1>1. worker[w] \in Deployments /\ Employed(w)
  BY DEF TypeOK, Carriage, Passes
<1>2. \A v \in Workers \ {w} : worker'[v] = worker[v]
  BY DEF Passes, Leave, TypeOK
<1>3. \/ worker'[w] = Idle
      \/ /\ worker'[w] \in Deployments
         /\ worker'[w].job = worker[w].job /\ worker'[w].site = worker[w].site
         /\ worker'[w].kind = worker[w].kind
         /\ worker'[w].kind = "deploy" => worker'[w].pc \notin RedeployOnly
         /\ worker'[w].kind # "deploy" => worker'[w].pc \notin DeployOnly
         /\ queue' = queue /\ job' = job
  BY DEF Passes, Leave, TypeOK
<1>4. \A j \in AllJobs \ {worker[w].job} : job'[j] = job[j]
  BY DEF Passes, TypeOK
<1>5. queue' \subseteq queue \cup {worker[w].job}
  BY DEF Passes
<1>6. ASSUME NEW v \in Workers PROVE Employed(v)'
  <2>1. CASE v = w
    BY <1>1, <1>3, <2>1 DEF Employed, Passes
  <2>2. CASE v # w /\ worker[v].pc # "idle"
    <3>1. worker[v] \in Deployments /\ Employed(v)
      BY <2>2 DEF TypeOK, Carriage
    <3>2. worker[v].job # worker[w].job
      BY <2>2 DEF Carriage, Exclusive, Passes
    <3>3. worker[v].job \in AllJobs
      BY <3>1 DEF Deployments
    <3>4. QED
      BY <1>2, <1>4, <1>5, <2>2, <3>1, <3>2, <3>3 DEF Employed, Passes
  <2>3. CASE v # w /\ worker[v].pc = "idle"
    BY <1>2, <2>3 DEF Employed
  <2>4. QED
    BY <2>1, <2>2, <2>3
<1>7. Exclusive'
  BY <1>2, <1>3 DEF Carriage, Exclusive, Passes
<1>8. Waiting'
  <2>1. worker[w].job \in AllJobs
    BY <1>1 DEF Deployments
  <2>2. ASSUME NEW j \in AllJobs, job'[j] = "FIXING" PROVE j \in Jobs \ queue'
    <3>1. CASE job'[j] = job[j]
      <4>1. j \in Jobs \ queue
        BY <2>2, <3>1 DEF Carriage, Waiting
      <4>2. CASE queue' = queue
        BY <4>1, <4>2
      <4>3. CASE worker[w].kind # "restore" /\ queue' = queue \cup {worker[w].job} /\ job' = job
        <5>1. worker[w].kind \in {"deploy", "rollback"}
          BY <1>1, <4>3 DEF Deployments
        <5>2. job[worker[w].job] # "FIXING"
          BY <1>1, <5>1, <2>1, SiteAssumption DEF Employed, Carriage, Waiting, Passes
        <5>3. QED
          BY <2>2, <4>1, <4>3, <5>2
      <4>4. QED
        BY <4>2, <4>3 DEF Passes
    <3>2. CASE job'[j] # job[j]
      BY <1>1, <2>2, <3>2 DEF Passes, Employed, TypeOK
    <3>3. QED
      BY <3>1, <3>2
  <2>3. ASSUME project' # "gone", NEW j \in queue' PROVE job'[j] # "new"
    <3>1. job[j] # "new"
      BY <1>1, <1>5, <2>3 DEF Carriage, Waiting, Employed, Passes
    <3>2. QED
      BY <2>3, <3>1, <2>1 DEF Passes, TypeOK
  <2>4. QED
    BY <2>2, <2>3 DEF Waiting
<1>9. Collected'
  BY DEF Passes, Carriage, Collected
<1>10. QED
  BY <1>6, <1>7, <1>8, <1>9 DEF Carriage

(* A worker that was idle takes up a job that was waiting for nobody else.            *)
LEMMA BeginKeepsCarriage ==
  ASSUME TypeOK, Carriage, NEW w \in Workers, At(w, "idle"),
         NEW kind \in {"deploy", "rollback", "restore"}, NEW j \in AllJobs, NEW s \in Sites,
         NEW r \in Jobs \cup {None}, Begin(w, kind, j, s, r),
         kind = "deploy" => j \in Jobs /\ s = j /\ job'[j] = "DEPLOYING",
         kind # "deploy" => s \in Fresh,
         kind = "rollback" => j \in Rollbacks,
         kind = "restore" => j \in Jobs,
         project # "gone", job'[j] # "new", j \notin queue', queue' \subseteq queue,
         \A v \in Workers : worker[v].job # j,
         job' = job \/ (j \in Rollbacks /\ job' = [job EXCEPT ![j] = "DEPLOYING"]),
         UNCHANGED <<project, gc, row>>
  PROVE  Carriage'
<1> USE IdleIs
<1> DEFINE d == [pc |-> "row", kind |-> kind, job |-> j, site |-> s, rev |-> r,
                 kept |-> current = r, prev |-> None]
<1>1. worker'[w] = d /\ \A v \in Workers \ {w} : worker'[v] = worker[v]
  BY DEF Begin, TypeOK
<1>2. \A k \in AllJobs \ {j} : job'[k] = job[k]
  BY DEF TypeOK
<1>3. \A v \in Workers : worker[v].pc # "idle" => worker[v].site # s
  <2>1. CASE kind # "deploy"
    BY <2>1 DEF Fresh
  <2>2. CASE kind = "deploy"
    <3>1. ASSUME NEW v \in Workers, worker[v].pc # "idle" PROVE worker[v].site # s
      <4>1. worker[v] \in Deployments /\ Employed(v)
        BY <3>1 DEF TypeOK, Carriage
      <4>2. CASE worker[v].kind = "deploy"
        BY <2>2, <3>1, <4>1, <4>2 DEF Employed
      <4>3. CASE worker[v].kind # "deploy"
        BY <2>2, <3>1, <4>1, <4>3, SiteAssumption DEF Employed
      <4>4. QED
        BY <4>2, <4>3
    <3>2. QED
      BY <3>1
  <2>3. QED
    BY <2>1, <2>2
<1>4. ASSUME NEW v \in Workers PROVE Employed(v)'
  <2>1. CASE v = w
    <3>1. "row" \notin RedeployOnly /\ "row" \notin DeployOnly
      BY DEF RedeployOnly, DeployOnly
    <3>2. kind # "deploy" => s \in Attempts
      BY DEF Fresh
    <3>3. QED
      BY <1>1, <2>1, <3>1, <3>2 DEF Employed
  <2>2. CASE v # w /\ worker[v].pc # "idle"
    <3>1. worker[v] \in Deployments /\ Employed(v)
      BY <2>2 DEF TypeOK, Carriage
    <3>2. worker[v].job \in AllJobs \ {j}
      BY <3>1 DEF Deployments
    <3>3. QED
      BY <1>1, <1>2, <2>2, <3>1, <3>2 DEF Employed
  <2>3. CASE v # w /\ worker[v].pc = "idle"
    BY <1>1, <2>3 DEF Employed
  <2>4. QED
    BY <2>1, <2>2, <2>3
<1>5. Exclusive'
  BY <1>1, <1>3 DEF Carriage, Exclusive
<1>6. Waiting'
  <2>1. job' = job \/ job'[j] = "DEPLOYING"
    BY DEF TypeOK
  <2>2. \A k \in AllJobs : job'[k] = "FIXING" => k \in Jobs \ queue'
    BY <1>2, <2>1 DEF Carriage, Waiting
  <2>3. ASSUME NEW k \in queue' PROVE job'[k] # "new"
    BY <1>2, <2>1, <2>3 DEF Carriage, Waiting, TypeOK
  <2>4. QED
    BY <2>2, <2>3 DEF Waiting
<1>7. Collected'
  BY DEF Carriage, Collected
<1>8. QED
  BY <1>4, <1>5, <1>6, <1>7 DEF Carriage

(* A step of somebody else: no worker and no row changes hands.                       *)
LEMMA OthersKeepCarriage ==
  ASSUME TypeOK, Carriage, UNCHANGED worker,
         \A j \in AllJobs : job'[j] \in {job[j], "FAILED", "new"}
                            \/ ~\E w \in Workers : worker[w].job = j,
         \A j \in AllJobs : job'[j] = "new" => job[j] = "new" \/ project' = "gone",
         \A j \in AllJobs : job'[j] = "FIXING" => job[j] = "FIXING" /\ j \notin queue' \ queue,
         \A j \in queue' \ queue : job'[j] # "new" /\ ~\E w \in Workers : worker[w].job = j,
         Collected', queue' \subseteq AllJobs,
         project = "gone" => project' = "gone"
  PROVE  Carriage'
<1> USE IdleIs
<1>1. ASSUME NEW w \in Workers PROVE Employed(w)'
  <2>1. CASE worker[w].pc = "idle"
    BY <2>1 DEF Employed
  <2>2. CASE worker[w].pc # "idle"
    <3>1. worker[w] \in Deployments /\ Employed(w) /\ worker[w].job \in AllJobs
      BY <2>2 DEF TypeOK, Carriage, Deployments
    <3>2. worker[w].job \notin queue'
      BY <2>2, <3>1 DEF Employed
    <3>3. job'[worker[w].job] \in {job[worker[w].job], "FAILED", "new"}
      BY <3>1
    <3>4. QED
      BY <2>2, <3>1, <3>2, <3>3 DEF Employed
  <2>3. QED
    BY <2>1, <2>2
<1>2. Exclusive'
  BY DEF Carriage, Exclusive
<1>3. Waiting'
  BY DEF Carriage, Waiting, TypeOK
<1>4. QED
  BY <1>1, <1>2, <1>3 DEF Carriage

(* ~Overlap: the reconciler sends again only what nobody carries.                      *)
LEMMA CarriageStep == ~Overlap /\ TypeOK /\ Carriage /\ [Next]_vars => Carriage'
<1> SUFFICES ASSUME ~Overlap, TypeOK, Carriage, [Next]_vars PROVE Carriage'
  OBVIOUS
<1> USE IdleIs
<1>1. CASE UNCHANGED vars
  BY <1>1 DEF vars, Carriage, Employed, Exclusive, Waiting, Collected
<1>2. ASSUME NEW w \in Workers, DeployStep(w) PROVE Carriage'
  BY <1>2, StepPasses, PassKeepsCarriage
<1>3. ASSUME NEW w \in Workers, NEW j \in Jobs, LoadDeploy(w, j) PROVE Carriage'
  <2>1. CASE UNCHANGED worker
    <3>1. Collected'
      BY <1>3, <2>1 DEF LoadDeploy, Carriage, Collected, TypeOK
    <3>2. QED
      BY <1>3, <2>1, <3>1, OthersKeepCarriage DEF LoadDeploy, TypeOK
  <2>2. CASE Begin(w, "deploy", j, j, j) /\ job[j] = "DEPLOYING" /\ project = "alive" /\ job' = job
    <3>1. \A v \in Workers : worker[v].job # j
      BY <1>3, SiteAssumption DEF LoadDeploy, Carriage, Employed, TypeOK, Idle
    <3>2. j \in AllJobs /\ j \in Sites
      BY DEF AllJobs, Sites
    <3>3. QED
      BY <1>3, <2>2, <3>1, <3>2, BeginKeepsCarriage DEF LoadDeploy
  <2>3. UNCHANGED worker \/ (Begin(w, "deploy", j, j, j) /\ job[j] = "DEPLOYING"
                            /\ project = "alive" /\ job' = job)
    BY <1>3 DEF LoadDeploy
  <2>4. QED
    BY <2>1, <2>2, <2>3
<1>4. ASSUME NEW w \in Workers, NEW b \in Rollbacks, LoadRollback(w, b) PROVE Carriage'
  <2>1. CASE UNCHANGED worker /\ (UNCHANGED job \/ (Applies(b) /\ job' = [job EXCEPT ![b] = "FAILED"]))
    <3>1. Collected'
      BY <1>4, <2>1 DEF LoadRollback, Carriage, Collected, TypeOK, Applies
    <3>2. QED
      BY <1>4, <2>1, <3>1, OthersKeepCarriage DEF LoadRollback, TypeOK
  <2>2. ASSUME NEW s \in Fresh, Begin(w, "rollback", b, s, base[b]), Applies(b),
               job' = [job EXCEPT ![b] = "DEPLOYING"]
        PROVE  Carriage'
    <3>1. \A v \in Workers : worker[v].job # b
      BY <1>4, SiteAssumption DEF LoadRollback, Carriage, Employed, TypeOK, Idle
    <3>2. b \in AllJobs /\ s \in Sites /\ base[b] \in Jobs \cup {None}
      BY DEF AllJobs, Sites, Fresh, TypeOK
    <3>3. job'[b] = "DEPLOYING"
      BY <2>2, <3>2 DEF TypeOK
    <3>4. QED
      BY <1>4, <2>2, <3>1, <3>2, <3>3, BeginKeepsCarriage DEF LoadRollback, Applies
  <2>3. QED
    BY <1>4, <2>1, <2>2 DEF LoadRollback
<1>5. ASSUME NEW w \in Workers, NEW j \in Jobs, GiveUp(w, j) PROVE Carriage'
  <2>1. j \in AllJobs /\ j \notin queue
    BY <1>5 DEF GiveUp, Carriage, Waiting, AllJobs
  <2>2. CASE UNCHANGED worker
    <3>1. Collected'
      BY <1>5, <2>2 DEF GiveUp, Carriage, Collected
    <3>2. QED
      BY <1>5, <2>2, <3>1, OthersKeepCarriage DEF GiveUp, TypeOK
  <2>3. ASSUME NEW s \in Fresh, Begin(w, "restore", j, s, base[j]), job' = job PROVE Carriage'
    <3>1. s \in Sites /\ base[j] \in Jobs \cup {None}
      BY <2>1 DEF Sites, Fresh, TypeOK
    <3>2. QED
      BY <1>5, <2>1, <2>3, <3>1, BeginKeepsCarriage DEF GiveUp
  <2>4. QED
    BY <1>5, <2>2, <2>3 DEF GiveUp
<1>6. CASE JobStep
  <2>1. ASSUME NEW j \in AllJobs, FailJob(j) PROVE Carriage'
    <3>1. Collected'
      BY <2>1 DEF FailJob, Applies, Carriage, Collected
    <3>2. QED
      BY <2>1, <3>1, OthersKeepCarriage DEF FailJob, TypeOK
  <2>2. ASSUME NEW j \in Jobs, Request(j) PROVE Carriage'
    <3>1. j \in AllJobs
      BY DEF AllJobs
    <3>2. \A w \in Workers : worker[w].job # j
      BY <2>2, SiteAssumption DEF Request, Carriage, Employed, TypeOK, Idle
    <3>3. Collected'
      BY <2>2 DEF Request, Carriage, Collected
    <3>4. QED
      BY <2>2, <3>1, <3>2, <3>3, OthersKeepCarriage DEF Request, TypeOK
  <2>3. ASSUME NEW j \in Jobs, Rebuilt(j) PROVE Carriage'
    <3>1. j \in AllJobs
      BY DEF AllJobs
    <3>2. Collected'
      BY <2>3 DEF Rebuilt, Carriage, Collected
    <3>3. QED
      BY <2>3, <3>1, <3>2, OthersKeepCarriage DEF Rebuilt, TypeOK
  <2>4. ASSUME NEW j \in Jobs, Redispatch(j) PROVE Carriage'
    <3>1. j \in AllJobs
      BY DEF AllJobs
    <3>2. Collected'
      BY <2>4 DEF Redispatch, Carriage, Collected
    <3>3. QED
      BY <2>4, <3>1, <3>2, OthersKeepCarriage DEF Redispatch, Carried, TypeOK
  <2>5. ASSUME NEW b \in Rollbacks, StartRollback(b) PROVE Carriage'
    <3>1. b \in AllJobs
      BY DEF AllJobs
    <3>2. \A w \in Workers : worker[w].job # b
      BY <2>5, SiteAssumption DEF StartRollback, Carriage, Employed, TypeOK, Idle
    <3>3. Collected'
      BY <2>5 DEF StartRollback, Carriage, Collected
    <3>4. QED
      BY <2>5, <3>1, <3>2, <3>3, OthersKeepCarriage DEF StartRollback, TypeOK
  <2>6. QED
    BY <1>6, <2>1, <2>2, <2>3, <2>4, <2>5 DEF JobStep
<1>7. CASE Gc
  <2>1. Collected'
    BY <1>7 DEF Gc, Delete, GcCancel, GcTeardown, GcVolume, GcDelete, GcCrash, Carriage, Collected, NoRow
  <2>2. CASE Delete \/ GcTeardown \/ GcVolume \/ GcCrash
    BY <2>1, <2>2, OthersKeepCarriage DEF Delete, GcTeardown, GcVolume, GcCrash, TypeOK, Carriage, Collected
  <2>3. CASE GcCancel
    BY <2>1, <2>3, OthersKeepCarriage DEF GcCancel, TypeOK
  <2>4. CASE GcDelete
    BY <2>1, <2>4, OthersKeepCarriage DEF GcDelete, TypeOK
  <2>5. QED
    BY <1>7, <2>2, <2>3, <2>4 DEF Gc
<1>8. CASE Sweep
  <2>1. Collected'
    BY <1>8 DEF Sweep, Active, Carriage, Collected
  <2>2. QED
    BY <1>8, <2>1, OthersKeepCarriage DEF Sweep, TypeOK
<1>9. QED
  BY <1>1, <1>2, <1>3, <1>4, <1>5, <1>6, <1>7, <1>8 DEF Next, Start

--------------------------------------------------------------------------------
(* Rowing. *)

(* All that a step may do to a site which is not the one it works on.                *)
Touch(t) ==
  /\ \/ row'[t].status = row[t].status
     \/ row[t].status = "active" /\ row'[t].status = "superseded" /\ container'[t] = "down"
  /\ container[t] = "down" => container'[t] = "down"
  /\ t \in Jobs =>
       \/ job'[t] = job[t]
       \/ job'[t] = "FAILED" /\ (job[t] # "LIVE" \/ project' = "deleted")
       \/ job'[t] = "DEPLOYING" /\ job[t] \in {"new", "FIXING"}

LEMMA SoundElsewhere ==
  ASSUME NEW t \in Sites, Sound(t), Touch(t), project # "gone",
         project = "deleted" => project' = "deleted"
  PROVE  Sound(t)'
BY DEF Sound, Touch

LEMMA KeepsElsewhere ==
  ASSUME TypeOK, NEW v \in Workers, Keeps(v), worker'[v] = worker[v], project # "gone",
         NEW x, \A t \in Sites \ {x} : Touch(t), worker[v].pc # "idle" => worker[v].site # x,
         x \in Sites => row[x].status \notin {"active", "superseded"}
  PROVE  Keeps(v)'
<1>1. CASE worker[v].pc = "idle"
  BY <1>1 DEF Keeps
<1>2. CASE worker[v].pc # "idle"
  <2>1. worker[v] \in Deployments
    BY <1>2, IdleIs DEF TypeOK
  <2>2. worker[v].site \in Sites \ {x} /\ worker[v].prev \in Sites \cup {None}
    BY <1>2, <2>1 DEF Deployments
  <2>3. Touch(worker[v].site)
    BY <2>2
  <2>4. CASE worker[v].pc = "switch" /\ worker[v].prev # None
    <3>1. row[worker[v].prev].status \in {"active", "superseded"} /\ container[worker[v].prev] = "down"
      BY <1>2, <2>4 DEF Keeps
    <3>2. Touch(worker[v].prev)
      BY <2>2, <2>4, <3>1
    <3>3. worker[v].kind = "deploy" => row[worker[v].site].status \notin {"active", "superseded"}
      BY <1>2 DEF Keeps
    <3>4. row[worker[v].site].status = "building"
      BY <1>2, <2>4 DEF Keeps, Building
    <3>5. QED
      BY <1>2, <2>3, <2>4, <3>1, <3>2, <3>3, <3>4 DEF Keeps, Touch
  <2>5. CASE ~(worker[v].pc = "switch" /\ worker[v].prev # None)
    BY <1>2, <2>3, <2>5 DEF Keeps, Touch, Building
  <2>6. QED
    BY <2>4, <2>5
<1>3. QED
  BY <1>1, <1>2

(* A project that is gone has no rows and no jobs.                                   *)
LEMMA GoneRows ==
  ASSUME TypeOK', Collected', project' = "gone"
  PROVE  Rowing'
BY DEF TypeOK, Collected, Rowing, Keeps, Sound, AllJobs

(* A step of somebody who works on no site.                                          *)
LEMMA OthersKeepRowing ==
  ASSUME TypeOK, Rowing, UNCHANGED worker, \A t \in Sites : Touch(t),
         project # "gone", project = "deleted" => project' = "deleted"
  PROVE  Rowing'
<1>1. \A s \in Sites : Sound(s)'
  BY SoundElsewhere DEF Rowing
<1>2. None \notin Sites
  BY SiteAssumption DEF Sites
<1>3. ASSUME NEW v \in Workers PROVE Keeps(v)'
  <2>1. worker[v].pc # "idle" => worker[v].site # None
    BY <1>2, IdleIs DEF TypeOK, Deployments
  <2>2. QED
    BY <1>2, <2>1, KeepsElsewhere DEF Rowing
<1>4. QED
  BY <1>1, <1>3 DEF Rowing

(* A step of a worker on its own site: what is left to show is its own claim.          *)
LEMMA OwnKeepsRowing ==
  ASSUME TypeOK, Carriage, Rowing, NEW w \in Workers, NEW x,
         \A v \in Workers \ {w} : worker'[v] = worker[v] /\ (worker[v].pc # "idle" => worker[v].site # x),
         \A t \in Sites \ {x} : Touch(t),
         x \in Sites => row[x].status \notin {"active", "superseded"} /\ Sound(x)',
         Keeps(w)', project # "gone", project' = project
  PROVE  Rowing'
<1>1. ASSUME NEW s \in Sites PROVE Sound(s)'
  BY SoundElsewhere DEF Rowing
<1>2. ASSUME NEW v \in Workers \ {w} PROVE Keeps(v)'
  BY KeepsElsewhere DEF Rowing
<1>3. QED
  BY <1>1, <1>2 DEF Rowing

(* What is known of a worker at work on a project that is there.                      *)
LEMMA AtWork ==
  ASSUME TypeOK, Carriage, Rowing, NEW w \in Workers, worker[w].pc # "idle", project # "gone"
  PROVE  /\ worker[w] \in Deployments /\ Employed(w) /\ Keeps(w)
         /\ worker[w].site \in Sites /\ worker[w].job \in AllJobs
         /\ Sound(worker[w].site)
         /\ worker[w].kind = "deploy" => job[worker[w].site] \in {"DEPLOYING", "FAILED"}
         /\ worker[w].kind # "deploy" => worker[w].site \notin Jobs
         /\ \A v \in Workers \ {w} : worker[v].pc # "idle" => worker[v].site # worker[w].site
<1>1. worker[w] \in Deployments
  BY IdleIs DEF TypeOK
<1>2. Employed(w) /\ Keeps(w)
  BY DEF Carriage, Rowing
<1>3. worker[w].site \in Sites /\ worker[w].job \in AllJobs
  BY <1>1 DEF Deployments
<1>4. /\ worker[w].kind = "deploy" => job[worker[w].site] \in {"DEPLOYING", "FAILED"}
      /\ worker[w].kind # "deploy" => worker[w].site \notin Jobs
  BY <1>2, SiteAssumption DEF Employed
<1>5. \A v \in Workers \ {w} : worker[v].pc # "idle" => worker[v].site # worker[w].site
  BY DEF Carriage, Exclusive
<1>6. QED
  BY <1>1, <1>2, <1>3, <1>4, <1>5 DEF Rowing

(* A step from one program counter to the next that writes no row.                     *)
LEMMA ProceedKeepsRowing ==
  ASSUME TypeOK, Carriage, Rowing, NEW w \in Workers, worker[w].pc \in Building \ {"switch"},
         project # "gone",
         NEW pc \in {"run", "health", "recheck", "restate", "live", "previous"}, Goto(w, pc),
         worker[w].kind # "deploy" \/ pc # "previous",
         UNCHANGED <<job, row, project>>,
         \A t \in Sites \ {worker[w].site} : container[t] = "down" => container'[t] = "down"
  PROVE  Rowing'
<1>1. worker[w].pc # "idle"
  BY DEF Building
<1>0. PICK x \in Sites : x = worker[w].site
  BY <1>1, AtWork
<1>2. /\ worker[w] \in Deployments /\ x \in Sites /\ Sound(x) /\ Keeps(w)
      /\ \A v \in Workers \ {w} : worker[v].pc # "idle" => worker[v].site # x
  BY <1>0, <1>1, AtWork
<1>3. worker'[w] = [worker[w] EXCEPT !.pc = pc] /\ \A v \in Workers \ {w} : worker'[v] = worker[v]
  BY DEF Goto, TypeOK
<1>4. worker'[w].pc = pc /\ worker'[w].site = x /\ worker'[w].kind = worker[w].kind
      /\ worker'[w].prev = None
  BY <1>0, <1>1, <1>2, <1>3 DEF Deployments, Keeps, Building
<1>5. row[x].status = "building"
  BY <1>0, <1>1, <1>2 DEF Keeps
<1>6. Keeps(w)'
  BY <1>4, <1>5 DEF Keeps, Building
<1>7. Sound(x)'
  BY <1>2, <1>5 DEF Sound
<1>8. \A t \in Sites \ {x} : Touch(t)
  BY <1>0 DEF Touch
<1>9. QED
  BY <1>2, <1>3, <1>5, <1>6, <1>7, <1>8, OwnKeepsRowing

(* The container of the attempt goes down, with or without the row.                    *)
LEMMA FailKeepsRowing ==
  ASSUME TypeOK, Carriage, Rowing, NEW w \in Workers, worker[w].pc \in Building, project # "gone",
         UNCHANGED project, Falls(w), Leave(w) \/ (worker[w].kind # "deploy" /\ Goto(w, "bad")),
         \/ UNCHANGED <<row, job>>
         \/ /\ row' = [row EXCEPT ![worker[w].site].status = "failed"]
            /\ \/ job' = job
               \/ /\ worker[w].kind = "deploy" /\ Applies(worker[w].job)
                  /\ \E to \in {"FIXING", "FAILED"} : job' = [job EXCEPT ![worker[w].job] = to]
  PROVE  Rowing'
<1>1. worker[w].pc # "idle"
  BY DEF Building
<1>0. PICK x \in Sites : x = worker[w].site
  BY <1>1, AtWork
<1>2. /\ worker[w] \in Deployments /\ x \in Sites /\ Sound(x) /\ Keeps(w) /\ Employed(w)
      /\ worker[w].job \in AllJobs
      /\ worker[w].kind = "deploy" => job[x] \in {"DEPLOYING", "FAILED"}
      /\ worker[w].kind # "deploy" => x \notin Jobs
      /\ \A v \in Workers \ {w} : worker[v].pc # "idle" => worker[v].site # x
  BY <1>0, <1>1, AtWork
<1>3. \A v \in Workers \ {w} : worker'[v] = worker[v]
  BY DEF Goto, Leave, TypeOK
<1>4. Keeps(w)'
  <2>1. CASE Leave(w)
    BY <2>1 DEF Leave, Keeps, TypeOK, Idle
  <2>2. CASE worker[w].kind # "deploy" /\ Goto(w, "bad")
    <3>1. worker'[w] = [worker[w] EXCEPT !.pc = "bad"]
      BY <2>2 DEF Goto, TypeOK
    <3>2. worker'[w].pc = "bad" /\ worker'[w].kind # "deploy"
      BY <1>2, <2>2, <3>1 DEF Deployments
    <3>3. QED
      BY <3>2 DEF Keeps, Building
  <2>3. QED
    BY <2>1, <2>2
<1>5. row[x].status = "building"
  BY <1>0, <1>1, <1>2 DEF Keeps
<1>6. container'[x] = "down" /\ \A t \in Sites : container[t] = "down" => container'[t] = "down"
  BY <1>0, <1>2 DEF Falls
<1>7. /\ row'[x].status \in {row[x].status, "failed"}
      /\ \A t \in Sites \ {x} : row'[t].status = row[t].status
  <2>1. row' = row \/ row' = [row EXCEPT ![x].status = "failed"]
    BY <1>0
  <2>2. \A t \in Sites : row[t] \in Rows
    BY DEF TypeOK
  <2>3. QED
    BY <2>1, <2>2 DEF TypeOK, Rows
<1>8. \A t \in Jobs \ {x} : job'[t] = job[t]
  BY <1>0, <1>1, <1>2 DEF Employed, TypeOK, AllJobs
<1>9. Sound(x)'
  <2>1. CASE UNCHANGED <<row, job>>
    BY <1>2, <1>6, <2>1 DEF Sound
  <2>2. CASE row'[x].status = "failed" /\ job' = job
    BY <1>2, <1>6, <2>2 DEF Sound
  <2>3. ASSUME row'[x].status = "failed", worker[w].kind = "deploy",
               NEW to \in {"FIXING", "FAILED"}, job' = [job EXCEPT ![worker[w].job] = to]
        PROVE  Sound(x)'
    <3>1. job'[x] = to
      BY <1>0, <1>1, <1>2, <2>3 DEF Employed, TypeOK
    <3>2. QED
      BY <1>6, <2>3, <3>1 DEF Sound
  <2>4. row' = [row EXCEPT ![x].status = "failed"] => row'[x].status = "failed"
    BY <1>2 DEF TypeOK, Rows
  <2>5. QED
    BY <1>0, <2>1, <2>2, <2>3, <2>4
<1>10. \A t \in Sites \ {x} : Touch(t)
  BY <1>6, <1>7, <1>8 DEF Touch
<1>11. QED
  BY <1>2, <1>3, <1>4, <1>5, <1>9, <1>10, OwnKeepsRowing

(* The end of a worker's task that writes nothing but a verdict on its job.             *)
LEMMA LeaveKeepsRowing ==
  ASSUME TypeOK, Carriage, Rowing, NEW w \in Workers, Leave(w), project # "gone",
         UNCHANGED <<row, container, project>>, \A t \in Sites : Touch(t)
  PROVE  Rowing'
<1>1. \A v \in Workers \ {w} : worker'[v] = worker[v] /\ (worker[v].pc # "idle" => worker[v].site # None)
  BY IdleIs, SiteAssumption DEF Leave, TypeOK, Deployments, Sites
<1>2. Keeps(w)'
  BY DEF Leave, Keeps, TypeOK, Idle
<1>3. None \notin Sites
  BY SiteAssumption DEF Sites
<1>4. QED
  BY <1>1, <1>2, <1>3, OwnKeepsRowing

(* A worker takes up a site whose row lets it.                                         *)
LEMMA BeginKeepsRowing ==
  ASSUME TypeOK, Carriage, Rowing, NEW w \in Workers, NEW kind, NEW j, NEW s \in Sites, NEW r,
         Begin(w, kind, j, s, r), project # "gone", UNCHANGED <<row, container, project>>,
         row[s].status \notin {"active", "superseded"},
         kind # "deploy" => row[s].status = "none", \A t \in Sites : Touch(t)
  PROVE  Rowing'
<1> DEFINE d == [pc |-> "row", kind |-> kind, job |-> j, site |-> s, rev |-> r,
                 kept |-> current = r, prev |-> None]
<1>1. worker'[w] = d /\ \A v \in Workers \ {w} : worker'[v] = worker[v]
  BY DEF Begin, TypeOK
<1>2. \A v \in Workers \ {w} : worker[v].pc # "idle" => worker[v].site # None
  BY IdleIs, SiteAssumption DEF TypeOK, Deployments, Sites
<1>3. Keeps(w)'
  BY <1>1 DEF Keeps, Building
<1>4. None \notin Sites
  BY SiteAssumption DEF Sites
<1>5. QED
  BY <1>1, <1>2, <1>3, <1>4, OwnKeepsRowing

(* The row of the attempt: it was not there, failed, or was left building by a crash.   *)
LEMMA InsertKeepsRowing ==
  ASSUME TypeOK, Carriage, Rowing, NEW w \in Workers, InsertRow(w), project # "gone"
  PROVE  Rowing'
<1>1. worker[w].pc = "row"
  BY DEF InsertRow, At
<1>2. PICK x \in Sites : x = worker[w].site
  BY <1>1, AtWork
<1>3. /\ worker[w] \in Deployments /\ Sound(x) /\ Keeps(w)
      /\ worker[w].kind = "deploy" => job[x] \in {"DEPLOYING", "FAILED"}
      /\ worker[w].kind # "deploy" => x \notin Jobs
      /\ \A v \in Workers \ {w} : worker[v].pc # "idle" => worker[v].site # x
  BY <1>1, <1>2, AtWork
<1>4. worker'[w] = [worker[w] EXCEPT !.pc = "publish"]
      /\ \A v \in Workers \ {w} : worker'[v] = worker[v]
  BY DEF InsertRow, Goto, TypeOK
<1>5. worker'[w].pc = "publish" /\ worker'[w].site = x /\ worker'[w].kind = worker[w].kind
      /\ worker'[w].prev = None
  BY <1>1, <1>2, <1>3, <1>4 DEF Deployments, Keeps
<1>6. row'[x].status = "building" /\ \A t \in Sites \ {x} : row'[t] = row[t]
  BY <1>2 DEF InsertRow, TypeOK
<1>7. row[x].status \notin {"active", "superseded"}
  BY <1>1, <1>2, <1>3 DEF Keeps
<1>8. Keeps(w)'
  BY <1>5, <1>6, <1>7 DEF Keeps, Building
<1>9. Sound(x)'
  BY <1>3, <1>6 DEF Sound, InsertRow
<1>10. \A t \in Sites \ {x} : Touch(t)
  BY <1>6 DEF Touch, InsertRow
<1>11. QED
  BY <1>3, <1>4, <1>7, <1>8, <1>9, <1>10, OwnKeepsRowing DEF InsertRow

LEMMA AbortKeepsRowing ==
  ASSUME TypeOK, Carriage, Rowing, NEW w \in Workers, worker[w].pc \in Building, project # "gone",
         UNCHANGED project, NEW Outcomes \in SUBSET {"FIXING", "FAILED"},
         NEW left \in {container, Emptied}, Abort(w, Outcomes, left)
  PROVE  Rowing'
<1>1. Falls(w)
  BY Falling DEF Abort, Building
<1>2. CASE Deploys(w)
  <2>1. Leave(w)
    BY <1>2 DEF Abort
  <2>2. \/ UNCHANGED <<row, job>>
        \/ /\ row' = [row EXCEPT ![worker[w].site].status = "failed"]
           /\ Applies(worker[w].job)
           /\ \E to \in {"FIXING", "FAILED"} : job' = [job EXCEPT ![worker[w].job] = to]
    BY <1>2 DEF Abort
  <2>3. QED
    BY <1>1, <1>2, <2>1, <2>2, FailKeepsRowing DEF Deploys
<1>3. CASE ~Deploys(w)
  BY <1>1, <1>3, FailKeepsRowing DEF Abort, Deploys
<1>4. QED
  BY <1>2, <1>3

(* The row, the current revision and LIVE in one transaction.                           *)
LEMMA GoLiveKeepsRowing ==
  ASSUME TypeOK, Carriage, Rowing, NEW w \in Workers, GoLive(w), project # "gone"
  PROVE  Rowing'
<1>1. worker[w].pc = "live" /\ worker[w].pc # "idle"
  BY DEF GoLive, At
<1>2. CASE ~Applies(worker[w].job)
  <2>1. \A t \in Sites : Touch(t)
    BY <1>2 DEF GoLive, Touch
  <2>2. QED
    BY <1>2, <2>1, LeaveKeepsRowing DEF GoLive
<1>3. CASE Applies(worker[w].job)
  <2>1. PICK x \in Sites : x = worker[w].site
    BY <1>1, AtWork
  <2>2. /\ worker[w] \in Deployments /\ Employed(w) /\ Keeps(w) /\ Sound(x)
        /\ \A v \in Workers \ {w} : worker[v].pc # "idle" => worker[v].site # x
    BY <1>1, <2>1, AtWork
  <2>3. worker[w].kind = "deploy" /\ worker[w].job = x /\ x \in Jobs
    BY <1>1, <2>1, <2>2 DEF Employed, DeployOnly
  <2>4. row[x].status = "building"
    BY <1>1, <2>1, <2>2 DEF Keeps, Building
  <2>5. row' = [row EXCEPT ![x].status = "active"] /\ job' = [job EXCEPT ![x] = "LIVE"]
    BY <1>3, <2>1, <2>3 DEF GoLive
  <2>6. row'[x].status = "active" /\ \A t \in Sites \ {x} : row'[t] = row[t]
    <3>1. \A t \in Sites : row[t] \in Rows
      BY DEF TypeOK
    <3>2. QED
      BY <2>5, <3>1 DEF TypeOK, Rows
  <2>7. job'[x] = "LIVE" /\ \A t \in Jobs \ {x} : job'[t] = job[t]
    BY <2>3, <2>5 DEF TypeOK, AllJobs
  <2>8. Sound(x)'
    BY <2>6, <2>7 DEF Sound
  <2>9. \A t \in Sites \ {x} : Touch(t)
    BY <2>6, <2>7 DEF Touch, GoLive
  <2>10. Keeps(w)' /\ \A v \in Workers \ {w} : worker'[v] = worker[v]
    BY DEF GoLive, Leave, Keeps, TypeOK, Idle
  <2>11. QED
    BY <2>2, <2>4, <2>8, <2>9, <2>10, OwnKeepsRowing DEF GoLive
<1>4. QED
  BY <1>2, <1>3

(* The previous deployment is taken down: it is active, this one is not.                *)
LEMMA TakePreviousKeepsRowing ==
  ASSUME TypeOK, Carriage, Rowing, NEW w \in Workers, TakePrevious(w), project # "gone"
  PROVE  Rowing'
<1>1. worker[w].pc = "previous"
  BY DEF TakePrevious, At
<1>2. PICK x \in Sites : x = worker[w].site
  BY <1>1, AtWork
<1>3. /\ worker[w] \in Deployments /\ Sound(x) /\ Keeps(w) /\ Employed(w)
      /\ worker[w].kind # "deploy" => x \notin Jobs
      /\ \A v \in Workers \ {w} : worker[v].pc # "idle" => worker[v].site # x
  BY <1>1, <1>2, AtWork
<1>4. worker[w].kind # "deploy" /\ row[x].status = "building" /\ worker[w].prev = None
  BY <1>1, <1>2, <1>3 DEF Employed, Keeps, RedeployOnly, Building
<1>5. PICK p \in Sites \cup {None} :
        /\ worker'[w] = [worker[w] EXCEPT !.pc = "switch", !.prev = p]
        /\ p = None => container' = container
        /\ p # None => row[p].status = "active" /\ container' = Down({p})
  <2>1. CASE Goto(w, "switch") /\ UNCHANGED container
    <3>1. worker'[w] = [worker[w] EXCEPT !.pc = "switch"]
      BY <2>1 DEF Goto, TypeOK
    <3>2. [worker[w] EXCEPT !.pc = "switch"] = [worker[w] EXCEPT !.pc = "switch", !.prev = None]
      BY <1>3, <1>4 DEF Deployments
    <3>3. QED
      BY <2>1, <3>1, <3>2
  <2>2. ASSUME NEW q \in Newest(Active), container' = Down({q}),
               worker' = [worker EXCEPT ![w] = [@ EXCEPT !.pc = "switch", !.prev = q]]
        PROVE  \E p \in Sites \cup {None} :
                 /\ worker'[w] = [worker[w] EXCEPT !.pc = "switch", !.prev = p]
                 /\ p = None => container' = container
                 /\ p # None => row[p].status = "active" /\ container' = Down({p})
    <3>1. q \in Sites /\ row[q].status = "active" /\ q # None
      BY SiteAssumption DEF Newest, Active, Sites
    <3>2. worker'[w] = [worker[w] EXCEPT !.pc = "switch", !.prev = q]
      BY <2>2 DEF TypeOK
    <3>3. QED
      BY <2>2, <3>1, <3>2
  <2>3. QED
    BY <2>1, <2>2 DEF TakePrevious
<1>6. \A v \in Workers \ {w} : worker'[v] = worker[v]
  BY DEF TakePrevious, Goto, TypeOK
<1>7. worker'[w].pc = "switch" /\ worker'[w].prev = p /\ worker'[w].site = x
      /\ worker'[w].kind = worker[w].kind
  BY <1>2, <1>3, <1>5 DEF Deployments
<1>8. \A t \in Sites : container[t] = "down" => container'[t] = "down"
  BY <1>5 DEF Down, TypeOK
<1>9. p # None => container'[p] = "down"
  BY <1>5 DEF Down, TypeOK
<1>10. row' = row /\ job' = job /\ project' = project
  BY DEF TakePrevious
<1>11. Keeps(w)'
  BY <1>4, <1>5, <1>7, <1>9, <1>10 DEF Keeps, Building
<1>12. Sound(x)'
  BY <1>3, <1>4, <1>10 DEF Sound
<1>13. \A t \in Sites \ {x} : Touch(t)
  BY <1>8, <1>10 DEF Touch
<1>14. QED
  BY <1>3, <1>4, <1>6, <1>10, <1>11, <1>12, <1>13, OwnKeepsRowing

(* Both rows at once: the previous one has been down since it was taken.                *)
LEMMA SwitchKeepsRowing ==
  ASSUME TypeOK, Carriage, Rowing, NEW w \in Workers, Switch(w), project # "gone"
  PROVE  Rowing'
<1>1. worker[w].pc = "switch"
  BY DEF Switch, At
<1>2. PICK x \in Sites : x = worker[w].site
  BY <1>1, AtWork
<1>3. /\ worker[w] \in Deployments /\ Sound(x) /\ Keeps(w) /\ Employed(w)
      /\ worker[w].kind # "deploy" => x \notin Jobs
      /\ \A v \in Workers \ {w} : worker[v].pc # "idle" => worker[v].site # x
  BY <1>1, <1>2, AtWork
<1>4. worker[w].kind # "deploy" /\ row[x].status = "building"
  BY <1>1, <1>2, <1>3 DEF Employed, Keeps, RedeployOnly, Building
<1>5. \A t \in Sites : row[t] \in Rows
  BY DEF TypeOK
<1>6. row'[x].status = "active"
  <2>1. worker[w].prev # x
    BY <1>1, <1>3, <1>4, SiteAssumption DEF Keeps, Sites
  <2>2. row'[x] = [row[x] EXCEPT !.status = "active"]
    BY <1>2, <2>1 DEF Switch
  <2>3. QED
    BY <1>5, <2>2 DEF Rows
<1>7. worker'[w] = [worker[w] EXCEPT !.pc = "good"] /\ \A v \in Workers \ {w} : worker'[v] = worker[v]
  BY DEF Switch, Goto, TypeOK
<1>8. worker'[w].pc = "good" /\ worker'[w].kind # "deploy"
  BY <1>3, <1>4, <1>7 DEF Deployments
<1>9. Keeps(w)'
  BY <1>8 DEF Keeps, Building
<1>10. Sound(x)'
  BY <1>3, <1>4, <1>6 DEF Sound
<1>11. ASSUME NEW t \in Sites \ {x} PROVE Touch(t)
  <2>1. job' = job /\ container' = container
    BY DEF Switch
  <2>2. CASE t = worker[w].prev
    <3>1. t # None
      BY SiteAssumption DEF Sites
    <3>2. row[t].status \in {"active", "superseded"} /\ container[t] = "down"
      BY <1>1, <1>3, <2>2, <3>1 DEF Keeps
    <3>3. row'[t].status = "superseded"
      BY <1>2, <1>5, <2>2 DEF Switch, Rows
    <3>4. QED
      BY <2>1, <3>2, <3>3 DEF Touch
  <2>3. CASE t # worker[w].prev
    <3>1. row'[t] = row[t]
      BY <1>2, <2>3 DEF Switch
    <3>2. QED
      BY <2>1, <3>1 DEF Touch
  <2>4. QED
    BY <2>2, <2>3
<1>12. QED
  BY <1>3, <1>4, <1>7, <1>9, <1>10, <1>11, OwnKeepsRowing DEF Switch

(* Every step of a deployment.                                                          *)
LEMMA DeployKeepsRowing ==
  ASSUME TypeOK, Carriage, Rowing, NEW w \in Workers, DeployStep(w), project # "gone"
  PROVE  Rowing'
<1> USE DEF Building
<1>1. CASE InsertRow(w)
  BY <1>1, InsertKeepsRowing
<1>2. CASE Publish(w)
  <2>1. CASE \E left \in {container, Emptied} : Abort(w, {"FIXING"}, left)
    BY <1>2, <2>1, AbortKeepsRowing DEF Publish, At
  <2>2. CASE container' = Emptied /\ Goto(w, "run") /\ UNCHANGED <<job, row>>
    <3>1. \A t \in Sites : container[t] = "down" => container'[t] = "down"
      BY <2>2 DEF Emptied
    <3>2. QED
      BY <1>2, <2>2, <3>1, ProceedKeepsRowing DEF Publish, At
  <2>3. QED
    BY <1>2, <2>1, <2>2 DEF Publish
<1>3. CASE Run(w)
  <2>1. CASE Abort(w, {"FIXING", "FAILED"}, container)
    BY <1>3, <2>1, AbortKeepsRowing DEF Run, At
  <2>2. CASE container' = [container EXCEPT ![worker[w].site] = Mounted] /\ Goto(w, "health")
             /\ UNCHANGED <<job, row>>
    <3>1. \A t \in Sites \ {worker[w].site} : container[t] = "down" => container'[t] = "down"
      BY <2>2 DEF TypeOK
    <3>2. QED
      BY <1>3, <2>2, <3>1, ProceedKeepsRowing DEF Run, At
  <2>3. QED
    BY <1>3, <2>1, <2>2 DEF Run
<1>4. CASE Health(w)
  <2>1. CASE Abort(w, {"FIXING"}, container)
    BY <1>4, <2>1, AbortKeepsRowing DEF Health, At
  <2>2. CASE Deploys(w) /\ Goto(w, "recheck") /\ UNCHANGED <<job, row, container>>
    BY <1>4, <2>2, ProceedKeepsRowing DEF Health, At
  <2>3. CASE ~Deploys(w) /\ Goto(w, "previous") /\ UNCHANGED <<job, row, container>>
    BY <1>4, <2>3, ProceedKeepsRowing DEF Health, At, Deploys
  <2>4. QED
    BY <1>4, <2>1, <2>2, <2>3 DEF Health
<1>5. CASE RecheckProject(w)
  <2>1. CASE Goto(w, "restate") /\ UNCHANGED <<job, row, container>>
    BY <1>5, <2>1, ProceedKeepsRowing DEF RecheckProject, At
  <2>2. CASE /\ container' = Down({worker[w].site}) /\ Leave(w)
             /\ \/ /\ Applies(worker[w].job)
                   /\ row' = [row EXCEPT ![worker[w].site].status = "failed"]
                   /\ job' = [job EXCEPT ![worker[w].job] = "FAILED"]
                \/ UNCHANGED <<row, job>>
    <3>1. worker[w].kind = "deploy"
      BY <1>5 DEF RecheckProject, At, Carriage, Employed, DeployOnly
    <3>2. Falls(w)
      BY <1>5, <2>2, Falling DEF RecheckProject, At
    <3>3. QED
      BY <1>5, <2>2, <3>1, <3>2, FailKeepsRowing DEF RecheckProject, At
  <2>3. QED
    BY <1>5, <2>1, <2>2 DEF RecheckProject
<1>6. CASE RecheckState(w)
  <2>1. CASE Goto(w, "live") /\ UNCHANGED <<row, container>>
    BY <1>6, <2>1, ProceedKeepsRowing DEF RecheckState, At
  <2>2. CASE /\ container' = Down({worker[w].site}) /\ Leave(w)
             /\ row' = [row EXCEPT ![worker[w].site].status = "failed"]
    <3>1. Falls(w)
      BY <1>6, <2>2, Falling DEF RecheckState, At
    <3>2. QED
      BY <1>6, <2>2, <3>1, FailKeepsRowing DEF RecheckState, At
  <2>3. QED
    BY <1>6, <2>1, <2>2 DEF RecheckState
<1>7. CASE GoLive(w)
  BY <1>7, GoLiveKeepsRowing
<1>8. CASE TakePrevious(w)
  BY <1>8, TakePreviousKeepsRowing
<1>9. CASE Switch(w)
  BY <1>9, SwitchKeepsRowing
<1>10. CASE Verdict(w)
  <2>1. worker[w].pc # "idle"
    BY <1>10 DEF Verdict
  <2>2. worker[w].job \in AllJobs /\ Employed(w) /\ worker[w] \in Deployments
    BY <2>1, AtWork
  <2>3. worker[w].kind = "rollback" => worker[w].job \notin Jobs
    BY <2>1, <2>2, SiteAssumption DEF Employed
  <2>4. ASSUME NEW t \in Jobs
        PROVE  job'[t] = job[t] \/ (job'[t] = "FAILED" /\ job[t] # "LIVE")
    BY <1>10, <2>2, <2>3 DEF Verdict, Applies, TypeOK, AllJobs
  <2>5. \A t \in Sites : Touch(t)
    BY <1>10, <2>4 DEF Verdict, Touch
  <2>6. QED
    BY <1>10, <2>5, LeaveKeepsRowing DEF Verdict
<1>11. CASE Crash(w)
  <2>1. \A t \in Sites : Touch(t)
    BY <1>11 DEF Crash, Touch
  <2>2. QED
    BY <1>11, <2>1, LeaveKeepsRowing DEF Crash
<1>12. QED
  BY <1>1, <1>2, <1>3, <1>4, <1>5, <1>6, <1>7, <1>8, <1>9, <1>10, <1>11 DEF DeployStep

(* The ways a worker takes up a job.                                                    *)
LEMMA StartKeepsRowing ==
  ASSUME TypeOK, Carriage, Rowing, NEW w \in Workers, Start(w), project # "gone"
  PROVE  Rowing'
<1>1. ASSUME NEW j \in Jobs, LoadDeploy(w, j) PROVE Rowing'
  <2>1. j \in Sites /\ j \in AllJobs
    BY DEF Sites, AllJobs
  <2>2. UNCHANGED <<row, container, project>>
    BY <1>1 DEF LoadDeploy
  <2>3. \A t \in Sites : Touch(t)
    BY <1>1, <2>1, <2>2 DEF LoadDeploy, Touch, TypeOK, AllJobs
  <2>4. CASE UNCHANGED worker
    BY <2>2, <2>3, <2>4, OthersKeepRowing
  <2>5. CASE Begin(w, "deploy", j, j, j) /\ job[j] = "DEPLOYING"
    <3>1. row[j].status \notin {"active", "superseded"}
      BY <2>1, <2>5 DEF Rowing, Sound
    <3>2. QED
      BY <2>1, <2>2, <2>3, <2>5, <3>1, BeginKeepsRowing
  <2>6. QED
    BY <1>1, <2>4, <2>5 DEF LoadDeploy
<1>2. ASSUME NEW j \in Jobs, GiveUp(w, j) PROVE Rowing'
  <2>1. j \in Sites /\ j \in AllJobs
    BY DEF Sites, AllJobs
  <2>2. UNCHANGED <<row, container, project>>
    BY <1>2 DEF GiveUp
  <2>3. \A t \in Sites : Touch(t)
    BY <1>2, <2>1, <2>2 DEF GiveUp, Touch, TypeOK, AllJobs
  <2>4. CASE UNCHANGED worker
    BY <2>2, <2>3, <2>4, OthersKeepRowing
  <2>5. ASSUME NEW s \in Fresh, Begin(w, "restore", j, s, base[j]) PROVE Rowing'
    <3>1. s \in Sites /\ row[s].status = "none"
      BY DEF Fresh, Sites
    <3>2. QED
      BY <2>2, <2>3, <2>5, <3>1, BeginKeepsRowing
  <2>6. QED
    BY <1>2, <2>4, <2>5 DEF GiveUp
<1>3. ASSUME NEW b \in Rollbacks, LoadRollback(w, b) PROVE Rowing'
  <2>1. b \notin Jobs
    BY SiteAssumption
  <2>2. UNCHANGED <<row, container, project>>
    BY <1>3 DEF LoadRollback
  <2>3. \A t \in Sites : Touch(t)
    BY <1>3, <2>1, <2>2 DEF LoadRollback, Touch, TypeOK, AllJobs
  <2>4. CASE UNCHANGED worker
    BY <2>2, <2>3, <2>4, OthersKeepRowing
  <2>5. ASSUME NEW s \in Fresh, Begin(w, "rollback", b, s, base[b]) PROVE Rowing'
    <3>1. s \in Sites /\ row[s].status = "none"
      BY DEF Fresh, Sites
    <3>2. QED
      BY <2>2, <2>3, <2>5, <3>1, BeginKeepsRowing
  <2>6. QED
    BY <1>3, <2>4, <2>5 DEF LoadRollback
<1>4. QED
  BY <1>1, <1>2, <1>3 DEF Start

(* The API, the reconciler, the collector and the sweeper.                               *)
LEMMA RestKeepsRowing ==
  ASSUME TypeOK, Carriage, Rowing, JobStep \/ Gc \/ Sweep, project # "gone", project' # "gone"
  PROVE  Rowing'
<1>1. CASE JobStep
  <2>1. ASSUME NEW t \in Jobs
        PROVE  \/ job'[t] = job[t]
               \/ job'[t] = "FAILED" /\ job[t] # "LIVE"
               \/ job'[t] = "DEPLOYING" /\ job[t] \in {"new", "FIXING"}
    <3>1. t \in AllJobs /\ t \notin Rollbacks
      BY SiteAssumption DEF AllJobs
    <3>2. QED
      BY <1>1, <3>1 DEF JobStep, FailJob, Request, Rebuilt, Redispatch, StartRollback, Applies, TypeOK
  <2>2. UNCHANGED <<row, container, project, worker>>
    BY <1>1 DEF JobStep, FailJob, Request, Rebuilt, Redispatch, StartRollback
  <2>3. \A t \in Sites : Touch(t)
    BY <2>1, <2>2 DEF Touch
  <2>4. QED
    BY <2>2, <2>3, OthersKeepRowing
<1>2. CASE Gc
  <2>1. project' \in {project, "deleted"}
    BY <1>2 DEF Gc, Delete, GcCancel, GcTeardown, GcVolume, GcDelete, GcCrash
  <2>2. UNCHANGED <<row, worker>>
    BY <1>2 DEF Gc, Delete, GcCancel, GcTeardown, GcVolume, GcDelete, GcCrash
  <2>3. \A t \in Sites : container[t] = "down" => container'[t] = "down"
    BY <1>2 DEF Gc, Delete, GcCancel, GcTeardown, GcVolume, GcDelete, GcCrash, Down, Emptied
  <2>4. ASSUME NEW t \in Jobs
        PROVE  \/ job'[t] = job[t]
               \/ job'[t] = "FAILED" /\ project' = "deleted"
    <3>1. CASE GcCancel
      BY <3>1 DEF GcCancel, Carriage, Collected, AllJobs
    <3>2. CASE job' = job
      BY <3>2
    <3>3. QED
      BY <1>2, <3>1, <3>2 DEF Gc, Delete, GcTeardown, GcVolume, GcDelete, GcCrash
  <2>5. \A t \in Sites : Touch(t)
    BY <2>2, <2>3, <2>4 DEF Touch
  <2>6. QED
    BY <2>1, <2>2, <2>5, OthersKeepRowing
<1>3. CASE Sweep
  <2>1. ASSUME NEW t \in Sites PROVE Touch(t)
    <3>1. row[t] \in Rows
      BY DEF TypeOK
    <3>2. CASE t \in Active
      <4>1. container'[t] = "down" /\ row[t].status = "active"
        BY <1>3, <3>2 DEF Sweep, Down, Active
      <4>2. row'[t] = row[t] \/ row'[t] = [row[t] EXCEPT !.status = "superseded"]
        BY <1>3, <3>2 DEF Sweep
      <4>3. row'[t].status \in {row[t].status, "superseded"}
        BY <3>1, <4>2 DEF Rows
      <4>4. QED
        BY <1>3, <4>1, <4>3 DEF Touch, Sweep
    <3>3. CASE t \notin Active
      BY <1>3, <3>3 DEF Sweep, Down, Touch
    <3>4. QED
      BY <3>2, <3>3
  <2>2. QED
    BY <1>3, <2>1, OthersKeepRowing DEF Sweep
<1>4. QED
  BY <1>1, <1>2, <1>3

(* Every step keeps Rowing; a step into "gone" does because no row is left.               *)
LEMMA RowingStep == ~Overlap /\ TypeOK /\ Carriage /\ Rowing /\ [Next]_vars => Rowing'
<1> SUFFICES ASSUME ~Overlap, TypeOK, Carriage, Rowing, [Next]_vars PROVE Rowing'
  OBVIOUS
<1>1. TypeOK' /\ Collected'
  BY TypeStep, CarriageStep DEF Carriage
<1>2. CASE project' = "gone"
  BY <1>1, <1>2, GoneRows
<1>3. CASE project' # "gone"
  <2>1. project # "gone"
    BY <1>3 DEF Next, vars, Start, LoadDeploy, GiveUp, LoadRollback, DeployStep, InsertRow, Publish,
       Run, Health, RecheckProject, RecheckState, GoLive, TakePrevious, Switch, Verdict, Crash,
       JobStep, FailJob, Request, Rebuilt, Redispatch, StartRollback,
       Gc, Delete, GcCancel, GcTeardown, GcVolume, GcDelete, GcCrash, Sweep
  <2>2. CASE UNCHANGED vars
    BY <2>2 DEF vars, Rowing, Keeps, Sound
  <2>3. QED
    BY <1>3, <2>1, <2>2, StartKeepsRowing, DeployKeepsRowing, RestKeepsRowing DEF Next
<1>4. QED
  BY <1>2, <1>3

--------------------------------------------------------------------------------
(* The invariants of the runs, for one deployment of a job at a time.                    *)

(* Both halves of the inductive invariant hold in every run.                             *)
LEMMA InvariantHolds == ASSUME ~Overlap PROVE Spec => [](Carriage /\ Rowing)
<1>1. Init => TypeOK /\ Carriage /\ Rowing
  BY SiteAssumption DEF Init, TypeOK, JobStates, NoRow, Rows, RowStates, Carriage, Employed,
     Exclusive, Waiting, Collected, Rowing, Keeps, Sound, Idle, AllJobs, Sites
<1>2. TypeOK /\ Carriage /\ Rowing /\ [Next]_vars => (TypeOK /\ Carriage /\ Rowing)'
  BY TypeStep, CarriageStep, RowingStep
<1>3. QED
  BY <1>1, <1>2, PTL DEF Spec

(* Unless a job is deployed twice at a time, a failed or superseded site has no container,   *)
(* through crashes at any step, the sweeper and the collector.                              *)
THEOREM FailedSitesAreDown == ASSUME ~Overlap PROVE Spec => []FailedIsDown
<1>1. Rowing => FailedIsDown
  BY DEF Rowing, Sound, FailedIsDown
<1>2. QED
  BY <1>1, InvariantHolds, PTL

(* Unless a job is deployed twice at a time, a job and its deployment agree.                 *)
THEOREM JobAndSiteAgree == ASSUME ~Overlap PROVE Spec => []StatesAgree
<1>1. Rowing => StatesAgree
  BY DEF Rowing, Sound, StatesAgree, Sites
<1>2. QED
  BY <1>1, InvariantHolds, PTL

--------------------------------------------------------------------------------
(* What the collector leaves. *)

(* A container that is up has a row for as long as there are rows. Once the containers *)
(* have been taken down, those that are up and those who may still start one belong to *)
(* sites that were being deployed then: nobody is deployed anew, because every job has  *)
(* been cancelled.                                                                     *)
Accounted ==
  /\ gc # "idle" => project = "deleted"
  /\ project # "gone" =>
       /\ \A j \in queue : job[j] # "new"
       /\ \A w \in Workers : worker[w].pc # "idle" =>
            /\ job[worker[w].job] # "new"
            /\ worker[w].pc # "row" => row[worker[w].site].status # "none"
       /\ \A s \in Sites : container[s] # "down" => row[s].status # "none"
  /\ gc \in {"cancelled", "torn", "cleared"} => \A j \in AllJobs : job[j] \in {"new", "FAILED"}
  /\ gc \in {"torn", "cleared"} \/ project = "gone" =>
       /\ \A w \in Workers : worker[w].pc # "idle" => worker[w].site \in hist
       /\ \A s \in Sites : container[s] # "down" => s \in hist

(* All that a step of a deployment does to the project as a whole.                     *)
Works(w) ==
  /\ worker[w].pc # "idle"
  /\ UNCHANGED <<project, gc, hist>>
  /\ \A v \in Workers \ {w} : worker'[v] = worker[v]
  /\ \/ worker'[w].pc = "idle"
     \/ /\ worker'[w].job = worker[w].job /\ worker'[w].site = worker[w].site
        /\ project # "gone" /\ worker'[w].pc # "row" => row'[worker[w].site].status # "none"
        /\ job' = job
  /\ queue' \subseteq queue \cup {worker[w].job}
  /\ \A j \in AllJobs : \/ job'[j] = job[j]
                        \/ /\ job'[j] \in {"FIXING", "FAILED", "LIVE"}
                           /\ Applies(j) /\ j = worker[w].job
  /\ \A s \in Sites : row[s].status # "none" => row'[s].status # "none"
  /\ \A s \in Sites : container'[s] # "down"
       => container[s] # "down" \/ (s = worker[w].site /\ worker[w].pc # "row")

(* What a step to the next program counter leaves of the worker's record.               *)
LEMMA GotoKeepsRecord ==
  ASSUME TypeOK, NEW w \in Workers, worker[w].pc # "idle", NEW pc, Goto(w, pc)
  PROVE  /\ worker'[w].pc = pc
         /\ \A field \in {"kind", "job", "site", "rev", "kept", "prev"} :
              worker'[w][field] = worker[w][field]
         /\ \A v \in Workers \ {w} : worker'[v] = worker[v]
<1>1. worker[w] \in Deployments
  BY IdleIs DEF TypeOK
<1>2. worker'[w] = [worker[w] EXCEPT !.pc = pc] /\ \A v \in Workers \ {w} : worker'[v] = worker[v]
  BY DEF Goto, TypeOK
<1>. QED BY <1>1, <1>2 DEF Deployments

LEMMA LeaveFrees ==
  ASSUME TypeOK, NEW w \in Workers, Leave(w)
  PROVE  worker'[w].pc = "idle" /\ \A v \in Workers \ {w} : worker'[v] = worker[v]
BY DEF Leave, TypeOK, Idle

(* The states of a row that deployments write.                                         *)
LEMMA StatusWritten ==
  ASSUME TypeOK, NEW s \in Sites, NEW st \in RowStates \ {"none"},
         row' = [row EXCEPT ![s].status = st]
  PROVE  /\ \A t \in Sites \ {s} : row'[t] = row[t]
         /\ row'[s].status = st /\ row'[s].rev = row[s].rev
         /\ \A t \in Sites : row[t].status # "none" => row'[t].status # "none"
<1>1. row[s] \in Rows
  BY DEF TypeOK
<1>2. row'[s] = [row[s] EXCEPT !.status = st] /\ \A t \in Sites \ {s} : row'[t] = row[t]
  BY DEF TypeOK
<1>3. row'[s].status = st /\ row'[s].rev = row[s].rev
  BY <1>1, <1>2 DEF Rows
<1>. QED BY <1>2, <1>3

LEMMA AbortWorks ==
  ASSUME TypeOK, Accounted, NEW w \in Workers, worker[w].pc \notin {"idle", "row"},
         NEW Outcomes \in SUBSET {"FIXING", "FAILED"},
         NEW left \in {container, Emptied}, Abort(w, Outcomes, left),
         UNCHANGED <<project, gc, hist, queue>>
  PROVE  Works(w)
<1>1. worker[w] \in Deployments
  BY IdleIs DEF TypeOK
<1>2. worker[w].site \in Sites /\ worker[w].job \in AllJobs
  BY <1>1 DEF Deployments
<1>3. row' = row \/ row' = [row EXCEPT ![worker[w].site].status = "failed"]
  BY DEF Abort
<1>4. \A s \in Sites : row[s].status # "none" => row'[s].status # "none"
  BY <1>2, <1>3, StatusWritten DEF RowStates
<1>5. \A s \in Sites : container'[s] # "down" => container[s] # "down"
  BY <1>2, Falling DEF Abort, Falls
<1>6. \A j \in AllJobs : \/ job'[j] = job[j]
                         \/ job'[j] \in {"FIXING", "FAILED", "LIVE"} /\ Applies(j) /\ j = worker[w].job
  BY <1>2 DEF Abort, TypeOK
<1>7. Leave(w) \/ (Goto(w, "bad") /\ job' = job)
  BY DEF Abort
<1>8. project # "gone" => row[worker[w].site].status # "none"
  BY DEF Accounted
<1>9. /\ \A v \in Workers \ {w} : worker'[v] = worker[v]
      /\ \/ worker'[w].pc = "idle"
         \/ worker'[w].job = worker[w].job /\ worker'[w].site = worker[w].site /\ job' = job
  BY <1>7, LeaveFrees, GotoKeepsRecord
<1>. QED BY <1>2, <1>4, <1>5, <1>6, <1>8, <1>9 DEF Works

(* A step that ends the attempt, or goes on and writes no row.                          *)
LEMMA GoingWorks ==
  ASSUME TypeOK, Accounted, NEW w \in Workers, worker[w].pc \notin {"idle", "row"},
         Leave(w) \/ \E pc : Goto(w, pc),
         UNCHANGED <<project, gc, hist, queue, job, row>>,
         \A s \in Sites \ {worker[w].site} : container'[s] # "down" => container[s] # "down"
  PROVE  Works(w)
<1>1. project # "gone" => row[worker[w].site].status # "none"
  BY DEF Accounted
<1>2. CASE Leave(w)
  BY <1>2, LeaveFrees DEF Works
<1>3. ASSUME NEW pc, Goto(w, pc) PROVE Works(w)
  <2>1. /\ \A v \in Workers \ {w} : worker'[v] = worker[v]
        /\ worker'[w].job = worker[w].job /\ worker'[w].site = worker[w].site
    BY <1>3, GotoKeepsRecord
  <2>. QED BY <1>1, <2>1 DEF Works
<1>. QED BY <1>2, <1>3

LEMMA DeployWorks ==
  ASSUME TypeOK, Accounted, NEW w \in Workers, DeployStep(w)
  PROVE  Works(w)
<1>0. worker[w].pc # "idle"
  BY DEF DeployStep, InsertRow, Publish, Run, Health, RecheckProject, RecheckState, GoLive,
         TakePrevious, Switch, Verdict, Crash, At, Busy
<1>1. worker[w] \in Deployments
  BY <1>0, IdleIs DEF TypeOK
<1>2. worker[w].site \in Sites /\ worker[w].job \in AllJobs
  BY <1>1 DEF Deployments
<1>3. CASE InsertRow(w)
  <2>1. CASE project = "gone"
    BY <1>0, <1>3, <2>1, LeaveFrees DEF InsertRow, Works
  <2>2. CASE project # "gone"
    <3>1. PICK b : row' = [row EXCEPT ![worker[w].site] =
                             [status |-> "building", rev |-> worker[w].rev, born |-> b]]
      BY <1>3, <2>2 DEF InsertRow
    <3>2. row'[worker[w].site].status = "building"
          /\ \A t \in Sites \ {worker[w].site} : row'[t] = row[t]
      BY <1>2, <3>1 DEF TypeOK
    <3>3. Goto(w, "publish")
      BY <1>3, <2>2 DEF InsertRow
    <3>4. /\ \A v \in Workers \ {w} : worker'[v] = worker[v]
          /\ worker'[w].job = worker[w].job /\ worker'[w].site = worker[w].site
      BY <1>0, <3>3, GotoKeepsRecord
    <3>5. \A t \in Sites : row[t].status # "none" => row'[t].status # "none"
      BY <3>2
    <3>. QED BY <1>0, <1>3, <3>2, <3>4, <3>5 DEF InsertRow, Works
  <2>. QED BY <2>1, <2>2
<1>4. CASE Publish(w)
  <2>1. CASE Goto(w, "run") /\ container' = Emptied /\ UNCHANGED <<job, row>>
    BY <1>4, <2>1, GoingWorks DEF Publish, At, Emptied
  <2>2. CASE \E left \in {container, Emptied} : Abort(w, {"FIXING"}, left)
    BY <1>4, <2>2, AbortWorks DEF Publish, At
  <2>. QED BY <1>4, <2>1, <2>2 DEF Publish
<1>5. CASE Run(w)
  <2>1. CASE /\ Goto(w, "health") /\ UNCHANGED <<job, row>>
             /\ container' = [container EXCEPT ![worker[w].site] = Mounted]
    <3>1. \A s \in Sites \ {worker[w].site} : container'[s] = container[s]
      BY <2>1 DEF TypeOK
    <3>. QED BY <1>5, <2>1, <3>1, GoingWorks DEF Run, At
  <2>2. CASE Abort(w, {"FIXING", "FAILED"}, container)
    BY <1>5, <2>2, AbortWorks DEF Run, At
  <2>. QED BY <1>5, <2>1, <2>2 DEF Run
<1>6. CASE Health(w)
  <2>1. CASE Abort(w, {"FIXING"}, container)
    BY <1>6, <2>1, AbortWorks DEF Health, At
  <2>2. CASE (Leave(w) \/ \E pc : Goto(w, pc)) /\ UNCHANGED <<job, row, container>>
    BY <1>6, <2>2, GoingWorks DEF Health, At
  <2>. QED BY <1>6, <2>1, <2>2 DEF Health
<1>7. CASE RecheckProject(w) \/ RecheckState(w)
  <2>1. CASE (Leave(w) \/ \E pc : Goto(w, pc)) /\ UNCHANGED <<job, row>>
    <3>1. \A s \in Sites : container'[s] # "down" => container[s] # "down"
      BY <1>7 DEF RecheckProject, RecheckState, Down
    <3>. QED BY <1>7, <2>1, <3>1, GoingWorks DEF RecheckProject, RecheckState, At
  <2>2. CASE /\ Leave(w) /\ container' = Down({worker[w].site})
             /\ row' = [row EXCEPT ![worker[w].site].status = "failed"]
             /\ \/ job' = job
                \/ Applies(worker[w].job) /\ job' = [job EXCEPT ![worker[w].job] = "FAILED"]
    <3>1. \A s \in Sites : container'[s] # "down" => container[s] # "down"
      BY <2>2 DEF Down
    <3>2. \A s \in Sites : row[s].status # "none" => row'[s].status # "none"
      BY <1>2, <2>2, StatusWritten DEF RowStates
    <3>3. \A j \in AllJobs : job'[j] = job[j]
                             \/ (job'[j] = "FAILED" /\ Applies(j) /\ j = worker[w].job)
      BY <2>2 DEF TypeOK
    <3>4. worker'[w].pc = "idle" /\ \A v \in Workers \ {w} : worker'[v] = worker[v]
      BY <2>2, LeaveFrees
    <3>5. UNCHANGED <<project, gc, hist, queue>>
      BY <1>7 DEF RecheckProject, RecheckState
    <3>. QED BY <1>0, <3>1, <3>2, <3>3, <3>4, <3>5 DEF Works
  <2>. QED BY <1>7, <2>1, <2>2 DEF RecheckProject, RecheckState
<1>8. CASE GoLive(w)
  <2>1. row' = row \/ row' = [row EXCEPT ![worker[w].site].status = "active"]
    BY <1>8 DEF GoLive
  <2>2. \A s \in Sites : row[s].status # "none" => row'[s].status # "none"
    BY <1>2, <2>1, StatusWritten DEF RowStates
  <2>3. \A j \in AllJobs : job'[j] = job[j] \/ (job'[j] = "LIVE" /\ Applies(j) /\ j = worker[w].job)
    BY <1>8 DEF GoLive, TypeOK
  <2>4. worker'[w].pc = "idle" /\ \A v \in Workers \ {w} : worker'[v] = worker[v]
    BY <1>8, LeaveFrees DEF GoLive
  <2>. QED BY <1>0, <1>8, <2>2, <2>3, <2>4 DEF GoLive, Works
<1>9. CASE TakePrevious(w)
  <2>1. \A s \in Sites : container'[s] # "down" => container[s] # "down"
    BY <1>9 DEF TakePrevious, Down
  <2>2. CASE Goto(w, "switch")
    BY <1>9, <2>1, <2>2, GoingWorks DEF TakePrevious, At
  <2>3. ASSUME NEW p \in Newest(Active),
               worker' = [worker EXCEPT ![w] = [@ EXCEPT !.pc = "switch", !.prev = p]]
        PROVE  Works(w)
    <3>1. /\ worker'[w] = [worker[w] EXCEPT !.pc = "switch", !.prev = p]
          /\ \A v \in Workers \ {w} : worker'[v] = worker[v]
      BY <2>3 DEF TypeOK
    <3>2. worker'[w].job = worker[w].job /\ worker'[w].site = worker[w].site
      BY <1>1, <3>1 DEF Deployments
    <3>3. project # "gone" => row[worker[w].site].status # "none"
      BY <1>9 DEF Accounted, TakePrevious, At
    <3>. QED BY <1>0, <1>9, <2>1, <3>1, <3>2, <3>3 DEF TakePrevious, Works
  <2>. QED BY <1>9, <2>2, <2>3 DEF TakePrevious
<1>10. CASE Switch(w)
  <2>1. CASE project = "gone"
    BY <1>10, <2>1, GoingWorks DEF Switch, At
  <2>2. CASE project # "gone"
    <3>1. ASSUME NEW s \in Sites, row[s].status # "none" PROVE row'[s].status # "none"
      <4>1. row[s] \in Rows
        BY DEF TypeOK
      <4>2. row'[s] \in {row[s], [row[s] EXCEPT !.status = "active"], [row[s] EXCEPT !.status = "superseded"]}
        BY <1>10, <2>2 DEF Switch
      <4>. QED BY <3>1, <4>1, <4>2 DEF Rows
    <3>2. Goto(w, "good")
      BY <1>10, <2>2 DEF Switch
    <3>3. /\ \A v \in Workers \ {w} : worker'[v] = worker[v]
          /\ worker'[w].job = worker[w].job /\ worker'[w].site = worker[w].site
      BY <1>0, <3>2, GotoKeepsRecord
    <3>4. row[worker[w].site].status # "none"
      BY <1>10, <2>2 DEF Accounted, Switch, At
    <3>. QED BY <1>0, <1>2, <1>10, <3>1, <3>3, <3>4 DEF Switch, Works
  <2>. QED BY <2>1, <2>2
<1>11. CASE Verdict(w)
  <2>1. \A j \in AllJobs : \/ job'[j] = job[j]
                           \/ job'[j] \in {"LIVE", "FAILED"} /\ Applies(j) /\ j = worker[w].job
    BY <1>11 DEF Verdict, TypeOK
  <2>2. worker'[w].pc = "idle" /\ \A v \in Workers \ {w} : worker'[v] = worker[v]
    BY <1>11, LeaveFrees DEF Verdict
  <2>. QED BY <1>0, <1>11, <2>1, <2>2 DEF Verdict, Works
<1>12. CASE Crash(w)
  BY <1>0, <1>12, LeaveFrees DEF Crash, Works
<1>. QED BY <1>3, <1>4, <1>5, <1>6, <1>7, <1>8, <1>9, <1>10, <1>11, <1>12 DEF DeployStep

LEMMA WorkKeepsAccounted ==
  ASSUME TypeOK, Accounted, NEW w \in Workers, Works(w)
  PROVE  Accounted'
<1>1. worker[w] \in Deployments
  BY IdleIs DEF TypeOK, Works
<1>2. worker[w].site \in Sites /\ worker[w].job \in AllJobs /\ worker[w].pc # "idle"
  BY <1>1, IdleIs DEF Deployments
<1>3. \A j \in AllJobs : job[j] # "new" => job'[j] # "new"
  BY DEF Works
<1>4. ASSUME NEW v \in Workers, worker'[v].pc # "idle"
      PROVE  /\ worker[v].pc # "idle"
             /\ worker'[v].job = worker[v].job /\ worker'[v].site = worker[v].site
             /\ worker[v].job \in AllJobs /\ worker[v].site \in Sites
             /\ \/ worker'[v] = worker[v]
                \/ project # "gone" /\ worker'[v].pc # "row" => row'[worker[v].site].status # "none"
  <2>1. CASE v = w
    BY <1>2, <1>4, <2>1 DEF Works
  <2>2. CASE v # w
    <3>1. worker'[v] = worker[v] /\ worker[v].pc # "idle"
      BY <1>4, <2>2 DEF Works
    <3>2. worker[v] \in Deployments
      BY <3>1, IdleIs DEF TypeOK
    <3>. QED BY <3>1, <3>2 DEF Deployments
  <2>. QED BY <2>1, <2>2
<1>5. ASSUME project # "gone"
      PROVE  /\ \A j \in queue' : job'[j] # "new"
             /\ \A v \in Workers : worker'[v].pc # "idle" =>
                  /\ job'[worker'[v].job] # "new"
                  /\ worker'[v].pc # "row" => row'[worker'[v].site].status # "none"
             /\ \A s \in Sites : container'[s] # "down" => row'[s].status # "none"
  <2>1. \A j \in queue' : j \in AllJobs /\ job[j] # "new"
    BY <1>2, <1>5 DEF Accounted, Works, TypeOK
  <2>2. ASSUME NEW v \in Workers, worker'[v].pc # "idle"
        PROVE  /\ job'[worker'[v].job] # "new"
               /\ worker'[v].pc # "row" => row'[worker'[v].site].status # "none"
    <3>1. job[worker[v].job] # "new" /\ (worker[v].pc # "row" => row[worker[v].site].status # "none")
      BY <1>4, <1>5, <2>2 DEF Accounted
    <3>. QED BY <1>3, <1>4, <1>5, <2>2, <3>1 DEF Works
  <2>3. \A s \in Sites : container'[s] # "down" => row[s].status # "none"
    BY <1>2, <1>5 DEF Accounted, Works
  <2>. QED BY <1>3, <2>1, <2>2, <2>3 DEF Works
<1>6. ASSUME gc \in {"cancelled", "torn", "cleared"}, NEW j \in AllJobs
      PROVE  job'[j] \in {"new", "FAILED"}
  <2>1. job[j] \in {"new", "FAILED"} /\ project # "gone"
    BY <1>6 DEF Accounted
  <2>2. CASE j = worker[w].job
    <3>1. job[j] = "FAILED"
      BY <1>2, <2>1, <2>2 DEF Accounted
    <3>. QED BY <2>1, <3>1 DEF Works, Applies
  <2>3. CASE j # worker[w].job
    BY <2>1, <2>3 DEF Works
  <2>. QED BY <2>2, <2>3
<1>7. ASSUME gc \in {"torn", "cleared"} \/ project = "gone"
      PROVE  /\ \A v \in Workers : worker'[v].pc # "idle" => worker'[v].site \in hist
             /\ \A s \in Sites : container'[s] # "down" => s \in hist
  <2>1. \A v \in Workers : worker[v].pc # "idle" => worker[v].site \in hist
    BY <1>7 DEF Accounted
  <2>2. \A s \in Sites : container[s] # "down" => s \in hist
    BY <1>7 DEF Accounted
  <2>3. \A s \in Sites : container'[s] # "down" => s \in hist
    BY <1>2, <2>1, <2>2 DEF Works
  <2>. QED BY <1>4, <2>1, <2>3
<1>8. project' = project /\ gc' = gc /\ hist' = hist
  BY DEF Works
<1>. QED BY <1>5, <1>6, <1>7, <1>8 DEF Accounted

(* A worker takes up a job of a project that is not being collected yet.                *)
LEMMA BeginKeepsAccounted ==
  ASSUME TypeOK, Accounted, NEW w \in Workers, NEW kind, NEW j \in AllJobs, NEW s, NEW r,
         Begin(w, kind, j, s, r), project # "gone", gc \notin {"torn", "cleared"},
         job' = job \/ (job' = [job EXCEPT ![j] = "DEPLOYING"] /\ gc # "cancelled"),
         job[j] # "new", queue' \subseteq queue,
         UNCHANGED <<project, gc, hist, row, container>>
  PROVE  Accounted'
<1>1. worker'[w].pc = "row" /\ worker'[w].job = j /\ \A v \in Workers \ {w} : worker'[v] = worker[v]
  BY DEF Begin, TypeOK
<1>2. \A k \in AllJobs : job[k] # "new" => job'[k] # "new"
  BY DEF TypeOK
<1>3. \A k \in queue' : job'[k] # "new"
  BY <1>2 DEF Accounted, TypeOK
<1>4. ASSUME NEW v \in Workers, worker'[v].pc # "idle"
      PROVE  /\ job'[worker'[v].job] # "new"
             /\ worker'[v].pc # "row" => row[worker'[v].site].status # "none"
  <2>1. CASE v = w
    BY <1>1, <1>2, <2>1
  <2>2. CASE v # w
    <3>1. worker'[v] = worker[v] /\ worker[v].pc # "idle"
      BY <1>1, <1>4, <2>2
    <3>2. worker[v] \in Deployments
      BY <3>1, IdleIs DEF TypeOK
    <3>. QED BY <1>2, <3>1, <3>2 DEF Accounted, Deployments
  <2>. QED BY <2>1, <2>2
<1>. QED BY <1>3, <1>4 DEF Accounted

(* A step that changes no deployment: the rows stay, and no container comes up.         *)
LEMMA RestKeepsAccounted ==
  ASSUME TypeOK, Accounted, UNCHANGED <<worker, project, hist>>,
         gc' = gc, \A j \in queue' : j \in queue \/ job'[j] # "new",
         \A j \in AllJobs : \/ job'[j] = job[j]
                            \/ /\ job'[j] # "new"
                               /\ gc \notin {"cancelled", "torn", "cleared"} \/ job'[j] = "FAILED",
         queue' \subseteq AllJobs,
         \A s \in Sites : /\ container'[s] # "down" => container[s] # "down"
                          /\ row[s].status # "none" => row'[s].status # "none"
  PROVE  Accounted'
<1>1. \A j \in AllJobs : job[j] # "new" => job'[j] # "new"
  OBVIOUS
<1>2. \A w \in Workers : worker[w].pc # "idle" => worker[w].job \in AllJobs /\ worker[w].site \in Sites
  BY IdleIs DEF TypeOK, Deployments
<1>3. project # "gone" => \A j \in queue' : job'[j] # "new"
  BY <1>1 DEF Accounted, TypeOK
<1>. QED BY <1>1, <1>2, <1>3 DEF Accounted

LEMMA StartKeepsAccounted ==
  ASSUME TypeOK, Accounted, NEW w \in Workers, Start(w)
  PROVE  Accounted'
<1>1. ASSUME NEW j \in Jobs, LoadDeploy(w, j) PROVE Accounted'
  <2>1. j \in AllJobs
    BY DEF AllJobs
  <2>2. CASE job[j] = "DEPLOYING" /\ project = "alive" /\ Begin(w, "deploy", j, j, j) /\ job' = job
    <3>1. gc = "idle"
      BY <2>2 DEF Accounted
    <3>. QED BY <1>1, <2>1, <2>2, <3>1, BeginKeepsAccounted DEF LoadDeploy
  <2>3. CASE UNCHANGED worker
    <3>1. job' = job \/ job' = [job EXCEPT ![j] = "FAILED"]
      BY <1>1 DEF LoadDeploy
    <3>. QED BY <1>1, <2>1, <2>3, <3>1, RestKeepsAccounted DEF LoadDeploy, TypeOK
  <2>. QED BY <1>1, <2>2, <2>3 DEF LoadDeploy
<1>2. ASSUME NEW j \in Jobs, GiveUp(w, j) PROVE Accounted'
  <2>1. j \in AllJobs /\ job[j] = "FIXING" /\ project # "gone"
    BY <1>2 DEF GiveUp, AllJobs
  <2>2. gc \notin {"cancelled", "torn", "cleared"}
    BY <2>1 DEF Accounted
  <2>3. CASE UNCHANGED worker /\ job' = [job EXCEPT ![j] = "FAILED"]
    BY <1>2, <2>1, <2>3, RestKeepsAccounted DEF GiveUp, TypeOK
  <2>4. ASSUME NEW s \in Fresh, Begin(w, "restore", j, s, base[j]), job' = job PROVE Accounted'
    BY <1>2, <2>1, <2>2, <2>4, BeginKeepsAccounted DEF GiveUp
  <2>. QED BY <1>2, <2>3, <2>4 DEF GiveUp
<1>3. ASSUME NEW b \in Rollbacks, LoadRollback(w, b) PROVE Accounted'
  <2>1. b \in AllJobs /\ b \in queue
    BY <1>3 DEF LoadRollback, AllJobs
  <2>2. CASE UNCHANGED <<job, worker>>
    BY <1>3, <2>2, RestKeepsAccounted DEF LoadRollback, TypeOK
  <2>3. CASE Applies(b) /\ job' = [job EXCEPT ![b] = "FAILED"] /\ UNCHANGED worker
    BY <1>3, <2>1, <2>3, RestKeepsAccounted DEF LoadRollback, TypeOK, Applies
  <2>4. ASSUME NEW s \in Fresh, Begin(w, "rollback", b, s, base[b]), Applies(b),
               job' = [job EXCEPT ![b] = "DEPLOYING"]
        PROVE  Accounted'
    <3>1. project # "gone" /\ job[b] \notin {"new", "FAILED"}
      BY <2>1, <2>4 DEF Accounted, Applies
    <3>2. gc \notin {"cancelled", "torn", "cleared"}
      BY <2>1, <3>1 DEF Accounted
    <3>. QED BY <1>3, <2>1, <2>4, <3>1, <3>2, BeginKeepsAccounted DEF LoadRollback
  <2>. QED BY <1>3, <2>2, <2>3, <2>4 DEF LoadRollback
<1>. QED BY <1>1, <1>2, <1>3 DEF Start

LEMMA JobStepKeepsAccounted ==
  ASSUME TypeOK, Accounted, JobStep
  PROVE  Accounted'
<1>1. ASSUME NEW j \in AllJobs, FailJob(j) PROVE Accounted'
  BY <1>1, RestKeepsAccounted DEF FailJob, Applies, TypeOK
<1>2. ASSUME NEW j \in Jobs, Request(j) \/ Rebuilt(j) PROVE Accounted'
  <2>1. j \in AllJobs /\ project = "alive" /\ gc = "idle"
    BY <1>2 DEF Request, Rebuilt, AllJobs, Accounted
  <2>2. job' = [job EXCEPT ![j] = "DEPLOYING"] /\ queue' = queue \cup {j}
        /\ UNCHANGED <<row, container, project, worker, gc, hist>>
    BY <1>2 DEF Request, Rebuilt
  <2>. QED BY <2>1, <2>2, RestKeepsAccounted DEF TypeOK
<1>3. ASSUME NEW j \in Jobs, Redispatch(j) PROVE Accounted'
  <2>1. j \in AllJobs
    BY DEF AllJobs
  <2>. QED BY <1>3, <2>1, RestKeepsAccounted DEF Redispatch, TypeOK
<1>4. ASSUME NEW b \in Rollbacks, StartRollback(b) PROVE Accounted'
  <2>1. b \in AllJobs /\ project = "alive" /\ gc = "idle"
    BY <1>4 DEF StartRollback, AllJobs, Accounted
  <2>2. job' = [job EXCEPT ![b] = "CREATED"] /\ queue' \subseteq queue \cup {b}
        /\ UNCHANGED <<row, container, project, worker, gc, hist>>
    BY <1>4 DEF StartRollback
  <2>. QED BY <2>1, <2>2, RestKeepsAccounted DEF TypeOK
<1>. QED BY <1>1, <1>2, <1>3, <1>4 DEF JobStep

LEMMA GcKeepsAccounted ==
  ASSUME TypeOK, Accounted, Gc
  PROVE  Accounted'
<1>1. CASE Delete
  <2>1. project = "alive" /\ gc = "idle"
    BY <1>1 DEF Delete, Accounted
  <2>. QED BY <1>1, <2>1 DEF Delete, Accounted
<1>2. CASE GcCancel
  <2>1. \A j \in AllJobs : job'[j] \in {"new", "FAILED"} /\ (job[j] # "new" => job'[j] # "new")
    BY <1>2 DEF GcCancel
  <2>2. \A w \in Workers : worker[w].pc # "idle" => worker[w].job \in AllJobs
    BY IdleIs DEF TypeOK, Deployments
  <2>. QED BY <1>2, <2>1, <2>2 DEF GcCancel, Accounted, TypeOK
<1>3. CASE GcTeardown
  <2>1. project # "gone" /\ gc = "cancelled"
    BY <1>3 DEF GcTeardown, Accounted
  <2>2. \A s \in Sites : container'[s] = "down"
    BY <1>3, <2>1 DEF GcTeardown, Down, Accounted
  <2>3. \A w \in Workers : worker[w].pc # "idle" => worker[w].site \in hist'
    BY <1>3 DEF GcTeardown, Busy
  <2>. QED BY <1>3, <2>1, <2>2, <2>3 DEF GcTeardown, Accounted
<1>4. CASE GcVolume
  <2>1. \A s \in Sites : container'[s] # "down" => container[s] # "down"
    BY <1>4 DEF GcVolume, Emptied
  <2>. QED BY <1>4, <2>1 DEF GcVolume, Accounted
<1>5. CASE GcDelete
  BY <1>5 DEF GcDelete, Accounted
<1>6. CASE GcCrash
  BY <1>6 DEF GcCrash, Accounted
<1>. QED BY <1>1, <1>2, <1>3, <1>4, <1>5, <1>6 DEF Gc

LEMMA SweepKeepsAccounted ==
  ASSUME TypeOK, Accounted, Sweep
  PROVE  Accounted'
<1>1. ASSUME NEW s \in Sites, row[s].status # "none" PROVE row'[s].status # "none"
  <2>1. row[s] \in Rows
    BY DEF TypeOK
  <2>2. row'[s] = row[s] \/ row'[s] = [row[s] EXCEPT !.status = "superseded"]
    BY DEF Sweep
  <2>. QED BY <1>1, <2>1, <2>2 DEF Rows
<1>2. \A s \in Sites : container'[s] # "down" => container[s] # "down"
  BY DEF Sweep, Down
<1>. QED BY <1>1, <1>2, RestKeepsAccounted DEF Sweep, TypeOK

LEMMA AccountedStep == TypeOK /\ Accounted /\ [Next]_vars => Accounted'
<1> SUFFICES ASSUME TypeOK, Accounted, [Next]_vars PROVE Accounted'
  OBVIOUS
<1>1. ASSUME NEW w \in Workers, Start(w) \/ DeployStep(w) PROVE Accounted'
  BY <1>1, StartKeepsAccounted, DeployWorks, WorkKeepsAccounted
<1>2. CASE JobStep \/ Gc \/ Sweep
  BY <1>2, JobStepKeepsAccounted, GcKeepsAccounted, SweepKeepsAccounted
<1>3. CASE UNCHANGED vars
  BY <1>3 DEF vars, Accounted
<1>. QED BY <1>1, <1>2, <1>3 DEF Next

LEMMA AccountedHolds == Spec => [](TypeOK /\ Accounted)
<1>1. Init => TypeOK /\ Accounted
  BY DEF Init, TypeOK, JobStates, NoRow, Rows, RowStates, Accounted, Idle
<1>2. TypeOK /\ Accounted /\ [Next]_vars => (TypeOK /\ Accounted)'
  BY TypeStep, AccountedStep
<1>. QED BY <1>1, <1>2, PTL DEF Spec

(* In either regime, whatever attempts have crashed before: the containers that outlive the *)
(* rows of a project are of deployments that ran as its containers were taken down           *)
(* (project.gc).                                                                            *)
THEOREM CollectorFindsLeftovers == Spec => []GcFindsLeftovers
<1>1. Accounted => GcFindsLeftovers
  BY DEF Accounted, GcFindsLeftovers
<1>. QED BY <1>1, AccountedHolds, PTL

--------------------------------------------------------------------------------
(* What is published, and what is taken down for it. *)

(* An attempt owns its row until the verdict; once its container was started it stays up *)
(* while the project is alive.                                                         *)
Stands(w) ==
  LET rec == worker[w] IN
  rec.pc \in Building /\ project # "gone" =>
    /\ row[rec.site].rev = rec.rev
    /\ rec.pc \notin {"publish", "run"} /\ project = "alive" => container[rec.site] # "down"

Standing == \A w \in Workers : Stands(w)

LEMMA AtBuild ==
  ASSUME TypeOK, Carriage, Rowing, NEW w \in Workers, worker[w].pc \in Building, project # "gone"
  PROVE  /\ worker[w] \in Deployments /\ worker[w].site \in Sites
         /\ row[worker[w].site].status = "building"
         /\ \A v \in Workers \ {w} : worker[v].pc # "idle" => worker[v].site # worker[w].site
<1>1. worker[w].pc # "idle"
  BY DEF Building
<1>. QED BY <1>1, AtWork DEF Keeps

(* A step of a deployment leaves the revision of the other rows, and takes no container   *)
(* down but its own and that of an active site.                                        *)
LEMMA OwnSiteOnly ==
  ASSUME TypeOK, NEW w \in Workers, DeployStep(w), NEW x \in Sites, worker[w].site # x
  PROVE  /\ row'[x].rev = row[x].rev
         /\ container[x] # "down" /\ row[x].status # "active" => container'[x] # "down"
<1>1. row'[x].rev = row[x].rev
  <2>0. row[x] \in Rows
    BY DEF TypeOK
  <2>1. CASE Switch(w)
    BY <2>0, <2>1 DEF Switch, Rows
  <2>2. CASE ~Switch(w)
    BY <2>2 DEF DeployStep, InsertRow, Publish, Run, Health, RecheckProject, RecheckState, GoLive,
                TakePrevious, Verdict, Crash, Abort, TypeOK
  <2>. QED BY <2>1, <2>2
<1>2. ASSUME container[x] # "down", row[x].status # "active" PROVE container'[x] # "down"
  <2>1. CASE TakePrevious(w)
    <3>1. \A p \in Newest(Active) : p # x
      BY <1>2 DEF Newest, Active
    <3>. QED BY <1>2, <2>1, <3>1 DEF TakePrevious, Down
  <2>2. CASE ~TakePrevious(w)
    <3>1. \/ container' = container
          \/ container' = Emptied
          \/ container' = Down({worker[w].site})
          \/ container' = [container EXCEPT ![worker[w].site] = "down"]
          \/ container' = [Emptied EXCEPT ![worker[w].site] = "down"]
          \/ container' = [container EXCEPT ![worker[w].site] = Mounted]
      BY <2>2 DEF DeployStep, InsertRow, Publish, Run, Health, RecheckProject, RecheckState, GoLive,
                  Switch, Verdict, Crash, Abort
    <3>. QED BY <1>2, <3>1 DEF Emptied, Down, TypeOK
  <2>. QED BY <2>1, <2>2
<1>. QED BY <1>1, <1>2

LEMMA GoOnStands ==
  ASSUME TypeOK, Carriage, Rowing, NEW w \in Workers, Stands(w), worker[w].pc \in Building,
         project # "gone", NEW pc, Goto(w, pc), pc \notin {"publish", "run"}, UNCHANGED <<row, project>>,
         container'[worker[w].site] # "down"
  PROVE  Stands(w)'
<1>1. worker[w].pc # "idle"
  BY DEF Building
<1>2. worker'[w].pc = pc /\ worker'[w].site = worker[w].site /\ worker'[w].rev = worker[w].rev
  BY <1>1, GotoKeepsRecord
<1>. QED BY <1>2 DEF Stands

LEMMA OwnStands ==
  ASSUME TypeOK, Carriage, Rowing, NEW w \in Workers, Stands(w), DeployStep(w), project # "gone"
  PROVE  Stands(w)'
<1>0. worker[w].pc # "idle" /\ project' = project
  BY DEF DeployStep, InsertRow, Publish, Run, Health, RecheckProject, RecheckState, GoLive,
         TakePrevious, Switch, Verdict, Crash, At, Busy
<1>1. worker[w].site \in Sites /\ worker[w] \in Deployments
  BY <1>0, AtWork
<1>2. ASSUME Leave(w) \/ Goto(w, "good") \/ Goto(w, "bad") PROVE Stands(w)'
  <2>1. worker'[w].pc \notin Building
    BY <1>0, <1>2, LeaveFrees, GotoKeepsRecord DEF Building
  <2>. QED BY <2>1 DEF Stands
<1>3. CASE InsertRow(w)
  <2>1. PICK b : row' = [row EXCEPT ![worker[w].site] =
                           [status |-> "building", rev |-> worker[w].rev, born |-> b]]
    BY <1>3 DEF InsertRow
  <2>2. row'[worker[w].site].rev = worker[w].rev
    BY <1>1, <2>1 DEF TypeOK
  <2>3. /\ worker'[w].pc = "publish" /\ worker'[w].site = worker[w].site
        /\ worker'[w].rev = worker[w].rev
    BY <1>0, <1>3, GotoKeepsRecord DEF InsertRow
  <2>. QED BY <2>2, <2>3 DEF Stands
<1>4. CASE Publish(w)
  <2>1. CASE Goto(w, "run") /\ UNCHANGED row
    <3>1. worker[w].pc = "publish" /\ "publish" \in Building
      BY <1>4 DEF Publish, At, Building
    <3>2. row[worker[w].site].rev = worker[w].rev
      BY <3>1 DEF Stands
    <3>3. /\ worker'[w].pc = "run" /\ worker'[w].site = worker[w].site
          /\ worker'[w].rev = worker[w].rev
      BY <1>0, <2>1, GotoKeepsRecord
    <3>. QED BY <2>1, <3>2, <3>3 DEF Stands
  <2>. QED BY <1>2, <1>4, <2>1 DEF Publish, Abort
<1>5. CASE Run(w)
  <2>1. CASE /\ Goto(w, "health") /\ UNCHANGED row
             /\ container' = [container EXCEPT ![worker[w].site] = Mounted]
    <3>1. Mounted # "down"
      BY SiteAssumption DEF Mounted, TypeOK, Sites
    <3>2. container'[worker[w].site] # "down"
      BY <1>1, <2>1, <3>1 DEF TypeOK
    <3>3. worker[w].pc \in Building
      BY <1>5 DEF Run, At, Building
    <3>. QED BY <1>0, <2>1, <3>2, <3>3, GoOnStands
  <2>. QED BY <1>2, <1>5, <2>1 DEF Run, Abort
<1>6. ASSUME worker[w].pc \in Building \ {"publish", "run"}, UNCHANGED <<row, container>>,
             \E pc \in {"recheck", "previous", "restate", "live", "switch"} : Goto(w, pc)
      PROVE  Stands(w)'
  <2>1. CASE project = "alive"
    <3>1. container[worker[w].site] # "down"
      BY <1>6, <2>1 DEF Stands
    <3>. QED BY <1>0, <1>6, <3>1, GoOnStands
  <2>2. CASE project # "alive"
    <3>1. row[worker[w].site].rev = worker[w].rev
      BY <1>6 DEF Stands
    <3>2. worker'[w].site = worker[w].site /\ worker'[w].rev = worker[w].rev
      BY <1>0, <1>6, GotoKeepsRecord
    <3>. QED BY <1>0, <1>6, <2>2, <3>1, <3>2 DEF Stands
  <2>. QED BY <2>1, <2>2
<1>7. CASE Health(w) \/ RecheckProject(w) \/ RecheckState(w)
  <2>1. worker[w].pc \in Building \ {"publish", "run"}
    BY <1>7 DEF Health, RecheckProject, RecheckState, At, Building
  <2>2. \/ Leave(w) \/ Goto(w, "good") \/ Goto(w, "bad")
        \/ /\ UNCHANGED <<row, container>>
           /\ \E pc \in {"recheck", "previous", "restate", "live", "switch"} : Goto(w, pc)
    BY <1>7 DEF Health, RecheckProject, RecheckState, Abort
  <2>. QED BY <1>2, <1>6, <2>1, <2>2
<1>8. CASE TakePrevious(w)
  <2>1. worker[w].pc \in Building \ {"publish", "run"}
    BY <1>8 DEF TakePrevious, At, Building
  <2>2. CASE Goto(w, "switch") /\ UNCHANGED container
    BY <1>6, <1>8, <2>1, <2>2 DEF TakePrevious
  <2>3. ASSUME NEW p \in Newest(Active), container' = Down({p}),
               worker' = [worker EXCEPT ![w] = [@ EXCEPT !.pc = "switch", !.prev = p]]
        PROVE  Stands(w)'
    <3>1. worker'[w] = [worker[w] EXCEPT !.pc = "switch", !.prev = p]
      BY <2>3 DEF TypeOK
    <3>2. worker'[w].site = worker[w].site /\ worker'[w].rev = worker[w].rev
      BY <1>1, <3>1 DEF Deployments
    <3>3. p # worker[w].site
      BY <2>1, AtBuild DEF Newest, Active
    <3>4. container'[worker[w].site] = container[worker[w].site]
      BY <1>1, <2>3, <3>3 DEF Down
    <3>5. row' = row
      BY <1>8 DEF TakePrevious
    <3>. QED BY <1>0, <2>1, <3>2, <3>4, <3>5 DEF Stands
  <2>. QED BY <1>8, <2>2, <2>3 DEF TakePrevious
<1>9. CASE GoLive(w) \/ Switch(w) \/ Verdict(w) \/ Crash(w)
  BY <1>2, <1>9 DEF GoLive, Switch, Verdict, Crash
<1>. QED BY <1>3, <1>4, <1>5, <1>7, <1>8, <1>9 DEF DeployStep

(* A worker whose record a step leaves alone keeps its row and its container.            *)
LEMMA OtherStands ==
  ASSUME TypeOK, Carriage, Rowing, NEW v \in Workers, Stands(v), worker'[v] = worker[v],
         project' \in {project, "deleted"} \/ project' = "gone", project # "gone",
         \A x \in Sites : row[x].status = "building" /\ worker[v].site = x =>
            /\ row'[x].rev = row[x].rev
            /\ project' = "alive" /\ container[x] # "down" => container'[x] # "down"
  PROVE  Stands(v)'
<1>1. CASE worker[v].pc \in Building
  BY <1>1, AtBuild DEF Stands
<1>2. CASE worker[v].pc \notin Building
  BY <1>2 DEF Stands
<1>. QED BY <1>1, <1>2

LEMMA StandingStep == TypeOK /\ Carriage /\ Rowing /\ Standing /\ [Next]_vars => Standing'
<1> SUFFICES ASSUME TypeOK, Carriage, Rowing, Standing, [Next]_vars PROVE Standing'
  OBVIOUS
<1>1. CASE project = "gone"
  <2>1. project' = "gone"
    BY <1>1 DEF Next, vars, Start, LoadDeploy, GiveUp, LoadRollback, DeployStep, InsertRow, Publish,
       Run, Health, RecheckProject, RecheckState, GoLive, TakePrevious, Switch, Verdict, Crash,
       JobStep, FailJob, Request, Rebuilt, Redispatch, StartRollback, Carriage, Collected,
       Gc, Delete, GcCancel, GcTeardown, GcVolume, GcDelete, GcCrash, Sweep
  <2>. QED BY <2>1 DEF Standing, Stands
<1>2. CASE project # "gone"
  <2>1. ASSUME NEW w \in Workers, DeployStep(w) PROVE Standing'
    <3>1. Stands(w)'
      BY <1>2, <2>1, OwnStands DEF Standing
    <3>2. ASSUME NEW v \in Workers \ {w} PROVE Stands(v)'
      <4>1. CASE worker[v].pc \in Building
        <5>1. worker[w].pc # "idle" /\ UNCHANGED project
          BY <2>1 DEF DeployStep, InsertRow, Publish, Run, Health, RecheckProject, RecheckState, GoLive,
                      TakePrevious, Switch, Verdict, Crash, At, Busy
        <5>2. worker'[v] = worker[v]
          BY <2>1, StepPasses DEF Passes, Leave, TypeOK
        <5>3. worker[v].site \in Sites /\ worker[w].site # worker[v].site
          BY <1>2, <4>1, <5>1, AtBuild
        <5>. QED BY <1>2, <2>1, <5>1, <5>2, <5>3, OwnSiteOnly, OtherStands DEF Standing
      <4>2. CASE worker[v].pc \notin Building
        <5>1. worker'[v] = worker[v]
          BY <2>1, StepPasses DEF Passes, Leave, TypeOK
        <5>. QED BY <4>2, <5>1 DEF Stands
      <4>. QED BY <4>1, <4>2
    <3>. QED BY <3>1, <3>2 DEF Standing
  <2>2. ASSUME NEW w \in Workers, Start(w) PROVE Standing'
    <3>1. UNCHANGED <<row, container, project>>
      BY <2>2 DEF Start, LoadDeploy, GiveUp, LoadRollback
    <3>2. ASSUME NEW v \in Workers PROVE worker'[v] = worker[v] \/ worker'[v].pc = "row"
      BY <2>2 DEF Start, LoadDeploy, GiveUp, LoadRollback, Begin, TypeOK
    <3>. QED BY <3>1, <3>2 DEF Standing, Stands, Building
  <2>3. CASE JobStep
    <3>1. UNCHANGED <<row, container, project, worker>>
      BY <2>3 DEF JobStep, FailJob, Request, Rebuilt, Redispatch, StartRollback
    <3>. QED BY <3>1 DEF Standing, Stands
  <2>4. CASE Gc
    <3>1. UNCHANGED worker /\ project' \in {project, "deleted", "gone"}
      BY <2>4 DEF Gc, Delete, GcCancel, GcTeardown, GcVolume, GcDelete, GcCrash
    <3>2. CASE project' = "gone"
      BY <3>2 DEF Standing, Stands
    <3>3. CASE project' # "gone"
      <4>1. row' = row
        BY <2>4, <3>3 DEF Gc, Delete, GcCancel, GcTeardown, GcVolume, GcDelete, GcCrash
      <4>2. project' = "alive" => container' = container
        BY <2>4 DEF Gc, Delete, GcCancel, GcTeardown, GcVolume, GcDelete, GcCrash, Carriage, Collected
      <4>. QED BY <1>2, <3>1, <3>3, <4>1, <4>2, OtherStands DEF Standing
    <3>. QED BY <3>2, <3>3
  <2>5. CASE Sweep
    <3>1. \A x \in Sites : row'[x].rev = row[x].rev
      <4>1. \A x \in Sites : row[x] \in Rows
        BY DEF TypeOK
      <4>. QED BY <2>5, <4>1 DEF Sweep, Rows
    <3>2. \A x \in Sites : row[x].status = "building" => container'[x] = container[x]
      BY <2>5 DEF Sweep, Down, Active
    <3>. QED BY <1>2, <2>5, <3>1, <3>2, OtherStands DEF Standing, Sweep
  <2>6. CASE UNCHANGED vars
    BY <2>6 DEF vars, Standing, Stands
  <2>. QED BY <2>1, <2>2, <2>3, <2>4, <2>5, <2>6 DEF Next
<1>. QED BY <1>1, <1>2

LEMMA StandingHolds == ASSUME ~Overlap PROVE Spec => [](TypeOK /\ Carriage /\ Rowing /\ Standing)
<1>1. Init => Standing
  BY DEF Init, Standing, Stands, Building, Idle
<1>2. TypeOK /\ Carriage /\ Rowing /\ Standing /\ [Next]_vars => Standing'
  BY StandingStep
<1>. QED BY <1>1, <1>2, InvariantHolds, TypeCorrect, PTL DEF Spec

LEMMA CurrentStep ==
  ASSUME TypeOK, Carriage, Rowing, Standing, [Next]_vars, current' # current, current' # None
  PROVE  \E s \in Sites :
           /\ row[s].status = "building" /\ row'[s].status = "active"
           /\ row'[s].rev = current'
           /\ container'[s] # "down" \/ project = "deleted"
<1>1. PICK w \in Workers : (GoLive(w) /\ Applies(worker[w].job)) \/ (Switch(w) /\ project # "gone")
  BY DEF Next, vars, Start, LoadDeploy, GiveUp, LoadRollback, DeployStep, InsertRow, Publish,
     Run, Health, RecheckProject, RecheckState, GoLive, TakePrevious, Switch, Verdict, Crash,
     JobStep, FailJob, Request, Rebuilt, Redispatch, StartRollback,
     Gc, Delete, GcCancel, GcTeardown, GcVolume, GcDelete, GcCrash, Sweep
<1>2. PICK s : s = worker[w].site
  OBVIOUS
<1>3. /\ worker[w].pc \in Building \ {"publish", "run"} /\ project # "gone"
      /\ container' = container /\ current' = Published(w)
  BY <1>1 DEF GoLive, Switch, At, Building, Applies
<1>4. s \in Sites /\ row[s].status = "building" /\ row[s].rev = worker[w].rev
  BY <1>2, <1>3, AtBuild DEF Standing, Stands
<1>5. container[s] # "down" \/ project = "deleted"
  BY <1>2, <1>3 DEF Standing, Stands, TypeOK
<1>6. current' = worker[w].rev
  BY <1>3 DEF Published
<1>7. row'[s].status = "active" /\ row'[s].rev = row[s].rev
  <2>1. row[s] \in Rows
    BY <1>4 DEF TypeOK
  <2>2. row'[s] = [row[s] EXCEPT !.status = "active"]
    <3>1. CASE GoLive(w) /\ Applies(worker[w].job)
      <4>1. row' = [row EXCEPT ![s].status = "active"]
        BY <1>2, <3>1 DEF GoLive
      <4>. QED BY <1>4, <4>1 DEF TypeOK
    <3>2. CASE Switch(w) /\ project # "gone"
      <4>1. worker[w].pc = "switch" /\ Keeps(w)
        BY <3>2 DEF Switch, At, Rowing
      <4>2. worker[w].prev # s
        BY <1>4, <3>2, <4>1, SiteAssumption DEF Keeps, Sites
      <4>. QED BY <1>2, <1>4, <3>2, <4>2 DEF Switch
    <3>. QED BY <1>1, <3>1, <3>2
  <2>. QED BY <2>1, <2>2 DEF Rows
<1>. QED BY <1>3, <1>4, <1>5, <1>6, <1>7

(* The current revision of a project moves only to that of an attempt that becomes active   *)
(* in the same step and whose container is up, for any number of workers whose attempts      *)
(* interleave (_deploy, redeploy_revision).                                                 *)
THEOREM CurrentMovesOnSuccess == ASSUME ~Overlap PROVE Spec => CurrentIsPublished
<1>1. TypeOK /\ Carriage /\ Rowing /\ Standing /\ [Next]_vars =>
        (current' # current /\ current' # None
           => \E s \in Sites :
                /\ row[s].status = "building" /\ row'[s].status = "active"
                /\ row'[s].rev = current'
                /\ container'[s] # "down" \/ project = "deleted")
  BY CurrentStep
<1>. QED BY <1>1, StandingHolds, PTL DEF Spec, CurrentIsPublished

LEMMA DownStep ==
  ASSUME TypeOK, Carriage, Rowing, Standing, [Next]_vars, NEW s \in Sites,
         row[s].status = "active", container[s] # "down", container'[s] = "down",
         worker' # worker, project # "deleted"
  PROVE  \E w \in Workers : /\ worker'[w].pc = "switch" /\ worker'[w].prev = s
                            /\ container'[worker'[w].site] # "down"
<1>1. project = "alive"
  BY DEF TypeOK, Carriage, Collected
<1>2. PICK w \in Workers : DeployStep(w)
  BY DEF Next, vars, Start, LoadDeploy, GiveUp, LoadRollback, JobStep, FailJob, Request, Rebuilt,
     Redispatch, StartRollback, Gc, Delete, GcCancel, GcTeardown, GcVolume, GcDelete, GcCrash, Sweep
<1>3. CASE TakePrevious(w)
  <2>1. worker[w].pc \in Building \ {"publish", "run"}
    BY <1>3 DEF TakePrevious, At, Building
  <2>2. /\ worker[w] \in Deployments /\ worker[w].site \in Sites
        /\ row[worker[w].site].status = "building" /\ container[worker[w].site] # "down"
    BY <1>1, <2>1, AtBuild DEF Standing, Stands
  <2>3. PICK p \in Newest(Active) :
          /\ worker' = [worker EXCEPT ![w] = [@ EXCEPT !.pc = "switch", !.prev = p]]
          /\ container' = Down({p})
    BY <1>3 DEF TakePrevious
  <2>4. p = s
    BY <2>3 DEF Down
  <2>5. worker'[w] = [worker[w] EXCEPT !.pc = "switch", !.prev = s]
    BY <2>3, <2>4 DEF TypeOK
  <2>6. worker'[w].pc = "switch" /\ worker'[w].prev = s /\ worker'[w].site = worker[w].site
    BY <2>2, <2>5 DEF Deployments
  <2>7. container'[worker[w].site] # "down"
    BY <2>2, <2>3, <2>4 DEF Down
  <2>. QED BY <2>6, <2>7
<1>4. CASE ~TakePrevious(w)
  <2>1. \/ container' = container
        \/ container' = Emptied
        \/ container' = [container EXCEPT ![worker[w].site] = Mounted]
        \/ /\ worker[w].pc \in {"publish", "run", "health", "recheck", "restate"}
           /\ \/ container' = Down({worker[w].site})
              \/ container' = [container EXCEPT ![worker[w].site] = "down"]
              \/ container' = [Emptied EXCEPT ![worker[w].site] = "down"]
    BY <1>2, <1>4 DEF DeployStep, InsertRow, Publish, Run, Health, RecheckProject, RecheckState, GoLive,
       Switch, Verdict, Crash, Abort, At
  <2>2. Mounted # "down"
    BY SiteAssumption DEF Mounted, TypeOK, Sites
  <2>3. worker[w].pc \in Building /\ Falls(w)
    BY <2>1, <2>2, Falling DEF Emptied, TypeOK, Building
  <2>. QED BY <1>1, <2>3, AtBuild DEF Falls
<1>. QED BY <1>3, <1>4

(* Whatever other attempts, crashes and failures interleave, no deployment takes an active   *)
(* site of a living project down but a redeploy whose own container is up (_deploy,            *)
(* redeploy_revision).                                                                      *)
THEOREM PreviousSiteStands == ASSUME ~Overlap PROVE Spec => PreviousStands
<1>1. TypeOK /\ Carriage /\ Rowing /\ Standing /\ [Next]_vars =>
        \A s \in Sites : row[s].status = "active" /\ container[s] # "down" /\ container'[s] = "down"
          => \/ worker' = worker
             \/ project = "deleted"
             \/ \E w \in Workers : /\ worker'[w].pc = "switch" /\ worker'[w].prev = s
                                   /\ container'[worker'[w].site] # "down"
  BY DownStep
<1>. QED BY <1>1, StandingHolds, PTL DEF Spec, PreviousStands
================================================================================
