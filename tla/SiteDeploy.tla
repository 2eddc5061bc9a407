------------------------------- MODULE SiteDeploy -------------------------------
(******************************************************************************)
(* The sites of one project: the deployment rows, the nginx containers, the   *)
(* host directory all containers of the project mount, and those who change   *)
(* them: task_deploy of a generation or an edit, the rollback task, the        *)
(* automatic rollback of a failed edit, the project GC and the grace sweeper. *)
(*                                                                            *)
(* Routing is by path, as in production: a job keeps one site id for all its  *)
(* attempts, a redeployed revision gets a fresh one, and the files of a site  *)
(* are built for its id. A revision is named by the job that made it; the      *)
(* revisions a job makes in its fix turns are one. JobPipeline models the job  *)
(* states before DEPLOYING and the fix loop.                                   *)
(******************************************************************************)
EXTENDS Naturals, FiniteSets

CONSTANTS
  Jobs,       \* generation and edit jobs of the project
  Rollbacks,  \* rollback jobs (POST .../rollback)
  Attempts,   \* fresh site ids of redeployed revisions
  Workers,    \* worker processes of the build queue
  None,       \* NULL
  Overlap     \* TRUE: a job's deploy may be delivered while it runs

ASSUME SiteAssumption ==
  /\ Jobs \cap Attempts = {} /\ Jobs \cap Rollbacks = {}
  /\ IsFiniteSet(Jobs) /\ IsFiniteSet(Attempts)
  /\ None \notin Jobs \cup Attempts \cup Rollbacks
  /\ "down" \notin Jobs \cup Attempts /\ "empty" \notin Jobs \cup Attempts
  /\ Overlap \in BOOLEAN

VARIABLES
  job,        \* generation_jobs.state; "new": there is no row
  base,       \* base revision of an edit, target revision of a rollback
  row,        \* site_deployments by site id (subdomain)
  current,    \* projects.current_revision_id
  container,  \* what a site's container serves: the files of a site, none, or it is down
  dir,        \* the site whose files lie in the shared directory of the project
  project,    \* alive, soft-deleted, or its rows are gone
  queue,      \* jobs with a deploy or rollback message in the broker
  worker,     \* the deployments that run
  gc,         \* how far project.gc has come
  hist        \* history: sites being deployed when the GC took the containers down

vars == <<job, base, row, current, container, dir, project, queue, worker, gc, hist>>

Sites == Jobs \cup Attempts
AllJobs == Jobs \cup Rollbacks
JobStates == {"new", "CREATED", "DEPLOYING", "FIXING", "LIVE", "FAILED"}
RowStates == {"none", "building", "active", "failed", "superseded"}
Rows == [status : RowStates, rev : Jobs \cup {None}, born : Nat]
NoRow == [status |-> "none", rev |-> None, born |-> 0]

Idle == [pc |-> "idle", kind |-> "deploy", job |-> None, site |-> None, rev |-> None,
         kept |-> FALSE, prev |-> None]
Deployments ==
  [pc : {"row", "publish", "run", "health", "recheck", "restate", "live", "previous", "switch",
         "good", "bad"},
   kind : {"deploy", "rollback", "restore"}, job : AllJobs, site : Sites,
   rev : Jobs \cup {None}, kept : BOOLEAN, prev : Sites \cup {None}]
Goto(w, pc) == worker' = [worker EXCEPT ![w].pc = pc]
Leave(w) == worker' = [worker EXCEPT ![w] = Idle]
Busy == {w \in Workers : worker[w].pc # "idle"}
At(w, pc) == worker[w].pc = pc
Deploys(w) == worker[w].kind = "deploy"

(* Mutant of Applies: no barrier. *)
AppliesAlways(j) == project # "gone" /\ job[j] # "new"

(* The barrier of transition(); the row of the job goes with the project. *)
Applies(j) == project # "gone" /\ job[j] \notin {"LIVE", "FAILED"}

(* Mutant of Active: whatever is not failed or superseded. *)
Unretired == {s \in Sites : row[s].status \in {"active", "building"}}

Active == {s \in Sites : row[s].status = "active"}
Newest(S) == {s \in S : \A t \in S : row[t].born <= row[s].born}

(* docker rm -f *)
Down(S) == [s \in Sites |-> IF s \in S THEN "down" ELSE container[s]]
(* docker run makes the directory it is to mount if there is none. *)
Mounted == IF dir = None THEN "empty" ELSE dir
(* The directory is removed under the containers that mount it. *)
Emptied == [s \in Sites |-> IF container[s] = "down" THEN "down" ELSE "empty"]

--------------------------------------------------------------------------------
(* Jobs on their way to a deploy. *)

(* A generation while nothing is published and no other is on its way, or an edit of *)
(* the current revision; the phases before DEPLOYING are in JobPipeline.             *)
Request(j) ==
  /\ job[j] = "new" /\ project = "alive"
  /\ current # None \/ \A k \in Jobs : job[k] \in {"new", "FAILED"}
  /\ job' = [job EXCEPT ![j] = "DEPLOYING"]
  /\ base' = [base EXCEPT ![j] = current]
  /\ queue' = queue \cup {j}
  /\ UNCHANGED <<row, current, container, dir, project, worker, gc, hist>>

(* A patch of the fix loop was built. *)
Rebuilt(j) ==
  /\ job[j] = "FIXING" /\ project = "alive"
  /\ \A w \in Workers : worker[w].job # j
  /\ job' = [job EXCEPT ![j] = "DEPLOYING"]
  /\ queue' = queue \cup {j}
  /\ UNCHANGED <<base, row, current, container, dir, project, worker, gc, hist>>

(* start_rollback: any revision of the project but the current one (is_good is TRUE    *)
(* from the creation of a revision). The message may be lost after the commit.         *)
StartRollback(b) ==
  /\ job[b] = "new" /\ project = "alive"
  /\ \E r \in Jobs :
       /\ row[r].status # "none" /\ r # current
       /\ base' = [base EXCEPT ![b] = r]
  /\ job' = [job EXCEPT ![b] = "CREATED"]
  /\ queue' \in {queue, queue \cup {b}}
  /\ UNCHANGED <<row, current, container, dir, project, worker, gc, hist>>

Carried(j) == j \in queue \/ \E w \in Workers : worker[w].job = j

(* The reconciler sends the deploy of a stuck job again. *)
Redispatch(j) ==
  /\ job[j] = "DEPLOYING" /\ project # "gone"
  /\ Overlap \/ ~Carried(j)
  /\ queue' = queue \cup {j}
  /\ UNCHANGED <<job, base, row, current, container, dir, project, worker, gc, hist>>

(* The reconciler, a fix guard or the error path of a task fails the job. *)
FailJob(j) ==
  /\ Applies(j) /\ job[j] # "new"
  /\ job' = [job EXCEPT ![j] = "FAILED"]
  /\ UNCHANGED <<base, row, current, container, dir, project, queue, worker, gc, hist>>

--------------------------------------------------------------------------------
(* One deployment: row, publish, run, health, verdict. *)

(* The session reads the project here and keeps it: if its current revision is the one to  *)
(* be deployed, the later assignment writes nothing.                                       *)
Begin(w, kind, j, s, r) ==
  worker' = [worker EXCEPT ![w] = [pc |-> "row", kind |-> kind, job |-> j, site |-> s,
                                   rev |-> r, kept |-> current = r, prev |-> None]]
Published(w) == IF worker[w].kept THEN current ELSE worker[w].rev

Fresh == {s \in Attempts : row[s].status = "none" /\ \A w \in Workers : worker[w].site # s}

(* _deploy up to its guards. *)
LoadDeploy(w, j) ==
  /\ At(w, "idle") /\ j \in queue
  /\ queue' = queue \ {j}
  /\ \/ job[j] # "DEPLOYING" /\ UNCHANGED <<job, worker>>
     \/ /\ job[j] = "DEPLOYING" /\ project # "alive"
        /\ job' = [job EXCEPT ![j] = "FAILED"]
        /\ UNCHANGED worker
     \/ /\ job[j] = "DEPLOYING" /\ project = "alive"
        /\ Begin(w, "deploy", j, j, j)
        /\ UNCHANGED job
  /\ UNCHANGED <<base, row, current, container, dir, project, gc, hist>>

(* _run_rollback_job: DEPLOYING, then redeploy_revision with a fresh site id. Nobody     *)
(* asks whether the project is deleted. The preparation of the files may fail.           *)
LoadRollback(w, b) ==
  /\ At(w, "idle") /\ b \in queue
  /\ queue' = queue \ {b}
  /\ \/ ~Applies(b) /\ UNCHANGED <<job, worker>>
     \/ /\ Applies(b)
        /\ \/ /\ job' = [job EXCEPT ![b] = "DEPLOYING"]
              /\ \E s \in Fresh : Begin(w, "rollback", b, s, base[b])
           \/ job' = [job EXCEPT ![b] = "FAILED"] /\ UNCHANGED worker
  /\ UNCHANGED <<base, row, current, container, dir, project, gc, hist>>

(* _finalize_fix_failure of an edit, _auto_rollback_edit: the base revision is deployed   *)
(* again if it is not the current one any more.                                           *)
GiveUp(w, j) ==
  /\ At(w, "idle") /\ job[j] = "FIXING" /\ project # "gone"
  /\ \A v \in Workers : worker[v].job # j
  /\ base[j] # None
  /\ \/ /\ current = base[j]
        /\ job' = [job EXCEPT ![j] = "FAILED"]
        /\ UNCHANGED worker
     \/ /\ current # base[j]
        /\ \E s \in Fresh : Begin(w, "restore", j, s, base[j])
        /\ UNCHANGED job
  /\ UNCHANGED <<base, row, current, container, dir, project, queue, gc, hist>>

(* The row of this attempt, building: the one of the site id if there is one.            *)
InsertRow(w) ==
  LET s == worker[w].site IN
  /\ At(w, "row")
  /\ \/ /\ project = "gone" /\ Leave(w) /\ UNCHANGED row
     \/ /\ project # "gone"
        /\ row' = [row EXCEPT ![s] =
             [status |-> "building", rev |-> worker[w].rev,
              born |-> IF @.status = "none"
                         THEN Cardinality({t \in Sites : row[t].status # "none"}) ELSE @.born]]
        /\ Goto(w, "publish")
  /\ UNCHANGED <<job, base, current, container, dir, project, queue, gc, hist>>

(* A failure that the code foresees: the container of this attempt goes down, then the   *)
(* row is failed. A deploy commits the row with the job's move to FIXING or FAILED, and  *)
(* the refused CAS rolls both back; a redeploy commits the row and reports. left is what  *)
(* the failed operation made of the containers.                                           *)
Abort(w, Outcomes, left) ==
  LET s == worker[w].site
      j == worker[w].job
      Failing == row' = [row EXCEPT ![s].status = "failed"]
  IN
  /\ container' = [left EXCEPT ![s] = "down"]
  /\ IF Deploys(w)
       THEN /\ \/ Applies(j) /\ Failing
                  /\ \E to \in Outcomes : job' = [job EXCEPT ![j] = to]
               \/ ~Applies(j) /\ UNCHANGED <<row, job>>
            /\ Leave(w)
       ELSE /\ UNCHANGED job
            /\ \/ project # "gone" /\ Failing /\ Goto(w, "bad")
               \/ project = "gone" /\ Leave(w) /\ UNCHANGED row

(* publish_dist removes the directory of the project and copies the new files: a copy    *)
(* that fails leaves the containers that mount it with nothing to serve. A directory that *)
(* cannot be removed (ignore_errors) is kept, and the copy fails on it.                   *)
Publish(w) ==
  /\ At(w, "publish")
  /\ \/ /\ dir' = worker[w].site
        /\ container' = Emptied
        /\ Goto(w, "run")
        /\ UNCHANGED <<job, row>>
     \/ dir' = None /\ Abort(w, {"FIXING"}, Emptied)
     \/ UNCHANGED dir /\ Abort(w, {"FIXING"}, container)
  /\ UNCHANGED <<base, current, project, queue, gc, hist>>

(* Mutant of Run: cleanup-before-run finds the containers by project. *)
RunByProject(w) ==
  /\ At(w, "run")
  /\ container' = [Down(Active) EXCEPT ![worker[w].site] = Mounted]
  /\ Goto(w, "health")
  /\ UNCHANGED <<job, base, row, current, dir, project, queue, gc, hist>>

(* run_nginx_container: docker rm -f, then docker run with the directory mounted. Of its  *)
(* failures those of the host (DockerInfraUnavailable) fail the job.                       *)
Run(w) ==
  LET s == worker[w].site IN
  /\ At(w, "run")
  /\ \/ /\ container' = [container EXCEPT ![s] = Mounted]
        /\ Goto(w, "health")
        /\ UNCHANGED <<job, row>>
     \/ Abort(w, {"FIXING", "FAILED"}, container)
  /\ UNCHANGED <<base, current, dir, project, queue, gc, hist>>

(* The commit of container_id, which raises when the GC has taken the row, and           *)
(* wait_until_live: 200 needs a container with files, of whichever site they are.        *)
Health(w) ==
  LET s == worker[w].site IN
  /\ At(w, "health")
  /\ \/ /\ container[s] \in Sites
        /\ Goto(w, IF Deploys(w) THEN "recheck" ELSE "previous")
        /\ UNCHANGED <<job, row, container>>
     \/ Abort(w, {"FIXING"}, container)
     \/ project = "gone" /\ Leave(w) /\ UNCHANGED <<job, row, container>>
  /\ UNCHANGED <<base, current, dir, project, queue, gc, hist>>

(* The first re-check of _deploy: deleted_at, whose refresh raises when the row is gone. *)
RecheckProject(w) ==
  LET s == worker[w].site
      j == worker[w].job
  IN
  /\ At(w, "recheck")
  /\ \/ project = "gone" /\ Leave(w) /\ UNCHANGED <<job, row, container>>
     \/ /\ project = "deleted"
        /\ container' = Down({s}) /\ Leave(w)
        /\ \/ /\ Applies(j)
              /\ row' = [row EXCEPT ![s].status = "failed"]
              /\ job' = [job EXCEPT ![j] = "FAILED"]
           \/ ~Applies(j) /\ UNCHANGED <<row, job>>
     \/ project = "alive" /\ Goto(w, "restate") /\ UNCHANGED <<job, row, container>>
  /\ UNCHANGED <<base, current, dir, project, queue, gc, hist>>

(* The second one: the state of the job. *)
RecheckState(w) ==
  LET s == worker[w].site
      Ours == job[worker[w].job] = "DEPLOYING"
  IN
  /\ At(w, "restate")
  /\ \/ project = "gone" /\ Leave(w) /\ UNCHANGED <<row, container>>
     \/ /\ project # "gone" /\ ~Ours
        /\ container' = Down({s})
        /\ row' = [row EXCEPT ![s].status = "failed"]
        /\ Leave(w)
     \/ project # "gone" /\ Ours /\ Goto(w, "live") /\ UNCHANGED <<row, container>>
  /\ UNCHANGED <<job, base, current, dir, project, queue, gc, hist>>

(* The row, current_revision_id and LIVE in one transaction, under the barrier.           *)
GoLive(w) ==
  LET j == worker[w].job IN
  /\ At(w, "live")
  /\ \/ /\ Applies(j)
        /\ row' = [row EXCEPT ![worker[w].site].status = "active"]
        /\ current' = Published(w)
        /\ job' = [job EXCEPT ![j] = "LIVE"]
     \/ ~Applies(j) /\ UNCHANGED <<row, current, job>>
  /\ Leave(w)
  /\ UNCHANGED <<base, container, dir, project, queue, gc, hist>>

(* redeploy_revision finds the previous deployment and takes its container down, ...       *)
TakePrevious(w) ==
  /\ At(w, "previous")
  /\ \/ Active = {} /\ Goto(w, "switch") /\ UNCHANGED container
     \/ \E p \in Newest(Active) :
           /\ worker' = [worker EXCEPT ![w] = [@ EXCEPT !.pc = "switch", !.prev = p]]
           /\ container' = Down({p})
  /\ UNCHANGED <<job, base, row, current, dir, project, queue, gc, hist>>

(* ... and commits both rows and the current revision; no row is left to update when the   *)
(* project is gone.                                                                        *)
Switch(w) ==
  LET rec == worker[w] IN
  /\ At(w, "switch")
  /\ \/ project = "gone" /\ Leave(w) /\ UNCHANGED <<row, current>>
     \/ /\ project # "gone"
        /\ row' = [s \in Sites |->
             CASE s = rec.site -> [row[s] EXCEPT !.status = "active"]
               [] s = rec.prev -> [row[s] EXCEPT !.status = "superseded"]
               [] OTHER -> row[s]]
        /\ current' = Published(w)
        /\ Goto(w, "good")
  /\ UNCHANGED <<job, base, container, dir, project, queue, gc, hist>>

(* The rollback job is LIVE or FAILED; the edit whose base was restored is FAILED.         *)
Verdict(w) ==
  LET j == worker[w].job IN
  /\ worker[w].pc \in {"good", "bad"}
  /\ \/ /\ Applies(j)
        /\ job' = [job EXCEPT ![j] = IF worker[w].kind = "rollback" /\ At(w, "good")
                                       THEN "LIVE" ELSE "FAILED"]
     \/ ~Applies(j) /\ UNCHANGED job
  /\ Leave(w)
  /\ UNCHANGED <<base, row, current, container, dir, project, queue, gc, hist>>

(* The process dies and the message comes back (a restore belongs to the fix task, which    *)
(* starts over from FIXING), or an exception nobody foresees ends the task.                 *)
Crash(w) ==
  /\ w \in Busy
  /\ \/ queue' = IF worker[w].kind = "restore" THEN queue ELSE queue \cup {worker[w].job}
     \/ UNCHANGED queue
  /\ Leave(w)
  /\ UNCHANGED <<job, base, row, current, container, dir, project, gc, hist>>

--------------------------------------------------------------------------------
(* DELETE /projects/{id} and project.gc. *)

(* soft_delete_project. A message that is lost with the API, and sent by the next DELETE,   *)
(* is one that waits: nothing here is claimed to happen eventually.                        *)
Delete ==
  /\ project = "alive"
  /\ project' = "deleted"
  /\ gc' = "sent"
  /\ UNCHANGED <<job, base, row, current, container, dir, queue, worker, hist>>

(* Step 1: the jobs that are not FAILED, LIVE ones too; no barrier.                         *)
GcCancel ==
  /\ gc = "sent"
  /\ job' = [j \in AllJobs |-> IF job[j] = "new" THEN "new" ELSE "FAILED"]
  /\ gc' = "cancelled"
  /\ UNCHANGED <<base, row, current, container, dir, project, queue, worker, hist>>

(* Mutant of GcTeardown: the containers of active rows only. *)
GcTeardownActive ==
  /\ gc = "cancelled"
  /\ container' = Down(Active)
  /\ gc' = "torn"
  /\ hist' = {worker[w].site : w \in Busy}
  /\ UNCHANGED <<job, base, row, current, dir, project, queue, worker>>

(* Step 2: the containers of all rows, whatever their status. *)
GcTeardown ==
  /\ gc = "cancelled"
  /\ container' = Down({s \in Sites : row[s].status # "none"})
  /\ gc' = "torn"
  /\ hist' = {worker[w].site : w \in Busy}
  /\ UNCHANGED <<job, base, row, current, dir, project, queue, worker>>

(* Step 3: the directory. Step 4, the S3 objects, changes nothing modelled here.           *)
GcVolume ==
  /\ gc = "torn"
  /\ dir' = None
  /\ container' = Emptied
  /\ gc' = "cleared"
  /\ UNCHANGED <<job, base, row, current, project, queue, worker, hist>>

(* Step 5: the rows of the deployments, the revisions, the jobs and the project. *)
GcDelete ==
  /\ gc = "cleared"
  /\ job' = [j \in AllJobs |-> "new"]
  /\ base' = [j \in AllJobs |-> None]
  /\ row' = [s \in Sites |-> NoRow]
  /\ current' = None
  /\ project' = "gone"
  /\ gc' = "idle"
  /\ UNCHANGED <<container, dir, queue, worker, hist>>

(* The worker dies (acks_late: from the start again), or an exception ends the task, which   *)
(* is sent again by the next DELETE.                                                       *)
GcCrash ==
  /\ gc \notin {"idle", "sent"}
  /\ gc' = "sent"
  /\ hist' = {}
  /\ UNCHANGED <<job, base, row, current, container, dir, project, queue, worker>>

(* Mutant of Sweep: a container that is not removed is only logged. *)
SweepRowsOnly ==
  /\ Active # {}
  /\ row' = [s \in Sites |-> IF s \in Active THEN [row[s] EXCEPT !.status = "superseded"]
                             ELSE row[s]]
  /\ UNCHANGED <<job, base, current, container, dir, project, queue, worker, gc, hist>>

(* The grace sweeper takes all active sites of the user down and commits, unless it dies     *)
(* before the commit.                                                                      *)
Sweep ==
  /\ Active # {}
  /\ container' = Down(Active)
  /\ \/ row' = [s \in Sites |-> IF s \in Active THEN [row[s] EXCEPT !.status = "superseded"]
                                ELSE row[s]]
     \/ UNCHANGED row
  /\ UNCHANGED <<job, base, current, dir, project, queue, worker, gc, hist>>

--------------------------------------------------------------------------------
Init ==
  /\ job = [j \in AllJobs |-> "new"]
  /\ base = [j \in AllJobs |-> None]
  /\ row = [s \in Sites |-> NoRow]
  /\ current = None /\ dir = None
  /\ container = [s \in Sites |-> "down"]
  /\ project = "alive"
  /\ queue = {}
  /\ worker = [w \in Workers |-> Idle]
  /\ gc = "idle" /\ hist = {}

DeployStep(w) ==
  \/ InsertRow(w) \/ Publish(w) \/ Run(w) \/ Health(w)
  \/ RecheckProject(w) \/ RecheckState(w) \/ GoLive(w)
  \/ TakePrevious(w) \/ Switch(w) \/ Verdict(w) \/ Crash(w)
Start(w) ==
  \/ \E j \in Jobs : LoadDeploy(w, j) \/ GiveUp(w, j)
  \/ \E b \in Rollbacks : LoadRollback(w, b)
JobStep == \E j \in AllJobs :
  \/ FailJob(j)
  \/ j \in Jobs /\ (Request(j) \/ Rebuilt(j) \/ Redispatch(j))
  \/ j \in Rollbacks /\ StartRollback(j)
Gc == Delete \/ GcCancel \/ GcTeardown \/ GcVolume \/ GcDelete \/ GcCrash
Next == (\E w \in Workers : Start(w) \/ DeployStep(w)) \/ JobStep \/ Gc \/ Sweep

Spec == Init /\ [][Next]_vars

--------------------------------------------------------------------------------
(* Properties. *)

(* Every variable stays in its set.                                                       *)
TypeOK ==
  /\ job \in [AllJobs -> JobStates]
  /\ base \in [AllJobs -> Jobs \cup {None}]
  /\ row \in [Sites -> Rows]
  /\ current \in Jobs \cup {None} /\ dir \in Sites \cup {None}
  /\ container \in [Sites -> Sites \cup {"down", "empty"}]
  /\ project \in {"alive", "deleted", "gone"}
  /\ queue \subseteq AllJobs
  /\ worker \in [Workers -> Deployments \cup {Idle}]
  /\ gc \in {"idle", "sent", "cancelled", "torn", "cleared"}
  /\ hist \subseteq Sites

(* docs, deploy 5: a deployment that is failed or superseded has no container, through     *)
(* crashes at any step, other deployments, the sweeper and the GC.                         *)
FailedIsDown == \A s \in Sites : row[s].status \in {"failed", "superseded"} => container[s] = "down"

(* docs, deploy 5: the two state machines agree. A job is LIVE only with a deployment that   *)
(* is active (or was replaced), in FIXING after a deploy only with a failed one, and an      *)
(* active deployment belongs to a LIVE job unless the project is being deleted.             *)
StatesAgree ==
  \A j \in Jobs :
    /\ job[j] = "LIVE" => row[j].status \in {"active", "superseded"}
    /\ job[j] = "FIXING" => row[j].status = "failed"
    /\ row[j].status = "active" => job[j] = "LIVE" \/ project = "deleted"

(* rollback.py, _deploy: current_revision_id moves only on success: to the revision of a    *)
(* deployment that becomes active in the same step and whose container is up, although the   *)
(* health check, the re-checks and the commit are far apart.                                *)
CurrentIsPublished ==
  [][current' # current /\ current' # None
       => \E s \in Sites :
            /\ row[s].status = "building" /\ row'[s].status = "active"
            /\ row'[s].rev = current'
            /\ container'[s] # "down" \/ project = "deleted"]_vars

(* docs, deploy 7: a previous site is taken down only after the new one was found healthy.   *)
(* No deployment takes the container of an active one down (the sweeper and the GC do),        *)
(* but a redeploy whose own container is up.                                                 *)
PreviousStands ==
  [][\A s \in Sites : row[s].status = "active" /\ container[s] # "down" /\ container'[s] = "down"
       => \/ worker' = worker
          \/ project = "deleted"
          \/ \E w \in Workers : /\ worker'[w].pc = "switch" /\ worker'[w].prev = s
                                /\ container'[worker'[w].site] # "down"]_vars

(* project.gc: whatever crashed attempts have left behind, when the rows are gone the only    *)
(* containers that can be up are those of deployments that were running as the GC took the    *)
(* containers down.                                                                         *)
GcFindsLeftovers ==
  project = "gone" => \A s \in Sites : container[s] # "down" => s \in hist

Quiet == Busy = {} /\ queue = {}

(* tasks.py, _deploy: no container outlives the project (an orphan nginx would keep the       *)
(* address of a deleted site).                                                              *)
GoneMeansDown == project = "gone" /\ Quiet => \A s \in Sites : container[s] = "down"

(* docs, deploy 5: every step of a deploy may be repeated. When nothing runs a LIVE job still    *)
(* has the deployment it went LIVE with, active or replaced by a later one.                   *)
LiveKeepsDeployment ==
  Quiet /\ project = "alive"
    => \A j \in Jobs : job[j] = "LIVE" => row[j].status \in {"active", "superseded"}

(* docs, deploy 7: after a redeploy that failed the site goes on to serve the previous         *)
(* revision. Here: when every job has ended, the generation and edits as LIVE, one active site   *)
(* of the current revision, if the sweeper left any, serves its own files.                       *)
FailedRollbackKeepsSite ==
  LET Showing == {s \in Active : row[s].rev = current} IN
  /\ Quiet /\ project = "alive" /\ Showing # {}
  /\ \A j \in Jobs : job[j] \in {"new", "LIVE"}
  /\ \A b \in Rollbacks : job[b] \in {"new", "LIVE", "FAILED"}
  => \E s \in Showing : container[s] \in {s, "down"}
================================================================================
