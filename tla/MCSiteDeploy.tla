------------------------------ MODULE MCSiteDeploy ------------------------------
(* Small instances of SiteDeploy for TLC: model values and their symmetries.       *)
EXTENDS SiteDeploy, TLC

CONSTANTS j1, j2, b1, a1, a2, w1, w2, none

MCJobs == {j1, j2}
MCAttempts == {a1, a2}
MCWorkers == {w1, w2}

(* What the steps and the properties of SiteDeploy.cfg still read: the base and the  *)
(* messages of jobs that are not terminal, the directory while a worker is about to  *)
(* mount it, and which files a container has while its health is asked for.           *)
Matters ==
  LET Open == {j \in AllJobs : job[j] \notin {"new", "LIVE", "FAILED"}} IN
  <<job, [j \in AllJobs |-> IF j \in Open THEN base[j] ELSE None], row, current,
    [s \in Sites |-> IF container[s] \in Sites /\ ~\E w \in Workers : At(w, "health") /\ worker[w].site = s
                       THEN "empty" ELSE container[s]],
    IF \E w \in Workers : At(w, "run") THEN dir ELSE None,
    project, queue \cap Open, worker, gc, hist>>

Symmetry == Permutations(MCJobs) \cup Permutations(MCAttempts) \cup Permutations(MCWorkers)
================================================================================
