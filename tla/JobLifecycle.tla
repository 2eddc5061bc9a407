------------------------------ MODULE JobLifecycle ------------------------------
(******************************************************************************)
(* What a job promises to the client that watches it: the documented state    *)
(* machine of generation_jobs.state, the one charge at the start of the work, *)
(* and the bounded number of patches. There are no tasks, workers or clocks   *)
(* here: JobPipeline is the detailed specification that implements it.        *)
(******************************************************************************)
EXTENDS Integers

CONSTANT MaxFixAttempts  \* generation_jobs.max_fix_attempts

VARIABLES
  state,    \* generation_jobs.state
  charged,  \* the usage marker of the job exists
  patches   \* patches of Agent 4 applied

vars == <<state, charged, patches>>

(* A new job, a retried one (charged already), or a retried one with its answers.  *)
Init ==
  /\ state \in {"CREATED", "SPECCING"}
  /\ charged \in BOOLEAN
  /\ state = "SPECCING" => charged
  /\ patches = 0

Start == state = "CREATED" /\ state' = "INTERVIEWING" /\ charged' /\ UNCHANGED patches

StartEdit == state = "CREATED" /\ state' = "EDITING" /\ UNCHANGED <<charged, patches>>

(* The charge of an edit; it may come late, when the edit has failed already.      *)
ChargeEdit ==
  /\ state \in {"EDITING", "FAILED"} /\ ~charged
  /\ charged'
  /\ UNCHANGED <<state, patches>>

Forward(from, to) == state = from /\ state' = to /\ UNCHANGED <<charged, patches>>

Advance ==
  \/ Forward("INTERVIEWING", "AWAITING_CLARIFICATION")
  \/ Forward("AWAITING_CLARIFICATION", "SPECCING")
  \/ Forward("SPECCING", "BUILDING")
  \/ charged /\ Forward("EDITING", "BUILDING")
  \/ Forward("BUILDING", "DEPLOYING")
  \/ Forward("BUILDING", "FIXING")
  \/ Forward("DEPLOYING", "FIXING")
  \/ Forward("DEPLOYING", "LIVE")

Patch ==
  /\ state = "FIXING" /\ patches < MaxFixAttempts
  /\ state' = "BUILDING" /\ patches' = patches + 1
  /\ UNCHANGED charged

Fail == state \notin {"LIVE", "FAILED"} /\ state' = "FAILED" /\ UNCHANGED <<charged, patches>>

(* The project of a live site is deleted.                                          *)
Takedown == Forward("LIVE", "FAILED")

Next == Start \/ StartEdit \/ ChargeEdit \/ Advance \/ Patch \/ Fail \/ Takedown

Spec == Init /\ [][Next]_vars
================================================================================
