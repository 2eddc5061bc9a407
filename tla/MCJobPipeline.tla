----------------------------- MODULE MCJobPipeline -----------------------------
(* Small instances of JobPipeline for TLC: model values and their symmetries.     *)
EXTENDS JobPipeline, TLC

CONSTANTS w1, w2, s1, s2, none

MCWorkers == {w1, w2}
MCSignatures == {s1, s2}

(* The history and the text of a failure reason follow the behaviour without        *)
(* steering it: a run whose properties do not read them identifies states up to      *)
(* hist and up to which reason is set.                                               *)
WithoutHistory ==
  <<[job EXCEPT !.reason = IF @ = "none" THEN "none" ELSE "some"],
    charges, queue, worker, api, lock, expired, deleted>>

Symmetry == Permutations(MCWorkers) \cup Permutations(MCSignatures)
================================================================================
