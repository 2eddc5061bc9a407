--------------------------- MODULE MCClarification ----------------------------
(* Small instances of Clarification for TLC. Two requests are a race, two jobs a    *)
(* batch of the sweeper; no symmetry, because a run checks a liveness property.      *)
EXTENDS Clarification

CONSTANTS j1, j2, r1, r2, a1, a2, bad, none
================================================================================
