---------------------------- MODULE MCSubscriptions ----------------------------
(* Small instances of Subscriptions for TLC: two handlers are a race.           *)
EXTENDS Subscriptions

CONSTANTS h1, h2, r1
================================================================================
