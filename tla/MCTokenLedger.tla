----------------------------- MODULE MCTokenLedger -----------------------------
(* Small instances of TokenLedger for TLC.                                      *)
EXTENDS TokenLedger, TLC

CONSTANTS u1, u2, w1, w2, s1, s2, c1, c2, o1, a1, a2

MCChannel ==
  [p \in Purchases |-> CASE p \in {s1, s2} -> "storekit"
                         [] p \in {c1, c2} -> "cloudpayments"
                         [] p \in {a1, a2} -> "adapty"
                         [] p = o1 -> "operator"]
MCBuyer == [p \in Purchases |-> u1]

Symmetry == Permutations({w1, w2})
================================================================================
