------------------------------ MODULE MCAgentCalls ------------------------------
EXTENDS AgentCalls

CONSTANTS w1, w2

(* The environment's models: the first three agents are cheap enough to round  *)
(* to nothing, the fourth costs one unit; the preset is a model without a      *)
(* price, charged as the dearest, two units.                                   *)
MCCatalog == [quality |-> "unlisted"]
MCAgentModel == [agent \in Agents |-> IF agent = "agent4" THEN "sonnet" ELSE "mini"]
MCPricing == [mini   |-> [input |-> 1, output |-> 5, read |-> 0, write |-> 0],
              sonnet |-> [input |-> 3, output |-> 15, read |-> 0, write |-> 4],
              opus   |-> [input |-> 5, output |-> 25, read |-> 1, write |-> 6]]
MCUsages == {[input |-> 1, output |-> 1, read |-> 0, write |-> 0]}
MCReplies == {[form |-> "fenced", body |-> body] :
                body \in {"questions", "specification", "tree", "unrecoverable", "large_tree"}}
             \cup {[form |-> "cut", body |-> "tree"]}
================================================================================
