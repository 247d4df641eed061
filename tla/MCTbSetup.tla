----------------------------- MODULE MCTbSetup -----------------------------
(* Constants for the model-checking runs of TbSetup *)
EXTENDS TbSetup, TLC

CONSTANTS w1, w2, p1, p2, alice, bob, sales, info, laptop, desktop

OneWorker == w1 :> p1
TwoProcesses == w1 :> p1 @@ w2 :> p2

Symmetry ==
    Permutations({alice, bob}) \union Permutations({sales, info})
       \union Permutations({laptop, desktop})

=============================================================================
