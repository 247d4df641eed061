------------------------ MODULE MCReconcileTargets ------------------------
(* Constants for the model-checking runs of ReconcileTargets *)
EXTENDS ReconcileTargets, TLC

CONSTANTS w1, w2, p1, p2, alice, bob, sales, info

(* two threads of one process, as locks.py is written for *)
OneProcess == w1 :> p1 @@ w2 :> p1

(* `gunicorn -w 2': two processes with one thread each *)
TwoProcesses == w1 :> p1 @@ w2 :> p2

(* one worker alone *)
LoneWorker == w1 :> p1

Symmetry == Permutations({alice, bob}) \union Permutations({sales, info})
TargetSymmetry == Permutations({sales, info})
UserSymmetry == Permutations({alice, bob})

=============================================================================
