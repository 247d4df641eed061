--------------------------- MODULE MCPerKeyLock ---------------------------
(* Constants for the model-checking run of PerKeyLock *)
EXTENDS PerKeyLock

CONSTANTS t1, t2, t3, alice, bob, l1, l2

=============================================================================
