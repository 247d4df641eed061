------------------------------ MODULE MCSweep ------------------------------
(* Constants for the model-checking runs of Sweep *)
EXTENDS Sweep

CONSTANTS w1, w2, p1, alice, bob, carol, boxA, boxB, boxC, sales

OneProcess == [w \in Workers |-> p1]

(* bob's own address is no mailbox in Mailcow *)
OwnMailbox == [u \in Users |-> CASE u = alice -> boxA
                                [] u = bob   -> boxB
                                [] u = carol -> boxC]

=============================================================================
