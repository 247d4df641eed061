--------------------------- MODULE MCGroupClosure ---------------------------
(* Constants for the model-checking run of GroupClosure *)
EXTENDS GroupClosure

CONSTANTS g1, g2, g3, sales, info

(* One of each set of inputs that are alike but for the names of the groups  *)
(* and of the addresses; the groups share one mailbox, and what the user's   *)
(* own attributes may add is the user's own address.  A user who is in no    *)
(* group or in all of them inherits nothing and is left out.                 *)
SomeInputs ==
    /\ email \in {info}
    /\ own \in SUBSET {info}
    /\ shared \in [Pks -> SUBSET {sales}]
    /\ direct \in {{g1}, {g1, g2}}

MCInit == SomeInputs /\ Init
MCSpec == MCInit /\ [][Next]_vars /\ WF_vars(Next)

=============================================================================
