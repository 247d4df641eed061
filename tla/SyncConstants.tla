--------------------------- MODULE SyncConstants ---------------------------
(***************************************************************************)
(* What every module of the mailbox sync speaks about.                     *)
(***************************************************************************)
EXTENDS Naturals

CONSTANTS Users,    \* canonical addresses of Authentik users
          Targets,  \* mailbox addresses inside OUR_DOMAIN
          Devices,  \* device ids of the Thunderbird setup tool
          None      \* the code's None: no id, no row, no address

ASSUME NoneAssumption ==
    /\ None \notin Nat
    /\ None \notin Users
    /\ None \notin Targets

=============================================================================
