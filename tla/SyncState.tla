----------------------------- MODULE SyncState -----------------------------
(***************************************************************************)
(* The two tables of app/state.py that the reconcile keeps: sync_mailboxes *)
(* (`rows', keyed by user and target) and sync_users_seen (`seen').  Every *)
(* method of StateDB opens a connection of its own and runs one statement  *)
(* in one transaction, so each is one atomic step.                         *)
(***************************************************************************)
EXTENDS Naturals, SyncConstants

VARIABLES rows,  \* the sync_mailboxes row of each (user, target), or None
          seen   \* the users in sync_users_seen

stateVars == <<rows, seen>>

Row == [pwd : Nat, acc : Nat \union {None}]

ASSUME NoRowAssumption == None \notin Row

StateTypeOK ==
    /\ rows \in [Users \X Targets -> Row \union {None}]
    /\ seen \subseteq Users

StateInit ==
    /\ rows = [k \in Users \X Targets |-> None]
    /\ seen = {}

(* the targets of get_for_user(u) *)
RowsOf(u) == {t \in Targets : rows[<<u, t>>] # None}

Coalesce(new, old) == IF new # None THEN new ELSE old

(* Mutant of Merged: the two ids swapped *)
MergedSwapped(old, pwd, acc) ==
    [pwd |-> acc, acc |-> IF old = None THEN pwd ELSE Coalesce(pwd, old.acc)]

(* An id of None never overwrites one that is known. *)
Merged(old, pwd, acc) ==
    [pwd |-> pwd, acc |-> IF old = None THEN acc ELSE Coalesce(acc, old.acc)]

Upsert(u, t, pwd, acc) ==
    /\ rows' = [rows EXCEPT ![<<u, t>>] = Merged(@, pwd, acc)]
    /\ UNCHANGED seen

DeleteRow(u, t) ==
    /\ rows' = [rows EXCEPT ![<<u, t>>] = None]
    /\ UNCHANGED seen

TouchUser(u) ==
    /\ seen' = seen \union {u}
    /\ UNCHANGED rows

(* The database file is lost, and created empty when the service starts again *)
LoseState ==
    /\ rows' = [k \in Users \X Targets |-> None]
    /\ seen' = {}

=============================================================================
