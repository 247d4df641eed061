------------------------------ MODULE NcMailDb ------------------------------
(***************************************************************************)
(* Nextcloud Mail's tables oc_mail_accounts and oc_mail_mailboxes, as far  *)
(* as NextcloudMailDB of app/nextcloud/sieve.py reads and writes them.     *)
(* Each statement is a psql process of its own.                            *)
(***************************************************************************)
EXTENDS SyncConstants, FiniteSets

CONSTANTS Accounts,   \* ids in oc_mail_accounts
          AccountOf,  \* the (user_id, email) of each
          Columns,    \* the special folders: a column, and the local name
          Boxes,      \* ids in oc_mail_mailboxes
          BoxOf,      \* the account of each
          BoxName     \* its name: the local name of a column, or another

ASSUME MailDbAssumption ==
    /\ AccountOf \in [Accounts -> Users \X Targets]
    /\ BoxOf \in [Boxes -> Accounts]
    /\ None \notin Boxes \union Accounts
    /\ IsFiniteSet(Accounts)

VARIABLES live,     \* the accounts there are
          sieve,    \* account -> its ManageSieve columns
          boxes,    \* the folders there are
          mapping   \* account -> column -> folder id, or None for NULL

mailDbVars == <<live, sieve, boxes, mapping>>

SieveStates == {"unset", "other", "ours"}

MailDbTypeOK ==
    /\ live \subseteq Accounts
    /\ sieve \in [Accounts -> SieveStates]
    /\ boxes \subseteq Boxes
    /\ mapping \in [Accounts -> [Columns -> Boxes \union {None}]]

MailDbInit ==
    /\ live \in SUBSET Accounts
    /\ sieve \in [Accounts -> SieveStates]
    /\ boxes \in SUBSET Boxes
    /\ mapping \in [Accounts -> [Columns -> Boxes \union {None}]]

AccountsFor(u, t) == {a \in live : AccountOf[a] = <<u, t>>}

(* get_account_id: the account, unless there is none or more than one *)
UniqueAccount(u, t) ==
    IF Cardinality(AccountsFor(u, t)) = 1 THEN AccountsFor(u, t) ELSE {}

(* _local_special_folder_ids: the one folder of that name, or none *)
LocalBoxes(a, c) == {b \in boxes : BoxOf[b] = a /\ BoxName[b] = c}
Resolvable(a, c) == Cardinality(LocalBoxes(a, c)) = 1

(* Mutant of Drifted: a column that is NULL counts as drifted *)
DriftedOrNull(a, cols) ==
    {c \in Columns : Resolvable(a, c) /\ cols[c] \notin LocalBoxes(a, c)}

(* the columns that are set, resolvable, and point somewhere else *)
Drifted(a, cols) ==
    {c \in Columns : cols[c] # None /\ Resolvable(a, c) /\ cols[c] \notin LocalBoxes(a, c)}

(* UPDATE ... WHERE id = a, which matches nothing if a is gone *)
UpdateSieve(a) ==
    /\ sieve' = IF a \in live THEN [sieve EXCEPT ![a] = "ours"] ELSE sieve
    /\ UNCHANGED <<live, boxes, mapping>>

UpdateMapping(a, c, b) ==
    /\ mapping' = IF a \in live THEN [mapping EXCEPT ![a][c] = b] ELSE mapping
    /\ UNCHANGED <<live, sieve, boxes>>

=============================================================================
