---------------------------- MODULE NcAccounts ----------------------------
(***************************************************************************)
(* Nextcloud Mail as app/nextcloud/occ.py uses it: accounts are created    *)
(* with `occ mail:account:create', looked up by (user, address) because    *)
(* the create prints no id, and deleted by id.                             *)
(*                                                                         *)
(* `secret' stands for the password an account logs in with: the id of the *)
(* app-password that was minted with that plaintext, or None for an        *)
(* account a user set up by hand.  Nothing in the code reads it back.      *)
(***************************************************************************)
EXTENDS Naturals, SyncConstants

VARIABLES accounts,  \* the Nextcloud mail accounts that exist
          nextAcc    \* the id the next account gets

nextcloudVars == <<accounts, nextAcc>>

Account == [id : Nat, user : Users, email : Targets, secret : Nat \union {None}]

NextcloudTypeOK ==
    /\ accounts \subseteq Account
    /\ nextAcc \in Nat

NextcloudInit ==
    /\ accounts = {}
    /\ nextAcc = 1

(* mail:account:create; Nextcloud does not mind a second account for an address *)
OpenAccount(u, t, secret) ==
    /\ accounts' = accounts \union
                     {[id |-> nextAcc, user |-> u, email |-> t, secret |-> secret]}
    /\ nextAcc' = nextAcc + 1

AccountIds(u, t) == {a.id : a \in {b \in accounts : b.user = u /\ b.email = t}}

(* Mutant of Lookups: compares the user only, not the address *)
LookupsOfUser(u, t) ==
    LET found == {a.id : a \in {b \in accounts : b.user = u}} IN
    IF found = {} THEN {None} ELSE found

(* find_account_id: the first account of the export with that address, or None *)
Lookups(u, t) == IF AccountIds(u, t) = {} THEN {None} ELSE AccountIds(u, t)

(* Mutant of CloseAccount: the command fails and is taken for done *)
CloseNothing(id) == UNCHANGED nextcloudVars

(* mail:account:delete *)
CloseAccount(id) ==
    /\ accounts' = {a \in accounts : a.id # id}
    /\ UNCHANGED nextAcc

=============================================================================
