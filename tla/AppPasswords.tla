--------------------------- MODULE AppPasswords ---------------------------
(***************************************************************************)
(* Mailcow as app/mailcow/api.py uses it: the mailboxes of the managed     *)
(* domain and the one app-password table that the authentik-sync and the   *)
(* tb-setup life cycles share.  An entry is found by its name and deleted  *)
(* by its id.  Mailcow draws ids from an auto-increment column, so an id   *)
(* is never used twice; `nextPwd' is the next one.                         *)
(*                                                                         *)
(* A name is a marker of app/reconcile.py, or the name of an entry this    *)
(* service did not make.                                                   *)
(***************************************************************************)
EXTENDS Naturals, SyncConstants

VARIABLES mailboxes,  \* SUBSET Targets: the mailboxes that exist
          pwds,       \* the live app-passwords
          nextPwd     \* the id the next app-password gets

mailcowVars == <<mailboxes, pwds, nextPwd>>

Marker(u, t) == <<"authentik-sync", u, t>>
TbMarker(u, t, d) == <<"tb-setup", u, t, d>>
ForeignName == <<"foreign">>

SyncNames == {"authentik-sync"} \X Users \X Targets
TbNames == {"tb-setup"} \X Users \X Targets \X Devices
Names == SyncNames \union TbNames \union {ForeignName}

AppPassword == [id : Nat, mailbox : Targets, name : Names]

MailcowTypeOK ==
    /\ mailboxes \subseteq Targets
    /\ pwds \subseteq AppPassword
    /\ nextPwd \in Nat

MailcowInit ==
    /\ mailboxes \in SUBSET Targets
    /\ pwds = {}
    /\ nextPwd = 1

---------------------------------------------------------------------------
(* list_app_passwds(m), narrowed to the entries of one name *)
Matching(m, name) == {p.id : p \in {q \in pwds : q.mailbox = m /\ q.name = name}}

(* POST add/app-passwd: Mailcow adds an entry if the mailbox exists *)
Issue(m, name) ==
    /\ m \in mailboxes
    /\ pwds' = pwds \union {[id |-> nextPwd, mailbox |-> m, name |-> name]}
    /\ nextPwd' = nextPwd + 1
    /\ UNCHANGED mailboxes

(* Mutant of FoundByName: takes the first entry without comparing names *)
FoundFirst(m, name) == {p.id : p \in {q \in pwds : q.mailbox = m}}

(* add_app_passwd after its POST: the id of the first entry of that name in *)
(* Mailcow's listing, whose order the service does not control.             *)
FoundByName(m, name) == Matching(m, name)

(* Mutant of Revoke: the request names no entry *)
RevokeNothing(id) == UNCHANGED mailcowVars

(* POST delete/app-passwd; an id that is gone already is no error *)
Revoke(id) ==
    /\ pwds' = {p \in pwds : p.id # id}
    /\ UNCHANGED <<mailboxes, nextPwd>>

---------------------------------------------------------------------------
(* Mailcow's administrators, and the other users of its app-passwords *)
CreateMailbox(m) ==
    /\ m \notin mailboxes
    /\ mailboxes' = mailboxes \union {m}
    /\ UNCHANGED <<pwds, nextPwd>>

(* deleting a mailbox deletes its app-passwords with it *)
DropMailbox(m) ==
    /\ m \in mailboxes
    /\ mailboxes' = mailboxes \ {m}
    /\ pwds' = {p \in pwds : p.mailbox # m}
    /\ UNCHANGED nextPwd

=============================================================================
