--------------------------- MODULE SharingStores ---------------------------
(***************************************************************************)
(* Where the sharing of a mailbox is kept, and the calls that change it:   *)
(* Mailcow's sender_acl, the Dovecot ACLs of each folder, the lists in     *)
(* SOGo's profiles, and whether SOGo still shows cached ones.  The owner   *)
(* of mailbox t is the address t.                                          *)
(***************************************************************************)
EXTENDS SyncConstants

CONSTANTS Folders,  \* own folders a mailbox can have
          Inbox     \* the one that every mailbox has

ASSUME InboxAssumption == Inbox \in Folders

VARIABLES senders,       \* mailbox -> who is in its sender_acl
          folders,       \* mailbox -> its folders
          acl,           \* mailbox -> folder -> who has which rights there
          delegateTo,    \* mailbox -> Mail.DelegateTo of its profile
          delegateFrom,  \* user -> Mail.DelegateFrom of the user's profile
          othersFolders, \* user -> Mail.OtherUsersFolders, which should be the same
          stale          \* what was changed since SOGo's cache was flushed

aclVars == <<acl, folders>>
profileVars == <<delegateTo, delegateFrom, othersFolders>>
sharingVars == <<senders, aclVars, profileVars, stale>>

Principals == Users \union Targets

Rights == {"none",  \* no entry
           "part",  \* less than DEFAULT_RIGHTS
           "full"}  \* all of them

SharingTypeOK ==
    /\ senders \in [Targets -> SUBSET Principals]
    /\ folders \in [Targets -> SUBSET Folders]
    /\ acl \in [Targets -> [Folders -> [Principals -> Rights]]]
    /\ delegateTo \in [Targets -> SUBSET Principals]
    /\ delegateFrom \in [Users -> SUBSET Targets]
    /\ othersFolders \in [Users -> SUBSET Targets]
    /\ stale \subseteq {"acl", "profile"}

(* What the service finds: a person's rights are the same in all folders;   *)
(* an owner's entry is the leftover of an import, anywhere                  *)
SharingInit ==
    /\ senders \in [Targets -> SUBSET Principals]
    /\ folders \in [Targets -> {F \in SUBSET Folders : Inbox \in F}]
    /\ acl \in [Targets -> [Folders -> [Principals -> Rights]]]
    /\ \A t \in Targets, f \in Folders, p \in Principals :
          acl[t][f][p] = IF f \notin folders[t] THEN "none"
                         ELSE IF p # t THEN acl[t][Inbox][p] ELSE acl[t][f][p]
    /\ delegateTo \in [Targets -> SUBSET Principals]
    /\ delegateFrom \in [Users -> SUBSET Targets]
    /\ othersFolders \in [Users -> SUBSET Targets]
    /\ stale = {}

(* edit_mailbox_sender_acl: the list replaces the one that is there *)
ReplaceSenders(t, list) ==
    /\ senders' = [senders EXCEPT ![t] = list]
    /\ UNCHANGED <<aclVars, profileVars, stale>>

(* `doveadm acl set', which replaces p's rights, and `acl delete' *)
SetRights(t, f, p, rights) ==
    /\ acl' = [acl EXCEPT ![t][f][p] = rights]
    /\ stale' = stale \union {"acl"}
    /\ UNCHANGED <<senders, folders, profileVars>>

(* A profile is written only if that changes it *)
ProfileStale ==
    stale' = IF UNCHANGED profileVars THEN stale ELSE stale \union {"profile"}

(* set_user_delegate_from: both lists of u's profile in one transaction *)
SetDelegateFrom(u, list) ==
    /\ delegateFrom' = [delegateFrom EXCEPT ![u] = list]
    /\ othersFolders' = [othersFolders EXCEPT ![u] = list]
    /\ UNCHANGED <<senders, aclVars, delegateTo>>
    /\ ProfileStale

(* add_user_to_mailbox_delegate_to, remove_user_from_mailbox_delegate_to:    *)
(* the list is read again, under FOR UPDATE, in the transaction that writes  *)
PatchDelegateTo(t, u, wanted) ==
    /\ delegateTo' = [delegateTo EXCEPT ![t] = IF wanted THEN @ \union {u} ELSE @ \ {u}]
    /\ UNCHANGED <<senders, aclVars, delegateFrom, othersFolders>>
    /\ ProfileStale

(* MemcachedClient.flush_all *)
FlushCache ==
    /\ stale' = {}
    /\ UNCHANGED <<senders, aclVars, profileVars>>

=============================================================================
