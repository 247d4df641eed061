---------------------------- MODULE Provisioning ----------------------------
(***************************************************************************)
(* The second half of reconcile_user of app/reconcile.py, once the pairs   *)
(* of ReconcileTargets are added and removed: the Nextcloud mail database  *)
(* (_provision_nc_maildb), the sharing (_reconcile_sharing) and the flush  *)
(* of SOGo's cache.                                                        *)
(*                                                                         *)
(* As in ReconcileTargets each call that leaves the process is one step of *)
(* the worker, and job[w] holds the locals of its request.  What a request *)
(* found actionable, and which of these targets have an account, is any    *)
(* set: the first half hands it over and is not repeated.  Mailboxes do    *)
(* not come and go here; loops over them are taken in any order.           *)
(***************************************************************************)
EXTENDS SharingStores, NcMailDb

CONSTANTS Workers,      \* request threads
          Processes,    \* gunicorn worker processes
          ProcessOf,    \* the process each thread runs in
          Deployments,  \* the configurations, see Features
          Faults,       \* which failures happen, see FaultKinds
          Environment,  \* what happens around the service, see EventKinds
          DryRuns,      \* the values of dry_run that requests carry
          MaxRequests,  \* bound: requests served in a behaviour
          MaxEvents     \* bound: what happens out of the ordinary, see Disturb

VARIABLES features,   \* how the service is configured
          job,        \* the request each worker is serving
          disturbed,  \* history: what has disturbed the requests so far
          served,     \* requests received so far
          happened    \* failures, events and overlapping requests so far

stores == <<sharingVars, mailDbVars>>
weather == <<disturbed, happened>>
counters == <<features, served>>
vars == <<stores, job, weather, counters>>

Features == {"maildb",  \* SIEVE_PROVISIONING
             "db"}      \* MAILCOW_DB_*: mailcow_db and sogo are not None
FaultKinds == {"call",   \* a call raises, and had no effect
               "rc",     \* a command fails, and the code goes on without it
               "lost",   \* a call took effect, its answer is lost
               "flush",  \* memcached cannot be reached
               "crash"}  \* the request dies where it stands
EventKinds == {"hand",     \* people edit sender_acl, delegations and accounts
               "folder"}   \* owners and Nextcloud make folders

ASSUME ProvisioningAssumption ==
    /\ ProcessOf \in [Workers -> Processes]
    /\ Deployments \subseteq SUBSET Features
    /\ Faults \subseteq FaultKinds
    /\ Environment \subseteq EventKinds
    /\ DryRuns \subseteq BOOLEAN
    /\ MaxRequests \in Nat
    /\ MaxEvents \in Nat

Labels == {"idle", "lock", "mail", "sieve", "sieveSet", "map", "mapBoxes", "mapSet",
           "dts", "from", "fromSet", "mailbox", "probe", "list", "walk",
           "self", "selfWalk", "delegate"}

Job == [pc      : Labels,
        user    : Users \union {None},
        dry     : BOOLEAN,
        shared  : SUBSET Targets,                   \* desired_shared
        managed : SUBSET Targets,                   \* nc_targets
        todo    : SUBSET Targets,                   \* the rest of a loop over mailboxes
        target  : Targets \union {None},
        account : Accounts \union {None},
        cols    : [Columns -> Boxes \union {None}],  \* the columns as selected
        fixes   : [Columns -> Boxes \union {None}],  \* what to write into them
        acls    : [Targets -> SUBSET Principals],   \* sender_acls
        dts     : [Targets -> SUBSET Principals],   \* sogo_delegate_to
        walk    : SUBSET Folders,                   \* folders a doveadm loop has left
        probed  : SUBSET Targets,                   \* self_entry_seen
        found   : BOOLEAN,                          \* self_removed is not empty
        changed : BOOLEAN,
        errors  : SUBSET {"sieve", "map", "sharing"}]

Nobody == [t \in Targets |-> {}]
NoBox == [c \in Columns |-> None]

IdleJob == [pc |-> "idle", user |-> None, dry |-> FALSE, shared |-> {}, managed |-> {},
            todo |-> {}, target |-> None, account |-> None, cols |-> NoBox,
            fixes |-> NoBox, acls |-> Nobody, dts |-> Nobody, walk |-> {},
            probed |-> {}, found |-> FALSE, changed |-> FALSE, errors |-> {}]

(* The parts of the state have their types. *)
TypeOK ==
    /\ SharingTypeOK
    /\ MailDbTypeOK
    /\ features \subseteq Features
    /\ job \in [Workers -> Job]
    /\ disturbed \subseteq FaultKinds \union EventKinds \union {"overlap", "quiet"}
    /\ served \in Nat
    /\ happened \in Nat

Init ==
    /\ SharingInit
    /\ MailDbInit
    /\ features \in Deployments
    /\ job = [w \in Workers |-> IdleJob]
    /\ disturbed = {}
    /\ served = 0
    /\ happened = 0

---------------------------------------------------------------------------
At(w, label) == job[w].pc = label
Become(w, j) == job' = [job EXCEPT ![w] = j]
Goto(j, label) == [j EXCEPT !.pc = label]
Changed(j) == [j EXCEPT !.changed = TRUE]
Failed(j, step) == [j EXCEPT !.errors = @ \union {step}]

(* Something out of the ordinary, within the bound *)
Disturb(kind) ==
    /\ happened < MaxEvents
    /\ happened' = happened + 1
    /\ disturbed' = disturbed \union {kind}

Fault(kind) == kind \in Faults /\ Disturb(kind)

(* Only the locals change *)
Locally(w, j) == Become(w, j) /\ UNCHANGED <<stores, weather, counters>>

(* A call that writes: it takes effect, or raises, or both.  `ok' and `no'   *)
(* are what becomes of the request.                                          *)
Call(w, effect, ok, no) ==
    /\ UNCHANGED counters
    /\ \/ effect /\ Become(w, ok) /\ UNCHANGED weather
       \/ Fault("lost") /\ effect /\ Become(w, no)
       \/ Fault("call") /\ Become(w, no) /\ UNCHANGED stores

(* A call that raises, or a command that fails, and what is made of it *)
Raises(w, kind, no) ==
    /\ Fault(kind)
    /\ Become(w, no)
    /\ UNCHANGED <<stores, counters>>

(* A call that reads: it answers, or raises *)
Read(w, ok, no) == Locally(w, ok) \/ Raises(w, "call", no)

HoldsLock(w) == job[w].pc \notin {"idle", "lock"}
Busy == \E w \in Workers : HoldsLock(w)
SameLock(v, w) == ProcessOf[v] = ProcessOf[w] /\ job[v].user = job[w].user

(* nc_targets; a target that never has an account is passed over anyway *)
MayManage(u, t) ==
    "maildb" \in features /\ \E a \in Accounts : AccountOf[a] = <<u, t>>

Request(u, want, managed, probed, dry) ==
    [IdleJob EXCEPT !.pc = "lock", !.user = u, !.shared = want \ {u},
                    !.managed = managed, !.probed = probed, !.dry = dry]

(* POST /reconcile, or the next user of a batch, whose users share         *)
(* self_entry_seen and dry_run                                              *)
Receive(w) ==
    /\ At(w, "idle")
    /\ served < MaxRequests
    /\ \E u \in Users, want \in SUBSET Targets :
       \E managed \in SUBSET {t \in want : MayManage(u, t)} :
          \/ \E dry \in DryRuns : Become(w, Request(u, want, managed, {}, dry))
          \/ /\ job[w].probed # {}
             /\ Become(w, Request(u, want, managed, job[w].probed, job[w].dry))
    /\ served' = served + 1
    /\ UNCHANGED <<stores, weather, features>>

Acquire(w) ==
    /\ At(w, "lock")
    /\ \A v \in Workers : SameLock(v, w) => ~HoldsLock(v)
    /\ Become(w, [job[w] EXCEPT !.pc = "mail", !.todo = job[w].managed])
    /\ IF Busy THEN Disturb("overlap") ELSE UNCHANGED weather
    /\ UNCHANGED <<stores, counters>>

---------------------------------------------------------------------------
(* _provision_nc_maildb.  Without a unique account, or when the lookup       *)
(* itself fails, both steps are skipped.                                     *)
FindAccount(w) ==
    /\ At(w, "mail")
    /\ \E t \in job[w].todo :
          LET next == [job[w] EXCEPT !.todo = @ \ {t}]
              found == UniqueAccount(job[w].user, t)
          IN \/ \E a \in found : Locally(w, [next EXCEPT !.pc = "sieve", !.account = a])
             \/ found = {} /\ Locally(w, next)
             \/ Raises(w, "rc", next)
             \/ Raises(w, "call", Failed(Failed(next, "sieve"), "map"))

EndMail(j) == [j EXCEPT !.pc = "mail", !.account = None, !.cols = NoBox, !.fixes = NoBox]

(* Mutant of SieveFailed: the error ends the round of this account *)
SieveFailedForAll(j) == EndMail(Failed(j, "sieve"))

(* A failure is noted, and the special folders follow all the same *)
SieveFailed(j) == Goto(Failed(j, "sieve"), "map")

(* ensure_sieve_settings: SELECT, and UPDATE if it is not as it should be *)
ReadSieve(w) ==
    LET j == job[w] IN
    /\ At(w, "sieve")
    /\ Read(w, Goto(j, IF j.account \in live /\ sieve[j.account] # "ours" /\ ~j.dry
                       THEN "sieveSet" ELSE "map"), SieveFailed(j))

WriteSieve(w) ==
    LET j == job[w] IN
    /\ At(w, "sieveSet")
    /\ Call(w, UpdateSieve(j.account) /\ UNCHANGED sharingVars,
            Goto(j, "map"), SieveFailed(j))

(* enforce_special_folders: the columns, the folders they should point to, *)
(* and one UPDATE for each column that drifted                             *)
ReadMapping(w) ==
    LET j == job[w] IN
    /\ At(w, "map")
    /\ Read(w, IF j.account \in live
               THEN [j EXCEPT !.pc = "mapBoxes", !.cols = mapping[j.account]]
               ELSE EndMail(j),
            EndMail(Failed(j, "map")))

(* Mutant of FixesFor: the list of ids in place of its only element *)
FixesForLists(j) ==
    [c \in Columns |-> IF c \in Drifted(j.account, j.cols)
                       THEN LocalBoxes(j.account, c) ELSE None]

FixesFor(j) ==
    [c \in Columns |-> IF c \in Drifted(j.account, j.cols)
                       THEN CHOOSE b \in LocalBoxes(j.account, c) : TRUE ELSE None]

ReadBoxes(w) ==
    LET j == job[w] IN
    /\ At(w, "mapBoxes")
    /\ \/ Read(w, IF j.dry THEN EndMail(j) ELSE [j EXCEPT !.pc = "mapSet", !.fixes = FixesFor(j)],
               EndMail(Failed(j, "map")))
       \/ Raises(w, "rc", EndMail(j))

WriteMapping(w) ==
    LET j == job[w] IN
    /\ At(w, "mapSet")
    /\ \/ \E c \in Columns :
             /\ j.fixes[c] # None
             /\ Call(w, UpdateMapping(j.account, c, j.fixes[c]) /\ UNCHANGED sharingVars,
                     [j EXCEPT !.fixes[c] = None], EndMail(Failed(j, "map")))
       \/ j.fixes = NoBox /\ Locally(w, EndMail(j))

---------------------------------------------------------------------------
(* _reconcile_sharing: what is read once, before the loop over the mailboxes *)
(* Mutant of Others: the user's own mailbox is not left out *)
OthersAndOwn(j) == Targets

Others(j) == Targets \ {j.user}

StartLoop(j) == [j EXCEPT !.pc = "mailbox", !.todo = Others(j)]

SnapshotSenders(w) ==
    LET j == job[w] IN
    /\ At(w, "mail")
    /\ j.todo = {}
    /\ IF "db" \in features
       THEN Read(w, [j EXCEPT !.pc = "dts", !.acls = senders], Goto(Failed(j, "sharing"), "dts"))
       ELSE Locally(w, StartLoop(j))

SnapshotDelegateTo(w) ==
    LET j == job[w] IN
    /\ At(w, "dts")
    /\ Read(w, [j EXCEPT !.pc = "from", !.dts = delegateTo], Goto(Failed(j, "sharing"), "from"))

(* Mail.OtherUsersFolders is not compared: a difference there alone stays *)
ReadDelegateFrom(w) ==
    LET j == job[w] IN
    /\ At(w, "from")
    /\ Read(w, IF delegateFrom[j.user] = j.shared THEN StartLoop(j)
               ELSE IF j.dry THEN Changed(StartLoop(j)) ELSE Goto(j, "fromSet"),
            Failed(StartLoop(j), "sharing"))

WriteDelegateFrom(w) ==
    LET j == job[w] IN
    /\ At(w, "fromSet")
    /\ Call(w, SetDelegateFrom(j.user, j.shared) /\ UNCHANGED mailDbVars,
            Changed(StartLoop(j)), Failed(StartLoop(j), "sharing"))

---------------------------------------------------------------------------
(* The loop.  A failure ends the round of this mailbox. *)
EndRound(j) == [j EXCEPT !.pc = "mailbox", !.target = None, !.walk = {}, !.found = FALSE]
FailRound(j) == EndRound(Failed(j, "sharing"))

Wanted(j) == j.target \in j.shared

(* A change that a dry run only reports *)
Change(w, j, effect, next) ==
    IF j.dry THEN Locally(w, Changed(next))
    ELSE Call(w, effect /\ UNCHANGED mailDbVars, Changed(next), FailRound(j))

(* Mutant of NewSenders: only the user's own entry is sent *)
NewSendersAlone(j) == IF Wanted(j) THEN {j.user} ELSE {}

NewSenders(j) == IF Wanted(j) THEN j.acls[j.target] \union {j.user}
                              ELSE j.acls[j.target] \ {j.user}

(* sender_acl of the next mailbox: the snapshot, with or without the user,  *)
(* replaces the list                                                        *)
SyncSenders(w) ==
    /\ At(w, "mailbox")
    /\ \E t \in job[w].todo :
          LET j == [job[w] EXCEPT !.todo = @ \ {t}, !.target = t, !.pc = "probe"] IN
          IF Wanted(j) = (j.user \in j.acls[t]) THEN Locally(w, j)
          ELSE Change(w, j, ReplaceSenders(t, NewSenders(j)), j)

(* the rights the user is to have on the mailbox of this round *)
Due(j) == IF Wanted(j) THEN "full" ELSE "none"

(* Mutants of Decide: rights that are only part of the grant are enough;      *)
(* a dry run goes on to change the folders                                    *)
DecideCoarsely(j, rights) ==
    IF Wanted(j) = (rights # "none") THEN Goto(j, "self") ELSE Goto(j, "list")
DecideWet(j, rights) == Goto(j, IF rights = Due(j) THEN "self" ELSE "list")

(* get_rights_for_user, at INBOX; a probe that fails means no rights *)
Decide(j, rights) ==
    IF rights = Due(j) THEN Goto(j, "self")
    ELSE IF j.dry THEN Changed(Goto(j, "self"))
    ELSE Goto(j, "list")

ProbeInbox(w) ==
    LET j == job[w] IN
    /\ At(w, "probe")
    /\ \/ Read(w, Decide(j, acl[j.target][Inbox][j.user]), FailRound(j))
       \/ Raises(w, "rc", Decide(j, "none"))

(* grant, revoke: list_folders raises in either case of failure *)
ListFolders(w) ==
    LET j == job[w] IN
    /\ At(w, "list")
    /\ Read(w, [j EXCEPT !.pc = "walk", !.walk = folders[j.target]], FailRound(j))

(* Mutants of Walked: the walk ends with its first folder; nothing is flushed *)
WalkedOnce(j) == Changed([j EXCEPT !.pc = "self", !.walk = {}])
WalkedUnnoticed(j) == IF j.walk = {} THEN Goto(j, "self") ELSE j

(* the folders are all done *)
Walked(j) == IF j.walk = {} THEN Changed(Goto(j, "self")) ELSE j

(* one `acl set' or `acl delete' per folder; its failure is only logged *)
SetFolder(w) ==
    /\ At(w, "walk")
    /\ \E f \in job[w].walk :
          LET j == [job[w] EXCEPT !.walk = @ \ {f}] IN
          \/ Call(w, SetRights(j.target, f, j.user, Due(j)) /\ UNCHANGED mailDbVars,
                  Walked(j), FailRound(j))
          \/ Raises(w, "rc", Walked(j))

(* remove_self_entries, once per mailbox and run, whatever is wanted *)
StartSelf(w) ==
    LET j == job[w]
        next == [Goto(j, "delegate") EXCEPT !.probed = @ \union {j.target}] IN
    /\ At(w, "self")
    /\ IF j.target \in j.probed THEN Locally(w, next)
       ELSE Read(w, [next EXCEPT !.pc = "selfWalk", !.walk = folders[j.target]],
                 Failed(next, "sharing"))

Cleared(j) ==
    IF j.walk # {} THEN j
    ELSE IF j.found THEN Changed(Goto(j, "delegate")) ELSE Goto(j, "delegate")

(* The probe of a folder and the deletion of what it found; nobody else     *)
(* looks at these entries, so the two are one step                          *)
ClearSelf(w) ==
    /\ At(w, "selfWalk")
    /\ \E f \in job[w].walk :
          LET j == [job[w] EXCEPT !.walk = @ \ {f}]
              given_up == [Failed(j, "sharing") EXCEPT !.pc = "delegate", !.walk = {}] IN
          \/ IF acl[j.target][f][j.target] = "none" THEN Read(w, Cleared(j), given_up)
             ELSE IF j.dry THEN Read(w, Cleared([j EXCEPT !.found = TRUE]), given_up)
             ELSE Call(w, SetRights(j.target, f, j.target, "none") /\ UNCHANGED mailDbVars,
                       Cleared([j EXCEPT !.found = TRUE]), given_up)
          \/ Raises(w, "rc", Cleared(j))

(* Mail.DelegateTo of the mailbox: decided by the snapshot, patched in the   *)
(* transaction that reads it again                                           *)
SyncDelegateTo(w) ==
    LET j == job[w] IN
    /\ At(w, "delegate")
    /\ IF "db" \notin features \/ Wanted(j) = (j.user \in j.dts[j.target])
       THEN Locally(w, EndRound(j))
       ELSE Change(w, j, PatchDelegateTo(j.target, j.user, Wanted(j)), EndRound(j))

(* A batch goes on with what it has probed *)
Finish(w) ==
    LET j == job[w]
        done == [IdleJob EXCEPT !.probed = j.probed, !.dry = j.dry] IN
    /\ At(w, "mailbox")
    /\ j.todo = {}
    /\ IF ~j.changed \/ j.dry THEN Locally(w, done)
       ELSE \/ FlushCache /\ Become(w, done) /\ UNCHANGED <<mailDbVars, weather, counters>>
            \/ Raises(w, "flush", done)

Crash(w) ==
    /\ ~At(w, "idle")
    /\ Raises(w, "crash", IdleJob)

---------------------------------------------------------------------------
(* What happens around the service, to the part of it that is in use *)
Event(kind, part) ==
    /\ kind \in Environment
    /\ part \in features
    /\ Disturb(IF Busy THEN kind ELSE "quiet")
    /\ UNCHANGED <<job, counters>>

Toggled(S, x) == (S \ {x}) \union ({x} \ S)

SendersByHand ==
    /\ Event("hand", "db")
    /\ \E t \in Targets, p \in Principals : ReplaceSenders(t, Toggled(senders[t], p))
    /\ UNCHANGED mailDbVars

DelegationByHand ==
    /\ Event("hand", "db")
    /\ \E t \in Targets, p \in Principals :
          delegateTo' = [delegateTo EXCEPT ![t] = Toggled(@, p)]
    /\ UNCHANGED <<senders, aclVars, delegateFrom, othersFolders, stale, mailDbVars>>

AccountsByHand ==
    /\ Event("hand", "maildb")
    /\ \E a \in Accounts : live' = Toggled(live, a)
    /\ UNCHANGED <<sharingVars, sieve, boxes, mapping>>

(* a folder at the top level, which Dovecot makes without entries *)
FolderMade ==
    /\ Event("folder", "db")
    /\ \E t \in Targets : \E f \in Folders \ folders[t] :
          folders' = [folders EXCEPT ![t] = @ \union {f}]
    /\ UNCHANGED <<senders, acl, profileVars, stale, mailDbVars>>

BoxMade ==
    /\ Event("folder", "maildb")
    /\ \E b \in Boxes : boxes' = Toggled(boxes, b)
    /\ UNCHANGED <<sharingVars, live, sieve, mapping>>

(* Nextcloud's autodetection, or a user who chooses another folder *)
Mapped ==
    /\ Event("folder", "maildb")
    /\ \E b \in boxes, c \in Columns : mapping' = [mapping EXCEPT ![BoxOf[b]][c] = b]
    /\ UNCHANGED <<sharingVars, live, sieve, boxes>>

---------------------------------------------------------------------------
MailDb(w) ==
    \/ FindAccount(w) \/ ReadSieve(w) \/ WriteSieve(w) \/ ReadMapping(w)
    \/ ReadBoxes(w) \/ WriteMapping(w)

Sharing(w) ==
    \/ SnapshotSenders(w) \/ SnapshotDelegateTo(w) \/ ReadDelegateFrom(w)
    \/ WriteDelegateFrom(w) \/ SyncSenders(w) \/ ProbeInbox(w) \/ ListFolders(w)
    \/ SetFolder(w) \/ StartSelf(w) \/ ClearSelf(w) \/ SyncDelegateTo(w) \/ Finish(w)

Surroundings ==
    \/ SendersByHand \/ DelegationByHand \/ AccountsByHand
    \/ FolderMade \/ BoxMade \/ Mapped

Rest ==
    /\ served = MaxRequests
    /\ \A w \in Workers : At(w, "idle")
    /\ UNCHANGED vars

Next ==
    \/ \E w \in Workers : Receive(w) \/ Acquire(w) \/ MailDb(w) \/ Sharing(w) \/ Crash(w)
    \/ Surroundings
    \/ Rest

Spec == Init /\ [][Next]_vars

---------------------------------------------------------------------------
(* Properties *)

(* The request of w comes to its end *)
Answers(w) ==
    At(w, "mailbox") /\ job[w].todo = {} /\ job'[w].pc = "idle" /\ "crash" \notin disturbed'

Unspoilt(kinds) == disturbed \intersect kinds = {}

(* An answer without errors means that the user's share of every other mailbox *)
(* is what Authentik grants: rights at INBOX, both sides of SOGo's delegation  *)
(* even while other users' requests run, and the place in sender_acl as long   *)
(* as no other request ran at the time; and owners' entries are gone.          *)
SharingConverges ==
    [][\A w \in Workers : LET j == job[w] IN
          Answers(w) /\ ~j.dry /\ "sharing" \notin j.errors /\ Unspoilt({"rc", "hand"}) =>
             /\ \A t \in Others(j) :
                   /\ acl[t][Inbox][j.user] = IF t \in j.shared THEN "full" ELSE "none"
                   /\ ("db" \in features => (j.user \in delegateTo[t]) = (t \in j.shared))
                   /\ ("db" \in features /\ Unspoilt({"overlap"})
                         => (j.user \in senders[t]) = (t \in j.shared))
                   /\ (Unspoilt({"call", "lost"})
                         => \A f \in folders[t] : acl[t][f][t] = "none")
             /\ ("db" \in features => delegateFrom[j.user] = j.shared)]_vars

(* "INBOX is a representative probe": between the requests of a user no folder *)
(* gives the user more than INBOX shows, so nothing is left behind where the   *)
(* probe does not look -- unless a doveadm call failed half-way.               *)
InboxSpeaks ==
    Unspoilt({"call", "lost", "rc", "crash"}) =>
       \A u \in Users : \A t \in Targets \ {u}, f \in Folders :
          acl[t][f][u] \in {"none", acl[t][Inbox][u]}
             \/ \E w \in Workers : HoldsLock(w) /\ job[w].user = u

(* Nobody's place in a sender_acl changes but u's *)
KeepsOthers(u) == \A t \in Targets : senders'[t] \ {u} = senders[t] \ {u}

(* "Other entries in those ACLs (other users, manual entries) are not touched":  *)
(* of sender_acl, which is written back whole, this holds for a request that     *)
(* could read the lists and had nobody write to them before it did.              *)
OthersKept ==
    [][disturbed' \subseteq {"quiet"} /\ "db" \in features =>
          \A w \in Workers : job'[w] # job[w] => KeepsOthers(job[w].user)]_vars

(* ... and of the Dovecot ACLs and the delegations whatever fails or races: a   *)
(* request changes entries of its own user only, never on the user's own        *)
(* mailbox, but for an owner's entry, which it can only take away.              *)
OnlyOwnEntries ==
    [][\A w \in Workers : job'[w] # job[w] =>
          LET u == job[w].user IN
          /\ \A t \in Targets, p \in Principals : p # u \/ t = u =>
                /\ (p \in delegateTo'[t]) = (p \in delegateTo[t])
                /\ \A f \in Folders :
                      acl'[t][f][p] \in {acl[t][f][p]} \union (IF p = t THEN {"none"} ELSE {})
          /\ \A v \in Users \ {u} : /\ delegateFrom'[v] = delegateFrom[v]
                                      /\ othersFolders'[v] = othersFolders[v]]_vars

(* SOGo does not go on showing cached settings once all requests are over: what *)
(* was changed is flushed, also when other calls of the request failed.         *)
CacheFlushed ==
    (\A w \in Workers : At(w, "idle")) =>
       /\ "profile" \in stale => ~Unspoilt({"lost", "flush", "crash"})
       /\ "acl" \in stale => ~Unspoilt({"lost", "flush", "crash", "call"})

(* A dry run writes to no store, in any of its steps and their failures. *)
DryRunWritesNothing ==
    [][\A w \in Workers : job[w].dry /\ job'[w] # job[w] /\ ~At(w, "idle") =>
          UNCHANGED stores]_vars

(* After a request each managed account that is the only one of its address     *)
(* has the ManageSieve settings, and no column is left pointing past its local  *)
(* folder; a failure in one of the two does not keep the other from being done. *)
MailDbConverges ==
    [][\A w \in Workers : LET j == job[w] IN
          Answers(w) /\ ~j.dry /\ Unspoilt({"rc", "hand", "folder"}) =>
             \A t \in j.managed : \A a \in UniqueAccount(j.user, t) :
                /\ "sieve" \notin j.errors => sieve[a] = "ours"
                /\ "map" \notin j.errors => Drifted(a, mapping[a]) = {}]_vars

(* A request writes to accounts of its own user and managed targets only, and   *)
(* to none that shares its address with another; a column it changes was set,   *)
(* and now names a folder of that account with the local name.                  *)
MailDbRepairsOnly ==
    [][\A w \in Workers, a \in Accounts :
          job'[w] # job[w] /\ <<sieve[a], mapping[a]>>' # <<sieve[a], mapping[a]>> =>
             /\ \E t \in job[w].managed : AccountOf[a] = <<job[w].user, t>>
             /\ Unspoilt({"hand"}) => UniqueAccount(AccountOf[a][1], AccountOf[a][2]) = {a}
             /\ \A c \in Columns : mapping'[a][c] # mapping[a][c] =>
                   mapping[a][c] # None /\ BoxName[mapping'[a][c]] = c /\ BoxOf[mapping'[a][c]] = a]_vars

(* ... and without these conditions, as _reconcile_sharing says.  The service    *)
(* also runs without a database client; then, it says, sender_acl is skipped.    *)
OthersUntouched ==
    [][\A w \in Workers : job'[w] # job[w] => KeepsOthers(job[w].user)]_vars

=============================================================================
