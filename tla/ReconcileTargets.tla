------------------------- MODULE ReconcileTargets -------------------------
(***************************************************************************)
(* reconcile_user of app/reconcile.py as far as it keeps the pairs of a    *)
(* Mailcow app-password and a Nextcloud mail account: one pair per mailbox *)
(* the user is entitled to, recorded in sync_mailboxes.                    *)
(*                                                                         *)
(* A worker serves one request at a time.  Every call that leaves the      *)
(* process -- Mailcow's API, occ, SQLite -- is one step, so the steps of   *)
(* other workers and of the environment fall between any two of them; the  *)
(* locals of the running request are the record job[w].  Choosing an order *)
(* with sorted() is left open: the model takes the targets in any order.   *)
(*                                                                         *)
(* What runs between the removals and touch_user is in modules of its own: *)
(* Provisioning has the Nextcloud mail database, the sharing and the cache,*)
(* TbSetup the cleanup of Thunderbird's app-passwords.                     *)
(***************************************************************************)
EXTENDS Naturals, AppPasswords, NcAccounts, SyncState

CONSTANTS Workers,      \* request threads
          Processes,    \* gunicorn worker processes
          ProcessOf,    \* the process each thread runs in
          Faults,       \* which failures happen, see FaultKinds
          Environment,  \* what happens around the service, see EventKinds
          DryRuns,      \* the values of dry_run that requests carry
          MaxRequests,  \* bound: requests served in a behaviour
          MaxEvents     \* bound: environment events in a behaviour

VARIABLES job,      \* the request each worker is serving
          served,   \* requests received so far
          happened  \* environment events so far

counters == <<served, happened>>
vars == <<mailcowVars, nextcloudVars, stateVars, job, counters>>

FaultKinds == {"call",   \* a remote call raises, and had no effect
               "lost",   \* a remote call took effect, its answer is lost
               "db",     \* SQLite refuses a write
               "crash"}  \* the request dies: gunicorn kills the worker, or
                         \* an exception leaves reconcile_user
EventKinds == {"mailbox",   \* mailboxes come and go
               "foreign",   \* others make and delete app-passwords
               "account",   \* users set up Nextcloud mail accounts by hand
               "dbLoss"}    \* the state database is lost between requests

ASSUME ConstantsAssumption ==
    /\ ProcessOf \in [Workers -> Processes]
    /\ Faults \subseteq FaultKinds
    /\ Environment \subseteq EventKinds
    /\ DryRuns \subseteq BOOLEAN
    /\ MaxRequests \in Nat
    /\ MaxEvents \in Nat

Labels == {"idle", "lock", "list", "rows", "adoptList", "adopt", "adoptFind",
           "adoptPut", "gate", "add", "post", "find", "create", "lookup",
           "rollback", "put", "remove", "close", "revoke", "forget"}

Job == [pc       : Labels,
        user     : Users \union {None},
        dry      : BOOLEAN,
        want     : SUBSET Targets,          \* desired, then actionable
        scan     : SUBSET Targets,          \* adoption: mailboxes still to list
        ids      : SUBSET Nat,              \* adoption: matching entries left
        adopted  : SUBSET Targets,
        toAdd    : SUBSET Targets,
        toRemove : SUBSET Targets,
        skipped  : BOOLEAN,                 \* skipped_nc_user_missing
        errors   : BOOLEAN,                 \* whether summary["errors"] has any
        target   : Targets \union {None},
        pwd      : Nat \union {None},       \* pwd_id, row.mailcow_app_pwd_id
        acc      : Nat \union {None},       \* nc_id, row.nc_account_id
        secret   : Nat \union {None}]       \* the plaintext in `password'

IdleJob == [pc |-> "idle", user |-> None, dry |-> FALSE, want |-> {},
            scan |-> {}, ids |-> {}, adopted |-> {}, toAdd |-> {},
            toRemove |-> {}, skipped |-> FALSE, errors |-> FALSE,
            target |-> None, pwd |-> None, acc |-> None, secret |-> None]

(* The parts of the state have their types. *)
TypeOK ==
    /\ MailcowTypeOK
    /\ NextcloudTypeOK
    /\ StateTypeOK
    /\ job \in [Workers -> Job]
    /\ served \in Nat
    /\ happened \in Nat

Init ==
    /\ MailcowInit
    /\ NextcloudInit
    /\ StateInit
    /\ job = [w \in Workers |-> IdleJob]
    /\ served = 0
    /\ happened = 0

---------------------------------------------------------------------------
At(w, label) == job[w].pc = label
Become(w, j) == job' = [job EXCEPT ![w] = j]
End(w) == Become(w, IdleJob)

(* The loop variables of one target go out of scope *)
Back(j, label) == [j EXCEPT !.pc = label, !.target = None, !.ids = {},
                            !.pwd = None, !.acc = None, !.secret = None]

(* Mutant of GivenUp: the error is not noted *)
GivenUpSilently(j, label) == Back(j, label)

(* Mutant of GivenUp: the exception is not caught by the loop *)
GivenUpUncaught(j, label) == IdleJob

(* Mutant of GivenUp: the target is tried again, without limit *)
GivenUpForNow(j, label) ==
    Back([j EXCEPT !.errors = TRUE, !.toAdd = @ \union {j.target}], label)

(* ... because of an exception, which is noted in summary["errors"] *)
GivenUp(j, label) == Back([j EXCEPT !.errors = TRUE], label)

HoldsLock(w) == job[w].pc \notin {"idle", "lock"}
Busy(u) == \E w \in Workers : job[w].user = u /\ HoldsLock(w)

SameLock(v, w) == ProcessOf[v] = ProcessOf[w] /\ job[v].user = job[w].user

(* POST /reconcile, or one user of a batch or of the sweep *)
Receive(w) ==
    /\ At(w, "idle")
    /\ served < MaxRequests
    /\ \E u \in Users, want \in SUBSET Targets, dry \in DryRuns :
          Become(w, [IdleJob EXCEPT !.pc = "lock", !.user = u,
                                    !.want = want, !.dry = dry])
    /\ served' = served + 1
    /\ UNCHANGED <<mailcowVars, nextcloudVars, stateVars, happened>>

(* per_key_lock(user_email): the pool is a variable of the process *)
Acquire(w) ==
    /\ At(w, "lock")
    /\ \A v \in Workers : SameLock(v, w) => ~HoldsLock(v)
    /\ Become(w, [job[w] EXCEPT !.pc = "list"])
    /\ UNCHANGED <<mailcowVars, nextcloudVars, stateVars, counters>>

(* A failing list_mailboxes ends the request before touch_user *)
ListMailboxes(w) ==
    /\ At(w, "list")
    /\ \/ Become(w, [job[w] EXCEPT !.pc = "rows", !.want = @ \intersect mailboxes])
       \/ "call" \in Faults /\ End(w)
    /\ UNCHANGED <<mailcowVars, nextcloudVars, stateVars, counters>>

(* to_add and to_remove, against the rows or, in a dry run, what was adopted *)
Planned(j, current) ==
    [Back(j, "gate") EXCEPT !.scan = {}, !.adopted = {},
                            !.toAdd = j.want \ current,
                            !.toRemove = current \ j.want]

ReadRows(w) ==
    /\ At(w, "rows")
    /\ Become(w, IF RowsOf(job[w].user) = {}
                 THEN [job[w] EXCEPT !.pc = "adoptList"]
                 ELSE Planned(job[w], RowsOf(job[w].user)))
    /\ UNCHANGED <<mailcowVars, nextcloudVars, stateVars, counters>>

---------------------------------------------------------------------------
(* Mutant of Scanned: the claimed mailboxes only *)
ScannedClaims(j) == j.want

Scanned(j) == mailboxes

(* adopt_from_markers.  Its own list_mailboxes is not guarded: a failure    *)
(* leaves reconcile_user.                                                   *)
AdoptList(w) ==
    /\ At(w, "adoptList")
    /\ \/ Become(w, [job[w] EXCEPT !.pc = "adopt", !.scan = Scanned(job[w])])
       \/ "call" \in Faults /\ End(w)
    /\ UNCHANGED <<mailcowVars, nextcloudVars, stateVars, counters>>

(* Mutant of Adoptable: the prefix is compared without the user *)
AdoptableOfAnyone(u, t) == UNION {Matching(t, Marker(v, t)) : v \in Users}

(* _looks_like_our_marker: the entries of mailbox t that adoption takes for u *)
Adoptable(u, t) == Matching(t, Marker(u, t))

AdoptScan(w) ==
    /\ At(w, "adopt")
    /\ \E t \in job[w].scan :
          LET next == [job[w] EXCEPT !.scan = @ \ {t}] IN
          \/ Become(w, IF Adoptable(job[w].user, t) = {} THEN next
                       ELSE [next EXCEPT !.pc = "adoptFind", !.target = t,
                                         !.ids = Adoptable(job[w].user, t)])
          \/ "call" \in Faults /\ Become(w, next)
    /\ UNCHANGED <<mailcowVars, nextcloudVars, stateVars, counters>>

(* A failing find_account_id adopts the password without an account *)
AdoptFind(w) ==
    /\ At(w, "adoptFind")
    /\ \E id \in job[w].ids,
          acc \in Lookups(job[w].user, job[w].target) \union
                    (IF "call" \in Faults THEN {None} ELSE {}) :
          Become(w, [job[w] EXCEPT !.pc = "adoptPut", !.ids = @ \ {id},
                                   !.pwd = id, !.acc = acc])
    /\ UNCHANGED <<mailcowVars, nextcloudVars, stateVars, counters>>

Adopted(j) ==
    LET next == [j EXCEPT !.adopted = @ \union {j.target}] IN
    IF j.ids = {} THEN Back(next, "adopt")
                  ELSE [next EXCEPT !.pc = "adoptFind", !.pwd = None, !.acc = None]

(* Mutant of RecordAdopted: the dry-run guard is dropped *)
RecordAdoptedAlways(j) == Upsert(j.user, j.target, j.pwd, j.acc)

RecordAdopted(j) ==
    IF j.dry THEN UNCHANGED stateVars
             ELSE Upsert(j.user, j.target, j.pwd, j.acc)

(* An exception of the upsert leaves reconcile_user *)
AdoptPut(w) ==
    /\ At(w, "adoptPut")
    /\ \/ RecordAdopted(job[w]) /\ Become(w, Adopted(job[w]))
       \/ "db" \in Faults /\ ~job[w].dry /\ End(w) /\ UNCHANGED stateVars
    /\ UNCHANGED <<mailcowVars, nextcloudVars, counters>>

(* Mutant of CurrentTargets: the rows are not read again after the adoption *)
CurrentUnread(j) == {}

CurrentTargets(j) == IF j.dry THEN j.adopted ELSE RowsOf(j.user)

AdoptDone(w) ==
    /\ At(w, "adopt")
    /\ job[w].scan = {}
    /\ Become(w, Planned(job[w], CurrentTargets(job[w])))
    /\ UNCHANGED <<mailcowVars, nextcloudVars, stateVars, counters>>

---------------------------------------------------------------------------
(* user_exists.  It answers no for a user who is not in Nextcloud, for one   *)
(* who is too new for the cached list, and when user:list fails; if it       *)
(* raises, the additions are tried.  So either answer is possible.           *)
Gate(w) ==
    /\ At(w, "gate")
    /\ \/ Become(w, [job[w] EXCEPT !.pc = "add"])
       \/ /\ job[w].toAdd # {} /\ ~job[w].dry
          /\ Become(w, [job[w] EXCEPT !.pc = "add", !.toAdd = {}, !.skipped = TRUE])
    /\ UNCHANGED <<mailcowVars, nextcloudVars, stateVars, counters>>

(* The next round of the add loop; a dry run returns from _add_target *)
StartAdd(w) ==
    /\ At(w, "add")
    /\ \E t \in job[w].toAdd :
          LET next == [job[w] EXCEPT !.toAdd = @ \ {t}] IN
          Become(w, IF job[w].dry THEN next
                    ELSE [next EXCEPT !.pc = "post", !.target = t])
    /\ UNCHANGED <<mailcowVars, nextcloudVars, stateVars, counters>>

(* add_app_passwd, its POST.  If that raises the target is given up. *)
PostAppPasswd(w) ==
    LET t == job[w].target IN
    /\ At(w, "post")
    /\ \/ /\ Issue(t, Marker(job[w].user, t))
          /\ Become(w, [job[w] EXCEPT !.pc = "find", !.secret = nextPwd])
       \/ /\ "lost" \in Faults
          /\ Issue(t, Marker(job[w].user, t))
          /\ Become(w, GivenUp(job[w], "add"))
       \/ /\ "call" \in Faults \/ t \notin mailboxes
          /\ Become(w, GivenUp(job[w], "add"))
          /\ UNCHANGED mailcowVars
    /\ UNCHANGED <<nextcloudVars, stateVars, counters>>

(* add_app_passwd, its list-and-find: an entry of that name, or an error *)
FindAppPasswd(w) ==
    LET found == FoundByName(job[w].target, Marker(job[w].user, job[w].target)) IN
    /\ At(w, "find")
    /\ \/ \E id \in found :
             Become(w, [job[w] EXCEPT !.pc = "create", !.pwd = id])
       \/ /\ "call" \in Faults \/ found = {}
          /\ Become(w, GivenUp(job[w], "add"))
    /\ UNCHANGED <<mailcowVars, nextcloudVars, stateVars, counters>>

CreateAccount(w) ==
    LET j == job[w] IN
    /\ At(w, "create")
    /\ \/ /\ OpenAccount(j.user, j.target, j.secret)
          /\ Become(w, [j EXCEPT !.pc = "lookup"])
       \/ /\ "lost" \in Faults
          /\ OpenAccount(j.user, j.target, j.secret)
          /\ Become(w, [j EXCEPT !.pc = "rollback"])
       \/ /\ "call" \in Faults
          /\ Become(w, [j EXCEPT !.pc = "rollback"])
          /\ UNCHANGED nextcloudVars
    /\ UNCHANGED <<mailcowVars, stateVars, counters>>

(* create_mail_account re-reads the id: a failing export gives None, one    *)
(* that times out raises                                                    *)
LookupAccount(w) ==
    /\ At(w, "lookup")
    /\ \/ \E acc \in Lookups(job[w].user, job[w].target) \union
                       (IF "call" \in Faults THEN {None} ELSE {}) :
             Become(w, [job[w] EXCEPT !.pc = "put", !.acc = acc])
       \/ "call" \in Faults /\ Become(w, [job[w] EXCEPT !.pc = "rollback"])
    /\ UNCHANGED <<mailcowVars, nextcloudVars, stateVars, counters>>

RollBack(w) ==
    /\ At(w, "rollback")
    /\ Become(w, GivenUp(job[w], "add"))
    /\ \/ Revoke(job[w].pwd)
       \/ "call" \in Faults /\ UNCHANGED mailcowVars
    /\ UNCHANGED <<nextcloudVars, stateVars, counters>>

PutRow(w) ==
    LET j == job[w] IN
    /\ At(w, "put")
    /\ \/ Upsert(j.user, j.target, j.pwd, j.acc) /\ Become(w, Back(j, "add"))
       \/ "db" \in Faults /\ Become(w, GivenUp(j, "add")) /\ UNCHANGED stateVars
    /\ UNCHANGED <<mailcowVars, nextcloudVars, counters>>

EndAdds(w) ==
    /\ At(w, "add")
    /\ job[w].toAdd = {}
    /\ Become(w, [job[w] EXCEPT !.pc = "remove"])
    /\ UNCHANGED <<mailcowVars, nextcloudVars, stateVars, counters>>

---------------------------------------------------------------------------
(* The next round of the remove loop.  A row that is gone meanwhile, or a   *)
(* dry run, needs nothing.                                                  *)
StartRemove(w) ==
    /\ At(w, "remove")
    /\ \E t \in job[w].toRemove :
          LET next == [job[w] EXCEPT !.toRemove = @ \ {t}]
              row  == rows[<<job[w].user, t>>]
          IN Become(w, IF job[w].dry \/ row = None THEN next
                       ELSE [next EXCEPT !.pc = "close", !.target = t,
                                         !.pwd = row.pwd, !.acc = row.acc])
    /\ UNCHANGED <<mailcowVars, nextcloudVars, stateVars, counters>>

(* The account goes first; a failure is logged and passed over *)
DeleteAccount(w) ==
    /\ At(w, "close")
    /\ Become(w, [job[w] EXCEPT !.pc = "revoke"])
    /\ IF job[w].acc = None THEN UNCHANGED nextcloudVars
       ELSE CloseAccount(job[w].acc) \/ ("call" \in Faults /\ UNCHANGED nextcloudVars)
    /\ UNCHANGED <<mailcowVars, stateVars, counters>>

DeleteAppPasswd(w) ==
    /\ At(w, "revoke")
    /\ Become(w, [job[w] EXCEPT !.pc = "forget"])
    /\ Revoke(job[w].pwd) \/ ("call" \in Faults /\ UNCHANGED mailcowVars)
    /\ UNCHANGED <<nextcloudVars, stateVars, counters>>

ForgetRow(w) ==
    /\ At(w, "forget")
    /\ \/ DeleteRow(job[w].user, job[w].target) /\ Become(w, Back(job[w], "remove"))
       \/ "db" \in Faults /\ Become(w, GivenUp(job[w], "remove")) /\ UNCHANGED stateVars
    /\ UNCHANGED <<mailcowVars, nextcloudVars, counters>>

Finish(w) ==
    /\ At(w, "remove")
    /\ job[w].toRemove = {}
    /\ End(w)
    /\ IF job[w].dry THEN UNCHANGED stateVars ELSE TouchUser(job[w].user)
    /\ UNCHANGED <<mailcowVars, nextcloudVars, counters>>

(* The request dies where it stands; with its process or with the `with'    *)
(* block, its lock is free again                                            *)
Crash(w) ==
    /\ "crash" \in Faults
    /\ ~At(w, "idle")
    /\ End(w)
    /\ UNCHANGED <<mailcowVars, nextcloudVars, stateVars, counters>>

---------------------------------------------------------------------------
(* What happens around the service *)
Event(kind) ==
    /\ kind \in Environment
    /\ happened < MaxEvents
    /\ happened' = happened + 1
    /\ UNCHANGED <<job, served>>

MailboxCreated ==
    /\ Event("mailbox")
    /\ \E m \in Targets : CreateMailbox(m)
    /\ UNCHANGED <<nextcloudVars, stateVars>>

MailboxDropped ==
    /\ Event("mailbox")
    /\ \E m \in Targets : DropMailbox(m)
    /\ UNCHANGED <<nextcloudVars, stateVars>>

ForeignPassword ==
    /\ Event("foreign")
    /\ \E m \in Targets, name \in Names \ SyncNames : Issue(m, name)
    /\ UNCHANGED <<nextcloudVars, stateVars>>

PasswordDeletedByHand ==
    /\ Event("foreign")
    /\ \E p \in pwds : Revoke(p.id)
    /\ UNCHANGED <<nextcloudVars, stateVars>>

AccountByHand ==
    /\ Event("account")
    /\ \E u \in Users, t \in Targets : OpenAccount(u, t, None)
    /\ UNCHANGED <<mailcowVars, stateVars>>

StateLost ==
    /\ Event("dbLoss")
    /\ \A w \in Workers : At(w, "idle")
    /\ LoseState
    /\ UNCHANGED <<mailcowVars, nextcloudVars>>

---------------------------------------------------------------------------
Adoption(w) == AdoptList(w) \/ AdoptScan(w) \/ AdoptFind(w) \/ AdoptPut(w) \/ AdoptDone(w)

Addition(w) ==
    \/ StartAdd(w) \/ PostAppPasswd(w) \/ FindAppPasswd(w) \/ CreateAccount(w)
    \/ LookupAccount(w) \/ RollBack(w) \/ PutRow(w) \/ EndAdds(w)

Removal(w) ==
    StartRemove(w) \/ DeleteAccount(w) \/ DeleteAppPasswd(w) \/ ForgetRow(w) \/ Finish(w)

(* The steps a worker takes on its own once it has a request *)
Work(w) ==
    \/ Acquire(w) \/ ListMailboxes(w) \/ ReadRows(w) \/ Adoption(w)
    \/ Gate(w) \/ Addition(w) \/ Removal(w)

Surroundings ==
    \/ MailboxCreated \/ MailboxDropped
    \/ ForeignPassword \/ PasswordDeletedByHand \/ AccountByHand
    \/ StateLost

(* All requests of the bounded behaviour are served *)
Rest ==
    /\ served = MaxRequests
    /\ \A w \in Workers : At(w, "idle")
    /\ UNCHANGED vars

Next ==
    \/ \E w \in Workers : Receive(w) \/ Work(w) \/ Crash(w)
    \/ Surroundings
    \/ Rest

Spec == Init /\ [][Next]_vars

(* gunicorn schedules its workers and every remote call has a timeout *)
FairSpec == Spec /\ \A w \in Workers : WF_vars(Work(w))

---------------------------------------------------------------------------
(* Properties.  Which failures and which surroundings each one stands under *)
(* is the choice of the run that checks it.                                 *)

(* id, if Mailcow still has it, is the entry minted for (u, t) in mailbox t *)
MintedFor(id, u, t) ==
    \A p \in pwds : p.id = id => p.mailbox = t /\ p.name = Marker(u, t)

(* Whatever fails, and however many processes serve one user: the app-password *)
(* a sync_mailboxes row names, and which _remove_target will delete by its bare *)
(* id, is the one that carries the marker of that user and target -- or is gone. *)
RecordedIsOurs ==
    \A u \in Users, t \in Targets :
       rows[<<u, t>>] # None => MintedFor(rows[<<u, t>>].pwd, u, t)

(* A request deletes no app-password but those that carry the marker of its    *)
(* own user, for the mailbox they are in: tb-setup entries, those made by      *)
(* people and those of other users are never deleted by a reconcile.           *)
DeletesOnlyOwn ==
    [][\A p \in pwds \ pwds', w \in Workers :
          job'[w] # job[w] => p.name = Marker(job[w].user, p.mailbox)]_vars

(* Between two requests for a user the ledger is exact: each live sync entry *)
(* of a user the service has finished with once is the one in its row.  (An  *)
(* entry that no row names is a credential nobody will ever revoke.)         *)
LedgerExact ==
    \A u \in seen : ~Busy(u) =>
       \A p \in pwds, t \in Targets :
          p.name = Marker(u, t) => rows[<<u, t>>] # None /\ rows[<<u, t>>].pwd = p.id

(* Between two requests for a user, the password and the account of a row     *)
(* belong together: the recorded account exists, is this user's account for   *)
(* this address and logs in with the recorded app-password.                   *)
PairComplete ==
    \A u \in Users, t \in Targets :
       rows[<<u, t>>] # None /\ ~Busy(u) =>
          \E a \in accounts : /\ a.id = rows[<<u, t>>].acc
                              /\ a.user = u /\ a.email = t
                              /\ a.secret = rows[<<u, t>>].pwd

(* "Delete NC first": a removal never deletes an app-password while an       *)
(* account that logs in with it is left behind, whatever was adopted before. *)
NoAccountOutlivesPwd ==
    [][\A p \in pwds \ pwds', a \in accounts' :
          p.mailbox \in mailboxes' => a.secret # p.id]_vars

(* When a request that is not a dry run gets to touch_user, the user has no   *)
(* row left outside what the request found actionable, even if calls failed   *)
(* on the way and even for rows that were only adopted in this very request.  *)
FinishClears ==
    [][\A w \in Workers :
          At(w, "remove") /\ ~job[w].dry /\ job[w].user \in seen' /\ job'[w] = IdleJob
             => RowsOf(job[w].user) \subseteq job[w].want]_vars

(* ... and, if it answers without errors and did not skip the additions for   *)
(* want of a Nextcloud user, exactly one row for every actionable target: no  *)
(* failure that leaves a target undone is passed over in silence.             *)
FinishConverges ==
    [][\A w \in Workers :
          LET j == job[w] IN
          (/\ At(w, "remove") /\ j.toRemove = {} /\ job'[w] = IdleJob
           /\ ~j.dry /\ ~j.skipped /\ ~j.errors /\ j.user \in seen')
          => RowsOf(j.user) = j.want]_vars

(* A request forgets a row only when the app-password it named is gone, also  *)
(* when earlier requests died half-way through the removal: what is forgotten *)
(* is never deleted again.                                                    *)
ForgetsOnlyRevoked ==
    [][\A u \in Users, t \in Targets :
          rows[<<u, t>>] # None /\ rows'[<<u, t>>] = None /\ job' # job =>
             \A p \in pwds' : p.id # rows[<<u, t>>].pwd]_vars

(* The table tracks "what we have already provisioned so we can identify our  *)
(* own objects later for cleanup" (app/state.py).  A row goes while the       *)
(* app-password it named is alive only if no other row of the user stays:     *)
(* without rows the next request adopts by marker and finds it, with one left *)
(* it never looks.                                                            *)
ForgetsOnlyFindable ==
    [][\A w \in Workers, t \in Targets :
          LET u == job[w].user IN
          /\ job'[w] # job[w] /\ u # None
          /\ rows[<<u, t>>] # None /\ rows'[<<u, t>>] = None
          /\ \E p \in pwds' : p.id = rows[<<u, t>>].pwd
          => RowsOf(u)' \subseteq job[w].toRemove]_vars

(* A dry run "computes the diff without touching" anything: while only dry     *)
(* runs are in progress, nothing but the surroundings changes any store.       *)
DryRunChangesNothing ==
    [][\A w \in Workers : job[w].dry /\ job'[w] # job[w] =>
          UNCHANGED <<mailcowVars, nextcloudVars, stateVars>>]_vars

(* The sweep looks for orphans among sync_users_seen.  Between two requests   *)
(* every user with a row is there, also when calls fail: nobody's rows are    *)
(* out of the garbage collection's sight.                                     *)
RowsMeanSeen ==
    \A u \in Users : RowsOf(u) # {} /\ ~Busy(u) => u \in seen

(* Every request that is received comes to its end, also when it has to wait  *)
(* for another one of the same user.                                          *)
RequestsEnd == \A w \in Workers : ~At(w, "idle") ~> At(w, "idle")

=============================================================================
