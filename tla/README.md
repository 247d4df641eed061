# A TLA+ model of authentik-mailbox-sync

The service takes Authentik's group claims as the truth and makes Mailcow
(app-passwords, sharing) and Nextcloud (mail accounts) agree with them. It keeps
a small SQLite database of what it made, so that it can delete its own objects
later and nobody else's. What is hard about it is not any single call but the
order of many: each request is a sequence of remote calls that can fail half-way,
two gunicorn processes serve requests at the same time, and credentials are
deleted by a bare numeric id that was read some steps earlier.

## Inventory

| Component | Source | State it keeps | Operations |
|---|---|---|---|
| Credential pairs | `app/reconcile.py` 66-279, 635-701 | none of its own: the locals of a request | `reconcile_user`, `adopt_from_markers`, `_add_target`, `_remove_target` |
| Locks | `app/locks.py` | `_pool`, `_pool_lock`, per process | `per_key_lock` |
| State database | `app/state.py` | `sync_mailboxes`, `sync_users_seen`, `tb_setup_pwds` | `get_for_user`, `get`, `upsert`, `delete`, `touch_user`, `known_users`, `tb_*` |
| Mailcow client | `app/mailcow/api.py` | Mailcow's mailboxes and app-passwords | `list_mailboxes`, `list_app_passwds`, `add_app_passwd`, `delete_app_passwd`, `edit_mailbox_sender_acl` |
| Nextcloud client | `app/nextcloud/occ.py` | Nextcloud's mail accounts; a 60 s cache of user ids | `user_exists`, `find_account_id`, `create_mail_account`, `delete_mail_account` |
| Thunderbird setup | `app/webhook.py` 300-417, `app/reconcile.py` 338-381 | `tb_setup_pwds` | `/my-accounts`, `_cleanup_tb_setup` |
| Authentik client | `app/authentik.py` | none | `list_users_raw`, `group_index`, `with_ancestors`, `list_users_for_sync` |
| Sweep, webhooks | `app/webhook.py` 185-290 | none | `/reconcile`, `/reconcile-all` |
| Sharing | `app/reconcile.py` 302-313, 384-582, `mailcow/db.py`, `mailcow/dovecot.py`, `sogo/prefs.py` | sender_acl, Dovecot ACLs, SOGo profiles | `_reconcile_sharing`: `get_all_sender_acls`, `edit_mailbox_sender_acl`, `get_rights_for_user`, `grant`, `revoke`, `remove_self_entries`, `set_user_delegate_from`, `add_`/`remove_user_..._delegate_to` |
| SOGo's cache | `mailcow/memcached.py`, `app/reconcile.py` 328-330 | what SOGo shows | `flush_all` |
| Nextcloud mail database | `app/reconcile.py` 288-300, 585-632, `nextcloud/sieve.py` | Sieve and folder columns | `get_account_id`, `ensure_sieve_settings`, `enforce_special_folders` |
| Token and OIDC checks, signatures, `/healthz` | `auth.py`, `oidc.py`, `signatures.py`, `webhook.py` | a JWKS cache | gates, a template file |

A webhook, or one user of a batch or of the sweep, runs `reconcile_user` under the
lock of that user's address. It reads Mailcow's mailboxes and the user's rows
(adopting app-passwords by their marker if there are no rows), computes `to_add`
and `to_remove`, and works through both, one app-password, one account and one
row per target. Then come the Nextcloud mail database of every account that is
left, the sharing of every mailbox of the domain, the cleanup of Thunderbird's
app-passwords, the flush of SOGo's cache and `touch_user`. `/my-accounts` runs beside it, without a lock, on the same
app-password table of Mailcow and a table of its own. The sweep computes each
user's payload from Authentik and reconciles everybody, then everybody in
`sync_users_seen` whom it did not find.

What makes each part correct:

- *Credential pairs*: an id on record is the service's own; password and account
  of a row belong together; nothing live is forgotten; what is left after a
  request is what was asked for; a failure of one call does not spread.
- *Locks*: one block per key at a time, keys independent of each other.
- *Thunderbird setup*: one credential per device and target, the recorded one is
  the one handed out, a lost entitlement revokes it, the two life cycles never cross.
- *Sharing*: after a request the user's slice of every mailbox is as granted, in all
  four places it is kept; everybody else's entries are as they were; SOGo shows it.
- *Nextcloud mail database*: each managed account has its settings, nothing but drift
  is repaired, and one failing step does not keep the next from being done.
- *Authentik client*: the ancestors, all of them and nothing else, also with loops.
- *Sweep*: only vanished users are collected; whatever raced before, it converges.

`PROJECT.json` lists under `hazards` where this is hard to test.

## Modules

| Module | Models | State and actions against the code |
|---|---|---|
| `SyncConstants` | the users, mailboxes and devices everybody speaks about | |
| `AppPasswords` | Mailcow as the client uses it | `pwds` is the app-password table; `Issue` is the POST, `FoundByName` the list-and-find (any entry of the name, since Mailcow's order is not ours), `Revoke` the delete by id. Ids are never reused. |
| `NcAccounts` | Nextcloud Mail as the client uses it | `secret` stands for the password an account logs in with |
| `SyncState` | `sync_mailboxes`, `sync_users_seen` | each method of `StateDB` is one transaction, so one step |
| `ReconcileTargets` | `reconcile_user` for the pairs | `job[w]` holds the locals of the request worker `w` serves; `pc` names its position; one action per remote call or statement, in the order of the code, with the alternatives in which the call raises. `Crash` drops the request: the process is killed, or an exception leaves `reconcile_user`. |
| `KeyedMutex`, `PerKeyLock` | the abstract mutex per key; `locks.py` line by line | the refinement maps each thread to the key of the block it is in |
| `TbSetup` | `/my-accounts` and `_cleanup_tb_setup` | `tbRows` is `tb_setup_pwds`; `handed` is a history variable: the credential each device was given last. `Others` are the sync's life cycle, other programs and people, who keep entries in the same table of Mailcow |
| `SharingStores` | sender_acl, Dovecot's ACLs, SOGo's profiles and its cache | `ReplaceSenders` is the full replace of the API, `SetRights` one `doveadm acl` call, `SetDelegateFrom` (which writes both `delegateFrom` and `othersFolders`) and `PatchDelegateTo` one transaction each; `stale` is a history variable: what was changed since the last flush |
| `NcMailDb` | `oc_mail_accounts`, `oc_mail_mailboxes` | `UniqueAccount` and `Resolvable` are the two "exactly one row" rules, `Drifted` the three conditions of a repair |
| `Provisioning` | `_provision_nc_maildb`, `_reconcile_sharing`, the flush | `job[w]` holds the snapshots (`acls`, `dts`, `cols`, `fixes`) and loops of the request; `Call` is a call that writes, `Read` one that reads, `Raises` its failure; `disturbed` is a history variable: which failures, edits and overlaps there have been |
| `GroupClosure` | `with_ancestors` and the union over groups | `stack` counts how often a key lies on the stack; which element is popped is left open, since the result must not depend on it |
| `Sweep` | `/reconcile-all`, `/reconcile`, Authentik's pages | one `reconcile_user` is one step (`Reconciled`, `Failed`); `held` are the rows of `sync_mailboxes`, `minted` those of `tb_setup_pwds`, which `Mint` (`/my-accounts`) adds to; `cached` is the list of Nextcloud's users that each process keeps (`_user_cache`), `Expire` the end of its 60 seconds; `since` is a history variable that says who was present since a sweep began, whether anything disturbed it, and which of Nextcloud's users a list lacked that its process still kept at the beginning |
| `MC*` | constants and symmetry sets for TLC | |
| `*_proofs` | the theorems about the module of that name; `Convergence_proofs` those about what `Provisioning` reaches, on top of `Provisioning_proofs`; `AppPasswords_proofs` the lemmas two of them share | |

Composition: `ReconcileTargets` EXTENDS `AppPasswords`, `NcAccounts`, `SyncState`;
`TbSetup` EXTENDS `AppPasswords`; `PerKeyLock` INSTANCEs `KeyedMutex`. In
`ReconcileTargets` and `TbSetup` the lock is what `PerKeyLock` is proved to
implement: exclusion per key, between the threads of one process. In `TbSetup` the
cleanup starts with any set of existing mailboxes as `actionable`, a superset of
what the rest of `reconcile_user` hands to it. `Provisioning` EXTENDS
`SharingStores` and `NcMailDb`; it starts with any set of actionable mailboxes and any
part of them as the accounts to look after, so it contains whatever the first half
of `reconcile_user` hands over. `Sweep` takes from `ReconcileTargets`
what `FinishConverges` says of an undisturbed request and allows a failed one any
part of its changes, to the pairs and to Thunderbird's app-passwords alike.

Abstractions. Targets, users and devices are model values; markers are tuples
(the code's marker strings are injective over addresses and device ids, which
contain no colon). Passwords are the id of the app-password minted with them. A
`sorted` loop takes its elements in any order. A lookup that may see several
entries returns any of them. In `ReconcileTargets` `user_exists` may give either
answer, which covers its cache, its failures and the user who is not there; `Sweep`,
which promises something about who is skipped, has the cache and its failures. `None` ids that a healthy
Mailcow never returns are left out of `pwd`.

In `Provisioning` a person has no rights, some or all of them on a folder; Sieve's
columns are unset, other or the service's; folders are resolved by name. The two halves
of it have no state in common, so TLC takes a deployment with the database client or
one with the mail database, and starts the other half from a single state. The theorems
are about every deployment. What the service finds in Dovecot is the same right on all
folders of a mailbox (what `grant` leaves behind), except owners' entries.

Reading guide to the faults: `call` is a remote call that raises without effect,
`lost` one that took effect and raises, `db` a database write that is refused,
`crash` a request that ends where it stands; in `Provisioning`, `rc` is a command that
fails and whose caller goes on without it, `flush` an unreachable memcached.

## Runs

Each run asks one question. The bounds are in the `.cfg`: 2 users or 1, 2 targets
or 1, 2 workers, 1 to 4 requests (`MaxRequests`), up to 3 failures or events
(`MaxEvents`), and in the runs of `TbSetup` ids up to `MaxOthers` for the entries of others.

| Run | Shows | Why the bounds are enough |
|---|---|---|
| `serial` | `PairComplete`, `LedgerExact`, `NoAccountOutlivesPwd`, `ForgetsOnlyRevoked`, `DryRunChangesNothing`: one process, no faults, real and dry runs, the database lost once | add, lose and adopt, remove: three requests, the dry one anywhere among them |
| `calls` | `RowsMeanSeen`, `FinishClears`, `FinishConverges`, `RequestsEnd` when calls fail before or after they took effect | an addition that half-fails, then a removal or a retry; the two may wait for each other's lock |
| `two_processes` | `TypeOK`, `RecordedIsOurs`, `DeletesOnlyOwn` under all faults and surroundings | two users and two processes interleave freely; proved without bounds below |
| `locks` | `TypeOK`, `ImplementsMutex`, `OthersDoNotBlock` | three threads race for the first lock of two keys; a holder may stay inside for ever |
| `tb_serial` | `NoSprawl`, `RowIsHanded`, `SweepRevokes` with one worker, mailboxes dropped and entries of others added and deleted at any time | two devices, two targets, three requests: a mint, a re-run, a cleanup; an entry of somebody else before, between or after them |
| `tb_races` | `TypeOK`, `TbRecordedIsOurs`, `TbDeletesOnlyOwn`, `TbForgetsOnlyRevoked` under all faults, beside entries of the sync and of other programs | two processes, three requests (two that race, and one after them), two users, two entries of others |
| `groups` | `TypeOK`, `ClosureExact`, `PayloadExact`, `WalkEnds` | every relation over three groups: all loops, diamonds and gaps; the inputs that differ by names only are taken once |
| `sweep` | `TypeOK`, `CollectsOnlyVanished`, `SweepConverges`, `EventuallyExact` | pages of one user; any three events or failures, among them a `user:list` that fails, fall between the steps of a sweep, beside a webhook, with a list of users that may be out of date |
| `provisioning` | `TypeOK`, `SharingConverges`, `InboxSpeaks`, `OthersKept`, `OnlyOwnEntries`, `CacheFlushed`, `DryRunWritesNothing`, `MailDbConverges`, `MailDbRepairsOnly` | two requests (of one user, of two, or a batch), two folders, a partial grant and an owner's entry to begin with, two accounts of one address and two folders of one name; one failure, edit or overlap anywhere |

Three runs show where the code does not do what is said of it:

| Run | What the code does | What is said of it |
|---|---|---|
| `forgets` (`ForgetsOnlyFindable`) | the row goes even if the delete of the app-password failed; adoption by marker would find it again, but runs only for a user without rows, and this one keeps another | `state.py` 3-6: identify our own objects later |
| `sweep_misses` | an app-password minted for a user whom no reconcile has served stays when that user has left, since only `reconcile_user` enters users in `sync_users_seen`; no failure is needed | `webhook.py` 7-9: vanished users "but still have rows in our state DB" |
| `no_db` | without a database client a sender_acl is replaced by the one user who is added | `reconcile.py` 402, 412-414: other entries are not touched, sender_acl is skipped |

Four more were met and have no run:

- `locks.py` 1 says that requests for one user serialize; the pool is a variable of one
  of two processes (`Dockerfile` 29), so across them they do not.
- `README.md` 131-132 says a re-run for a device leaves "no sprawl"; two concurrent calls
  read the same prior and both mint. `NoSprawl` is checked for one worker, and proved
  for any number of them as long as the requests for a device take turns.
- A `reconcile_user` that dies after it wrote rows and before `touch_user` leaves rows
  that `sweep_misses` is about as well.
- The locks are called reentrant in `locks.py` 1; a `threading.Lock` is not.
  `reconcile_user` does not nest, so no nesting is modelled.

What the other properties do not claim:

- `PairComplete`, `LedgerExact` and `NoAccountOutlivesPwd` stand under no faults and
  where the requests of a user do not overlap, as in one process. With two processes the lock does not help. A call that
  fails after the POST leaves an entry no row names; after a crash at that place
  adoption records the half that is there, without an account; a failing
  `delete_mail_account` leaves an account whose password goes.
- `RowsMeanSeen` needs requests that get to their end (`sweep_misses` shows why), and
  so does the `known` of `EventuallyExact` and `SweepConverges`.
- `SweepRevokes` needs a worker that does not die between the mint and `tb_upsert`.
- `TbForgetsOnlyRevoked` speaks of the id the request took from the row. A cleanup that
  races with a mint may delete the row the mint has just written, whose id is another.
- `SweepConverges` promises all rows to a user of Nextcloud whom no list lacked that
  the sweep's process still kept when the sweep began. Who logged in within the 60
  seconds before may be skipped (`occ.py` 57, `reconcile.py` 248), without an error. So
  may everybody when `user:list` fails and counts as an empty list (`occ.py` 60-64; one
  with other output is even kept, 65-73); such a sweep counts as disturbed. That the
  skipped ones catch up is `EventuallyExact`.
- `CollectsOnlyVanished` excludes sweeps during which somebody left: then the pages
  shift up and the first user of the next one is not listed.
- `SweepConverges` lets a vanished user keep the row of the own mailbox: the garbage
  collection reconciles with that address, and the row stays while the mailbox exists.
- `RecordedIsOurs` is about app-passwords only. A mail account is found by its address
  alone (`occ.py` 89), so one the user made by hand can be recorded and deleted.
- That every row's password is alive is promised nowhere, and false: a mailbox that is
  deleted and made again between two requests has lost its app-passwords, and the row
  makes the target look done (`reconcile.py` 229).
- `SharingConverges` demands the place in sender_acl only of requests that overlapped with
  no other: the list is written back whole from a snapshot, and the later of two
  writers wins. It demands rights at INBOX only, since a folder made later gets none
  while INBOX looks right, and it demands that no `doveadm` command failed, since a
  failed `acl set` on a folder is logged and never repaired. Owners' entries are gone
  unless a call failed: a mailbox is entered in `self_entry_seen` before it is probed.
  The owner's own request passes over the own mailbox, so its entry goes with
  somebody else's request.
- `OthersKept` needs a snapshot that could be read and nobody who writes in between:
  both losses are real (`no_db` shows the first without any failure). `OnlyOwnEntries` needs nothing:
  Dovecot and SOGo are changed entry by entry.
- `SharingConverges` says nothing of `Mail.OtherUsersFolders`. It is written together with
  `Mail.DelegateFrom` and should mirror the same list (`reconcile.py` 433), but only
  `DelegateFrom` is compared (438-439), so where the other list alone has drifted
  it stays. The runs begin with such a drift; `OnlyOwnEntries` covers both lists.
- `CacheFlushed` excepts what the code cannot know it changed: a call whose answer was
  lost, a walk over folders that raised half-way, and a request that died.
- `MailDbRepairsOnly` does not say that a folder chosen between the SELECT and the UPDATE
  survives; it does not.

Deadlock is checked except in `groups`, whose walk ends. Requests that are all served
and workers that all rest are the step `Rest`. Symmetry is used only in runs without
liveness properties.

Fairness. `ReconcileTargets`: each worker goes on with its request, because gunicorn
schedules its threads and every remote call has a timeout; nothing is assumed of new
requests or of the surroundings. `PerKeyLock`: threads run; who waits for the pool's
lock gets it (strong fairness: it is held for three statements and released again and
again); nobody has to call and nobody has to leave a block. `Sweep`: cron calls the sweep again and again,
a request goes on, a webhook that was sent is served, and 60 seconds pass (`Expire`). `GroupClosure`: the loop runs.

## Proofs

All theorems hold for every value of the constants: any users, targets, devices,
folders, threads and processes, any number of requests and events. Where a statement
needs more, the table says what; "in turn" is defined below.

| Theorem | Statement | Hypotheses | Argument |
|---|---|---|---|
| `TypeCorrect` | `Spec => []TypeOK` | | part of `IInv` |
| `RecordedIdsAreOurs` | `Spec => []RecordedIsOurs` | | `IInv` |
| `ReconcileDeletesOnlyOwn` | `Spec => DeletesOnlyOwn` | | `IInv` |
| `DryRunsChangeNothing` | `Spec => DryRunChangesNothing` | | `DryInv` |
| `RowsAreSeen` | `Spec => []RowsMeanSeen` | faults: calls, lost answers | `SeenInv` |
| `FinishesCleared` | `FinishClears` | in turn; faults: calls, lost answers | `PlanInv` |
| `FinishesConverged` | `FinishConverges` | in turn | `PlanInv` |
| `ForgottenAreRevoked` | `ForgetsOnlyRevoked` | in turn; no call fails without effect | `ForgetInv` |
| `PairsAreComplete`, `LedgerIsExact`, `AccountsGoFirst` | `PairComplete`, `LedgerExact`, `NoAccountOutlivesPwd` | in turn; no faults, the database lost at any time | `PairInv` |
| `InOneProcess` | the last six | one process; no faults, the database lost at any time | `LockSerializes` |
| `TbTypeCorrect`, `TbRecordedIdsAreOurs`, `TbSetupDeletesOnlyOwn` | `TypeOK`, `TbRecordedIsOurs`, `TbDeletesOnlyOwn` | | `IInv` of `TbSetup` |
| `TbForgottenAreRevoked` | `Spec => TbForgetsOnlyRevoked` | | `ForgetInv` of `TbSetup` |
| `TbDoesNotSprawl`, `TbRowsAreHanded`, `TbSweepRevokes` | `NoSprawl`, `RowIsHanded`, `SweepRevokes` | no faults; requests for a device in turn | `SInv` |
| `TypeCorrect` (`Provisioning_proofs`) | `Spec => []TypeOK` | | `IInv` of `Provisioning` |
| `DryRunsWriteNothing` | `Spec => DryRunWritesNothing` | | a dry run never is at a step that writes |
| `OnlyOwnEntriesChange` | `Spec => OnlyOwnEntries` | | each step by itself, on `IInv` |
| `MailDbIsRepaired` | `Spec => MailDbRepairsOnly` | | `MailInv` |
| `OthersAreKept` | `Spec => OthersKept` | | `KInv` |
| `CacheIsFlushed` | `Spec => []CacheFlushed` | | `CacheInv` |
| `MailDbIsConverged` | `Spec => MailDbConverges` | | `SettledInv` |
| `InboxIsRepresentative` | `[]InboxSpeaks` | in turn | `InboxInv` |
| `SharingIsConverged` | `SharingConverges` | in turn | `ShareInv` |
| `SharingInOneProcess` | the last two | one process | `LockSerializes` |
| `SweepTypeCorrect` | `Spec => []TypeOK` | | `TypeInv` |
| `OnlyVanishedAreCollected` | `Spec => CollectsOnlyVanished` | | `CollectInv` |
| `UndisturbedConverges` | `Spec => SweepConverges` | | `ConvergeInv` |
| `LockTypeCorrect` | `Spec => []TypeOK` | | a thread inside holds the lock the pool has for its key |
| `LockImplementsMutex` | `Spec => ImplementsMutex` | | every step is an entry where nobody else is inside, an exit, or invisible |
| `ClosureTypeCorrect`, `ClosureIsExact` | `Spec => []TypeOK`, `Spec => []ClosureExact` | | what was pushed is reachable; what is reachable is seen or on the stack |
| `PayloadIsExact` | `Spec => []PayloadExact` | | from the closure |

### The hypotheses

*In turn* is `Spec /\ []Serial`: no two requests of one user are between taking the
lock and their end. It is a hypothesis on behaviours and not on constants because the
code does not guarantee it: gunicorn starts two processes (`Dockerfile` 29), and the lock is a
variable of one. Inside one process it does, and `LockSerializes` proves it
(`ASSUME SingleProcess PROVE Spec => []Serial`); the corollaries `InOneProcess` and
`SharingInOneProcess` put the two together. So the theorems say of the deployment with
two processes what is true of it: everything holds while the requests for a user happen
not to meet. Requests of different users may always interleave. For `TbSetup` the
hypothesis is `[]InTurn`, which nothing in the code establishes, since `/my-accounts`
takes no lock: no two requests for one device of a user overlap, and a
cleanup overlaps with no request of its user.

*Faults* are those of the run that checks the property, or more. `FinishConverges` needs
no restriction at all: whatever fails is reported, and a request that reports nothing has
done everything. `FinishClears` speaks of requests that may report errors, and is
false when a row could not be deleted. `ForgetsOnlyRevoked` is false with calls that fail
(run `forgets`), and the proof shows that nothing else breaks it. The three that need
`Faults = {}` are about pairs of objects that no transaction covers: a lost answer
leaves half of one.

### The arguments

*`ReconcileTargets`.* `RecordedIsOurs` is not inductive: a row is written from the
locals of a request, several steps after they were read, and in between other workers
and people delete and mint. The strengthening `IInv`
adds that every live entry has an id below `nextPwd`, that ids identify entries, and
that an id in the locals of a request at the positions where it will be recorded or
deleted is, if it is still alive, one minted for this user and target. Since ids are
never reused, an entry that dies stays dead.

`DryInv` says at which steps a dry run can be; none of them writes. `SeenInv` follows a
user with rows: entered in `sync_users_seen`, or with a request on the way whose end
will enter them; a user can miss that only by a request that dies or a
write that is refused, which the hypothesis excludes.

`PlanInv` is about the diff. From `to_add` and `to_remove` on, each row of the user is
at every step one of the wanted, of those still to be removed, or of the round of the
removal loop; each wanted target has its row, is still to be added, or is in the round of the other
loop. The first needs that no row's deletion was refused or that it was noted as an error, the second that
no error was noted. `Serial` keeps other requests from changing the rows meanwhile.
`ForgetInv` adds what is known of the
row in the round of the removal loop: that its app-password is gone by the time
the request deletes the row.

`PairInv` cuts the state into cells, one for each user and target: the row, the
entries with their marker, the accounts of that address. A cell is settled, or it belongs to
the one request in whose round it is, and then has the shape of that round's step:
minted, found, given an account, recorded, and the same for adoption and
removal. A step changes the cell of its own round and no other, which is stated once for each
kind of change (the shape lemmas). Between requests all cells are settled, which is
`PairComplete` and `LedgerExact`; the order of the removal is in the shape of its round.

*`TbSetup`.* `IInv` is the same over `tb_setup_pwds`, with one difference: the
rows a cleanup has read are snapshots that a mint may overtake, so what is kept of
them is that their id is dead or still one of that user, target and device. What
minting, revoking and dropping a mailbox do to ids is stated once, in `AppPasswords_proofs`
(`IdsStable`, `MatchingBelongs`, `IssueGrows`, `RevokeShrinks`, `DropShrinks`); the same
lemmas serve the entries of others (`OthersMove`), which never carry a marker of this life
cycle: an id on record that is alive is of a tb-setup entry, so deleting by it hits none of theirs.
`ForgetInv` adds that the id a request is about to forget is dead. `SInv` says that
a live entry is the one in its row unless a request has just minted it for that row
(`Tracked`), that rows are for what was handed out, and what a request knows of the table
where nobody disturbs it (`SerialJob`); a step is `Confined` to one row and one
marker, so what the other requests know stays true (`OthersSerial`).

*`Provisioning`.* `IInv` adds to the types what the locals of a request are worth at
each of its steps (`JobSound`): whose account is at hand, that it belongs to a managed
target, that the mailbox of a round is not the user's own, and that a dry run is at none
of the steps before a write. `MailInv` adds that columns to be fixed were set, and that
the folders chosen for them belong to that account and carry the local name, which
holds from the SELECT to the UPDATE because the ids of accounts and folders are never
reused, whatever happens to the tables in between; an account that was unique when
it was looked up stays so unless a person adds another. `KInv` is the argument for
sender_acl: as long as nothing but a quiet edit between requests has happened (`Calm`), at most one
request runs (`Alone`), and its snapshot is the truth for every mailbox that is still
to come (`SnapSound`), so writing it back whole changes one entry. The
two hypotheses inside `OthersKept` are what these two conjuncts need.

`CacheInv` says that what is stale was changed by a request that still runs and knows
of it (`changed`), or was lost in one of the ways `CacheFlushed` names.
`SettledInv` says that the accounts a request has passed are as they should be, or their
step is on record as failed, and that other requests, which repair
towards the same settings, do not undo it. `InboxInv` says that no folder of a mailbox gives a
user more than INBOX, but for a walk that is under way. `ShareInv` says it of the mailboxes the
request has passed: each of the four places is as granted, or an error is on record, or one of
the named disturbances has happened; and that a batch has probed a mailbox for
owners' entries once it is in `self_entry_seen`.

*`Sweep`.* `TypeInv` adds the types of the sweep's locals. `CollectInv` follows a user who was
listed when the sweep began: while nobody has left the list, the user is in a page
already read or at a place ahead of the next one, since those who join, wherever
they are put, only push others to later places; so `seen_users` has everybody who stayed, and what is collected, taken from
`sync_users_seen` after the last page, has none of them.
`ConvergeInv` adds, of a sweep that nothing disturbed, that the payload of a user is
the one of the directory, that the users already reconciled are settled, and that the pages
have listed exactly the members; each user's rows change with that user's
own reconcile only. Of the list of users it says that the process's list, whether it is the one
kept when the sweep began or one read since, lacks nobody but those of `unlisted`
(`ListsStill`), so a user who is reconciled and not among them gets all rows. `SweepAssumption` asks for a finite set of users, since a page is a
sequence of them.

*`PerKeyLock`.* The invariant says that the pool maps keys to different locks, that a
thread between `get` and `make` holds the pool's lock and its key still has none, and
that a thread in its block holds the lock the pool has for its key.

*`GroupClosure`.* The invariant says that all keys seen or on the stack lie in each
set closed under inheritance, that direct groups are seen or on the stack, and that
the known parents of a seen group are, too.

### Only model-checked

What holds under fairness: `RequestsEnd`, `OthersDoNotBlock`, `WalkEnds`,
`EventuallyExact`. The prover does not reason about ENABLED. Every invariant and action
property that a passing run checks is also proved. The three runs that show a violation are, by their nature, TLC's.

## Not modelled, and the plan

Left out for good: token and OIDC checks (one comparison and a library; they decide
which requests there are, and every request the models allow is one with a valid token),
signature templates, `/healthz`, start-up wiring, SQLite's own locking (the retry around
`PRAGMA journal_mode=WAL`), time stamps, and a Sieve configuration that fails
its validation, which makes the Sieve step raise at once.

Next, in this order:

1. An abstract ledger of credentials, a set of pairs per user that a request brings to the
   wanted one in single steps, and `ReconcileTargets` with requests in turn as its implementation:
   the refinement maps a settled cell of `PairInv` to a pair.
2. That `Reconciled`, the one step by which `Sweep` stands for a whole `reconcile_user`, is what
   `FinishesConverged` says of a request of `ReconcileTargets`.
3. `LedgerExact` under crashes, weakened to what adoption can recover.

## Running it

    tlc -workers 2 -config serial.cfg MCReconcileTargets
    tlapm ReconcileTargets_proofs.tla

`PROJECT.json` names the module of each `.cfg`, the source lines of each definition,
and for every property a mutant of the model that breaks it. The mutants are the
definitions whose comment begins with "Mutant of".
