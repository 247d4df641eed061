------------------------------ MODULE TbSetup ------------------------------
(***************************************************************************)
(* The tb-setup life cycle: GET /my-accounts of app/webhook.py mints one   *)
(* app-password per mailbox and device and hands its plaintext to the      *)
(* Thunderbird setup tool; _cleanup_tb_setup of app/reconcile.py revokes   *)
(* those of targets the user has lost.  Both keep the table tb_setup_pwds  *)
(* and find their entries in Mailcow by marker and by id.                  *)
(*                                                                         *)
(* The cleanup runs inside reconcile_user, under the per-key lock of its   *)
(* process and with the request's snapshot of actionable mailboxes.        *)
(* /my-accounts takes no lock at all.  A cleanup in a dry run, which only  *)
(* lists what it would revoke, is left out.                               *)
(***************************************************************************)
EXTENDS Naturals, AppPasswords

CONSTANTS Workers,      \* request threads
          Processes,    \* gunicorn worker processes
          ProcessOf,    \* the process each thread runs in
          Faults,       \* "call", "lost", "db", "crash": as in ReconcileTargets
          DropsMailboxes,  \* whether mailboxes are deleted
          MaxRequests,  \* bound: requests served in a behaviour
          MaxOthers     \* bound: the last id that others still add an entry with

ASSUME TbConstantsAssumption ==
    /\ ProcessOf \in [Workers -> Processes]
    /\ Faults \subseteq {"call", "lost", "db", "crash"}
    /\ DropsMailboxes \in BOOLEAN
    /\ MaxRequests \in Nat
    /\ MaxOthers \in Nat

VARIABLES tbRows,  \* tb_setup_pwds: the id recorded for each key, or None
          handed,  \* the credential each device was given last, or None
          tbJob,   \* the request each worker is serving
          served   \* requests received so far

vars == <<mailcowVars, tbRows, handed, tbJob, served>>

Key == Users \X Targets \X Devices

Labels == {"idle",
           "list", "next", "drop", "post", "find", "put",   \* my_accounts
           "read", "rows", "revoke", "forget"}              \* _cleanup_tb_setup

Snapshot == [target : Targets, device : Devices, pwd : Nat]

TbJob == [pc     : Labels,
          user   : Users \union {None},
          want   : SUBSET Targets,       \* desired, then actionable
          left   : SUBSET Targets,       \* mint: targets of the loop still to do
          rows   : SUBSET Snapshot,      \* cleanup: rows of the loop still to do
          target : Targets \union {None},
          device : Devices \union {None},
          pwd    : Nat \union {None},    \* prior's, the found or the row's id
          secret : Nat \union {None}]    \* the plaintext in `password'

IdleJob == [pc |-> "idle", user |-> None, want |-> {}, left |-> {}, rows |-> {},
            target |-> None, device |-> None, pwd |-> None, secret |-> None]

TypeOK ==
    /\ MailcowTypeOK
    /\ tbRows \in [Key -> Nat \union {None}]
    /\ handed \in [Key -> Nat \union {None}]
    /\ tbJob \in [Workers -> TbJob]
    /\ served \in Nat

Init ==
    /\ MailcowInit
    /\ tbRows = [k \in Key |-> None]
    /\ handed = [k \in Key |-> None]
    /\ tbJob = [w \in Workers |-> IdleJob]
    /\ served = 0

---------------------------------------------------------------------------
At(w, label) == tbJob[w].pc = label
Become(w, j) == tbJob' = [tbJob EXCEPT ![w] = j]
End(w) == Become(w, IdleJob)

Cleaning(w) == tbJob[w].pc \in {"read", "rows", "revoke", "forget"}

RowKey(j) == <<j.user, j.target, j.device>>
Name(j) == TbMarker(j.user, j.target, j.device)

(* The statements of app/state.py on tb_setup_pwds *)
TbGet(k) == tbRows[k]
TbUpsert(k, id) == tbRows' = [tbRows EXCEPT ![k] = id]
TbDelete(k) == tbRows' = [tbRows EXCEPT ![k] = None]

(* On to the next round of a loop *)
Back(j) ==
    IF j.pc \in {"revoke", "forget"}
    THEN [j EXCEPT !.pc = "rows", !.target = None, !.device = None, !.pwd = None]
    ELSE [j EXCEPT !.pc = "next", !.target = None, !.pwd = None, !.secret = None]

Received ==
    /\ served < MaxRequests
    /\ served' = served + 1
    /\ UNCHANGED <<mailcowVars, tbRows, handed>>

(* GET /my-accounts: the claims of a token may be older than the entitlements *)
ReceiveMint(w) ==
    /\ At(w, "idle")
    /\ Received
    /\ \E u \in Users, d \in Devices, claims \in SUBSET Targets :
          Become(w, [IdleJob EXCEPT !.pc = "list", !.user = u,
                                    !.device = d, !.want = claims])

(* list_mailboxes; a failure is answered with 502 *)
ListMailboxes(w) ==
    /\ At(w, "list")
    /\ \/ Become(w, [tbJob[w] EXCEPT !.pc = "next", !.want = @ \intersect mailboxes,
                                     !.left = tbJob[w].want \intersect mailboxes])
       \/ "call" \in Faults /\ End(w)
    /\ UNCHANGED <<mailcowVars, tbRows, handed, served>>

(* One round of the loop: tb_get, then the prior credential goes first *)
ReadPrior(w) ==
    /\ At(w, "next")
    /\ \E t \in tbJob[w].left :
          LET prior == TbGet(<<tbJob[w].user, t, tbJob[w].device>>) IN
          Become(w, [tbJob[w] EXCEPT !.left = @ \ {t}, !.target = t, !.pwd = prior,
                                     !.pc = IF prior = None THEN "post" ELSE "drop"])
    /\ UNCHANGED <<mailcowVars, tbRows, handed, served>>

DropPrior(w) ==
    /\ At(w, "drop")
    /\ \/ /\ Revoke(tbJob[w].pwd)
          /\ Become(w, [tbJob[w] EXCEPT !.pc = "post", !.pwd = None])
       \/ /\ "lost" \in Faults
          /\ Revoke(tbJob[w].pwd)
          /\ Become(w, Back(tbJob[w]))
       \/ /\ "call" \in Faults
          /\ Become(w, Back(tbJob[w]))
          /\ UNCHANGED mailcowVars
    /\ UNCHANGED <<tbRows, handed, served>>

(* add_app_passwd, its POST *)
PostAppPasswd(w) ==
    /\ At(w, "post")
    /\ \/ /\ Issue(tbJob[w].target, Name(tbJob[w]))
          /\ Become(w, [tbJob[w] EXCEPT !.pc = "find", !.secret = nextPwd])
       \/ /\ "lost" \in Faults
          /\ Issue(tbJob[w].target, Name(tbJob[w]))
          /\ Become(w, Back(tbJob[w]))
       \/ /\ "call" \in Faults \/ tbJob[w].target \notin mailboxes
          /\ Become(w, Back(tbJob[w]))
          /\ UNCHANGED mailcowVars
    /\ UNCHANGED <<tbRows, handed, served>>

(* add_app_passwd, its list-and-find *)
FindAppPasswd(w) ==
    LET found == FoundByName(tbJob[w].target, Name(tbJob[w])) IN
    /\ At(w, "find")
    /\ \/ \E id \in found :
             Become(w, [tbJob[w] EXCEPT !.pc = "put", !.pwd = id])
       \/ /\ "call" \in Faults \/ found = {}
          /\ Become(w, Back(tbJob[w]))
    /\ UNCHANGED <<mailcowVars, tbRows, handed, served>>

(* tb_upsert replaces the recorded id; the plaintext joins the answer *)
PutRow(w) ==
    LET j == tbJob[w] IN
    /\ At(w, "put")
    /\ Become(w, Back(j))
    /\ \/ /\ TbUpsert(RowKey(j), j.pwd)
          /\ handed' = [handed EXCEPT ![RowKey(j)] = j.secret]
       \/ "db" \in Faults /\ UNCHANGED <<tbRows, handed>>
    /\ UNCHANGED <<mailcowVars, served>>

Answer(w) ==
    /\ At(w, "next")
    /\ tbJob[w].left = {}
    /\ End(w)
    /\ UNCHANGED <<mailcowVars, tbRows, handed, served>>

---------------------------------------------------------------------------
SameLock(v, w, u) == ProcessOf[v] = ProcessOf[w] /\ tbJob[v].user = u

(* A reconcile of u that found the mailboxes `actionable' and holds its lock *)
BeginCleanup(w) ==
    /\ At(w, "idle")
    /\ Received
    /\ \E u \in Users, actionable \in SUBSET mailboxes :
          /\ \A v \in Workers : SameLock(v, w, u) => ~Cleaning(v)
          /\ Become(w, [IdleJob EXCEPT !.pc = "read", !.user = u, !.want = actionable])

RowOf(k) == [target |-> k[2], device |-> k[3], pwd |-> tbRows[k]]

(* Mutant of RowsToRevoke: compares with the mailboxes, not with actionable *)
RowsWithoutMailbox(j) ==
    {RowOf(k) : k \in {m \in Key : m[1] = j.user /\ m[2] \notin mailboxes /\ tbRows[m] # None}}

(* Mutant of RowsToRevoke: also the devices that have no row *)
RowsOrNot(j) ==
    {RowOf(k) : k \in {m \in Key : m[1] = j.user /\ m[2] \notin j.want}}

(* tb_get_for_user, without the rows the loop passes over *)
RowsToRevoke(j) ==
    {RowOf(k) : k \in {m \in Key : m[1] = j.user /\ m[2] \notin j.want /\ tbRows[m] # None}}

ReadRows(w) ==
    /\ At(w, "read")
    /\ \/ Become(w, [tbJob[w] EXCEPT !.pc = "rows", !.rows = RowsToRevoke(tbJob[w])])
       \/ "db" \in Faults /\ End(w)
    /\ UNCHANGED <<mailcowVars, tbRows, handed, served>>

StartRevoke(w) ==
    /\ At(w, "rows")
    /\ \E s \in tbJob[w].rows :
          Become(w, [tbJob[w] EXCEPT !.pc = "revoke", !.rows = @ \ {s},
                                     !.target = s.target, !.device = s.device,
                                     !.pwd = s.pwd])
    /\ UNCHANGED <<mailcowVars, tbRows, handed, served>>

(* A failing delete keeps the row for the next sweep *)
DeleteAppPasswd(w) ==
    /\ At(w, "revoke")
    /\ \/ /\ Revoke(tbJob[w].pwd)
          /\ Become(w, [tbJob[w] EXCEPT !.pc = "forget"])
       \/ /\ "lost" \in Faults
          /\ Revoke(tbJob[w].pwd)
          /\ Become(w, Back(tbJob[w]))
       \/ /\ "call" \in Faults
          /\ Become(w, Back(tbJob[w]))
          /\ UNCHANGED mailcowVars
    /\ UNCHANGED <<tbRows, handed, served>>

ForgetRow(w) ==
    /\ At(w, "forget")
    /\ Become(w, Back(tbJob[w]))
    /\ \/ TbDelete(RowKey(tbJob[w]))
       \/ "db" \in Faults /\ UNCHANGED tbRows
    /\ UNCHANGED <<mailcowVars, handed, served>>

EndCleanup(w) ==
    /\ At(w, "rows")
    /\ tbJob[w].rows = {}
    /\ End(w)
    /\ UNCHANGED <<mailcowVars, tbRows, handed, served>>

Crash(w) ==
    /\ "crash" \in Faults
    /\ ~At(w, "idle")
    /\ End(w)
    /\ UNCHANGED <<mailcowVars, tbRows, handed, served>>

---------------------------------------------------------------------------
MailboxDropped ==
    /\ DropsMailboxes
    /\ \E m \in Targets : DropMailbox(m)
    /\ UNCHANGED <<tbRows, handed, tbJob, served>>

(* The other entries of the table: those that the sync of app/reconcile.py     *)
(* adds for a user and mailbox, and those that people make for themselves.     *)
OthersAdd ==
    /\ nextPwd <= MaxOthers
    /\ \E m \in Targets :
          \E name \in {Marker(u, m) : u \in Users} \union {ForeignName} : Issue(m, name)
    /\ UNCHANGED <<tbRows, handed, tbJob, served>>

(* The sync removes what it added, and people delete any entry by hand. *)
OthersDelete ==
    /\ \E p \in pwds : Revoke(p.id)
    /\ UNCHANGED <<tbRows, handed, tbJob, served>>

Others == OthersAdd \/ OthersDelete

Mint(w) ==
    \/ ReceiveMint(w) \/ ListMailboxes(w) \/ ReadPrior(w) \/ DropPrior(w)
    \/ PostAppPasswd(w) \/ FindAppPasswd(w) \/ PutRow(w) \/ Answer(w)

Cleanup(w) ==
    \/ BeginCleanup(w) \/ ReadRows(w) \/ StartRevoke(w) \/ DeleteAppPasswd(w)
    \/ ForgetRow(w) \/ EndCleanup(w)

Rest ==
    /\ served = MaxRequests
    /\ \A w \in Workers : At(w, "idle")
    /\ UNCHANGED vars

Next ==
    \/ \E w \in Workers : Mint(w) \/ Cleanup(w) \/ Crash(w)
    \/ MailboxDropped
    \/ Others
    \/ Rest

Spec == Init /\ [][Next]_vars

---------------------------------------------------------------------------
Quiet == \A w \in Workers : At(w, "idle")

TbMintedFor(id, u, t, d) ==
    \A p \in pwds : p.id = id => p.mailbox = t /\ p.name = TbMarker(u, t, d)

(* Whatever fails and whoever else mints or cleans up: the id in a row of     *)
(* tb_setup_pwds names an entry of that user, target and device, or none.     *)
TbRecordedIsOurs ==
    \A u \in Users, t \in Targets, d \in Devices :
       tbRows[<<u, t, d>>] # None => TbMintedFor(tbRows[<<u, t, d>>], u, t, d)

(* A mint replaces credentials of its own user and device only, a cleanup     *)
(* revokes those of its own user only, and none of a target the user kept.    *)
(* Neither ever deletes an entry of the sync or of a person, though these lie *)
(* in the same table, for the same mailboxes, and deletion is by bare id.     *)
TbDeletesOnlyOwn ==
    [][\A p \in pwds \ pwds', w \in Workers :
          tbJob'[w] # tbJob[w] =>
             /\ p.name = TbMarker(tbJob[w].user, p.mailbox, tbJob[w].device)
             /\ Cleaning(w) => p.mailbox \notin tbJob[w].want]_vars

(* "A re-run replaces the previous password (no sprawl)": when no request is   *)
(* in progress, the live tb-setup entries are those in the table, at most one  *)
(* for each user, target and device.                                           *)
NoSprawl ==
    Quiet => \A p \in pwds, u \in Users, t \in Targets, d \in Devices :
                p.name = TbMarker(u, t, d) => tbRows[<<u, t, d>>] = p.id

(* As long as the table has a row for a device, that row is for the credential *)
(* the device was given last: a later revocation hits the right one.           *)
RowIsHanded ==
    \A k \in Key : tbRows[k] # None => tbRows[k] = handed[k]

(* "Keep the row for the next sweep": whoever deletes a row does so only once  *)
(* the app-password it took from that row is gone, whatever failed on the way  *)
(* and whatever other requests did to either of the two meanwhile.             *)
TbForgetsOnlyRevoked ==
    [][\A k \in Key, w \in Workers :
          tbRows[k] # None /\ tbRows'[k] = None /\ tbJob'[w] # tbJob[w] =>
             \A p \in pwds' : p.id # tbJob[w].pwd]_vars

(* "... revokes already-provisioned Thunderbird clients within one sweep":     *)
(* when a cleanup is through, the user has no live tb-setup credential left    *)
(* for a target outside the sweep's actionable ones.                           *)
SweepRevokes ==
    [][\A w \in Workers :
          At(w, "rows") /\ tbJob'[w] = IdleJob =>
             \A p \in pwds, t \in Targets \ tbJob[w].want, d \in Devices :
                p.name # TbMarker(tbJob[w].user, t, d)]_vars

=============================================================================
