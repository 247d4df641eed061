------------------------------- MODULE Sweep -------------------------------
(***************************************************************************)
(* POST /reconcile-all of app/webhook.py, and the webhooks that interleave *)
(* with it: the sweep walks the pages of Authentik's user list, reconciles *)
(* each user it found, then each user of sync_users_seen it did not find.  *)
(*                                                                         *)
(* One reconcile_user is one step here; ReconcileTargets is about what     *)
(* happens inside, and FinishConverges there is what Reconciled says of a  *)
(* run without failures; a GET /my-accounts is one step too, and TbSetup   *)
(* is about its inside.  `held' and `minted' are the state the sweep is    *)
(* about: the targets for which a user has a row in sync_mailboxes, with   *)
(* an app-password and an account, and those with a row in tb_setup_pwds,  *)
(* with the credentials of Thunderbird.                                    *)
(*                                                                         *)
(* Whether a user is in Nextcloud is asked of a list that each process     *)
(* keeps for a minute: `cached' is that list, and Expire the minute's end. *)
(*                                                                         *)
(* Authentik cuts its list into pages at the moment it is asked for one;   *)
(* only internal users of OUR_DOMAIN are modelled, the others are skipped. *)
(***************************************************************************)
EXTENDS Naturals, SequencesExt

CONSTANTS Users,
          Targets,
          Own,         \* the address of each user, as a mailbox
          Shared,      \* the mailboxes that groups may share
          Mailboxes,   \* the mailboxes that exist in Mailcow
          Workers,     \* request threads that may run a sweep
          Processes,   \* gunicorn worker processes
          ProcessOf,   \* the process each thread runs in
          PageSize,    \* users per page
          Faults,      \* "reconcile": reconcile_user fails or dies half-way;
                       \* "list": occ user:list fails;
                       \* "fetch": a page cannot be read;
                       \* "crash": the sweep's worker is killed
          Environment, \* "join", "leave", "claims", "login", "mint": what happens
          MaxEvents,   \* bound: failures and environment events in a behaviour
          MaxInbox     \* bound: webhooks under way

ASSUME SweepAssumption ==
    /\ IsFiniteSet(Users)
    /\ Own \in [Users -> Targets]
    /\ Mailboxes \subseteq Targets /\ Shared \subseteq Targets
    /\ ProcessOf \in [Workers -> Processes]
    /\ PageSize \in Nat \ {0}
    /\ Faults \subseteq {"reconcile", "list", "fetch", "crash"}
    /\ Environment \subseteq {"join", "leave", "claims", "login", "mint"}
    /\ MaxEvents \in Nat /\ MaxInbox \in Nat

VARIABLES directory,  \* Authentik's active users, in the order it lists them
          claims,     \* shared_mailboxes of each user, as Authentik computes it
          ncUsers,    \* users that have logged into Nextcloud
          held,       \* targets of each user's rows in sync_mailboxes
          minted,     \* targets of each user's rows in tb_setup_pwds
          known,      \* sync_users_seen
          cached,     \* each process's list of Nextcloud's users, while valid
          inbox,      \* webhooks that were sent and not yet served
          sweep,      \* each worker's sweep
          since,      \* ghost: what happened since each sweep began
          happened    \* failures and environment events so far

authentikVars == <<directory, claims, ncUsers>>
serviceVars == <<held, minted, known, cached>>
vars == <<authentikVars, serviceVars, inbox, sweep, since, happened>>

Payload == [user : Users, want : SUBSET Targets]

(* Mutant of Idle: the pages are counted from 0 *)
IdleAtZero == [pc |-> "idle", page |-> 0, payloads |-> <<>>, orphans |-> {}]

Idle == [pc |-> "idle", page |-> 1, payloads |-> <<>>, orphans |-> {}]

Members == Range(directory)

Uncached == [fresh |-> FALSE, users |-> {}]
Fresh(users) == [fresh |-> TRUE, users |-> users]

(* Who was listed all the time since the sweep began, whether somebody left, *)
(* whether anything disturbed it, and which users of Nextcloud were missing  *)
(* from a list its process still held when it began                          *)
Since == [stayed : SUBSET Users, left : BOOLEAN, calm : BOOLEAN, unlisted : SUBSET Users]

TypeOK ==
    /\ directory \in Seq(Users)
    /\ claims \in [Users -> SUBSET Targets]
    /\ ncUsers \subseteq Users
    /\ held \in [Users -> SUBSET Targets]
    /\ minted \in [Users -> SUBSET Targets]
    /\ known \subseteq Users
    /\ cached \in [Processes -> [fresh : BOOLEAN, users : SUBSET Users]]
    /\ inbox \subseteq Payload
    /\ \A w \in Workers :
          /\ sweep[w].pc \in {"idle", "fetch", "known", "users", "gc"}
          /\ sweep[w].page \in Nat \ {0}
          /\ sweep[w].payloads \in Seq(Payload)
          /\ sweep[w].orphans \subseteq Users
    /\ since \in [Workers -> Since]
    /\ happened \in Nat

Init ==
    /\ directory \in SetToAllKPermutations(Users)
    /\ claims \in [Users -> SUBSET Shared]
    /\ ncUsers \in SUBSET Users
    /\ held = [u \in Users |-> {}]
    /\ minted = [u \in Users |-> {}]
    /\ known = {}
    /\ cached = [p \in Processes |-> Uncached]
    /\ inbox = {}
    /\ sweep = [w \in Workers |-> Idle]
    /\ since = [w \in Workers |-> [stayed |-> {}, left |-> FALSE, calm |-> FALSE, unlisted |-> {}]]
    /\ happened = 0

(* What goes wrong or changes around the service is bounded *)
Counted == happened < MaxEvents /\ happened' = happened + 1

---------------------------------------------------------------------------
(* reconcile_user for u with the addresses `want', in process p *)

(* What list_user_ids answers: the list it kept, or Nextcloud's *)
Listing(p) == IF cached[p].fresh THEN cached[p].users ELSE ncUsers

ToAdd(u, want) == (want \intersect Mailboxes) \ held[u]

(* user_exists is asked only if something is to be added; the answer is kept *)
AsksList(u, want, p) ==
    cached' = IF ToAdd(u, want) = {} THEN cached
                                     ELSE [cached EXCEPT ![p] = Fresh(Listing(p))]

(* user:list fails.  It counts as an empty list, which is kept if occ put out *)
(* something else than a list; or it raises, and the additions are tried.     *)
ListFails(u, want, p, list) ==
    /\ "list" \in Faults
    /\ ToAdd(u, want) # {} /\ ~cached[p].fresh
    /\ \/ list = {} /\ cached' \in {cached, [cached EXCEPT ![p] = Fresh({})]}
       \/ list = ncUsers /\ UNCHANGED cached

(* Mutant of Settled: rows are only taken away *)
SettledByLoss(u, want, list) == want \intersect Mailboxes \intersect held[u]

(* Rows of targets that are not actionable go; missing ones are added for a *)
(* user on the list of Nextcloud's users                                    *)
Settled(u, want, list) ==
    IF u \in list THEN want \intersect Mailboxes
                  ELSE want \intersect Mailboxes \intersect held[u]

(* Mutant of Cleaned: the credentials of Thunderbird are left alone *)
NotCleaned(u, want) == minted[u]

(* _cleanup_tb_setup, which only ever revokes *)
Cleaned(u, want) == minted[u] \intersect want \intersect Mailboxes

Reconciled(u, want, list) ==
    /\ held' = [held EXCEPT ![u] = Settled(u, want, list)]
    /\ minted' = [minted EXCEPT ![u] = Cleaned(u, want)]
    /\ known' = known \union {u}

(* It fails or dies on the way: some of its changes happened, touch_user did *)
(* not if it died, or it was not even begun                                  *)
Failed(u, want, list) ==
    /\ "reconcile" \in Faults
    /\ \E some \in SUBSET (held[u] \union Settled(u, want, list)) :
          /\ held[u] \intersect want \intersect Mailboxes \subseteq some
          /\ held' = [held EXCEPT ![u] = some]
    /\ \E some \in SUBSET minted[u] :
          /\ Cleaned(u, want) \subseteq some
          /\ minted' = [minted EXCEPT ![u] = some]
    /\ known' \in {known, known \union {u}}

(* No other sweep is undisturbed any more, nor is w's own if it failed *)
Disturbed(others) ==
    since' = [w \in Workers |-> IF w \in others THEN [since[w] EXCEPT !.calm = FALSE]
                                                ELSE since[w]]

(* It fails with a list, with none because that failed too, or before it asks *)
FailsOnTheWay(u, want, p) ==
    \/ Failed(u, want, Listing(p)) /\ AsksList(u, want, p)
    \/ \E list \in {{}, ncUsers} : Failed(u, want, list) /\ ListFails(u, want, p, list)
    \/ Failed(u, want, {}) /\ UNCHANGED cached

(* A webhook or a worker other than `self' reconciles, in process p *)
Reconcile(u, want, p, self) ==
    \/ /\ Reconciled(u, want, Listing(p)) /\ AsksList(u, want, p)
       /\ Disturbed(Workers \ self)
       /\ UNCHANGED happened
    \/ /\ \E list \in {{}, ncUsers} :
             Reconciled(u, want, list) /\ ListFails(u, want, p, list)
       /\ Disturbed(Workers)
       /\ Counted
    \/ FailsOnTheWay(u, want, p) /\ Disturbed(Workers) /\ Counted

---------------------------------------------------------------------------
At(w, label) == sweep[w].pc = label
Become(w, s) == sweep' = [sweep EXCEPT ![w] = s]

PayloadOf(u) == [user |-> u, want |-> {Own[u]} \union claims[u]]

StartSweep(w) ==
    /\ At(w, "idle")
    /\ Become(w, [Idle EXCEPT !.pc = "fetch"])
    /\ since' = [since EXCEPT ![w] =
                    [stayed |-> Members, left |-> FALSE, calm |-> TRUE,
                     unlisted |-> ncUsers \ Listing(ProcessOf[w])]]
    /\ UNCHANGED <<authentikVars, serviceVars, inbox, happened>>

FirstOf(page) == (page - 1) * PageSize + 1
UsersOn(page) ==
    SubSeq(directory, FirstOf(page), Min({page * PageSize, Len(directory)}))
PayloadsOn(page) == [i \in DOMAIN UsersOn(page) |-> PayloadOf(UsersOn(page)[i])]
IsLast(page) == Len(directory) <= page * PageSize

(* Mutant of Gathered: each page replaces the one before *)
LastGathered(ps, page) == PayloadsOn(page)

Gathered(ps, page) == ps \o PayloadsOn(page)

(* list_users_raw reads the next page, or the last one *)
FetchPage(w) ==
    LET page == sweep[w].page IN
    /\ At(w, "fetch")
    /\ page = 1 \/ FirstOf(page) <= Len(directory)
    /\ Become(w, [sweep[w] EXCEPT !.payloads = Gathered(@, page),
                                  !.pc = IF IsLast(page) THEN "known" ELSE "fetch",
                                  !.page = IF IsLast(page) THEN 1 ELSE @ + 1])
    /\ UNCHANGED <<authentikVars, serviceVars, inbox, since, happened>>

(* ... or fails: a page that is gone by now is answered with 404 *)
FetchFails(w) ==
    /\ At(w, "fetch")
    /\ \/ "fetch" \in Faults /\ Counted
       \/ /\ sweep[w].page > 1 /\ FirstOf(sweep[w].page) > Len(directory)
          /\ UNCHANGED happened
    /\ Become(w, Idle)
    /\ UNCHANGED <<authentikVars, serviceVars, inbox, since>>

Fetched(w) == {p.user : p \in Range(sweep[w].payloads)}

OrphansOf(w) == known \ Fetched(w)

ReadKnown(w) ==
    /\ At(w, "known")
    /\ Become(w, [sweep[w] EXCEPT !.pc = "users", !.orphans = OrphansOf(w)])
    /\ UNCHANGED <<authentikVars, serviceVars, inbox, since, happened>>

(* The next payload, with the entitlements it was built from *)
SweepUser(w) ==
    /\ At(w, "users")
    /\ sweep[w].payloads # <<>>
    /\ Reconcile(Head(sweep[w].payloads).user, Head(sweep[w].payloads).want,
                 ProcessOf[w], {w})
    /\ Become(w, [sweep[w] EXCEPT !.payloads = Tail(@)])
    /\ UNCHANGED <<authentikVars, inbox>>

EndUsers(w) ==
    /\ At(w, "users")
    /\ sweep[w].payloads = <<>>
    /\ Become(w, [sweep[w] EXCEPT !.pc = "gc"])
    /\ UNCHANGED <<authentikVars, serviceVars, inbox, since, happened>>

(* The orphan keeps its own address *)
Collect(w) ==
    /\ At(w, "gc")
    /\ \E u \in sweep[w].orphans :
          /\ Reconcile(u, {Own[u]}, ProcessOf[w], {w})
          /\ Become(w, [sweep[w] EXCEPT !.orphans = @ \ {u}])
    /\ UNCHANGED <<authentikVars, inbox>>

EndSweep(w) ==
    /\ At(w, "gc")
    /\ sweep[w].orphans = {}
    /\ Become(w, Idle)
    /\ UNCHANGED <<authentikVars, serviceVars, inbox, since, happened>>

(* gunicorn kills a worker whose request takes longer than its timeout *)
CrashSweep(w) ==
    /\ "crash" \in Faults
    /\ ~At(w, "idle")
    /\ Counted
    /\ Become(w, Idle)
    /\ UNCHANGED <<authentikVars, serviceVars, inbox, since>>

(* POST /reconcile, served by any process; webhooks may overtake each other *)
Webhook ==
    /\ \E p \in inbox, q \in Processes :
          Reconcile(p.user, p.want, q, {}) /\ inbox' = inbox \ {p}
    /\ UNCHANGED <<authentikVars, sweep>>

(* user_cache_ttl has passed since p read Nextcloud's list *)
Expire(p) ==
    /\ cached[p].fresh
    /\ cached' = [cached EXCEPT ![p] = Uncached]
    /\ UNCHANGED <<authentikVars, held, minted, known, inbox, sweep, since, happened>>

---------------------------------------------------------------------------
(* Authentik and Nextcloud *)
Event(kind) ==
    /\ kind \in Environment
    /\ Counted
    /\ since' = [w \in Workers |->
                    [stayed |-> since[w].stayed \intersect Range(directory'),
                     left |-> since[w].left \/ kind = "leave",
                     calm |-> FALSE, unlisted |-> since[w].unlisted]]
    /\ UNCHANGED <<held, known, cached, sweep>>

(* GET /my-accounts: the entitlements come from the token, and _reconcile_one *)
(* plays no part, so the user does not become known.  Only users that         *)
(* Authentik still lists are modelled, not what is left of a token's life.    *)
Mint ==
    /\ \E u \in Members, got \in SUBSET Targets :
          /\ got \subseteq PayloadOf(u).want \intersect Mailboxes
          /\ ~(got \subseteq minted[u])
          /\ minted' = [minted EXCEPT ![u] = @ \union got]
    /\ UNCHANGED <<authentikVars, inbox>>
    /\ Event("mint")

Join ==
    /\ \E u \in Users \ Members, i \in 1..Len(directory) + 1 :
          directory' = InsertAt(directory, i, u)
    /\ UNCHANGED <<claims, ncUsers, minted, inbox>>
    /\ Event("join")

Leave ==
    /\ \E i \in DOMAIN directory : directory' = RemoveAt(directory, i)
    /\ UNCHANGED <<claims, ncUsers, minted, inbox>>
    /\ Event("leave")

(* The entitlements of a user change, and Authentik sends a webhook *)
Entitle ==
    /\ \E u \in Members, c \in SUBSET Shared :
          /\ claims[u] # c
          /\ claims' = [claims EXCEPT ![u] = c]
          /\ Cardinality(inbox) < MaxInbox
          /\ inbox' = inbox \union {[user |-> u, want |-> {Own[u]} \union c]}
    /\ UNCHANGED <<directory, ncUsers, minted>>
    /\ Event("claims")

LogIn ==
    /\ \E u \in Users \ ncUsers : ncUsers' = ncUsers \union {u}
    /\ UNCHANGED <<directory, claims, minted, inbox>>
    /\ Event("login")

Step(w) ==
    \/ FetchPage(w) \/ FetchFails(w) \/ ReadKnown(w) \/ SweepUser(w)
    \/ EndUsers(w) \/ Collect(w) \/ EndSweep(w)

Next ==
    \/ \E w \in Workers : StartSweep(w) \/ Step(w) \/ CrashSweep(w)
    \/ Webhook
    \/ \E p \in Processes : Expire(p)
    \/ Join \/ Leave \/ Entitle \/ LogIn \/ Mint

Spec == Init /\ [][Next]_vars

(* "Full sweep -- call from cron": there is always another sweep, webhooks     *)
(* arrive in the end, and so does the end of a cached list                     *)
FairSpec ==
    /\ Spec
    /\ \A w \in Workers : WF_vars(StartSweep(w)) /\ WF_vars(Step(w))
    /\ WF_vars(Webhook)
    /\ \A p \in Processes : WF_vars(Expire(p))

---------------------------------------------------------------------------
Collected(w) == IF At(w, "gc") THEN sweep[w].orphans \ sweep'[w].orphans ELSE {}

(* "... garbage-collect users that vanished from Authentik": unless somebody  *)
(* left while the pages were read, a user who was in the directory all the    *)
(* time since a sweep began is not torn down by it -- whoever joined, was     *)
(* reconciled by a webhook or first became known meanwhile.                   *)
CollectsOnlyVanished ==
    [][\A w \in Workers :
          ~since[w].left => Collected(w) \intersect since[w].stayed = {}]_vars

Ends(w) == At(w, "gc") /\ sweep[w].orphans = {} /\ sweep'[w] = Idle

(* The targets of the rows of u, of either kind *)
Rows(u) == held[u] \union minted[u]

(* What a sweep that nothing disturbed leaves behind: nobody has a row that   *)
(* Authentik does not grant, and whoever is in Nextcloud and not missing from *)
(* a list that its process still kept has all of them; whoever is not in      *)
(* Authentik has lost all but the own mailbox, in Nextcloud and Thunderbird   *)
(* -- whatever overtaken webhooks, older sweeps and failures had left before, *)
(* and whenever in between the list is read anew.                             *)
SweepConverges ==
    [][\A w \in Workers :
          Ends(w) /\ since[w].calm =>
             \A u \in Users :
                IF u \in Members
                THEN /\ held[u] \subseteq PayloadOf(u).want \intersect Mailboxes
                     /\ u \in ncUsers \ since[w].unlisted
                           => held[u] = PayloadOf(u).want \intersect Mailboxes
                     /\ minted[u] \subseteq PayloadOf(u).want
                ELSE u \in known => Rows(u) \subseteq {Own[u]}]_vars

(* "Garbage-collect users that vanished from Authentik but still have rows in *)
(* our state DB": an undisturbed sweep leaves a vanished user no row for a    *)
(* shared mailbox, whether or not that user is in sync_users_seen.            *)
VanishedAreCollected ==
    [][\A w \in Workers :
          Ends(w) /\ since[w].calm =>
             \A u \in Users \ Members : Rows(u) \subseteq {Own[u]}]_vars

(* With the sweep called again and again, and whatever raced with it or       *)
(* failed before, the rows settle on what Authentik grants: additions skipped *)
(* for a user without a Nextcloud login "self-heal once the user first logs   *)
(* into Nextcloud", Thunderbird clients lose what was revoked "within one     *)
(* sweep", and who is gone from Authentik, and was once reconciled to the     *)
(* end, loses the shared mailboxes in both.                                   *)
EventuallyExact ==
    <>[](\A u \in Users :
            IF u \in Members
            THEN /\ u \in ncUsers => held[u] = PayloadOf(u).want \intersect Mailboxes
                 /\ minted[u] \subseteq PayloadOf(u).want
            ELSE u \in known => Rows(u) \subseteq {Own[u]})

=============================================================================
