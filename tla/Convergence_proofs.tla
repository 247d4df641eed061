------------------------ MODULE Convergence_proofs ------------------------
(***************************************************************************)
(* Theorems about what Provisioning reaches: what a request without errors *)
(* leaves behind in the sharing and in the Nextcloud mail database, what   *)
(* the probe of INBOX may conclude, and when SOGo's cache is flushed.      *)
(* Those on the sharing ask that the requests of a user are served in      *)
(* turn, as the per-key lock makes them inside one process; all of them    *)
(* hold for every set of users, mailboxes, folders, threads and processes. *)
(***************************************************************************)
EXTENDS Provisioning_proofs

(* The requests of a user come one after the other. *)
Serial == \A v, w \in Workers :
    HoldsLock(v) /\ HoldsLock(w) /\ job[v].user = job[w].user => v = w

SingleProcess == \A v, w \in Workers : ProcessOf[v] = ProcessOf[w]

(* The per-key lock: no two requests of a user in one process *)
Exclusive == \A v, w \in Workers : SameLock(v, w) /\ HoldsLock(v) /\ HoldsLock(w) => v = w

(* INBOX is always there, a folder that is not has no entries, and the walks *)
(* are over folders that are.                                                 *)
FoldersSound ==
    /\ \A t \in Targets : Inbox \in folders[t]
    /\ \A t \in Targets : \A f \in Folders \ folders[t] :
          \A p \in Principals : acl[t][f][p] = "none"
    /\ \A w \in Workers : job[w].pc \in {"walk", "selfWalk"} =>
          job[w].walk \subseteq folders[job[w].target]

(* What u is to have on t *)
Granted(j, t) == IF t \in j.shared THEN "full" ELSE "none"

(* The folders that a walk has done are as they are to be. *)
WalkSound(j) ==
    j.pc = "walk" =>
       \A f \in Folders \ j.walk :
          acl[j.target][f][j.user] \in {Due(j)} \union (IF f = Inbox THEN {} ELSE {"none"})

Uniform(t, u) == \A f \in Folders : acl[t][f][u] \in {"none", acl[t][Inbox][u]}

Walking(t, u) == \E w \in Workers :
    job[w].pc = "walk" /\ job[w].target = t /\ job[w].user = u

InboxInv ==
    /\ Unspoilt({"rc"}) => \A w \in Workers : WalkSound(job[w])
    /\ Unspoilt({"call", "lost", "rc", "crash"}) =>
          \A u \in Users : \A t \in Targets \ {u} : Uniform(t, u) \/ Walking(t, u)

(* What a request that met no failure has reached of the sharing: the rights  *)
(* on each mailbox that the loop has probed, ...                              *)
Probing == {"probe", "list", "walk"}

Past(j, t) == t \in Others(j) \ j.todo /\ ~(t = j.target /\ j.pc \in Probing)
Closed(j, t) == t \in Others(j) \ j.todo /\ ~(t = j.target /\ j.pc \in RoundLabels)

RightsSound(j) ==
    j.pc \in LoopLabels =>
       \A t \in Targets : Past(j, t) => acl[t][Inbox][j.user] = Granted(j, t)

(* ... both sides of SOGo's delegation, the one by the snapshot for as long   *)
(* as the loop has not written the mailbox's, ...                             *)
DelegationSound(j) ==
    /\ j.pc \in {"from", "fromSet"} =>
          \A t \in Targets : (j.user \in j.dts[t]) = (j.user \in delegateTo[t])
    /\ j.pc \in LoopLabels =>
          /\ delegateFrom[j.user] = j.shared
          /\ \A t \in Others(j) : (j.user \in delegateTo[t]) =
                IF Closed(j, t) THEN t \in j.shared ELSE j.user \in j.dts[t]
    /\ j.pc \in RoundLabels => j.target \notin j.todo

(* ... the place in each sender_acl, ...                                      *)
SendersSound(j) ==
    /\ j.pc \in SnapLabels =>
          \A t \in Targets : (j.user \in j.acls[t]) = (j.user \in senders[t])
    /\ j.pc \in LoopLabels =>
          \A t \in Others(j) : (j.user \in senders[t]) =
             IF t \in j.todo THEN j.user \in j.acls[t] ELSE t \in j.shared

(* ... and the owners' entries of all mailboxes that the batch has probed.    *)
OwnersSound(j) ==
    /\ \A t \in j.probed : \A f \in folders[t] :
          acl[t][f][t] = "none" \/ (j.pc = "selfWalk" /\ t = j.target /\ f \in j.walk)
    /\ j.pc \in {"selfWalk", "delegate"} => j.target \in j.probed
    /\ j.pc \in LoopLabels =>
          \A t \in Others(j) \ j.todo :
             t \in j.probed \/ (t = j.target /\ j.pc \in Probing \union {"self"})

Undisturbed(j) == ~j.dry /\ "sharing" \notin j.errors /\ Unspoilt({"rc", "hand"})

ShareSound(j) ==
    /\ Undisturbed(j) =>
          /\ RightsSound(j)
          /\ "db" \in features => DelegationSound(j)
          /\ "db" \in features /\ Unspoilt({"overlap"}) => SendersSound(j)
    /\ ~j.dry /\ Unspoilt({"rc", "call", "lost"}) => OwnersSound(j)

ShareInv ==
    /\ Unspoilt({"overlap"}) => Alone
    /\ \A w \in Workers : ShareSound(job[w])

(* Something that SOGo caches was changed, and the change will be flushed. *)
WillFlush(j) == ~j.dry /\ j.changed
MightFlush(j) ==
    ~j.dry /\ (j.changed \/ j.pc = "walk" \/ (j.pc = "selfWalk" /\ j.found))

CacheInv ==
    /\ \A w \in Workers : job[w].pc \in {"idle", "lock"} => ~job[w].changed
    /\ "profile" \in stale /\ Unspoilt({"lost", "flush", "crash"}) =>
          \E w \in Workers : WillFlush(job[w])
    /\ "acl" \in stale /\ Unspoilt({"lost", "flush", "crash", "call"}) =>
          \E w \in Workers : MightFlush(job[w])

(* What a request has reached of the Nextcloud mail database *)
Settled(j, a) ==
    /\ "sieve" \notin j.errors => sieve[a] = "ours"
    /\ "map" \notin j.errors => Drifted(a, mapping[a]) = {}

AtHand(j, a) == j.pc \in MailLabels /\ a = j.account

SettledInv(j) ==
    j.pc \notin {"idle", "lock"} /\ ~j.dry /\ Unspoilt({"rc", "hand", "folder"}) =>
       /\ \A t \in j.managed \ (IF j.pc \in MailLabels \union {"mail"} THEN j.todo ELSE {}) :
             \A a \in UniqueAccount(j.user, t) : Settled(j, a) \/ AtHand(j, a)
       /\ j.pc \in {"map", "mapBoxes", "mapSet"} /\ "sieve" \notin j.errors =>
             sieve[j.account] = "ours"
       /\ j.pc = "mapBoxes" =>
             \A c \in Drifted(j.account, mapping[j.account]) :
                j.cols[c] = mapping[j.account][c]
       /\ j.pc = "mapSet" =>
             \A c \in Drifted(j.account, mapping[j.account]) : j.fixes[c] # None
       /\ j.pc = "mapSet" =>
             \A c \in Columns : j.fixes[c] # None =>
                j.fixes[c] \in LocalBoxes(j.account, c)

MailEnds == \A w \in Workers : SettledInv(job[w])

---------------------------------------------------------------------------
(* The steps of a request, field by field.  k has what a request brings with  *)
(* it, and all that j has noted.                                              *)
Carries(k, j) ==
    /\ k.user = j.user /\ k.dry = j.dry /\ k.shared = j.shared /\ k.managed = j.managed
    /\ j.errors \subseteq k.errors
    /\ j.changed => k.changed

(* ... and nothing went wrong. *)
Clean(k, j) == Carries(k, j) /\ k.errors = j.errors

Snapped(k, j) == k.acls = j.acls /\ k.dts = j.dts
SameRound(k, j) == Snapped(k, j) /\ k.todo = j.todo /\ k.target = j.target

AsWanted(j) == j.target \in j.shared <=> j.user \in j.dts[j.target]

(* A call raised, whether it took effect or not. *)
FailsSharing(j, k) ==
    /\ Carries(k, j) /\ "sharing" \in k.errors
    /\ k.pc \in {"dts", "from", "mailbox", "delegate"}
    /\ disturbed' \intersect {"call", "lost"} # {}
    /\ disturbed' \subseteq disturbed \union {"call", "lost"}
    /\ "lost" \in disturbed' \/ UNCHANGED stores

(* The snapshots, and the list of the user's own profile *)
TakesSenders(j, k) ==
    /\ j.pc = "mail" /\ j.todo = {}
    /\ Clean(k, j) /\ k.probed = j.probed /\ UNCHANGED stores
    /\ IF "db" \in features THEN k.pc = "dts" /\ k.acls = senders
                            ELSE k.pc = "mailbox" /\ k.todo = Others(j)

TakesDelegateTo(j, k) ==
    /\ j.pc = "dts" /\ k.pc = "from"
    /\ Clean(k, j) /\ k.probed = j.probed /\ UNCHANGED stores
    /\ k.acls = j.acls /\ k.dts = delegateTo

ComparesFrom(j, k) ==
    /\ j.pc = "from"
    /\ Clean(k, j) /\ k.probed = j.probed /\ Snapped(k, j) /\ UNCHANGED stores
    /\ \/ k.pc = "fromSet"
       \/ /\ k.pc = "mailbox" /\ k.todo = Others(j)
          /\ j.dry \/ delegateFrom[j.user] = j.shared

SetsFrom(j, k) ==
    /\ j.pc = "fromSet" /\ k.pc = "mailbox" /\ k.todo = Others(j) /\ k.changed
    /\ Clean(k, j) /\ k.probed = j.probed /\ Snapped(k, j)
    /\ SetDelegateFrom(j.user, j.shared)

(* The round of a mailbox *)
Enters(j, k) ==
    /\ j.pc = "mailbox" /\ k.pc = "probe"
    /\ Clean(k, j) /\ k.probed = j.probed /\ Snapped(k, j)
    /\ k.target \in j.todo /\ k.todo = j.todo \ {k.target}
    /\ \/ /\ UNCHANGED stores
          /\ j.dry \/ (k.target \in k.shared <=> k.user \in k.acls[k.target])
       \/ ReplaceSenders(k.target, NewSenders(k))

Probes(j, k) ==
    /\ j.pc = "probe"
    /\ Clean(k, j) /\ k.probed = j.probed /\ SameRound(k, j) /\ UNCHANGED stores
    /\ \/ k.pc = "list"
       \/ /\ k.pc = "self"
          /\ j.dry \/ "rc" \in disturbed' \/ acl[j.target][Inbox][j.user] = Due(j)

Lists(j, k) ==
    /\ j.pc = "list" /\ k.pc = "walk" /\ k.walk = folders[j.target]
    /\ Clean(k, j) /\ k.probed = j.probed /\ SameRound(k, j) /\ UNCHANGED stores

Walks(j, k) ==
    /\ j.pc = "walk"
    /\ Clean(k, j) /\ k.probed = j.probed /\ SameRound(k, j)
    /\ \E f \in j.walk :
          /\ k.walk = j.walk \ {f}
          /\ \/ "rc" \in disturbed' /\ UNCHANGED stores
             \/ SetRights(j.target, f, j.user, Due(j))
    /\ k.pc = "walk" \/ (k.pc = "self" /\ k.walk = {} /\ k.changed)

StartsSelf(j, k) ==
    /\ j.pc = "self"
    /\ Clean(k, j) /\ k.probed = j.probed \union {j.target}
    /\ SameRound(k, j) /\ UNCHANGED stores
    /\ \/ k.pc = "delegate" /\ j.target \in j.probed
       \/ k.pc = "selfWalk" /\ k.walk = folders[j.target]

ClearsSelf(j, k) ==
    /\ j.pc = "selfWalk"
    /\ Clean(k, j) /\ k.probed = j.probed /\ SameRound(k, j)
    /\ \E f \in j.walk :
          /\ k.walk = j.walk \ {f}
          /\ \/ /\ UNCHANGED stores
                /\ j.dry \/ "rc" \in disturbed' \/ acl[j.target][f][j.target] = "none"
             \/ /\ SetRights(j.target, f, j.target, "none")
                /\ k.changed \/ (k.pc = "selfWalk" /\ k.found)
    /\ \/ k.pc = "selfWalk" /\ (j.found => k.found)
       \/ k.pc = "delegate" /\ k.walk = {} /\ (j.found => k.changed)

SyncsDelegateTo(j, k) ==
    /\ j.pc = "delegate" /\ k.pc = "mailbox"
    /\ Clean(k, j) /\ k.probed = j.probed /\ Snapped(k, j) /\ k.todo = j.todo
    /\ \/ UNCHANGED stores /\ ("db" \notin features \/ j.dry \/ AsWanted(j))
       \/ PatchDelegateTo(j.target, j.user, Wanted(j)) /\ k.changed

Finishes(j, k) ==
    /\ j.pc = "mailbox" /\ j.todo = {}
    /\ k.pc = "idle" /\ ~k.changed /\ k.probed = j.probed /\ k.dry = j.dry
    /\ \/ UNCHANGED stores /\ (j.changed /\ ~j.dry => "flush" \in disturbed')
       \/ FlushCache

SharingMoves(j, k) ==
    \/ FailsSharing(j, k) \/ TakesSenders(j, k) \/ TakesDelegateTo(j, k)
    \/ ComparesFrom(j, k) \/ SetsFrom(j, k) \/ Enters(j, k) \/ Probes(j, k)
    \/ Lists(j, k) \/ Walks(j, k) \/ StartsSelf(j, k) \/ ClearsSelf(j, k)
    \/ SyncsDelegateTo(j, k) \/ Finishes(j, k)

(* What the locals become *)
LEMMA Fails ==
    ASSUME NEW j \in Job
    PROVE  /\ FailRound(j).pc = "mailbox" /\ Carries(FailRound(j), j)
           /\ "sharing" \in FailRound(j).errors
           /\ Failed(StartLoop(j), "sharing").pc = "mailbox"
           /\ Carries(Failed(StartLoop(j), "sharing"), j)
           /\ "sharing" \in Failed(StartLoop(j), "sharing").errors
           /\ \A label : LET k == Goto(Failed(j, "sharing"), label) IN
                 k.pc = label /\ Carries(k, j) /\ "sharing" \in k.errors
BY DEF FailRound, EndRound, Failed, StartLoop, Goto, Carries, Job

LEMMA Starts ==
    ASSUME NEW j \in Job
    PROVE  /\ LET k == StartLoop(j) IN
                 /\ k.pc = "mailbox" /\ k.todo = Others(j)
                 /\ Clean(k, j) /\ k.probed = j.probed /\ Snapped(k, j)
           /\ LET k == Changed(StartLoop(j)) IN
                 /\ k.pc = "mailbox" /\ k.todo = Others(j) /\ k.changed
                 /\ Clean(k, j) /\ k.probed = j.probed /\ Snapped(k, j)
BY DEF Changed, StartLoop, Clean, Carries, Snapped, Job

LEMMA Ends ==
    ASSUME NEW j \in Job
    PROVE  /\ LET k == EndRound(j) IN
                 /\ k.pc = "mailbox" /\ k.todo = j.todo
                 /\ Clean(k, j) /\ k.probed = j.probed /\ Snapped(k, j)
           /\ LET k == Changed(EndRound(j)) IN
                 /\ k.pc = "mailbox" /\ k.todo = j.todo /\ k.changed
                 /\ Clean(k, j) /\ k.probed = j.probed /\ Snapped(k, j)
BY DEF Changed, EndRound, Clean, Carries, Snapped, Job

LEMMA Goes ==
    ASSUME NEW j \in Job, NEW label
    PROVE  /\ LET k == Goto(j, label) IN
                 /\ k.pc = label /\ k.walk = j.walk /\ k.changed = j.changed
                 /\ Clean(k, j) /\ k.probed = j.probed /\ SameRound(k, j)
           /\ LET k == Changed(Goto(j, label)) IN
                 /\ k.pc = label /\ k.walk = j.walk /\ k.changed
                 /\ Clean(k, j) /\ k.probed = j.probed /\ SameRound(k, j)
BY DEF Changed, Goto, Clean, Carries, Snapped, SameRound, Job
LEMMA Removes ==
    ASSUME NEW j \in Job, NEW f
    PROVE  LET k == [j EXCEPT !.walk = @ \ {f}] IN
           /\ k \in Job /\ k.walk = j.walk \ {f} /\ k.pc = j.pc
           /\ k.found = j.found /\ k.changed = j.changed
           /\ Clean(k, j) /\ k.probed = j.probed /\ SameRound(k, j)
BY DEF Clean, Carries, Snapped, SameRound, Job

LEMMA CarriesOn ==
    ASSUME NEW i, NEW j, NEW k, Carries(k, i), Carries(i, j)
    PROVE  Carries(k, j)
BY DEF Carries

LEMMA CleanOn ==
    ASSUME NEW i, NEW j, NEW k, Clean(k, i), Clean(i, j)
    PROVE  Clean(k, j)
BY DEF Clean, Carries

(* A read or a write of the sharing that raises *)
LEMMA RaisesSharing ==
    ASSUME IInv, NEW w \in Workers, NEW no, Carries(no, job[w]), "sharing" \in no.errors,
           no.pc \in {"dts", "from", "mailbox", "delegate"}, Become(w, no),
           Fault("lost") \/ (Fault("call") /\ UNCHANGED stores)
    PROVE  FailsSharing(job[w], job'[w])
<1>1. job'[w] = no
  BY Becomes
<1> QED
  BY <1>1 DEF FailsSharing, Fault, Disturb

LEMMA ReadsSharing ==
    ASSUME IInv, NEW w \in Workers, NEW ok, NEW no, Read(w, ok, no),
           Carries(no, job[w]), "sharing" \in no.errors,
           no.pc \in {"dts", "from", "mailbox", "delegate"}
    PROVE  FailsSharing(job[w], job'[w]) \/ (job'[w] = ok /\ UNCHANGED stores)
BY Becomes, RaisesSharing DEF Read, Locally, Raises

LEMMA CallsSharing ==
    ASSUME IInv, NEW w \in Workers, NEW effect, NEW ok, NEW no, Call(w, effect, ok, no),
           Carries(no, job[w]), "sharing" \in no.errors,
           no.pc \in {"dts", "from", "mailbox", "delegate"}
    PROVE  FailsSharing(job[w], job'[w]) \/ (job'[w] = ok /\ effect)
BY Becomes, RaisesSharing DEF Call

LEMMA ChangesSharing ==
    ASSUME IInv, NEW w \in Workers, NEW j \in Job, NEW effect, NEW next,
           Change(w, j, effect, next), Carries(j, job[w])
    PROVE  \/ FailsSharing(job[w], job'[w])
           \/ job'[w] = Changed(next) /\ (effect \/ (j.dry /\ UNCHANGED stores))
<1>1. /\ Carries(FailRound(j), j) /\ FailRound(j).pc = "mailbox"
      /\ "sharing" \in FailRound(j).errors
  BY Fails
<1>2. Carries(FailRound(j), job[w])
  BY <1>1, CarriesOn
<1>3. CASE j.dry
  BY <1>3, Becomes DEF Change, Locally
<1>4. CASE ~j.dry
  <2>1. Call(w, effect /\ UNCHANGED mailDbVars, Changed(next), FailRound(j))
    BY <1>4 DEF Change
  <2> QED
    BY <1>1, <1>2, <2>1, CallsSharing
<1> QED
  BY <1>3, <1>4

LEMMA SnapshotStep ==
    ASSUME IInv, NEW w \in Workers,
           \/ SnapshotSenders(w) \/ SnapshotDelegateTo(w)
           \/ ReadDelegateFrom(w) \/ WriteDelegateFrom(w)
    PROVE  SharingMoves(job[w], job'[w])
<1>1. PICK j \in Job : j = job[w]
  BY DEF IInv, TypeOK
<1>2. /\ \A label : LET k == Goto(Failed(j, "sharing"), label) IN
            k.pc = label /\ Carries(k, j) /\ "sharing" \in k.errors
      /\ Failed(StartLoop(j), "sharing").pc = "mailbox"
      /\ Carries(Failed(StartLoop(j), "sharing"), j)
      /\ "sharing" \in Failed(StartLoop(j), "sharing").errors
  BY Fails
<1>3. CASE SnapshotSenders(w)
  <2>1. j.pc = "mail" /\ j.todo = {}
    BY <1>1, <1>3 DEF SnapshotSenders, At
  <2>2. CASE "db" \in features
    <3> DEFINE k == [j EXCEPT !.pc = "dts", !.acls = senders]
    <3>1. Read(w, k, Goto(Failed(j, "sharing"), "dts"))
      BY <1>1, <1>3, <2>2 DEF SnapshotSenders
    <3>2. k.pc = "dts" /\ k.acls = senders /\ Clean(k, j) /\ k.probed = j.probed
      BY DEF Clean, Carries, Job
    <3> HIDE DEF k
    <3>3. FailsSharing(j, job'[w]) \/ (job'[w] = k /\ UNCHANGED stores)
      BY <1>1, <1>2, <3>1, ReadsSharing
    <3> QED
      BY <1>1, <2>1, <2>2, <3>2, <3>3 DEF SharingMoves, TakesSenders
  <2>3. CASE "db" \notin features
    <3>1. job'[w] = StartLoop(j) /\ UNCHANGED stores
      BY <1>1, <1>3, <2>3, Becomes DEF SnapshotSenders, Locally
    <3> QED
      BY <1>1, <2>1, <2>3, <3>1, Starts DEF SharingMoves, TakesSenders
  <2> QED
    BY <2>2, <2>3
<1>4. CASE SnapshotDelegateTo(w)
  <2> DEFINE k == [j EXCEPT !.pc = "from", !.dts = delegateTo]
  <2>1. j.pc = "dts" /\ Read(w, k, Goto(Failed(j, "sharing"), "from"))
    BY <1>1, <1>4 DEF SnapshotDelegateTo, At
  <2>2. /\ k.pc = "from" /\ k.acls = j.acls /\ k.dts = delegateTo
        /\ Clean(k, j) /\ k.probed = j.probed
    BY DEF Clean, Carries, Job
  <2> HIDE DEF k
  <2>3. FailsSharing(j, job'[w]) \/ (job'[w] = k /\ UNCHANGED stores)
    BY <1>1, <1>2, <2>1, ReadsSharing
  <2> QED
    BY <1>1, <2>1, <2>2, <2>3 DEF SharingMoves, TakesDelegateTo
<1>5. CASE ReadDelegateFrom(w)
  <2> DEFINE k == IF delegateFrom[j.user] = j.shared THEN StartLoop(j)
                  ELSE IF j.dry THEN Changed(StartLoop(j)) ELSE Goto(j, "fromSet")
  <2>1. j.pc = "from" /\ Read(w, k, Failed(StartLoop(j), "sharing"))
    BY <1>1, <1>5 DEF ReadDelegateFrom, At
  <2>2. /\ Clean(k, j) /\ k.probed = j.probed /\ Snapped(k, j)
        /\ \/ k.pc = "fromSet"
           \/ /\ k.pc = "mailbox" /\ k.todo = Others(j)
              /\ j.dry \/ delegateFrom[j.user] = j.shared
    BY Starts, Goes DEF SameRound
  <2> HIDE DEF k
  <2>3. FailsSharing(j, job'[w]) \/ (job'[w] = k /\ UNCHANGED stores)
    BY <1>1, <1>2, <2>1, ReadsSharing
  <2> QED
    BY <1>1, <2>1, <2>2, <2>3 DEF SharingMoves, ComparesFrom
<1>6. CASE WriteDelegateFrom(w)
  <2>1. /\ j.pc = "fromSet"
        /\ Call(w, SetDelegateFrom(j.user, j.shared) /\ UNCHANGED mailDbVars,
                Changed(StartLoop(j)), Failed(StartLoop(j), "sharing"))
    BY <1>1, <1>6 DEF WriteDelegateFrom, At
  <2>2. \/ FailsSharing(j, job'[w])
        \/ job'[w] = Changed(StartLoop(j)) /\ SetDelegateFrom(j.user, j.shared)
    BY <1>1, <1>2, <2>1, CallsSharing
  <2> QED
    BY <1>1, <2>1, <2>2, Starts DEF SharingMoves, SetsFrom
<1> QED
  BY <1>3, <1>4, <1>5, <1>6

LEMMA ProbeStep ==
    ASSUME IInv, NEW w \in Workers, SyncSenders(w) \/ ProbeInbox(w) \/ ListFolders(w)
    PROVE  SharingMoves(job[w], job'[w])
<1>1. PICK j \in Job : j = job[w]
  BY DEF IInv, TypeOK
<1>2. /\ Carries(FailRound(j), j) /\ FailRound(j).pc = "mailbox"
      /\ "sharing" \in FailRound(j).errors
  BY Fails
<1>3. CASE SyncSenders(w)
  <2>1. PICK t \in j.todo :
          LET k == Entered(j, t) IN
          IF Wanted(k) = (k.user \in k.acls[t]) THEN Locally(w, k)
          ELSE Change(w, k, ReplaceSenders(t, NewSenders(k)), k)
    BY <1>1, <1>3 DEF SyncSenders, Entered
  <2> DEFINE k == Entered(j, t)
             c == Changed(k)
  <2>2. t \in Targets
    BY DEF Job
  <2>3. k \in Job
    BY <2>2 DEF Entered, Job, Labels
  <2>4. /\ k.pc = "probe" /\ k.target = t /\ k.todo = j.todo \ {t}
        /\ Clean(k, j) /\ k.probed = j.probed /\ Snapped(k, j)
    BY DEF Entered, Clean, Carries, Snapped, Job
  <2>5. IF k.target \in k.shared <=> k.user \in k.acls[t] THEN Locally(w, k)
        ELSE Change(w, k, ReplaceSenders(t, NewSenders(k)), k)
    BY <2>1 DEF Wanted
  <2> HIDE DEF k
  <2>6. /\ c.pc = "probe" /\ c.target = t /\ c.todo = j.todo \ {t}
        /\ Clean(c, j) /\ c.probed = j.probed /\ Snapped(c, j)
        /\ NewSenders(c) = NewSenders(k)
    BY <2>3, <2>4 DEF Changed, Clean, Carries, Snapped, NewSenders, Wanted, Job
  <2> HIDE DEF c
  <2>7. j.pc = "mailbox"
    BY <1>1, <1>3 DEF SyncSenders, At
  <2>8. CASE Locally(w, k) /\ (k.target \in k.shared <=> k.user \in k.acls[t])
    <3>1. job'[w] = k /\ UNCHANGED stores
      BY <2>8, Becomes DEF Locally
    <3> QED
      BY <1>1, <2>4, <2>7, <2>8, <3>1 DEF SharingMoves, Enters
  <2>9. CASE Change(w, k, ReplaceSenders(t, NewSenders(k)), k)
    <3>1. Carries(k, job[w])
      BY <1>1, <2>4 DEF Clean
    <3>2. \/ FailsSharing(job[w], job'[w])
          \/ job'[w] = c /\ (ReplaceSenders(t, NewSenders(k)) \/ (k.dry /\ UNCHANGED stores))
      BY <2>3, <2>9, <3>1, ChangesSharing DEF c
    <3>3. k.dry = j.dry
      BY <2>4 DEF Clean, Carries
    <3> QED
      BY <1>1, <2>6, <2>7, <3>2, <3>3 DEF SharingMoves, Enters
  <2> QED
    BY <2>5, <2>8, <2>9
<1>4. CASE ProbeInbox(w)
  <2>1. ASSUME NEW rights
        PROVE  LET k == Decide(j, rights) IN
               /\ Clean(k, j) /\ k.probed = j.probed /\ SameRound(k, j)
               /\ k.pc = "list" \/ (k.pc = "self" /\ (j.dry \/ rights = Due(j)))
    BY Goes DEF Decide
  <2>2. j.pc = "probe"
    BY <1>1, <1>4 DEF ProbeInbox, At
  <2>3. CASE Read(w, Decide(j, acl[j.target][Inbox][j.user]), FailRound(j))
    <3>1. \/ FailsSharing(j, job'[w])
          \/ job'[w] = Decide(j, acl[j.target][Inbox][j.user]) /\ UNCHANGED stores
      BY <1>1, <1>2, <2>3, ReadsSharing
    <3> QED
      BY <1>1, <2>1, <2>2, <3>1 DEF SharingMoves, Probes
  <2>4. CASE Raises(w, "rc", Decide(j, "none"))
    <3>1. job'[w] = Decide(j, "none") /\ UNCHANGED stores /\ "rc" \in disturbed'
      BY <2>4, Becomes DEF Raises, Fault, Disturb
    <3> QED
      BY <1>1, <2>1, <2>2, <3>1 DEF SharingMoves, Probes
  <2> QED
    BY <1>1, <1>4, <2>3, <2>4 DEF ProbeInbox
<1>5. CASE ListFolders(w)
  <2> DEFINE k == [j EXCEPT !.pc = "walk", !.walk = folders[j.target]]
  <2>1. j.pc = "list" /\ Read(w, k, FailRound(j))
    BY <1>1, <1>5 DEF ListFolders, At
  <2>2. /\ k.pc = "walk" /\ k.walk = folders[j.target]
        /\ Clean(k, j) /\ k.probed = j.probed /\ SameRound(k, j)
    BY DEF Clean, Carries, Snapped, SameRound, Job
  <2> HIDE DEF k
  <2>3. FailsSharing(j, job'[w]) \/ (job'[w] = k /\ UNCHANGED stores)
    BY <1>1, <1>2, <2>1, ReadsSharing
  <2> QED
    BY <1>1, <2>1, <2>2, <2>3 DEF SharingMoves, Lists
<1> QED
  BY <1>3, <1>4, <1>5
LEMMA WalkStep ==
    ASSUME IInv, NEW w \in Workers, SetFolder(w)
    PROVE  SharingMoves(job[w], job'[w])
<1>1. PICK j \in Job : j = job[w]
  BY DEF IInv, TypeOK
<1>2. PICK f \in j.walk :
          LET i == [j EXCEPT !.walk = @ \ {f}] IN
          \/ Call(w, SetRights(i.target, f, i.user, Due(i)) /\ UNCHANGED mailDbVars,
                  Walked(i), FailRound(i))
          \/ Raises(w, "rc", Walked(i))
  BY <1>1 DEF SetFolder
<1> DEFINE i == [j EXCEPT !.walk = @ \ {f}]
           k == Walked(i)
<1>3. /\ i \in Job /\ i.walk = j.walk \ {f} /\ i.pc = j.pc
      /\ Clean(i, j) /\ i.probed = j.probed /\ SameRound(i, j)
  BY Removes
<1>4. j.pc = "walk"
  BY <1>1 DEF SetFolder, At
<1>5. \/ Call(w, SetRights(i.target, f, i.user, Due(i)) /\ UNCHANGED mailDbVars,
              k, FailRound(i))
      \/ Raises(w, "rc", k)
  BY <1>2
<1> HIDE DEF i
<1>6. /\ Clean(k, i) /\ k.probed = i.probed /\ SameRound(k, i) /\ k.walk = i.walk
      /\ k.pc = "walk" \/ (k.pc = "self" /\ k.walk = {} /\ k.changed)
  <2>1. CASE i.walk = {}
    BY <1>3, <2>1, Goes DEF Walked
  <2>2. CASE i.walk # {}
    BY <1>3, <1>4, <2>2 DEF Walked, Clean, Carries, Snapped, SameRound
  <2> QED
    BY <2>1, <2>2
<1>7. Carries(FailRound(i), j) /\ FailRound(i).pc = "mailbox" /\ "sharing" \in FailRound(i).errors
  BY <1>3, Fails, CarriesOn DEF Clean
<1>8. SetRights(i.target, f, i.user, Due(i)) => SetRights(j.target, f, j.user, Due(j))
  BY <1>3 DEF Clean, Carries, SameRound, Due, Wanted
<1> HIDE DEF k
<1>9. \/ FailsSharing(j, job'[w])
      \/ /\ job'[w] = k
         /\ \/ "rc" \in disturbed' /\ UNCHANGED stores
            \/ SetRights(j.target, f, j.user, Due(j))
  <2>1. CASE Raises(w, "rc", k)
    BY <2>1, Becomes DEF Raises, Fault, Disturb
  <2>2. CASE Call(w, SetRights(i.target, f, i.user, Due(i)) /\ UNCHANGED mailDbVars,
                  k, FailRound(i))
    BY <1>1, <1>7, <1>8, <2>2, CallsSharing
  <2> QED
    BY <1>5, <2>1, <2>2
<1>10. Clean(k, j) /\ k.probed = j.probed /\ SameRound(k, j) /\ k.walk = j.walk \ {f}
  BY <1>3, <1>6, CleanOn DEF SameRound, Snapped
<1> QED
  BY <1>1, <1>4, <1>6, <1>9, <1>10 DEF SharingMoves, Walks

LEMMA StartSelfStep ==
    ASSUME IInv, NEW w \in Workers, StartSelf(w)
    PROVE  SharingMoves(job[w], job'[w])
<1>1. PICK j \in Job : j = job[w]
  BY DEF IInv, TypeOK
<1> DEFINE next == [Goto(j, "delegate") EXCEPT !.probed = @ \union {j.target}]
           k == [next EXCEPT !.pc = "selfWalk", !.walk = folders[j.target]]
           no == Failed(next, "sharing")
<1>2. /\ j.pc = "self"
      /\ IF j.target \in j.probed THEN Locally(w, next) ELSE Read(w, k, no)
  BY <1>1 DEF StartSelf, At
<1>3. /\ next.pc = "delegate" /\ next.probed = j.probed \union {j.target}
      /\ Clean(next, j) /\ SameRound(next, j)
  BY DEF Goto, Clean, Carries, Snapped, SameRound, Job
<1>4. /\ k.pc = "selfWalk" /\ k.probed = j.probed \union {j.target}
      /\ Clean(k, j) /\ SameRound(k, j) /\ k.walk = folders[j.target]
  BY DEF Goto, Clean, Carries, Snapped, SameRound, Job
<1>5. no.pc = "delegate" /\ Carries(no, j) /\ "sharing" \in no.errors
  BY DEF Failed, Goto, Carries, Job
<1> HIDE DEF next, k, no
<1>6. CASE j.target \in j.probed
  <2>1. job'[w] = next /\ UNCHANGED stores
    BY <1>2, <1>6, Becomes DEF Locally
  <2> QED
    BY <1>1, <1>2, <1>3, <1>6, <2>1 DEF SharingMoves, StartsSelf
<1>7. CASE j.target \notin j.probed
  <2>1. FailsSharing(j, job'[w]) \/ (job'[w] = k /\ UNCHANGED stores)
    BY <1>1, <1>2, <1>5, <1>7, ReadsSharing
  <2> QED
    BY <1>1, <1>2, <1>4, <2>1 DEF SharingMoves, StartsSelf
<1> QED
  BY <1>6, <1>7

LEMMA ClearSelfStep ==
    ASSUME IInv, NEW w \in Workers, ClearSelf(w)
    PROVE  SharingMoves(job[w], job'[w])
<1>1. PICK j \in Job : j = job[w]
  BY DEF IInv, TypeOK
<1>2. PICK f \in j.walk :
          LET i == [j EXCEPT !.walk = @ \ {f}]
              given_up == [Failed(i, "sharing") EXCEPT !.pc = "delegate", !.walk = {}]
          IN \/ IF acl[i.target][f][i.target] = "none" THEN Read(w, Cleared(i), given_up)
                ELSE IF i.dry THEN Read(w, Cleared([i EXCEPT !.found = TRUE]), given_up)
                ELSE Call(w, SetRights(i.target, f, i.target, "none") /\ UNCHANGED mailDbVars,
                          Cleared([i EXCEPT !.found = TRUE]), given_up)
             \/ Raises(w, "rc", Cleared(i))
  BY <1>1 DEF ClearSelf
<1> DEFINE i == [j EXCEPT !.walk = @ \ {f}]
           no == [Failed(i, "sharing") EXCEPT !.pc = "delegate", !.walk = {}]
           h == [i EXCEPT !.found = TRUE]
<1>3. /\ i \in Job /\ i.walk = j.walk \ {f} /\ i.pc = j.pc
      /\ Clean(i, j) /\ i.probed = j.probed /\ SameRound(i, j) /\ i.found = j.found
  BY Removes
<1>4. j.pc = "selfWalk"
  BY <1>1 DEF ClearSelf, At
<1>5. i.target = j.target /\ i.dry = j.dry
  BY <1>3 DEF Clean, Carries, SameRound
<1>6. \/ IF acl[i.target][f][i.target] = "none" THEN Read(w, Cleared(i), no)
         ELSE IF i.dry THEN Read(w, Cleared(h), no)
         ELSE Call(w, SetRights(i.target, f, i.target, "none") /\ UNCHANGED mailDbVars,
                   Cleared(h), no)
      \/ Raises(w, "rc", Cleared(i))
  BY <1>2
<1> HIDE DEF i
<1>7. no.pc = "delegate" /\ Carries(no, i) /\ "sharing" \in no.errors
  BY <1>3 DEF Failed, Carries, Job
<1>8. /\ h \in Job /\ h.walk = i.walk /\ h.pc = i.pc /\ h.found
      /\ Clean(h, i) /\ h.probed = i.probed /\ SameRound(h, i)
  BY <1>3 DEF Clean, Carries, Snapped, SameRound, Job
<1>9. ASSUME NEW x \in Job, x.pc = "selfWalk"
      PROVE  LET k == Cleared(x) IN
             /\ Clean(k, x) /\ k.probed = x.probed /\ SameRound(k, x) /\ k.walk = x.walk
             /\ \/ k.pc = "selfWalk" /\ (x.found => k.found)
                \/ k.pc = "delegate" /\ k.walk = {} /\ (x.found => k.changed)
  <2>1. CASE x.walk # {}
    BY <1>9, <2>1 DEF Cleared, Clean, Carries, Snapped, SameRound
  <2>2. CASE x.walk = {}
    BY <1>9, <2>2, Goes DEF Cleared
  <2> QED
    BY <2>1, <2>2
<1> DEFINE ki == Cleared(i)
           kh == Cleared(h)
<1>10. /\ Clean(ki, j) /\ ki.probed = j.probed /\ SameRound(ki, j) /\ ki.walk = j.walk \ {f}
       /\ \/ ki.pc = "selfWalk" /\ (j.found => ki.found)
          \/ ki.pc = "delegate" /\ ki.walk = {} /\ (j.found => ki.changed)
  <2>1. /\ Clean(ki, i) /\ ki.probed = i.probed /\ SameRound(ki, i) /\ ki.walk = i.walk
        /\ \/ ki.pc = "selfWalk" /\ (i.found => ki.found)
           \/ ki.pc = "delegate" /\ ki.walk = {} /\ (i.found => ki.changed)
    BY <1>3, <1>4, <1>9
  <2> HIDE DEF ki
  <2> QED
    BY <1>3, <2>1, CleanOn DEF SameRound, Snapped
<1>11. /\ Clean(kh, j) /\ kh.probed = j.probed /\ SameRound(kh, j) /\ kh.walk = j.walk \ {f}
       /\ kh.changed \/ (kh.pc = "selfWalk" /\ kh.found)
       /\ \/ kh.pc = "selfWalk" /\ (j.found => kh.found)
          \/ kh.pc = "delegate" /\ kh.walk = {} /\ (j.found => kh.changed)
  <2> HIDE DEF h
  <2>0. h \in Job /\ h.pc = "selfWalk"
    BY <1>3, <1>4, <1>8
  <2>1. /\ Clean(kh, h) /\ kh.probed = h.probed /\ SameRound(kh, h) /\ kh.walk = h.walk
        /\ \/ kh.pc = "selfWalk" /\ (h.found => kh.found)
           \/ kh.pc = "delegate" /\ kh.walk = {} /\ (h.found => kh.changed)
    BY <1>9, <2>0
  <2> HIDE DEF kh
  <2>2. Clean(kh, i)
    BY <1>8, <2>1, CleanOn
  <2>3. Clean(kh, j)
    BY <1>3, <2>2, CleanOn
  <2>4. SameRound(kh, j)
    BY <1>3, <1>8, <2>1 DEF SameRound, Snapped
  <2>5. kh.probed = j.probed /\ kh.walk = j.walk \ {f}
    BY <1>3, <1>8, <2>1
  <2>6. h.found
    BY <1>8
  <2>7. CASE kh.pc = "selfWalk" /\ (h.found => kh.found)
    BY <2>3, <2>4, <2>5, <2>6, <2>7
  <2>8. CASE kh.pc = "delegate" /\ kh.walk = {} /\ (h.found => kh.changed)
    BY <2>3, <2>4, <2>5, <2>6, <2>8
  <2> QED
    BY <2>1, <2>7, <2>8
<1>12. Carries(no, job[w])
  BY <1>1, <1>3, <1>7, CarriesOn DEF Clean
<1> HIDE DEF no, h, ki, kh
<1>13. \/ FailsSharing(j, job'[w])
       \/ /\ job'[w] = ki /\ UNCHANGED stores
          /\ "rc" \in disturbed' \/ acl[j.target][f][j.target] = "none"
       \/ job'[w] = kh /\ UNCHANGED stores /\ j.dry
       \/ job'[w] = kh /\ SetRights(j.target, f, j.target, "none")
  <2>1. CASE Raises(w, "rc", ki)
    BY <2>1, Becomes DEF Raises, Fault, Disturb
  <2>2. CASE Read(w, ki, no) /\ acl[i.target][f][i.target] = "none"
    BY <1>1, <1>5, <1>7, <1>12, <2>2, ReadsSharing
  <2>3. CASE Read(w, kh, no) /\ i.dry
    BY <1>1, <1>5, <1>7, <1>12, <2>3, ReadsSharing
  <2>4. CASE Call(w, SetRights(i.target, f, i.target, "none") /\ UNCHANGED mailDbVars, kh, no)
    BY <1>1, <1>5, <1>7, <1>12, <2>4, CallsSharing
  <2> QED
    BY <1>6, <2>1, <2>2, <2>3, <2>4 DEF ki, kh
<1> QED
  BY <1>1, <1>4, <1>10, <1>11, <1>13 DEF SharingMoves, ClearsSelf

LEMMA EndStep ==
    ASSUME IInv, NEW w \in Workers, SyncDelegateTo(w) \/ Finish(w)
    PROVE  SharingMoves(job[w], job'[w])
<1>1. PICK j \in Job : j = job[w]
  BY DEF IInv, TypeOK
<1>2. CASE SyncDelegateTo(w)
  <2>1. /\ j.pc = "delegate"
        /\ IF "db" \notin features \/ Wanted(j) = (j.user \in j.dts[j.target])
           THEN Locally(w, EndRound(j))
           ELSE Change(w, j, PatchDelegateTo(j.target, j.user, Wanted(j)), EndRound(j))
    BY <1>1, <1>2 DEF SyncDelegateTo, At
  <2>2. CASE Locally(w, EndRound(j)) /\ ("db" \notin features \/ AsWanted(j))
    <3>1. job'[w] = EndRound(j) /\ UNCHANGED stores
      BY <2>2, Becomes DEF Locally
    <3> QED
      BY <1>1, <2>1, <2>2, <3>1, Ends DEF SharingMoves, SyncsDelegateTo
  <2>3. CASE Change(w, j, PatchDelegateTo(j.target, j.user, Wanted(j)), EndRound(j))
    <3>1. Carries(j, job[w])
      BY <1>1 DEF Carries
    <3>2. \/ FailsSharing(job[w], job'[w])
          \/ /\ job'[w] = Changed(EndRound(j))
             /\ \/ PatchDelegateTo(j.target, j.user, Wanted(j))
                \/ j.dry /\ UNCHANGED stores
      BY <2>3, <3>1, ChangesSharing
    <3> QED
      BY <1>1, <2>1, <3>2, Ends DEF SharingMoves, SyncsDelegateTo
  <2> QED
    BY <2>1, <2>2, <2>3 DEF AsWanted, Wanted
<1>3. CASE Finish(w)
  <2> DEFINE k == [IdleJob EXCEPT !.probed = j.probed, !.dry = j.dry]
  <2>1. /\ j.pc = "mailbox" /\ j.todo = {}
        /\ IF ~j.changed \/ j.dry THEN Locally(w, k)
           ELSE \/ FlushCache /\ Become(w, k)
                \/ Raises(w, "flush", k)
    BY <1>1, <1>3 DEF Finish, At
  <2>2. k.pc = "idle" /\ ~k.changed /\ k.probed = j.probed /\ k.dry = j.dry
    BY DEF IdleJob
  <2> HIDE DEF k
  <2>3. /\ job'[w] = k
        /\ \/ UNCHANGED stores /\ (j.changed /\ ~j.dry => "flush" \in disturbed')
           \/ FlushCache
    BY <2>1, Becomes DEF Locally, Raises, Fault, Disturb
  <2> QED
    BY <1>1, <2>1, <2>2, <2>3 DEF SharingMoves, Finishes
<1> QED
  BY <1>2, <1>3

LEMMA SharingStep ==
    ASSUME IInv, NEW w \in Workers, Sharing(w)
    PROVE  SharingMoves(job[w], job'[w])
BY SnapshotStep, ProbeStep, WalkStep, StartSelfStep, ClearSelfStep, EndStep DEF Sharing
---------------------------------------------------------------------------
(* The steps on the mail database, in the same way *)
SameAccount(k, j) == Carries(k, j) /\ k.todo = j.todo /\ k.account = j.account

Finds(j, k) ==
    /\ j.pc = "mail" /\ Carries(k, j) /\ UNCHANGED stores
    /\ \E t \in j.todo :
          /\ k.todo = j.todo \ {t}
          /\ \/ k.pc = "sieve" /\ k.account \in UniqueAccount(j.user, t)
             \/ /\ k.pc = "mail"
                /\ \/ UniqueAccount(j.user, t) = {} \/ "rc" \in disturbed'
                   \/ {"sieve", "map"} \subseteq k.errors

ReadsSieve(j, k) ==
    /\ j.pc = "sieve" /\ SameAccount(k, j) /\ UNCHANGED stores
    /\ \/ k.pc = "sieveSet"
       \/ /\ k.pc = "map"
          /\ "sieve" \in k.errors \/ j.dry \/ j.account \notin live \/ sieve[j.account] = "ours"

WritesSieve(j, k) ==
    /\ j.pc = "sieveSet" /\ k.pc = "map" /\ SameAccount(k, j)
    /\ "sieve" \in k.errors \/ UpdateSieve(j.account)

ReadsMapping(j, k) ==
    /\ j.pc = "map" /\ UNCHANGED stores
    /\ \/ k.pc = "mapBoxes" /\ k.cols = mapping[j.account] /\ SameAccount(k, j)
       \/ /\ k.pc = "mail" /\ Carries(k, j) /\ k.todo = j.todo
          /\ "map" \in k.errors \/ j.account \notin live

ReadsBoxes(j, k) ==
    /\ j.pc = "mapBoxes" /\ UNCHANGED stores
    /\ \/ k.pc = "mapSet" /\ k.fixes = FixesFor(j) /\ SameAccount(k, j)
       \/ /\ k.pc = "mail" /\ Carries(k, j) /\ k.todo = j.todo
          /\ "map" \in k.errors \/ j.dry \/ "rc" \in disturbed'

WritesMapping(j, k) ==
    /\ j.pc = "mapSet"
    /\ \/ /\ k.pc = "mapSet" /\ SameAccount(k, j)
          /\ \E c \in Columns :
                /\ j.fixes[c] # None /\ k.fixes = [j.fixes EXCEPT ![c] = None]
                /\ UpdateMapping(j.account, c, j.fixes[c])
       \/ /\ k.pc = "mail" /\ Carries(k, j) /\ k.todo = j.todo
          /\ "map" \in k.errors \/ (j.fixes = NoBox /\ UNCHANGED stores)

MailDbMoves(j, k) ==
    /\ k.probed = j.probed
    /\ \/ Finds(j, k) \/ ReadsSieve(j, k) \/ WritesSieve(j, k)
       \/ ReadsMapping(j, k) \/ ReadsBoxes(j, k) \/ WritesMapping(j, k)

LEMMA EndsMail ==
    ASSUME NEW j \in Job
    PROVE  /\ LET k == EndMail(j) IN
                 k.pc = "mail" /\ Carries(k, j) /\ k.todo = j.todo /\ k.probed = j.probed
           /\ LET k == EndMail(Failed(j, "map")) IN
                 /\ k.pc = "mail" /\ Carries(k, j) /\ k.todo = j.todo /\ k.probed = j.probed
                 /\ "map" \in k.errors
           /\ LET k == SieveFailed(j) IN
                 /\ k.pc = "map" /\ SameAccount(k, j) /\ k.probed = j.probed
                 /\ "sieve" \in k.errors
           /\ \A label : LET k == Goto(j, label) IN
                 k.pc = label /\ SameAccount(k, j) /\ k.probed = j.probed
BY DEF EndMail, SieveFailed, Goto, Failed, Carries, SameAccount, Job

LEMMA FindStep ==
    ASSUME IInv, NEW w \in Workers, FindAccount(w)
    PROVE  MailDbMoves(job[w], job'[w])
<1>1. PICK j \in Job : j = job[w]
  BY DEF IInv, TypeOK
<1>2. PICK t \in j.todo :
          LET next == [j EXCEPT !.todo = @ \ {t}]
              found == UniqueAccount(j.user, t)
          IN \/ \E a \in found : Locally(w, [next EXCEPT !.pc = "sieve", !.account = a])
             \/ found = {} /\ Locally(w, next)
             \/ Raises(w, "rc", next)
             \/ Raises(w, "call", Failed(Failed(next, "sieve"), "map"))
  BY <1>1 DEF FindAccount
<1>3. j.pc = "mail"
  BY <1>1 DEF FindAccount, At
<1> DEFINE next == [j EXCEPT !.todo = @ \ {t}]
           no == Failed(Failed(next, "sieve"), "map")
<1>4. /\ next.pc = "mail" /\ Carries(next, j) /\ next.todo = j.todo \ {t}
      /\ next.probed = j.probed
  BY <1>3 DEF Carries, Job
<1>5. /\ no.pc = "mail" /\ Carries(no, j) /\ no.todo = j.todo \ {t}
      /\ no.probed = j.probed /\ {"sieve", "map"} \subseteq no.errors
  BY <1>3 DEF Failed, Carries, Job
<1>6. ASSUME NEW a
      PROVE  LET k == [next EXCEPT !.pc = "sieve", !.account = a] IN
             /\ k.pc = "sieve" /\ Carries(k, j) /\ k.todo = j.todo \ {t}
             /\ k.probed = j.probed /\ k.account = a
  BY DEF Carries, Job
<1>7. \/ \E a \in UniqueAccount(j.user, t) :
            Locally(w, [next EXCEPT !.pc = "sieve", !.account = a])
      \/ UniqueAccount(j.user, t) = {} /\ Locally(w, next)
      \/ Raises(w, "rc", next)
      \/ Raises(w, "call", no)
  BY <1>2
<1> HIDE DEF next, no
<1>8. CASE \E a \in UniqueAccount(j.user, t) :
              Locally(w, [next EXCEPT !.pc = "sieve", !.account = a])
  <2>1. PICK a \in UniqueAccount(j.user, t) :
              Locally(w, [next EXCEPT !.pc = "sieve", !.account = a])
    BY <1>8
  <2>2. job'[w] = [next EXCEPT !.pc = "sieve", !.account = a] /\ UNCHANGED stores
    BY <2>1, Becomes DEF Locally
  <2>3. /\ job'[w].pc = "sieve" /\ Carries(job'[w], j) /\ job'[w].todo = j.todo \ {t}
        /\ job'[w].probed = j.probed /\ job'[w].account = a
    BY <1>6, <2>2
  <2> QED
    BY <1>1, <1>3, <2>2, <2>3 DEF MailDbMoves, Finds
<1>9. CASE UniqueAccount(j.user, t) = {} /\ Locally(w, next)
  <2>1. job'[w] = next /\ UNCHANGED stores
    BY <1>9, Becomes DEF Locally
  <2> QED
    BY <1>1, <1>3, <1>4, <1>9, <2>1 DEF MailDbMoves, Finds
<1>10. CASE Raises(w, "rc", next)
  <2>1. job'[w] = next /\ UNCHANGED stores /\ "rc" \in disturbed'
    BY <1>10, Becomes DEF Raises, Fault, Disturb
  <2> QED
    BY <1>1, <1>3, <1>4, <2>1 DEF MailDbMoves, Finds
<1>11. CASE Raises(w, "call", no)
  <2>1. job'[w] = no /\ UNCHANGED stores
    BY <1>11, Becomes DEF Raises
  <2> QED
    BY <1>1, <1>3, <1>5, <2>1 DEF MailDbMoves, Finds
<1> QED
  BY <1>7, <1>8, <1>9, <1>10, <1>11

LEMMA SieveStep ==
    ASSUME IInv, NEW w \in Workers, ReadSieve(w) \/ WriteSieve(w)
    PROVE  MailDbMoves(job[w], job'[w])
<1>1. PICK j \in Job : j = job[w]
  BY DEF IInv, TypeOK
<1>2. CASE ReadSieve(w)
  <2> DEFINE label == IF j.account \in live /\ sieve[j.account] # "ours" /\ ~j.dry
                      THEN "sieveSet" ELSE "map"
  <2>1. j.pc = "sieve" /\ Read(w, Goto(j, label), SieveFailed(j))
    BY <1>1, <1>2 DEF ReadSieve, At
  <2>2. label = "sieveSet" \/
           (label = "map" /\ (j.dry \/ j.account \notin live \/ sieve[j.account] = "ours"))
    OBVIOUS
  <2> HIDE DEF label
  <2>3. job'[w] \in {Goto(j, label), SieveFailed(j)} /\ UNCHANGED stores
    BY <2>1, Reads
  <2> QED
    BY <1>1, <2>1, <2>2, <2>3, EndsMail DEF MailDbMoves, ReadsSieve
<1>3. CASE WriteSieve(w)
  <2>1. /\ j.pc = "sieveSet"
        /\ \/ job'[w] = Goto(j, "map") /\ UpdateSieve(j.account)
           \/ job'[w] = SieveFailed(j)
    BY <1>1, <1>3, Becomes DEF WriteSieve, At, Call
  <2> QED
    BY <1>1, <2>1, EndsMail DEF MailDbMoves, WritesSieve
<1> QED
  BY <1>2, <1>3

LEMMA MappingStep ==
    ASSUME IInv, NEW w \in Workers, ReadMapping(w) \/ ReadBoxes(w) \/ WriteMapping(w)
    PROVE  MailDbMoves(job[w], job'[w])
<1>1. PICK j \in Job : j = job[w]
  BY DEF IInv, TypeOK
<1> DEFINE no == EndMail(Failed(j, "map"))
           done == EndMail(j)
<1>2. /\ no.pc = "mail" /\ Carries(no, j) /\ no.todo = j.todo /\ no.probed = j.probed
      /\ "map" \in no.errors
      /\ done.pc = "mail" /\ Carries(done, j) /\ done.todo = j.todo /\ done.probed = j.probed
  BY EndsMail
<1> HIDE DEF no, done
<1>3. CASE ReadMapping(w)
  <2> DEFINE k == [j EXCEPT !.pc = "mapBoxes", !.cols = mapping[j.account]]
  <2>1. /\ j.pc = "map"
        /\ Read(w, k, no) \/ (j.account \notin live /\ Read(w, done, no))
    BY <1>1, <1>3 DEF ReadMapping, At, no, done
  <2>2. /\ k.pc = "mapBoxes" /\ k.cols = mapping[j.account] /\ SameAccount(k, j)
        /\ k.probed = j.probed
    BY DEF SameAccount, Carries, Job
  <2> HIDE DEF k
  <2>3. UNCHANGED stores /\ (job'[w] \in {k, no} \/ (j.account \notin live /\ job'[w] = done))
    BY <2>1, Reads
  <2> QED
    BY <1>1, <1>2, <2>1, <2>2, <2>3 DEF MailDbMoves, ReadsMapping
<1>4. CASE ReadBoxes(w)
  <2> DEFINE k == [j EXCEPT !.pc = "mapSet", !.fixes = FixesFor(j)]
  <2>1. /\ j.pc = "mapBoxes"
        /\ Read(w, k, no) \/ (j.dry /\ Read(w, done, no)) \/ Raises(w, "rc", done)
    BY <1>1, <1>4 DEF ReadBoxes, At, no, done
  <2>2. /\ k.pc = "mapSet" /\ k.fixes = FixesFor(j) /\ SameAccount(k, j)
        /\ k.probed = j.probed
    BY DEF SameAccount, Carries, Job
  <2> HIDE DEF k
  <2>3. /\ UNCHANGED stores
        /\ job'[w] \in {k, no} \/ (job'[w] = done /\ (j.dry \/ "rc" \in disturbed'))
    BY <2>1, Reads, Becomes DEF Raises, Fault, Disturb
  <2> QED
    BY <1>1, <1>2, <2>1, <2>2, <2>3 DEF MailDbMoves, ReadsBoxes
<1>5. CASE WriteMapping(w)
  <2>1. j.pc = "mapSet"
    BY <1>1, <1>5 DEF WriteMapping, At
  <2>2. ASSUME NEW c \in Columns, j.fixes[c] # None,
               Call(w, UpdateMapping(j.account, c, j.fixes[c]) /\ UNCHANGED sharingVars,
                    [j EXCEPT !.fixes[c] = None], no)
        PROVE  MailDbMoves(j, job'[w])
    <3> DEFINE k == [j EXCEPT !.fixes[c] = None]
    <3>1. /\ k.pc = j.pc /\ k.fixes = [j.fixes EXCEPT ![c] = None] /\ SameAccount(k, j)
          /\ k.probed = j.probed
      BY DEF SameAccount, Carries, Job
    <3> HIDE DEF k
    <3>2. (job'[w] = k /\ UpdateMapping(j.account, c, j.fixes[c])) \/ job'[w] = no
      BY <2>2, Becomes DEF Call, k
    <3> QED
      BY <1>2, <2>1, <2>2, <3>1, <3>2 DEF MailDbMoves, WritesMapping
  <2>3. CASE j.fixes = NoBox /\ Locally(w, done)
    <3>1. job'[w] = done /\ UNCHANGED stores
      BY <2>3, Becomes DEF Locally
    <3> QED
      BY <1>1, <1>2, <2>1, <2>3, <3>1 DEF MailDbMoves, WritesMapping
  <2> QED
    BY <1>1, <1>5, <2>2, <2>3 DEF WriteMapping, no, done
<1> QED
  BY <1>3, <1>4, <1>5

LEMMA MailDbStep ==
    ASSUME IInv, NEW w \in Workers, MailDb(w)
    PROVE  MailDbMoves(job[w], job'[w])
BY FindStep, SieveStep, MappingStep DEF MailDb

---------------------------------------------------------------------------
(* ... and the steps that begin or cut short a request *)
Receives(j, k) ==
    /\ j.pc = "idle" /\ k.pc = "lock" /\ ~k.changed /\ UNCHANGED <<stores, weather>>
    /\ k.probed = {} \/ (k.probed = j.probed /\ k.dry = j.dry)

Acquires(j, k) ==
    /\ j.pc = "lock" /\ k.pc = "mail" /\ k.todo = j.managed
    /\ Clean(k, j) /\ k.probed = j.probed /\ UNCHANGED stores
    /\ Busy => "overlap" \in disturbed'

Crashes(j, k) ==
    j.pc # "idle" /\ k = IdleJob /\ "crash" \in disturbed' /\ UNCHANGED stores

Moves(j, k) ==
    \/ Receives(j, k) \/ Acquires(j, k) \/ Crashes(j, k)
    \/ MailDbMoves(j, k) \/ SharingMoves(j, k)

LEMMA WorkerMoves ==
    ASSUME IInv, NEW w \in Workers, WorkerStep(w)
    PROVE  Moves(job[w], job'[w])
<1>1. PICK j \in Job : j = job[w]
  BY DEF IInv, TypeOK
<1>2. CASE Receive(w)
  <2>1. PICK u, want, managed, probed, dry :
             /\ Become(w, Request(u, want, managed, probed, dry))
             /\ probed = {} \/ (probed = j.probed /\ dry = j.dry)
    BY <1>1, <1>2 DEF Receive
  <2> DEFINE k == Request(u, want, managed, probed, dry)
  <2>2. k.pc = "lock" /\ ~k.changed /\ k.probed = probed /\ k.dry = dry
    BY DEF Request, IdleJob
  <2>3. Become(w, k)
    BY <2>1
  <2> HIDE DEF k
  <2>4. job'[w] = k
    BY <2>3, Becomes
  <2> QED
    BY <1>1, <1>2, <2>1, <2>2, <2>4 DEF Moves, Receives, Receive, At
<1>3. CASE Acquire(w)
  <2> DEFINE k == [j EXCEPT !.pc = "mail", !.todo = j.managed]
  <2>1. k.pc = "mail" /\ k.todo = j.managed /\ Clean(k, j) /\ k.probed = j.probed
    BY DEF Clean, Carries, Job
  <2>2. Become(w, k)
    BY <1>1, <1>3 DEF Acquire
  <2> HIDE DEF k
  <2>3. job'[w] = k
    BY <2>2, Becomes
  <2>4. Busy => "overlap" \in disturbed'
    BY <1>3 DEF Acquire, Disturb
  <2> QED
    BY <1>1, <1>3, <2>1, <2>3, <2>4 DEF Moves, Acquires, Acquire, At
<1>4. CASE Crash(w)
  BY <1>1, <1>4, Becomes DEF Crash, Raises, Fault, Disturb, Moves, Crashes, At
<1> QED
  BY <1>2, <1>3, <1>4, MailDbStep, SharingStep DEF WorkerStep, Moves
---------------------------------------------------------------------------
(* The lock *)
LEMMA Holding ==
    ASSUME NEW j, NEW k, Moves(j, k), k.pc \notin {"idle", "lock"}
    PROVE  Carries(k, j)
<1>1. CASE Receives(j, k) \/ Acquires(j, k) \/ Crashes(j, k)
  BY <1>1 DEF Receives, Acquires, Crashes, Clean, IdleJob
<1>2. CASE MailDbMoves(j, k)
  BY <1>2 DEF MailDbMoves, Finds, ReadsSieve, WritesSieve, ReadsMapping, ReadsBoxes,
          WritesMapping, SameAccount
<1>3. CASE SharingMoves(j, k)
  BY <1>3 DEF SharingMoves, FailsSharing, TakesSenders, TakesDelegateTo, ComparesFrom,
          SetsFrom, Enters, Probes, Lists, Walks, StartsSelf, ClearsSelf, SyncsDelegateTo,
          Finishes, Clean
<1> QED
  BY <1>1, <1>2, <1>3 DEF Moves

LEMMA ExclusiveStep ==
    ASSUME IInv, Exclusive, [Next]_vars
    PROVE  Exclusive'
<1>1. ASSUME NEW w \in Workers, WorkerStep(w)
      PROVE  Exclusive'
  <2>1. \A v \in Workers : v # w => job'[v] = job[v]
    BY <1>1, OthersJobs
  <2>2. HoldsLock(w)' => job'[w].user = job[w].user
    BY <1>1, WorkerMoves, Holding DEF HoldsLock, Carries
  <2>3. CASE Acquire(w)
    <3>1. \A v \in Workers : SameLock(v, w) => ~HoldsLock(v)
      BY <2>3 DEF Acquire
    <3> QED
      BY <2>1, <2>2, <3>1 DEF Exclusive, SameLock, HoldsLock
  <2>4. CASE ~Acquire(w)
    <3>1. HoldsLock(w)' => HoldsLock(w)
      BY <1>1, <2>4, HoldersKept
    <3> QED
      BY <2>1, <2>2, <3>1 DEF Exclusive, SameLock, HoldsLock
  <2> QED
    BY <2>3, <2>4
<1>2. CASE UNCHANGED job
  BY <1>2 DEF Exclusive, SameLock, HoldsLock
<1> QED
  BY <1>1, <1>2, SurroundingsKeep DEF Next, Rest, vars, WorkerStep

(* locks.py: "two concurrent webhooks for the same user serialize": inside one *)
(* process no two requests of a user are between taking the lock and the       *)
(* answer, whatever fails.                                                     *)
THEOREM LockSerializes ==
    ASSUME SingleProcess
    PROVE  Spec => []Serial
<1>1. Init => IInv /\ Exclusive
  BY Initially DEF Init, IdleJob, Exclusive, HoldsLock
<1>2. IInv /\ Exclusive /\ [Next]_vars => IInv' /\ Exclusive'
  BY ExclusiveStep, Inductive
<1>3. Exclusive => Serial
  BY DEF Exclusive, Serial, SameLock, SingleProcess
<1> QED
  BY <1>1, <1>2, <1>3, PTL DEF Spec

(* Who holds a lock while another one works, and who is alone: nobody took a *)
(* lock while another was held.                                              *)
LEMMA AloneStep ==
    ASSUME IInv, [Next]_vars, Unspoilt({"overlap"}) => Alone, Unspoilt({"overlap"})'
    PROVE  Alone'
<1>1. Unspoilt({"overlap"}) /\ Alone
  BY MailDbSteps DEF Unspoilt
<1>2. ASSUME NEW w \in Workers, WorkerStep(w)
      PROVE  Alone'
  <2>1. \A v \in Workers : v # w => (HoldsLock(v)' <=> HoldsLock(v))
    BY <1>2, OthersJobs DEF HoldsLock
  <2>2. CASE Acquire(w)
    <3>1. ~Busy
      BY <2>2 DEF Acquire, Disturb, Unspoilt
    <3> QED
      BY <2>1, <3>1 DEF Busy, Alone
  <2>3. CASE ~Acquire(w)
    <3>1. HoldsLock(w)' => HoldsLock(w)
      BY <1>2, <2>3, HoldersKept
    <3> QED
      BY <1>1, <2>1, <3>1 DEF Alone
  <2> QED
    BY <2>2, <2>3
<1>3. CASE UNCHANGED job
  BY <1>1, <1>3 DEF Alone, HoldsLock
<1> QED
  BY <1>2, <1>3, SurroundingsKeep DEF Next, Rest, vars, WorkerStep

---------------------------------------------------------------------------
(* What the others leave alone *)
LEMMA RightsSet ==
    ASSUME SharingTypeOK, NEW s, NEW g, NEW q, NEW rights, SetRights(s, g, q, rights)
    PROVE  \A t \in Targets, f \in Folders, p \in Principals :
              acl'[t][f][p] = IF t = s /\ f = g /\ p = q THEN rights ELSE acl[t][f][p]
<1>1. acl \in [Targets -> [Folders -> [Principals -> Rights]]]
  BY DEF SharingTypeOK
<1>2. acl' = [acl EXCEPT ![s] = [acl[s] EXCEPT ![g] = [acl[s][g] EXCEPT ![q] = rights]]]
  BY DEF SetRights
<1>3. ASSUME NEW t \in Targets, NEW f \in Folders, NEW p \in Principals
      PROVE  acl'[t][f][p] = IF t = s /\ f = g /\ p = q THEN rights ELSE acl[t][f][p]
  <2>1. acl'[t] = IF t = s THEN [acl[s] EXCEPT ![g] = [acl[s][g] EXCEPT ![q] = rights]]
                           ELSE acl[t]
    BY <1>1, <1>2
  <2>2. acl'[t][f] = IF t = s /\ f = g THEN [acl[s][g] EXCEPT ![q] = rights]
                                       ELSE acl[t][f]
    BY <1>1, <2>1
  <2> QED
    BY <1>1, <2>2
<1> QED
  BY <1>3

LEMMA WorkersMakeNoFolder ==
    ASSUME IInv, NEW w \in Workers, WorkerStep(w)
    PROVE  UNCHANGED folders
BY Writes DEF stores, sharingVars, aclVars, WritesMailDb, WritesSharing, WritesSenders,
   WritesAcl, WritesProfile, ReplaceSenders, SetRights, SetDelegateFrom, PatchDelegateTo,
   FlushCache

LEMMA Unlocked ==
    ASSUME NEW w \in Workers, WorkerStep(w), ~HoldsLock(w)
    PROVE  UNCHANGED stores
<1>1. Receive(w) \/ Acquire(w) \/ Crash(w)
  BY DEF WorkerStep, HoldsLock, At, MailDb, FindAccount, ReadSieve, WriteSieve,
         ReadMapping, ReadBoxes, WriteMapping, Sharing, SnapshotSenders,
         SnapshotDelegateTo, ReadDelegateFrom, WriteDelegateFrom, SyncSenders, ProbeInbox,
         ListFolders, SetFolder, StartSelf, ClearSelf, SyncDelegateTo, Finish
<1> QED
  BY <1>1 DEF Receive, Acquire, Crash, Raises

(* What u has, but for an owner's entries *)
EntriesKept(u) ==
    /\ \A t \in Targets :
          /\ (u \in delegateTo'[t]) = (u \in delegateTo[t])
          /\ t # u => \A f \in Folders : acl'[t][f][u] = acl[t][f][u]
    /\ delegateFrom'[u] = delegateFrom[u]

LEMMA OthersEntries ==
    ASSUME IInv, Serial, NEW w \in Workers, WorkerStep(w),
           NEW v \in Workers, v # w, HoldsLock(v)
    PROVE  EntriesKept(job[v].user)
<1>1. PICK u \in Users : u = job[v].user
  BY DEF IInv, JobSound, HoldsLock
<1>2. CASE HoldsLock(w)
  <2>1. job[w].user # u
    BY <1>1, <1>2 DEF Serial
  <2>2. OwnEntries(job[w].user)
    BY OwnStep
  <2>3. u \in Principals
    BY DEF Principals
  <2>4. ASSUME NEW t \in Targets
        PROVE  /\ (u \in delegateTo'[t]) = (u \in delegateTo[t])
               /\ t # u => \A f \in Folders : acl'[t][f][u] = acl[t][f][u]
    BY <2>1, <2>2, <2>3 DEF OwnEntries
  <2>5. delegateFrom'[u] = delegateFrom[u]
    BY <2>1, <2>2 DEF OwnEntries
  <2> QED
    BY <1>1, <2>4, <2>5 DEF EntriesKept
<1>3. CASE ~HoldsLock(w)
  BY <1>3, Unlocked DEF EntriesKept, stores, sharingVars, aclVars, profileVars
<1> QED
  BY <1>2, <1>3

(* Owners' entries are taken away, never given. *)
LEMMA OwnersEntries ==
    ASSUME IInv, NEW w \in Workers, WorkerStep(w), NEW t \in Targets, NEW f \in Folders
    PROVE  acl'[t][f][t] \in {acl[t][f][t], "none"}
<1>1. SharingTypeOK /\ job[w] \in Job /\ JobSound(job[w]) /\ t \in Principals
  BY DEF IInv, TypeOK, Principals
<1>2. CASE acl' = acl
  BY <1>2
<1>3. CASE WritesAcl(w)
  <2>1. PICK s, g, q, rights :
          SetRights(s, g, q, rights) /\ (q = s => rights = "none")
    <3>1. job[w].pc \in RoundLabels
      BY <1>3 DEF WritesAcl, At, RoundLabels
    <3>2. job[w].target \in Targets \ {job[w].user}
      BY <1>1, <3>1, RoundKeeps
    <3> QED
      BY <1>3, <3>2 DEF WritesAcl
  <2> QED
    BY <1>1, <2>1, RightsSet
<1> QED
  BY <1>2, <1>3, Writes DEF stores, sharingVars, aclVars, WritesMailDb, WritesSharing,
     WritesSenders, WritesProfile, ReplaceSenders, SetDelegateFrom, PatchDelegateTo, FlushCache
---------------------------------------------------------------------------
(* SOGo's cache *)
LEMMA CacheKept ==
    ASSUME IInv, NEW w \in Workers, NEW j, NEW k, Moves(j, k), j = job[w], k = job'[w],
           j.pc \in {"idle", "lock"} => ~j.changed,
           Unspoilt({"lost", "flush", "crash"})', stale' # {}
    PROVE  /\ WillFlush(j) => WillFlush(k)
           /\ Unspoilt({"call"})' /\ MightFlush(j) => MightFlush(k)
<1>1. CASE Receives(j, k) \/ Acquires(j, k) \/ Crashes(j, k)
  BY <1>1 DEF Receives, Acquires, Crashes, Clean, Carries, Unspoilt, WillFlush, MightFlush
<1>2. CASE MailDbMoves(j, k)
  <2>1. Carries(k, j) /\ j.pc \notin {"walk", "selfWalk"}
    BY <1>2 DEF MailDbMoves, Finds, ReadsSieve, WritesSieve, ReadsMapping, ReadsBoxes,
            WritesMapping, SameAccount
  <2> QED
    BY <2>1 DEF Carries, WillFlush, MightFlush
<1>3. CASE FailsSharing(j, k)
  BY <1>3 DEF FailsSharing, Carries, Unspoilt, WillFlush, MightFlush
<1>4. CASE Walks(j, k)
  BY <1>4 DEF Walks, Clean, Carries, WillFlush, MightFlush
<1>5. CASE ClearsSelf(j, k)
  BY <1>5 DEF ClearsSelf, Clean, Carries, WillFlush, MightFlush
<1>6. CASE Finishes(j, k)
  BY <1>6 DEF Finishes, FlushCache, Unspoilt, WillFlush, MightFlush
<1>7. CASE \/ TakesSenders(j, k) \/ TakesDelegateTo(j, k) \/ ComparesFrom(j, k)
           \/ SetsFrom(j, k) \/ Enters(j, k) \/ Probes(j, k) \/ Lists(j, k)
           \/ StartsSelf(j, k) \/ SyncsDelegateTo(j, k)
  BY <1>7 DEF TakesSenders, TakesDelegateTo, ComparesFrom, SetsFrom, Enters, Probes, Lists,
          StartsSelf, SyncsDelegateTo, Clean, Carries, WillFlush, MightFlush
<1> QED
  BY <1>1, <1>2, <1>3, <1>4, <1>5, <1>6, <1>7 DEF Moves, SharingMoves

(* What becomes stale will be flushed. *)
LEMMA CacheGrows ==
    ASSUME IInv, NEW w \in Workers, WorkerStep(w), Unspoilt({"lost"})'
    PROVE  /\ "profile" \in stale' \ stale => WillFlush(job'[w])
           /\ "acl" \in stale' \ stale /\ Unspoilt({"call"})' => MightFlush(job'[w])
<1>1. PICK j \in Job : j = job[w]
  BY DEF IInv, TypeOK
<1>2. PICK k : k = job'[w]
  OBVIOUS
<1>3. Moves(j, k) /\ JobSound(j)
  BY <1>1, <1>2, WorkerMoves DEF IInv
<1>4. \/ UNCHANGED stale \/ stale' = {} \/ WritesAcl(w) \/ WritesProfile(w)
  BY Writes DEF stores, sharingVars, WritesMailDb, WritesSharing, WritesSenders,
     ReplaceSenders, FlushCache
<1>5. CASE "profile" \in stale' \ stale
  <2>0. WritesAcl(w) => stale' = stale \union {"acl"}
    BY DEF WritesAcl, SetRights
  <2>1. WritesProfile(w)
    BY <1>4, <1>5, <2>0
  <2>2. j.pc \in {"fromSet", "delegate"} /\ ~j.dry
    BY <1>1, <1>3, <2>1 DEF WritesProfile, At, JobSound, WetLabels
  <2>3. ~FailsSharing(j, k)
    BY <1>5 DEF FailsSharing, Unspoilt, stores, sharingVars
  <2>4. k.changed /\ Carries(k, j)
    <3>1. SetsFrom(j, k) \/ SyncsDelegateTo(j, k)
      BY <1>3, <1>5, <2>2, <2>3 DEF Moves, Receives, Acquires, Crashes, MailDbMoves, Finds,
              ReadsSieve, WritesSieve, ReadsMapping, ReadsBoxes, WritesMapping,
              SharingMoves, TakesSenders, TakesDelegateTo, ComparesFrom, Enters, Probes,
              Lists, Walks, StartsSelf, ClearsSelf, Finishes, stores, sharingVars
    <3> QED
      BY <1>5, <3>1 DEF SetsFrom, SyncsDelegateTo, Clean, stores, sharingVars
  <2> QED
    BY <1>2, <1>5, <2>2, <2>4 DEF WillFlush, MightFlush, Carries
<1>6. CASE "acl" \in stale' \ stale /\ Unspoilt({"call"})'
  <2>1. WritesAcl(w)
    BY <1>4, <1>6 DEF WritesProfile, SetDelegateFrom, PatchDelegateTo, ProfileStale
  <2>2. j.pc \in {"walk", "selfWalk"} /\ ~j.dry
    BY <1>1, <1>3, <2>1 DEF WritesAcl, At, JobSound, WetLabels
  <2>3. ~FailsSharing(j, k) /\ ~UNCHANGED stores
    BY <1>6 DEF FailsSharing, Unspoilt, stores, sharingVars
  <2>4. Walks(j, k) \/ ClearsSelf(j, k)
    BY <1>3, <2>2, <2>3 DEF Moves, Receives, Acquires, Crashes, MailDbMoves, Finds,
            ReadsSieve, WritesSieve, ReadsMapping, ReadsBoxes, WritesMapping,
            SharingMoves, TakesSenders, TakesDelegateTo, ComparesFrom, SetsFrom, Enters,
            Probes, Lists, StartsSelf, SyncsDelegateTo, Finishes
  <2>5. Carries(k, j) /\ (k.changed \/ k.pc = "walk" \/ (k.pc = "selfWalk" /\ k.found))
    BY <2>3, <2>4 DEF Walks, ClearsSelf, Clean
  <2>6. ~k.dry
    BY <2>2, <2>5 DEF Carries
  <2>7. MightFlush(k)
    BY <2>5, <2>6 DEF MightFlush
  <2>8. stale' = stale \union {"acl"}
    BY <2>1 DEF WritesAcl, SetRights
  <2>9. "profile" \notin stale' \ stale
    BY <2>8
  <2> QED
    BY <1>2, <2>7, <2>9
<1> QED
  BY <1>5, <1>6

LEMMA CacheInductive ==
    ASSUME IInv, CacheInv, [Next]_vars
    PROVE  CacheInv'
<1>1. disturbed \subseteq disturbed'
  BY MailDbSteps
<1>2. ASSUME NEW w \in Workers, WorkerStep(w)
      PROVE  CacheInv'
  <2>1. \A v \in Workers : v # w => job'[v] = job[v]
    BY <1>2, OthersJobs
  <2>2. PICK j : j = job[w]
    OBVIOUS
  <2>3. PICK k : k = job'[w]
    OBVIOUS
  <2>4. Moves(j, k) /\ (j.pc \in {"idle", "lock"} => ~j.changed)
    BY <1>2, <2>2, <2>3, WorkerMoves DEF CacheInv
  <2>5. k.pc \in {"idle", "lock"} => ~k.changed
    BY <2>4 DEF Moves, Receives, Acquires, Crashes, IdleJob, MailDbMoves, Finds,
            ReadsSieve, WritesSieve, ReadsMapping, ReadsBoxes, WritesMapping,
            SharingMoves, FailsSharing, TakesSenders, TakesDelegateTo, ComparesFrom,
            SetsFrom, Enters, Probes, Lists, Walks, StartsSelf, ClearsSelf,
            SyncsDelegateTo, Finishes
  <2>6. ASSUME "profile" \in stale', Unspoilt({"lost", "flush", "crash"})'
        PROVE  \E v \in Workers : WillFlush(job[v])'
    <3>1. Unspoilt({"lost", "flush", "crash"}) /\ Unspoilt({"lost"})'
      BY <1>1, <2>6 DEF Unspoilt
    <3>2. CASE "profile" \in stale
      <4>1. PICK v \in Workers : WillFlush(job[v])
        BY <3>1, <3>2 DEF CacheInv
      <4>2. CASE v = w
        BY <2>2, <2>3, <2>4, <2>6, <4>1, <4>2, CacheKept DEF WillFlush
      <4>3. CASE v # w
        BY <2>1, <4>1, <4>3 DEF WillFlush
      <4> QED
        BY <4>2, <4>3
    <3>3. CASE "profile" \notin stale
      BY <1>2, <2>6, <3>1, <3>3, CacheGrows DEF WillFlush
    <3> QED
      BY <3>2, <3>3
  <2>7. ASSUME "acl" \in stale', Unspoilt({"lost", "flush", "crash", "call"})'
        PROVE  \E v \in Workers : MightFlush(job[v])'
    <3>1. /\ Unspoilt({"lost", "flush", "crash", "call"})
          /\ Unspoilt({"lost"})' /\ Unspoilt({"call"})'
          /\ Unspoilt({"lost", "flush", "crash"})'
      BY <1>1, <2>7 DEF Unspoilt
    <3>2. CASE "acl" \in stale
      <4>1. PICK v \in Workers : MightFlush(job[v])
        BY <3>1, <3>2 DEF CacheInv
      <4>2. CASE v = w
        BY <2>2, <2>3, <2>4, <2>7, <3>1, <4>1, <4>2, CacheKept DEF MightFlush
      <4>3. CASE v # w
        BY <2>1, <4>1, <4>3 DEF MightFlush
      <4> QED
        BY <4>2, <4>3
    <3>3. CASE "acl" \notin stale
      BY <1>2, <2>7, <3>1, <3>3, CacheGrows DEF MightFlush
    <3> QED
      BY <3>2, <3>3
  <2> QED
    BY <2>1, <2>3, <2>5, <2>6, <2>7 DEF CacheInv
<1>3. CASE UNCHANGED <<job, stale>>
  <2>1. ASSUME NEW v \in Workers
        PROVE  (WillFlush(job[v]) => WillFlush(job[v])') /\ (MightFlush(job[v]) => MightFlush(job[v])')
    BY <1>3 DEF WillFlush, MightFlush
  <2>2. /\ Unspoilt({"lost", "flush", "crash"})' => Unspoilt({"lost", "flush", "crash"})
        /\ Unspoilt({"lost", "flush", "crash", "call"})'
              => Unspoilt({"lost", "flush", "crash", "call"})
    BY <1>1 DEF Unspoilt
  <2> QED
    BY <1>3, <2>1, <2>2 DEF CacheInv
<1>4. Surroundings => UNCHANGED <<job, stale>>
  BY SurroundingsKeep DEF Surroundings, SendersByHand, DelegationByHand, AccountsByHand,
     FolderMade, BoxMade, Mapped, ReplaceSenders, sharingVars
<1> QED
  BY <1>2, <1>3, <1>4 DEF Next, Rest, vars, stores, sharingVars, WorkerStep

(* reconcile_user: "flush SOGo's cache when anything changed".  Whatever else  *)
(* fails and however requests interleave, in any number of processes, what was *)
(* changed is flushed by the time no request runs, but for the failures that   *)
(* CacheFlushed names.                                                         *)
THEOREM CacheIsFlushed == Spec => []CacheFlushed
<1>1. Init => IInv /\ CacheInv
  <2>1. ASSUME Init
        PROVE  CacheInv
    BY <2>1 DEF Init, SharingInit, CacheInv, IdleJob
  <2> QED
    BY <2>1, Initially
<1>2. IInv /\ CacheInv /\ [Next]_vars => (IInv /\ CacheInv)'
  BY Inductive, CacheInductive
<1>3. ASSUME IInv, CacheInv
      PROVE  CacheFlushed
  <2>1. ASSUME \A w \in Workers : At(w, "idle"), NEW w \in Workers
        PROVE  ~WillFlush(job[w]) /\ ~MightFlush(job[w])
    BY <1>3, <2>1 DEF CacheInv, WillFlush, MightFlush, At
  <2> QED
    BY <1>3, <2>1 DEF CacheInv, CacheFlushed
<1> QED
  BY <1>1, <1>2, <1>3, PTL DEF Spec
---------------------------------------------------------------------------
(* Folders *)
LEMMA AclSteps ==
    ASSUME IInv, NEW w \in Workers, WorkerStep(w), acl' # acl
    PROVE  LET j == job[w] IN
           /\ j.target \in Targets \ {j.user} /\ ~j.dry
           /\ \E f \in j.walk :
                 \/ j.pc = "walk" /\ SetRights(j.target, f, j.user, Due(j))
                 \/ j.pc = "selfWalk" /\ SetRights(j.target, f, j.target, "none")
<1>1. WritesAcl(w)
  BY Writes DEF stores, sharingVars, aclVars, WritesMailDb, WritesSharing, WritesSenders,
     WritesProfile, ReplaceSenders, SetDelegateFrom, PatchDelegateTo, FlushCache
<1>2. job[w] \in Job /\ JobSound(job[w])
  BY DEF IInv, TypeOK
<1>3. job[w].pc \in RoundLabels /\ ~job[w].dry
  BY <1>1, <1>2 DEF WritesAcl, At, RoundLabels, JobSound, WetLabels
<1>4. job[w].target \in Targets \ {job[w].user}
  BY <1>2, <1>3, RoundKeeps
<1> QED
  BY <1>1, <1>3, <1>4 DEF WritesAcl, At

LEMMA SurroundingFolders ==
    ASSUME IInv, Surroundings
    PROVE  UNCHANGED <<acl, job>> /\ \A t \in Targets : folders[t] \subseteq folders'[t]
<1>1. CASE FolderMade
  BY <1>1, SurroundingsKeep DEF FolderMade, IInv, TypeOK, SharingTypeOK
<1>2. CASE ~FolderMade
  BY <1>2, SurroundingsKeep DEF Surroundings, SendersByHand, DelegationByHand, AccountsByHand,
     BoxMade, Mapped, ReplaceSenders, aclVars, sharingVars
<1> QED
  BY <1>1, <1>2

LEMMA FoldersStep ==
    ASSUME IInv, FoldersSound, [Next]_vars
    PROVE  FoldersSound'
<1>1. ASSUME NEW w \in Workers, WorkerStep(w)
      PROVE  FoldersSound'
  <2>1. PICK j : j = job[w]
    OBVIOUS
  <2>2. PICK k : k = job'[w]
    OBVIOUS
  <2>3. UNCHANGED folders /\ \A v \in Workers : v # w => job'[v] = job[v]
    BY <1>1, OthersJobs, WorkersMakeNoFolder
  <2>4. Moves(j, k)
    BY <1>1, <2>1, <2>2, WorkerMoves
  <2>5. j.pc \in {"walk", "selfWalk"} => j.walk \subseteq folders[j.target]
    BY <2>1 DEF FoldersSound
  <2>6. k.pc \in {"walk", "selfWalk"} => k.walk \subseteq folders[k.target]
    BY <2>4, <2>5 DEF Moves, Receives, Acquires, Crashes, IdleJob, MailDbMoves, Finds,
            ReadsSieve, WritesSieve, ReadsMapping, ReadsBoxes, WritesMapping,
            SharingMoves, FailsSharing, TakesSenders, TakesDelegateTo, ComparesFrom,
            SetsFrom, Enters, Probes, Lists, Walks, StartsSelf, ClearsSelf,
            SyncsDelegateTo, Finishes, SameRound
  <2>7. ASSUME NEW t \in Targets, NEW f \in Folders \ folders[t], NEW p \in Principals
        PROVE  acl'[t][f][p] = "none"
    <3>1. acl[t][f][p] = "none"
      BY DEF FoldersSound
    <3>2. CASE acl' # acl
      <4>1. PICK g, q, rights : g \in j.walk /\ SetRights(j.target, g, q, rights)
        BY <1>1, <2>1, <3>2, AclSteps
      <4>2. j.pc \in {"walk", "selfWalk"}
        BY <1>1, <2>1, <3>2, AclSteps
      <4>3. ~(t = j.target /\ f = g)
        BY <2>5, <4>1, <4>2
      <4> QED
        BY <3>1, <4>1, <4>3, RightsSet DEF IInv, TypeOK
    <3> QED
      BY <3>1, <3>2
  <2> QED
    BY <2>2, <2>3, <2>6, <2>7 DEF FoldersSound
<1>2. CASE UNCHANGED <<acl, job>> /\ \A t \in Targets : folders[t] \subseteq folders'[t]
  <2>1. ASSUME NEW v \in Workers, job[v].pc \in {"walk", "selfWalk"}
        PROVE  job[v].walk \subseteq folders'[job[v].target]
    <3>1. job[v].target \in Targets
      BY <2>1, RoundKeeps DEF IInv, TypeOK, RoundLabels
    <3> QED
      BY <1>2, <2>1, <3>1 DEF FoldersSound
  <2> QED
    BY <1>2, <2>1 DEF FoldersSound
<1>3. UNCHANGED <<acl, job, folders>> =>
        (UNCHANGED <<acl, job>> /\ \A t \in Targets : folders[t] \subseteq folders'[t])
  OBVIOUS
<1> QED
  BY <1>1, <1>2, <1>3, SurroundingFolders
     DEF Next, Rest, vars, stores, sharingVars, aclVars, WorkerStep
---------------------------------------------------------------------------
(* INBOX as the probe *)
LEMMA WalkGoes ==
    ASSUME IInv, NEW j \in Job, JobSound(j), NEW k, Walks(j, k), WalkSound(j),
           "rc" \notin disturbed'
    PROVE  \A f \in Folders \ k.walk :
              acl'[j.target][f][j.user] \in {Due(j)} \union (IF f = Inbox THEN {} ELSE {"none"})
<1>1. PICK g \in j.walk : k.walk = j.walk \ {g} /\ SetRights(j.target, g, j.user, Due(j))
  BY DEF Walks
<1>2. j.target \in Targets /\ j.user \in Principals
  BY RoundKeeps DEF Walks, RoundLabels, Principals
<1>3. ASSUME NEW f \in Folders
      PROVE  acl'[j.target][f][j.user] = IF f = g THEN Due(j) ELSE acl[j.target][f][j.user]
  BY <1>1, <1>2, RightsSet DEF IInv, TypeOK
<1>4. \A f \in Folders \ j.walk :
         acl[j.target][f][j.user] \in {Due(j)} \union (IF f = Inbox THEN {} ELSE {"none"})
  BY DEF WalkSound, Walks
<1> QED
  BY <1>1, <1>3, <1>4

LEMMA WalkSoundStep ==
    ASSUME IInv, FoldersSound, NEW w \in Workers, WorkerStep(w),
           "rc" \notin disturbed', WalkSound(job[w])
    PROVE  WalkSound(job[w])'
<1>1. PICK j \in Job : j = job[w] /\ JobSound(j)
  BY DEF IInv, TypeOK
<1>2. PICK k : k = job'[w]
  OBVIOUS
<1>3. Moves(j, k)
  BY <1>1, <1>2, WorkerMoves
<1> SUFFICES ASSUME k.pc = "walk", NEW f \in Folders \ k.walk
             PROVE  acl'[k.target][f][k.user] \in
                       {Due(k)} \union (IF f = Inbox THEN {} ELSE {"none"})
  BY <1>2 DEF WalkSound, Due, Wanted
<1>4. Lists(j, k) \/ Walks(j, k)
  BY <1>3 DEF Moves, Receives, Acquires, Crashes, IdleJob, MailDbMoves, Finds,
          ReadsSieve, WritesSieve, ReadsMapping, ReadsBoxes, WritesMapping,
          SharingMoves, FailsSharing, TakesSenders, TakesDelegateTo, ComparesFrom,
          SetsFrom, Enters, Probes, StartsSelf, ClearsSelf, SyncsDelegateTo, Finishes
<1>5. k.target = j.target /\ k.user = j.user /\ Due(k) = Due(j)
  BY <1>4 DEF Lists, Walks, SameRound, Clean, Carries, Due, Wanted
<1>6. CASE Lists(j, k)
  <2>1. j.target \in Targets /\ j.user \in Principals
    BY <1>1, <1>6, RoundKeeps DEF Lists, RoundLabels, Principals
  <2>2. f \notin folders[j.target] /\ UNCHANGED acl
    BY <1>6 DEF Lists, stores, sharingVars, aclVars
  <2>3. acl'[j.target][f][j.user] = "none" /\ f # Inbox
    BY <2>1, <2>2 DEF FoldersSound
  <2> QED
    BY <1>5, <2>3
<1>7. CASE Walks(j, k)
  BY <1>1, <1>5, <1>7, WalkGoes
<1> QED
  BY <1>4, <1>6, <1>7

LEMMA UniformStep ==
    ASSUME IInv, NEW w \in Workers, WorkerStep(w), WalkSound(job[w]),
           Unspoilt({"call", "lost", "rc", "crash"})',
           NEW u \in Users, NEW t \in Targets \ {u}, Uniform(t, u) \/ Walking(t, u)
    PROVE  Uniform(t, u)' \/ Walking(t, u)'
<1>1. PICK j \in Job : j = job[w] /\ JobSound(j)
  BY DEF IInv, TypeOK
<1>2. PICK k : k = job'[w]
  OBVIOUS
<1>3. Moves(j, k)
  BY <1>1, <1>2, WorkerMoves
<1>4. CASE j.pc = "walk" /\ j.target = t /\ j.user = u
  <2>1. Walks(j, k) /\ "rc" \notin disturbed'
    BY <1>3, <1>4 DEF Moves, Receives, Acquires, Crashes, MailDbMoves, Finds,
          ReadsSieve, WritesSieve, ReadsMapping, ReadsBoxes, WritesMapping,
          SharingMoves, FailsSharing, TakesSenders, TakesDelegateTo, ComparesFrom,
          SetsFrom, Enters, Probes, Lists, StartsSelf, ClearsSelf, SyncsDelegateTo, Finishes,
          Unspoilt
  <2>2. CASE k.pc = "walk"
    <3>1. k.target = t /\ k.user = u
      BY <1>4, <2>1 DEF Walks, SameRound, Clean, Carries
    <3> QED
      BY <1>2, <2>2, <3>1 DEF Walking
  <2>3. CASE k.walk = {}
    <3>1. \A f \in Folders :
             acl'[t][f][u] \in {Due(j)} \union (IF f = Inbox THEN {} ELSE {"none"})
      BY <1>1, <1>4, <2>1, <2>3, WalkGoes
    <3> QED
      BY <3>1, InboxAssumption DEF Uniform
  <2> QED
    BY <2>1, <2>2, <2>3 DEF Walks
<1>5. CASE ~(j.pc = "walk" /\ j.target = t /\ j.user = u)
  <2>1. ASSUME NEW f \in Folders
        PROVE  acl'[t][f][u] = acl[t][f][u]
    <3>1. CASE acl' # acl
      <4>1. PICK g \in j.walk :
               \/ j.pc = "walk" /\ SetRights(j.target, g, j.user, Due(j))
               \/ j.pc = "selfWalk" /\ SetRights(j.target, g, j.target, "none")
        BY <1>1, <3>1, AclSteps
      <4>2. u \in Principals
        BY DEF Principals
      <4> QED
        BY <1>5, <4>1, <4>2, RightsSet DEF IInv, TypeOK
    <3> QED
      BY <3>1
  <2>2. CASE Uniform(t, u)
    BY <2>1, <2>2, InboxAssumption DEF Uniform
  <2>3. CASE Walking(t, u)
    <3>1. PICK v \in Workers : job[v].pc = "walk" /\ job[v].target = t /\ job[v].user = u
      BY <2>3 DEF Walking
    <3>2. job'[v] = job[v]
      BY <1>1, <1>5, <3>1, OthersJobs
    <3> QED
      BY <3>1, <3>2 DEF Walking
  <2> QED
    BY <2>2, <2>3
<1> QED
  BY <1>4, <1>5

LEMMA InboxStep ==
    ASSUME IInv, Serial, FoldersSound, InboxInv, [Next]_vars
    PROVE  InboxInv'
<1>1. disturbed \subseteq disturbed'
  BY MailDbSteps
<1>2. ASSUME NEW w \in Workers, WorkerStep(w)
      PROVE  InboxInv'
  <2>1. ASSUME Unspoilt({"rc"})', NEW v \in Workers
        PROVE  WalkSound(job[v])'
    <3>1. "rc" \notin disturbed' /\ WalkSound(job[v])
      BY <1>1, <2>1 DEF Unspoilt, InboxInv
    <3>2. CASE v = w
      BY <1>2, <3>1, <3>2, WalkSoundStep
    <3>3. CASE v # w
      <4>1. job'[v] = job[v]
        BY <1>2, <3>3, OthersJobs
      <4>2. ASSUME job[v].pc = "walk"
            PROVE  WalkSound(job[v])'
        <5>1. HoldsLock(v)
          BY <4>2 DEF HoldsLock
        <5>2. EntriesKept(job[v].user)
          BY <1>2, <3>3, <5>1, OthersEntries
        <5>3. job[v].target \in Targets \ {job[v].user}
          BY <4>2, RoundKeeps DEF IInv, TypeOK, RoundLabels
        <5> QED
          BY <3>1, <4>1, <5>2, <5>3 DEF WalkSound, EntriesKept, Due, Wanted
      <4> QED
        BY <4>1, <4>2 DEF WalkSound
    <3> QED
      BY <3>2, <3>3
  <2>2. ASSUME Unspoilt({"call", "lost", "rc", "crash"})',
               NEW u \in Users, NEW t \in Targets \ {u}
        PROVE  Uniform(t, u)' \/ Walking(t, u)'
    <3>1. Unspoilt({"rc"}) /\ Unspoilt({"call", "lost", "rc", "crash"})
      BY <1>1, <2>2 DEF Unspoilt
    <3>2. WalkSound(job[w]) /\ (Uniform(t, u) \/ Walking(t, u))
      BY <3>1 DEF InboxInv
    <3> QED
      BY <1>2, <2>2, <3>2, UniformStep
  <2> QED
    BY <2>1, <2>2 DEF InboxInv
<1>3. CASE UNCHANGED <<job, acl>>
  <2>1. \A v \in Workers : WalkSound(job[v]) => WalkSound(job[v])'
    BY <1>3 DEF WalkSound, Due, Wanted
  <2>2. \A t, u : (Uniform(t, u) \/ Walking(t, u)) => (Uniform(t, u)' \/ Walking(t, u)')
    BY <1>3 DEF Uniform, Walking
  <2>3. /\ Unspoilt({"rc"})' => Unspoilt({"rc"})
        /\ Unspoilt({"call", "lost", "rc", "crash"})' => Unspoilt({"call", "lost", "rc", "crash"})
    BY <1>1 DEF Unspoilt
  <2> QED
    BY <2>1, <2>2, <2>3 DEF InboxInv
<1> QED
  BY <1>2, <1>3, SurroundingFolders
     DEF Next, Rest, vars, stores, sharingVars, aclVars, WorkerStep

(* What the two theorems on the sharing rest on *)
LEMMA Placed ==
    ASSUME Init
    PROVE  IInv /\ FoldersSound /\ InboxInv
<1>1. \A w \in Workers : job[w].pc = "idle"
  BY DEF Init, IdleJob
<1>3. /\ \A t \in Targets : Inbox \in folders[t]
      /\ \A t \in Targets, f \in Folders, p \in Principals :
            acl[t][f][p] = IF f \notin folders[t] THEN "none"
                           ELSE IF p # t THEN acl[t][Inbox][p] ELSE acl[t][f][p]
  BY DEF Init, SharingInit
<1>4. FoldersSound
  BY <1>1, <1>3 DEF FoldersSound
<1>5. ASSUME NEW u \in Users, NEW t \in Targets \ {u}
      PROVE  Uniform(t, u)
  <2>1. u \in Principals
    BY DEF Principals
  <2>2. \A f \in Folders : acl[t][f][u] = "none" \/ acl[t][f][u] = acl[t][Inbox][u]
    BY <1>3, <2>1
  <2> QED
    BY <2>2 DEF Uniform
<1>6. InboxInv
  BY <1>1, <1>5 DEF InboxInv, WalkSound
<1> QED
  BY <1>4, <1>6, Initially

(* dovecot.py: "We probe INBOX as a representative". Where the requests of a   *)
(* user are served in turn, no folder of a mailbox ever gives a user more than *)
(* INBOX while no request of the user runs, and so the probe misses nothing -- *)
(* unless a doveadm call failed or a request died.                             *)
THEOREM InboxIsRepresentative == Spec /\ []Serial => []InboxSpeaks
<1> DEFINE Inv == IInv /\ FoldersSound /\ InboxInv
<1>1. Init => Inv
  BY Placed
<1>2. Inv /\ Serial /\ [Next]_vars => Inv'
  BY Inductive, FoldersStep, InboxStep
<1>3. ASSUME Inv
      PROVE  InboxSpeaks
  <2>1. \A t, u : Walking(t, u) => \E w \in Workers : HoldsLock(w) /\ job[w].user = u
    BY DEF Walking, HoldsLock
  <2> QED
    BY <1>3, <2>1 DEF InboxInv, InboxSpeaks, Uniform
<1> HIDE DEF Inv
<1> QED
  BY <1>1, <1>2, <1>3, PTL DEF Spec
---------------------------------------------------------------------------
(* What a request reaches of the sharing: its own steps, ... *)
LEMMA LoopMoves ==
    ASSUME NEW j, NEW k, Moves(j, k), k.pc \in LoopLabels, "sharing" \notin k.errors
    PROVE  /\ Carries(k, j) /\ Others(k) = Others(j)
           /\ \/ TakesSenders(j, k) \/ ComparesFrom(j, k) \/ SetsFrom(j, k) \/ Enters(j, k)
              \/ Probes(j, k) \/ Lists(j, k) \/ Walks(j, k) \/ StartsSelf(j, k)
              \/ ClearsSelf(j, k) \/ SyncsDelegateTo(j, k)
<1>1. Carries(k, j)
  BY Holding DEF LoopLabels, RoundLabels
<1>2. SharingMoves(j, k)
  BY DEF Moves, Receives, Acquires, Crashes, IdleJob, MailDbMoves, Finds, ReadsSieve,
         WritesSieve, ReadsMapping, ReadsBoxes, WritesMapping, LoopLabels, RoundLabels
<1> QED
  BY <1>1, <1>2 DEF SharingMoves, FailsSharing, TakesDelegateTo, Finishes, LoopLabels,
     RoundLabels, Carries, Others

LEMMA UndisturbedBefore ==
    ASSUME IInv, [Next]_vars, NEW j, NEW k, Carries(k, j), Undisturbed(k)'
    PROVE  Undisturbed(j) /\ "sharing" \notin k.errors /\ ~k.dry /\ "rc" \notin disturbed'
BY MailDbSteps DEF Undisturbed, Unspoilt, Carries

LEMMA RightsStep ==
    ASSUME IInv, [Next]_vars, NEW w \in Workers, WorkerStep(w),
           Undisturbed(job[w]) => RightsSound(job[w]), WalkSound(job[w]),
           Undisturbed(job[w])'
    PROVE  RightsSound(job[w])'
<1>1. PICK j \in Job : j = job[w] /\ JobSound(j)
  BY DEF IInv, TypeOK
<1>2. PICK k : k = job'[w]
  OBVIOUS
<1> SUFFICES ASSUME k.pc \in LoopLabels, NEW t \in Targets, Past(k, t)
             PROVE  acl'[t][Inbox][k.user] = Granted(k, t)
  BY <1>2 DEF RightsSound, Past, Granted, Others
<1>3. Undisturbed(k)'
  BY <1>2 DEF Undisturbed
<1>4. Moves(j, k) /\ Carries(k, j)
  BY <1>1, <1>2, WorkerMoves, Holding DEF LoopLabels, RoundLabels
<1>5. Undisturbed(j) /\ "sharing" \notin k.errors /\ ~k.dry /\ "rc" \notin disturbed'
  BY <1>3, <1>4, UndisturbedBefore
<1>6. /\ Others(k) = Others(j)
      /\ \/ TakesSenders(j, k) \/ ComparesFrom(j, k) \/ SetsFrom(j, k) \/ Enters(j, k)
         \/ Probes(j, k) \/ Lists(j, k) \/ Walks(j, k) \/ StartsSelf(j, k)
         \/ ClearsSelf(j, k) \/ SyncsDelegateTo(j, k)
  BY <1>4, <1>5, LoopMoves
<1>7. k.user = j.user /\ Granted(k, t) = Granted(j, t)
  BY <1>4 DEF Carries, Granted
<1>8. Past(j, t) /\ j.pc \in LoopLabels => acl[t][Inbox][j.user] = Granted(j, t)
  BY <1>1, <1>5 DEF RightsSound
<1>9. t \in Others(j) /\ t # j.user
  BY <1>6 DEF Past, Others
<1>10. CASE TakesSenders(j, k) \/ ComparesFrom(j, k) \/ SetsFrom(j, k)
  <2>1. k.todo = Others(k)
    BY <1>6, <1>10 DEF TakesSenders, ComparesFrom, SetsFrom, LoopLabels, RoundLabels
  <2> QED
    BY <2>1 DEF Past
<1>11. CASE Enters(j, k) \/ Lists(j, k) \/ StartsSelf(j, k) \/ SyncsDelegateTo(j, k)
  <2>1. UNCHANGED acl
    BY <1>11 DEF Enters, Lists, StartsSelf, SyncsDelegateTo, ReplaceSenders,
            PatchDelegateTo, stores, sharingVars, aclVars
  <2>2. Past(j, t) /\ j.pc \in LoopLabels
    BY <1>6, <1>11 DEF Enters, Lists, StartsSelf, SyncsDelegateTo, SameRound, Past, Probing,
            LoopLabels, RoundLabels
  <2> QED
    BY <1>7, <1>8, <2>1, <2>2
<1>12. CASE Probes(j, k)
  <2>1. UNCHANGED acl /\ k.target = j.target /\ k.todo = j.todo /\ j.pc \in LoopLabels
    BY <1>12 DEF Probes, SameRound, stores, sharingVars, aclVars, LoopLabels, RoundLabels
  <2>2. CASE t = j.target
    <3>1. k.pc # "list"
      BY <2>1, <2>2 DEF Past, Probing
    <3>2. acl[j.target][Inbox][j.user] = Due(j)
      BY <1>4, <1>5, <1>12, <3>1 DEF Probes, Carries
    <3> QED
      BY <1>7, <2>1, <2>2, <3>2 DEF Due, Wanted, Granted
  <2>3. CASE t # j.target
    <3>1. Past(j, t)
      BY <1>6, <2>1, <2>3 DEF Past
    <3> QED
      BY <1>7, <1>8, <2>1, <3>1
  <2> QED
    BY <2>2, <2>3
<1>13. CASE Walks(j, k)
  <2>1. /\ k.target = j.target /\ k.todo = j.todo /\ j.pc = "walk"
        /\ j.pc \in LoopLabels /\ j.target \in Targets /\ j.user \in Principals
    BY <1>1, <1>13, RoundKeeps DEF Walks, SameRound, LoopLabels, RoundLabels, Principals
  <2>2. CASE t = j.target
    <3>1. k.walk = {}
      BY <1>13, <2>1, <2>2 DEF Past, Probing, Walks
    <3>2. acl'[j.target][Inbox][j.user] = Due(j)
      BY <1>1, <1>5, <1>13, <3>1, WalkGoes, InboxAssumption
    <3> QED
      BY <1>7, <2>2, <3>2 DEF Due, Wanted, Granted
  <2>3. CASE t # j.target
    <3>1. Past(j, t)
      BY <1>6, <2>1, <2>3 DEF Past
    <3>2. PICK g : SetRights(j.target, g, j.user, Due(j))
      BY <1>5, <1>13 DEF Walks
    <3>3. acl'[t][Inbox][j.user] = acl[t][Inbox][j.user]
      BY <2>1, <2>3, <3>2, RightsSet, InboxAssumption DEF IInv, TypeOK
    <3> QED
      BY <1>7, <1>8, <2>1, <3>1, <3>3
  <2> QED
    BY <2>2, <2>3
<1>14. CASE ClearsSelf(j, k)
  <2>1. /\ Past(j, t) /\ j.pc \in LoopLabels /\ j.user \in Principals
    BY <1>1, <1>6, <1>14 DEF ClearsSelf, SameRound, Past, Probing, LoopLabels, RoundLabels,
            JobSound, Principals
  <2>2. UNCHANGED stores \/ \E g : SetRights(j.target, g, j.target, "none")
    BY <1>14 DEF ClearsSelf
  <2>3. acl'[t][Inbox][j.user] = acl[t][Inbox][j.user]
    BY <1>9, <2>1, <2>2, RightsSet, InboxAssumption
       DEF IInv, TypeOK, stores, sharingVars, aclVars
  <2> QED
    BY <1>7, <1>8, <2>1, <2>3
<1> QED
  BY <1>6, <1>10, <1>11, <1>12, <1>13, <1>14
LEMMA DelegationStep ==
    ASSUME IInv, [Next]_vars, NEW w \in Workers, WorkerStep(w), "db" \in features,
           Undisturbed(job[w]) => DelegationSound(job[w]),
           Undisturbed(job[w])'
    PROVE  DelegationSound(job[w])'
<1>1. PICK j \in Job : j = job[w] /\ JobSound(j)
  BY DEF IInv, TypeOK
<1>2. PICK k : k = job'[w]
  OBVIOUS
<1>3. Moves(j, k) /\ Undisturbed(k)'
  BY <1>1, <1>2, WorkerMoves DEF Undisturbed
<1>4. SharingTypeOK
  BY DEF IInv, TypeOK
<1>5. ASSUME k.pc \in {"from", "fromSet"}, NEW t \in Targets
      PROVE  (k.user \in k.dts[t]) = (k.user \in delegateTo'[t])
  <2>1. Carries(k, j)
    BY <1>3, <1>5, Holding
  <2>2. Undisturbed(j) /\ "sharing" \notin k.errors /\ k.user = j.user
    BY <1>3, <2>1, UndisturbedBefore DEF Carries
  <2>3. TakesDelegateTo(j, k) \/ ComparesFrom(j, k)
    BY <1>3, <1>5, <2>2 DEF Moves, Receives, Acquires, Crashes, IdleJob, MailDbMoves, Finds,
         ReadsSieve, WritesSieve, ReadsMapping, ReadsBoxes, WritesMapping, SharingMoves,
         FailsSharing, TakesSenders, SetsFrom, Enters, Probes, Lists, Walks, StartsSelf,
         ClearsSelf, SyncsDelegateTo, Finishes
  <2>4. CASE TakesDelegateTo(j, k)
    BY <2>4 DEF TakesDelegateTo, stores, sharingVars, profileVars
  <2>5. CASE ComparesFrom(j, k)
    <3>1. k.dts = j.dts /\ delegateTo' = delegateTo /\ j.pc = "from"
      BY <2>5 DEF ComparesFrom, Snapped, stores, sharingVars, profileVars
    <3>2. (j.user \in j.dts[t]) = (j.user \in delegateTo[t])
      BY <1>1, <2>2, <3>1 DEF DelegationSound
    <3> QED
      BY <2>2, <3>1, <3>2
  <2> QED
    BY <2>3, <2>4, <2>5
<1>6. ASSUME k.pc \in LoopLabels
      PROVE  /\ delegateFrom'[k.user] = k.shared
             /\ \A t \in Others(k) : (k.user \in delegateTo'[t]) =
                   IF Closed(k, t) THEN t \in k.shared ELSE k.user \in k.dts[t]
  <2>1. Carries(k, j)
    BY <1>3, <1>6, Holding DEF LoopLabels, RoundLabels
  <2>2. /\ Undisturbed(j) /\ "sharing" \notin k.errors /\ ~k.dry
        /\ k.user = j.user /\ k.shared = j.shared /\ ~j.dry
    BY <1>3, <2>1, UndisturbedBefore DEF Carries
  <2>3. DelegationSound(j)
    BY <1>1, <2>2
  <2>4. /\ Others(k) = Others(j)
        /\ \/ TakesSenders(j, k) \/ ComparesFrom(j, k) \/ SetsFrom(j, k) \/ Enters(j, k)
           \/ Probes(j, k) \/ Lists(j, k) \/ Walks(j, k) \/ StartsSelf(j, k)
           \/ ClearsSelf(j, k) \/ SyncsDelegateTo(j, k)
    BY <1>3, <1>6, <2>2, LoopMoves
  <2>5. CASE ComparesFrom(j, k) \/ SetsFrom(j, k)
    <3>1. /\ k.todo = Others(k) /\ k.dts = j.dts /\ j.pc \in {"from", "fromSet"}
      BY <1>6, <2>4, <2>5 DEF ComparesFrom, SetsFrom, Snapped, LoopLabels, RoundLabels
    <3>2. delegateTo' = delegateTo
      BY <2>5 DEF ComparesFrom, SetsFrom, SetDelegateFrom, stores, sharingVars, profileVars
    <3>3. \A t \in Others(k) : (k.user \in delegateTo'[t]) = (k.user \in k.dts[t])
      BY <2>2, <2>3, <3>1, <3>2 DEF DelegationSound, Others
    <3>4. \A t \in Others(k) : ~Closed(k, t)
      BY <3>1 DEF Closed
    <3>5. delegateFrom'[k.user] = k.shared
      <4>1. CASE ComparesFrom(j, k)
        BY <1>6, <2>2, <4>1 DEF ComparesFrom, LoopLabels, RoundLabels, stores, sharingVars,
                profileVars
      <4>2. CASE SetsFrom(j, k)
        <5>1. j.user \in Users
          BY <1>1, <4>2 DEF SetsFrom, JobSound
        <5> QED
          BY <1>4, <2>2, <4>2, <5>1 DEF SetsFrom, SetDelegateFrom, SharingTypeOK
      <4> QED
        BY <2>5, <4>1, <4>2
    <3> QED
      BY <3>3, <3>4, <3>5
  <2>6. CASE \/ Enters(j, k) \/ Probes(j, k) \/ Lists(j, k) \/ Walks(j, k)
             \/ StartsSelf(j, k) \/ ClearsSelf(j, k)
    <3>1. j.pc \in LoopLabels /\ k.dts = j.dts
      BY <2>6 DEF Enters, Probes, Lists, Walks, StartsSelf, ClearsSelf, SameRound, Snapped,
              LoopLabels, RoundLabels
    <3>2. UNCHANGED <<delegateTo, delegateFrom>>
      BY <2>6 DEF Enters, Probes, Lists, Walks, StartsSelf, ClearsSelf, ReplaceSenders,
              SetRights, stores, sharingVars, profileVars
    <3>3. ASSUME NEW t \in Others(k)
          PROVE  Closed(k, t) <=> Closed(j, t)
      <4>1. CASE Enters(j, k)
        BY <2>4, <4>1 DEF Enters, Closed, RoundLabels
      <4>2. CASE \/ Probes(j, k) \/ Lists(j, k) \/ Walks(j, k)
                 \/ StartsSelf(j, k) \/ ClearsSelf(j, k)
        BY <2>4, <4>2 DEF Probes, Lists, Walks, StartsSelf, ClearsSelf, SameRound, Closed,
                RoundLabels
      <4> QED
        BY <2>6, <4>1, <4>2
    <3> QED
      BY <2>2, <2>3, <2>4, <3>1, <3>2, <3>3 DEF DelegationSound
  <2>7. CASE SyncsDelegateTo(j, k)
    <3>1. /\ j.pc \in LoopLabels /\ k.dts = j.dts /\ k.todo = j.todo
          /\ j.pc \in RoundLabels /\ k.pc \notin RoundLabels
      BY <2>7 DEF SyncsDelegateTo, Snapped, LoopLabels, RoundLabels
    <3>2. /\ delegateFrom' = delegateFrom
          /\ \/ delegateTo' = delegateTo /\ AsWanted(j)
             \/ delegateTo' = [delegateTo EXCEPT ![j.target] =
                                 IF Wanted(j) THEN @ \union {j.user} ELSE @ \ {j.user}]
      BY <2>2, <2>7 DEF SyncsDelegateTo, PatchDelegateTo, stores, sharingVars, profileVars
    <3>3. delegateFrom'[k.user] = k.shared
      BY <2>2, <2>3, <3>1, <3>2 DEF DelegationSound
    <3>4. ASSUME NEW t \in Others(k)
          PROVE  (k.user \in delegateTo'[t]) =
                   IF Closed(k, t) THEN t \in k.shared ELSE k.user \in k.dts[t]
      <4>1. (j.user \in delegateTo[t]) =
               IF Closed(j, t) THEN t \in j.shared ELSE j.user \in j.dts[t]
        BY <2>3, <2>4, <3>1 DEF DelegationSound
      <4>2. t \in Targets /\ delegateTo \in [Targets -> SUBSET Principals]
        BY <1>4 DEF Others, SharingTypeOK
      <4>3. CASE t = j.target
        <5>2. ~Closed(j, t)
          BY <3>1, <4>3 DEF Closed
        <5>3. (j.user \in delegateTo'[t]) = (t \in j.shared)
          <6>1. CASE delegateTo' = delegateTo /\ AsWanted(j)
            BY <4>1, <4>3, <5>2, <6>1 DEF AsWanted
          <6>2. CASE delegateTo' = [delegateTo EXCEPT ![j.target] =
                                 IF Wanted(j) THEN @ \union {j.user} ELSE @ \ {j.user}]
            BY <4>2, <4>3, <6>2 DEF Wanted
          <6> QED
            BY <3>2, <6>1, <6>2
        <5>4. t \notin j.todo
          BY <2>3, <3>1, <4>3 DEF DelegationSound
        <5>5. Closed(k, t)
          BY <3>1, <5>4 DEF Closed
        <5> QED
          BY <2>2, <5>3, <5>4, <5>5
      <4>4. CASE t # j.target
        <5>1. Closed(k, t) <=> Closed(j, t)
          BY <2>4, <3>1, <4>4 DEF Closed
        <5>2. delegateTo'[t] = delegateTo[t]
          BY <3>2, <4>2, <4>4
        <5> QED
          BY <2>2, <3>1, <4>1, <5>1, <5>2
      <4> QED
        BY <4>3, <4>4
    <3> QED
      BY <3>3, <3>4
  <2>8. ~TakesSenders(j, k)
    BY <1>6 DEF TakesSenders, LoopLabels, RoundLabels
  <2> QED
    BY <2>4, <2>5, <2>6, <2>7, <2>8
<1>7. ASSUME k.pc \in RoundLabels
      PROVE  k.target \notin k.todo
  <2>1. Carries(k, j) /\ k.pc \in LoopLabels
    BY <1>3, <1>7, Holding DEF LoopLabels, RoundLabels
  <2>2. Undisturbed(j) /\ "sharing" \notin k.errors
    BY <1>3, <2>1, UndisturbedBefore
  <2>3. DelegationSound(j)
    BY <1>1, <2>2
  <2>4. \/ Enters(j, k) \/ Probes(j, k) \/ Lists(j, k) \/ Walks(j, k)
        \/ StartsSelf(j, k) \/ ClearsSelf(j, k)
    BY <1>3, <1>7, <2>1, <2>2, LoopMoves DEF TakesSenders, ComparesFrom, SetsFrom,
       SyncsDelegateTo, RoundLabels
  <2>5. CASE Enters(j, k)
    BY <2>5 DEF Enters
  <2>6. CASE \/ Probes(j, k) \/ Lists(j, k) \/ Walks(j, k)
             \/ StartsSelf(j, k) \/ ClearsSelf(j, k)
    BY <2>3, <2>6 DEF Probes, Lists, Walks, StartsSelf, ClearsSelf, SameRound,
            DelegationSound, RoundLabels
  <2> QED
    BY <2>4, <2>5, <2>6
<1>8. DelegationSound(k)'
  BY <1>5, <1>6, <1>7 DEF DelegationSound, Closed, Others
<1> QED
  BY <1>2, <1>8 DEF DelegationSound, Closed, Others
LEMMA SendersStep ==
    ASSUME IInv, [Next]_vars, NEW w \in Workers, WorkerStep(w), "db" \in features,
           Undisturbed(job[w]) => SendersSound(job[w]),
           Undisturbed(job[w])'
    PROVE  SendersSound(job[w])'
<1>1. PICK j \in Job : j = job[w] /\ JobSound(j)
  BY DEF IInv, TypeOK
<1>2. PICK k : k = job'[w]
  OBVIOUS
<1>3. Moves(j, k) /\ Undisturbed(k)'
  BY <1>1, <1>2, WorkerMoves DEF Undisturbed
<1>4. SharingTypeOK
  BY DEF IInv, TypeOK
<1>5. ASSUME k.pc \in SnapLabels, NEW t \in Targets
      PROVE  (k.user \in k.acls[t]) = (k.user \in senders'[t])
  <2>1. Carries(k, j)
    BY <1>3, <1>5, Holding DEF SnapLabels
  <2>2. Undisturbed(j) /\ "sharing" \notin k.errors /\ k.user = j.user
    BY <1>3, <2>1, UndisturbedBefore DEF Carries
  <2>3. TakesSenders(j, k) \/ TakesDelegateTo(j, k) \/ ComparesFrom(j, k)
    BY <1>3, <1>5, <2>2 DEF Moves, Receives, Acquires, Crashes, IdleJob, MailDbMoves, Finds,
         ReadsSieve, WritesSieve, ReadsMapping, ReadsBoxes, WritesMapping, SharingMoves,
         FailsSharing, SetsFrom, Enters, Probes, Lists, Walks, StartsSelf,
         ClearsSelf, SyncsDelegateTo, Finishes, SnapLabels
  <2>4. CASE TakesSenders(j, k)
    BY <2>4 DEF TakesSenders, stores, sharingVars
  <2>5. CASE TakesDelegateTo(j, k) \/ ComparesFrom(j, k)
    <3>1. k.acls = j.acls /\ senders' = senders /\ j.pc \in SnapLabels
      BY <2>5 DEF TakesDelegateTo, ComparesFrom, Snapped, stores, sharingVars, SnapLabels
    <3>2. (j.user \in j.acls[t]) = (j.user \in senders[t])
      BY <1>1, <2>2, <3>1 DEF SendersSound
    <3> QED
      BY <2>2, <3>1, <3>2
  <2> QED
    BY <2>3, <2>4, <2>5
<1>6. ASSUME k.pc \in LoopLabels, NEW t \in Others(k)
      PROVE  (k.user \in senders'[t]) =
                IF t \in k.todo THEN k.user \in k.acls[t] ELSE t \in k.shared
  <2>1. Carries(k, j)
    BY <1>3, <1>6, Holding DEF LoopLabels, RoundLabels
  <2>2. /\ Undisturbed(j) /\ "sharing" \notin k.errors /\ ~k.dry
        /\ k.user = j.user /\ k.shared = j.shared /\ ~j.dry
    BY <1>3, <2>1, UndisturbedBefore DEF Carries
  <2>3. SendersSound(j)
    BY <1>1, <2>2
  <2>4. /\ Others(k) = Others(j)
        /\ \/ TakesSenders(j, k) \/ ComparesFrom(j, k) \/ SetsFrom(j, k) \/ Enters(j, k)
           \/ Probes(j, k) \/ Lists(j, k) \/ Walks(j, k) \/ StartsSelf(j, k)
           \/ ClearsSelf(j, k) \/ SyncsDelegateTo(j, k)
    BY <1>3, <1>6, <2>2, LoopMoves
  <2>5. ~TakesSenders(j, k)
    BY <1>6 DEF TakesSenders, LoopLabels, RoundLabels
  <2>6. t \in Targets /\ t \in Others(j)
    BY <2>4 DEF Others
  <2>7. CASE ComparesFrom(j, k) \/ SetsFrom(j, k)
    <3>1. k.todo = Others(k) /\ k.acls = j.acls /\ j.pc \in SnapLabels
      BY <1>6, <2>4, <2>7 DEF ComparesFrom, SetsFrom, Snapped, LoopLabels, RoundLabels,
              SnapLabels
    <3>2. senders' = senders
      BY <2>7 DEF ComparesFrom, SetsFrom, SetDelegateFrom, stores, sharingVars
    <3> QED
      BY <2>2, <2>3, <2>6, <3>1, <3>2 DEF SendersSound
  <2>8. CASE Enters(j, k)
    <3>1. j.pc \in LoopLabels /\ k.acls = j.acls /\ k.todo = j.todo \ {k.target}
          /\ k.target \in j.todo
      BY <2>8 DEF Enters, Snapped, LoopLabels
    <3>2. (j.user \in senders[t]) = IF t \in j.todo THEN j.user \in j.acls[t] ELSE t \in j.shared
      BY <2>3, <2>6, <3>1 DEF SendersSound
    <3>3. CASE UNCHANGED stores /\ (k.target \in k.shared <=> k.user \in k.acls[k.target])
      <4>1. senders' = senders
        BY <3>3 DEF stores, sharingVars
      <4> QED
        BY <2>2, <3>1, <3>2, <3>3, <4>1
    <3>4. CASE ReplaceSenders(k.target, NewSenders(k))
      <4>1. senders' = [senders EXCEPT ![k.target] = NewSenders(k)]
        BY <3>4 DEF ReplaceSenders
      <4>2. k.user \in NewSenders(k) <=> k.target \in k.shared
        BY DEF NewSenders, Wanted
      <4>3. senders'[t] = IF t = k.target THEN NewSenders(k) ELSE senders[t]
        BY <1>4, <2>6, <4>1 DEF SharingTypeOK
      <4> QED
        BY <2>2, <3>1, <3>2, <4>2, <4>3
    <3> QED
      BY <2>2, <2>8, <3>3, <3>4 DEF Enters
  <2>9. CASE \/ Probes(j, k) \/ Lists(j, k) \/ Walks(j, k) \/ StartsSelf(j, k)
             \/ ClearsSelf(j, k) \/ SyncsDelegateTo(j, k)
    <3>1. j.pc \in LoopLabels /\ k.acls = j.acls /\ k.todo = j.todo
      BY <2>9 DEF Probes, Lists, Walks, StartsSelf, ClearsSelf, SyncsDelegateTo, SameRound,
              Snapped, LoopLabels, RoundLabels
    <3>2. senders' = senders
      BY <2>9 DEF Probes, Lists, Walks, StartsSelf, ClearsSelf, SyncsDelegateTo,
              SetRights, PatchDelegateTo, stores, sharingVars
    <3> QED
      BY <2>2, <2>3, <2>6, <3>1, <3>2 DEF SendersSound
  <2> QED
    BY <2>4, <2>5, <2>7, <2>8, <2>9
<1>7. SendersSound(k)'
  BY <1>5, <1>6 DEF SendersSound, Others
<1> QED
  BY <1>2, <1>7 DEF SendersSound, Others

LEMMA OwnersStep ==
    ASSUME IInv, [Next]_vars, NEW w \in Workers, WorkerStep(w),
           ~job[w].dry => OwnersSound(job[w]),
           ~job'[w].dry, Unspoilt({"rc", "call", "lost"})'
    PROVE  OwnersSound(job[w])'
<1>1. PICK j \in Job : j = job[w] /\ JobSound(j)
  BY DEF IInv, TypeOK
<1>2. PICK k : k = job'[w]
  OBVIOUS
<1>3. Moves(j, k) /\ ~FailsSharing(j, k)
  BY <1>1, <1>2, WorkerMoves DEF FailsSharing, Unspoilt
<1>4. folders' = folders
  BY WorkersMakeNoFolder
<1>5. \/ (Receives(j, k) \/ Crashes(j, k)) /\ k.probed = {}
      \/ k.dry = j.dry
  <2>1. CASE Receives(j, k) \/ Crashes(j, k)
    BY <2>1 DEF Receives, Crashes, IdleJob
  <2>2. CASE Finishes(j, k)
    BY <2>2 DEF Finishes
  <2>3. CASE ~Receives(j, k) /\ ~Crashes(j, k) /\ ~Finishes(j, k)
    <3>1. k.pc \notin {"idle", "lock"}
      BY <1>3, <2>3 DEF Moves, Acquires, MailDbMoves, Finds, ReadsSieve, WritesSieve,
         ReadsMapping, ReadsBoxes, WritesMapping, SharingMoves, TakesSenders,
         TakesDelegateTo, ComparesFrom, SetsFrom, Enters, Probes, Lists, Walks,
         StartsSelf, ClearsSelf, SyncsDelegateTo
    <3> QED
      BY <1>3, <3>1, Holding DEF Carries
  <2> QED
    BY <2>1, <2>2, <2>3
<1>6. CASE (Receives(j, k) \/ Crashes(j, k)) /\ k.probed = {}
  <2>1. k.pc \in {"idle", "lock"}
    BY <1>6 DEF Receives, Crashes, IdleJob
  <2>2. OwnersSound(k)'
    BY <1>6, <2>1 DEF OwnersSound, LoopLabels, RoundLabels
  <2> QED
    BY <1>2, <2>2 DEF OwnersSound, Others
<1>7. CASE k.dry = j.dry
  <2>1. OwnersSound(j) /\ ~j.dry
    BY <1>1, <1>2, <1>7
  <2>2. \/ k.probed = {}
        \/ k.probed = j.probed
        \/ StartsSelf(j, k)
    BY <1>3 DEF Moves, Receives, Acquires, Crashes, IdleJob, MailDbMoves, SharingMoves,
         TakesSenders, TakesDelegateTo, ComparesFrom, SetsFrom, Enters, Probes, Lists, Walks,
         ClearsSelf, SyncsDelegateTo, Finishes
  <2>3. ASSUME NEW t \in k.probed, NEW f \in folders'[t]
        PROVE  acl'[t][f][t] = "none" \/ (k.pc = "selfWalk" /\ t = k.target /\ f \in k.walk)
    <3>1. k.probed \subseteq Targets /\ folders[t] \subseteq Folders
      <4>1. job' \in [Workers -> Job]
        BY Inductive DEF IInv, TypeOK
      <4> QED
        BY <1>2, <4>1 DEF Job, IInv, TypeOK, SharingTypeOK
    <3>2. acl'[t][f][t] \in {acl[t][f][t], "none"}
      BY <1>4, <3>1, OwnersEntries
    <3>3. CASE t \in j.probed
      <4>1. acl[t][f][t] = "none" \/ (j.pc = "selfWalk" /\ t = j.target /\ f \in j.walk)
        BY <1>4, <2>1, <3>3 DEF OwnersSound
      <4>2. CASE j.pc = "selfWalk" /\ t = j.target /\ f \in j.walk
        <5>1. ClearsSelf(j, k)
          BY <1>3, <2>2, <4>2 DEF Moves, Receives, Acquires, Crashes, IdleJob, MailDbMoves,
             Finds, ReadsSieve, WritesSieve, ReadsMapping, ReadsBoxes, WritesMapping,
             SharingMoves, TakesSenders, TakesDelegateTo, ComparesFrom, SetsFrom, Enters,
             Probes, Lists, Walks, StartsSelf, SyncsDelegateTo, Finishes
        <5>2. PICK g \in j.walk :
                 /\ k.walk = j.walk \ {g}
                 /\ \/ UNCHANGED stores /\ acl[j.target][g][j.target] = "none"
                    \/ SetRights(j.target, g, j.target, "none")
          BY <2>1, <5>1 DEF ClearsSelf, Unspoilt
        <5>3. CASE f = g
          <6>1. CASE UNCHANGED stores /\ acl[j.target][g][j.target] = "none"
            BY <4>2, <5>3, <6>1 DEF stores, sharingVars, aclVars
          <6>2. CASE SetRights(j.target, g, j.target, "none")
            <7>1. t \in Principals /\ t \in Targets /\ f \in Folders
              BY <1>4, <3>1 DEF Principals
            <7> QED
              BY <4>2, <5>3, <6>2, <7>1, RightsSet DEF IInv, TypeOK
          <6> QED
            BY <5>2, <6>1, <6>2
        <5>4. CASE f # g
          <6>1. f \in k.walk
            BY <4>2, <5>2, <5>4
          <6>2. k.pc = "selfWalk" /\ k.target = j.target
            BY <5>1, <6>1 DEF ClearsSelf, SameRound
          <6> QED
            BY <4>2, <6>1, <6>2
        <5> QED
          BY <5>3, <5>4
      <4> QED
        BY <3>2, <4>1, <4>2
    <3>4. CASE t \notin j.probed
      <4>1. StartsSelf(j, k)
        BY <2>2, <3>4
      <4>2. t = j.target /\ k.target = j.target /\ UNCHANGED folders
        BY <1>4, <3>4, <4>1 DEF StartsSelf, SameRound
      <4>3. k.pc = "selfWalk" /\ k.walk = folders[j.target]
        BY <3>4, <4>1, <4>2 DEF StartsSelf
      <4> QED
        BY <4>2, <4>3
    <3> QED
      BY <3>3, <3>4
  <2>4. ASSUME k.pc \in {"selfWalk", "delegate"}
        PROVE  k.target \in k.probed
    <3>1. StartsSelf(j, k) \/ ClearsSelf(j, k)
      BY <1>3, <2>4 DEF Moves, Receives, Acquires, Crashes, IdleJob, MailDbMoves,
             Finds, ReadsSieve, WritesSieve, ReadsMapping, ReadsBoxes, WritesMapping,
             SharingMoves, TakesSenders, TakesDelegateTo, ComparesFrom, SetsFrom, Enters,
             Probes, Lists, Walks, SyncsDelegateTo, Finishes
    <3> QED
      BY <2>1, <3>1 DEF StartsSelf, ClearsSelf, SameRound, OwnersSound
  <2>5. ASSUME k.pc \in LoopLabels, NEW t \in Others(k) \ k.todo
        PROVE  t \in k.probed \/ (t = k.target /\ k.pc \in Probing \union {"self"})
    <3>1. Carries(k, j) /\ Others(k) = Others(j)
      BY <1>3, <2>5, Holding DEF LoopLabels, RoundLabels, Carries, Others
    <3>2. SharingMoves(j, k)
      BY <1>3, <2>5 DEF Moves, Receives, Acquires, Crashes, IdleJob, MailDbMoves, Finds,
         ReadsSieve, WritesSieve, ReadsMapping, ReadsBoxes, WritesMapping, LoopLabels,
         RoundLabels
    <3>3. CASE TakesSenders(j, k) \/ ComparesFrom(j, k) \/ SetsFrom(j, k)
      <4>1. k.todo = Others(k)
        BY <2>5, <3>1, <3>3 DEF TakesSenders, ComparesFrom, SetsFrom, LoopLabels, RoundLabels
      <4> QED
        BY <2>5, <4>1
    <3>4. CASE Enters(j, k)
      BY <2>1, <2>5, <3>1, <3>4 DEF Enters, OwnersSound, LoopLabels, RoundLabels, Probing
    <3>5. CASE Probes(j, k) \/ Lists(j, k) \/ Walks(j, k)
      BY <2>1, <2>5, <3>1, <3>5 DEF Probes, Lists, Walks, SameRound, OwnersSound, LoopLabels,
              RoundLabels, Probing
    <3>6. CASE StartsSelf(j, k)
      BY <2>1, <2>5, <3>1, <3>6 DEF StartsSelf, SameRound, OwnersSound, LoopLabels,
              RoundLabels, Probing
    <3>7. CASE ClearsSelf(j, k)
      BY <2>1, <2>5, <3>1, <3>7 DEF ClearsSelf, SameRound, OwnersSound, LoopLabels,
              RoundLabels, Probing
    <3>8. CASE SyncsDelegateTo(j, k)
      BY <2>1, <2>5, <3>1, <3>8 DEF SyncsDelegateTo, OwnersSound, LoopLabels,
              RoundLabels, Probing
    <3> QED
      BY <1>3, <2>5, <3>2, <3>3, <3>4, <3>5, <3>6, <3>7, <3>8 DEF SharingMoves,
         TakesDelegateTo, Finishes, LoopLabels, RoundLabels
  <2>6. OwnersSound(k)'
    BY <2>3, <2>4, <2>5 DEF OwnersSound, Others
  <2> QED
    BY <1>2, <2>6 DEF OwnersSound, Others
<1> QED
  BY <1>5, <1>6, <1>7
(* ... the steps of others, and what happens around them *)
LEMMA ShareFrame ==
    ASSUME IInv, [Next]_vars, NEW v \in Workers, job'[v] = job[v], ShareSound(job[v]),
           HoldsLock(v) /\ Undisturbed(job[v])' =>
              /\ EntriesKept(job[v].user)
              /\ Unspoilt({"overlap"})' =>
                    \A t \in Targets : (job[v].user \in senders'[t]) = (job[v].user \in senders[t]),
           \A t \in Targets : \A f \in folders'[t] :
              acl'[t][f][t] = "none" \/ (f \in folders[t] /\ acl'[t][f][t] = acl[t][f][t])
    PROVE  ShareSound(job[v])'
<1>1. PICK j \in Job : j = job[v] /\ JobSound(j)
  BY DEF IInv, TypeOK
<1>2. features' = features /\ disturbed \subseteq disturbed'
  BY FeaturesKept, MailDbSteps
<1>3. ASSUME Undisturbed(j)'
      PROVE  /\ RightsSound(j)'
             /\ "db" \in features => DelegationSound(j)'
             /\ "db" \in features /\ Unspoilt({"overlap"})' => SendersSound(j)'
  <2>1. Undisturbed(j)
    BY <1>2, <1>3 DEF Undisturbed, Unspoilt
  <2>2. CASE j.pc \in SnapLabels \union LoopLabels
    <3>1. HoldsLock(v) /\ j.user \in Users
      BY <1>1, <2>2 DEF HoldsLock, SnapLabels, LoopLabels, RoundLabels, JobSound
    <3>2. EntriesKept(j.user)
      BY <1>1, <1>3, <3>1 DEF Undisturbed
    <3>3. RightsSound(j)'
      <4>1. RightsSound(j)
        BY <1>1, <2>1 DEF ShareSound
      <4> QED
        BY <3>2, <4>1, InboxAssumption DEF RightsSound, EntriesKept, Past, Others, Granted
    <3>4. "db" \in features => DelegationSound(j)'
      <4>1. "db" \in features => DelegationSound(j)
        BY <1>1, <2>1 DEF ShareSound
      <4> QED
        BY <3>2, <4>1 DEF DelegationSound, EntriesKept, Closed, Others
    <3>5. "db" \in features /\ Unspoilt({"overlap"})' => SendersSound(j)'
      <4>1. ASSUME "db" \in features, Unspoilt({"overlap"})'
            PROVE  SendersSound(j)'
        <5>1. SendersSound(j)
          BY <1>1, <1>2, <2>1, <4>1 DEF ShareSound, Unspoilt
        <5>2. \A t \in Targets : (j.user \in senders'[t]) = (j.user \in senders[t])
          BY <1>1, <1>3, <3>1, <4>1 DEF Undisturbed
        <5> QED
          BY <5>1, <5>2 DEF SendersSound, Others
      <4> QED
        BY <4>1
    <3> QED
      BY <3>3, <3>4, <3>5
  <2>3. CASE j.pc \notin SnapLabels \union LoopLabels
    BY <2>3 DEF RightsSound, DelegationSound, SendersSound, SnapLabels, LoopLabels, RoundLabels
  <2> QED
    BY <2>2, <2>3
<1>4. ASSUME ~j.dry, Unspoilt({"rc", "call", "lost"})'
      PROVE  OwnersSound(j)'
  <2>1. OwnersSound(j)
    BY <1>1, <1>2, <1>4 DEF ShareSound, Unspoilt
  <2>2. ASSUME NEW t \in j.probed, NEW f \in folders'[t]
        PROVE  acl'[t][f][t] = "none" \/ (j.pc = "selfWalk" /\ t = j.target /\ f \in j.walk)
    <3>1. t \in Targets
      BY DEF Job
    <3> QED
      BY <2>1, <2>2, <3>1 DEF OwnersSound
  <2> QED
    BY <2>1, <2>2 DEF OwnersSound, Others
<1>5. ShareSound(j)'
  BY <1>2, <1>3, <1>4 DEF ShareSound
<1> QED
  BY <1>1, <1>5 DEF ShareSound, Undisturbed, RightsSound, DelegationSound, SendersSound,
     OwnersSound, Past, Closed, Granted, Others

LEMMA ShareKept ==
    ASSUME IInv, Serial, Unspoilt({"overlap"}) => Alone, [Next]_vars,
           NEW w \in Workers, WorkerStep(w), NEW v \in Workers \ {w}, ShareSound(job[v])
    PROVE  ShareSound(job[v])'
<1>1. job'[v] = job[v]
  BY OthersJobs
<1>2. HoldsLock(v) => EntriesKept(job[v].user)
  BY OthersEntries
<1>3. ASSUME HoldsLock(v), Unspoilt({"overlap"})'
      PROVE  \A t \in Targets : (job[v].user \in senders'[t]) = (job[v].user \in senders[t])
  <2>1. Alone
    BY <1>3, MailDbSteps DEF Unspoilt
  <2>2. ~HoldsLock(w)
    BY <1>3, <2>1 DEF Alone
  <2> QED
    BY <2>2, Unlocked DEF stores, sharingVars
<1>4. ASSUME NEW t \in Targets, NEW f \in folders'[t]
      PROVE  acl'[t][f][t] = "none" \/ (f \in folders[t] /\ acl'[t][f][t] = acl[t][f][t])
  <2>1. f \in folders[t] /\ f \in Folders
    BY WorkersMakeNoFolder DEF IInv, TypeOK, SharingTypeOK
  <2> QED
    BY <2>1, OwnersEntries
<1> QED
  BY <1>1, <1>2, <1>3, <1>4, ShareFrame

LEMMA ShareLeft ==
    ASSUME IInv, FoldersSound, [Next]_vars, Surroundings, NEW v \in Workers, ShareSound(job[v])
    PROVE  ShareSound(job[v])'
<1>1. UNCHANGED <<acl, job>> /\ \A t \in Targets : folders[t] \subseteq folders'[t]
  BY SurroundingFolders
<1>2. ASSUME HoldsLock(v), Undisturbed(job[v])'
      PROVE  UNCHANGED <<senders, delegateTo, delegateFrom>>
  <2>1. Busy /\ "hand" \notin disturbed'
    BY <1>2 DEF Busy, Undisturbed, Unspoilt
  <2>2. ~SendersByHand /\ ~DelegationByHand
    BY <2>1 DEF SendersByHand, DelegationByHand, Event, Disturb
  <2> QED
    BY <2>2 DEF Surroundings, AccountsByHand, FolderMade, BoxMade, Mapped, sharingVars,
            profileVars
<1>3. ASSUME NEW t \in Targets, NEW f \in folders'[t]
      PROVE  acl'[t][f][t] = "none" \/ (f \in folders[t] /\ acl'[t][f][t] = acl[t][f][t])
  <2>1. f \in Folders /\ t \in Principals
    BY SurroundingsKeep DEF IInv, TypeOK, SharingTypeOK, Principals
  <2> QED
    BY <1>1, <2>1 DEF FoldersSound
<1>4. HoldsLock(v) /\ Undisturbed(job[v])' =>
         /\ EntriesKept(job[v].user)
         /\ Unspoilt({"overlap"})' =>
               \A t \in Targets : (job[v].user \in senders'[t]) = (job[v].user \in senders[t])
  BY <1>1, <1>2 DEF EntriesKept
<1> QED
  BY <1>1, <1>3, <1>4, ShareFrame

LEMMA ShareStep ==
    ASSUME IInv, Serial, FoldersSound, InboxInv, ShareInv, [Next]_vars
    PROVE  ShareInv'
<1>1. Unspoilt({"overlap"})' => Alone'
  BY AloneStep DEF ShareInv
<1>2. features' = features /\ disturbed \subseteq disturbed'
  BY FeaturesKept, MailDbSteps
<1>3. ASSUME NEW w \in Workers, WorkerStep(w), NEW v \in Workers
      PROVE  ShareSound(job[v])'
  <2>1. CASE v # w
    BY <1>3, <2>1, ShareKept DEF ShareInv
  <2>2. CASE v = w
    <3>1. ShareSound(job[w])
      BY DEF ShareInv
    <3>2. ASSUME Undisturbed(job[w])'
          PROVE  /\ RightsSound(job[w])'
                 /\ "db" \in features => DelegationSound(job[w])'
                 /\ "db" \in features /\ Unspoilt({"overlap"})' => SendersSound(job[w])'
      <4>1. "rc" \notin disturbed /\ WalkSound(job[w])
        BY <1>2, <3>2 DEF Undisturbed, Unspoilt, InboxInv
      <4>2. RightsSound(job[w])'
        BY <1>3, <3>1, <3>2, <4>1, RightsStep DEF ShareSound
      <4>3. "db" \in features => DelegationSound(job[w])'
        BY <1>3, <3>1, <3>2, DelegationStep DEF ShareSound
      <4>4. "db" \in features /\ Unspoilt({"overlap"})' => SendersSound(job[w])'
        BY <1>2, <1>3, <3>1, <3>2, SendersStep DEF ShareSound, Unspoilt
      <4> QED
        BY <4>2, <4>3, <4>4
    <3>3. ASSUME ~job'[w].dry, Unspoilt({"rc", "call", "lost"})'
          PROVE  OwnersSound(job[w])'
      BY <1>2, <1>3, <3>1, <3>3, OwnersStep DEF ShareSound, Unspoilt
    <3> QED
      BY <1>2, <2>2, <3>2, <3>3 DEF ShareSound
  <2> QED
    BY <2>1, <2>2
<1>4. ASSUME Surroundings, NEW v \in Workers
      PROVE  ShareSound(job[v])'
  BY <1>4, ShareLeft DEF ShareInv
<1>5. ASSUME UNCHANGED vars, NEW v \in Workers
      PROVE  ShareSound(job[v])'
  <2>1. ShareSound(job[v]) /\ UNCHANGED <<sharingVars, job, disturbed, features>>
    BY <1>5 DEF ShareInv, vars, stores, weather, counters
  <2> QED
    BY <2>1 DEF ShareSound, Undisturbed, Unspoilt, RightsSound, DelegationSound, SendersSound,
       OwnersSound, Past, Closed, Granted, Others, sharingVars, aclVars, profileVars
<1> QED
  BY <1>1, <1>3, <1>4, <1>5 DEF ShareInv, Next, Rest, WorkerStep

(* _reconcile_sharing: the probes, the snapshots, the writes that follow them  *)
(* and the order they come in add up. Where the requests of a user are served  *)
(* in turn, and for all users, mailboxes, folders, threads and processes, an   *)
(* answer without errors means that the user's rights at INBOX, both sides of  *)
(* the delegation and the place in sender_acl are what Authentik grants, and   *)
(* that owners' entries are gone, under the conditions that SharingConverges   *)
(* names.                                                                      *)
THEOREM SharingIsConverged == Spec /\ []Serial => SharingConverges
<1> DEFINE Inv == IInv /\ FoldersSound /\ InboxInv /\ ShareInv
<1>1. Init => Inv
  <2>1. ASSUME Init
        PROVE  ShareInv
    <3>1. \A w \in Workers : job[w] = IdleJob
      BY <2>1 DEF Init
    <3>2. Alone
      BY <3>1 DEF Alone, HoldsLock, IdleJob
    <3>3. ShareSound(IdleJob)
      BY DEF ShareSound, RightsSound, DelegationSound, SendersSound, OwnersSound, IdleJob,
             LoopLabels, RoundLabels, SnapLabels
    <3> QED
      BY <3>1, <3>2, <3>3 DEF ShareInv
  <2> QED
    BY <2>1, Placed
<1>2. Inv /\ Serial /\ [Next]_vars => Inv'
  BY Inductive, FoldersStep, InboxStep, ShareStep
<1>3. ASSUME Inv, NEW w \in Workers, Answers(w), ~job[w].dry, "sharing" \notin job[w].errors,
             Unspoilt({"rc", "hand"})
      PROVE  LET j == job[w] IN
             /\ \A t \in Others(j) :
                   /\ acl[t][Inbox][j.user] = IF t \in j.shared THEN "full" ELSE "none"
                   /\ ("db" \in features => (j.user \in delegateTo[t]) = (t \in j.shared))
                   /\ ("db" \in features /\ Unspoilt({"overlap"})
                         => (j.user \in senders[t]) = (t \in j.shared))
                   /\ (Unspoilt({"call", "lost"})
                         => \A f \in folders[t] : acl[t][f][t] = "none")
             /\ ("db" \in features => delegateFrom[j.user] = j.shared)
  <2>1. PICK j : j = job[w]
    OBVIOUS
  <2>2. j.pc = "mailbox" /\ j.todo = {} /\ j.pc \in LoopLabels
    BY <1>3, <2>1 DEF Answers, At, LoopLabels
  <2>3. Undisturbed(j) /\ ShareSound(j)
    BY <1>3, <2>1 DEF Undisturbed, ShareInv
  <2>4. ASSUME NEW t \in Others(j)
        PROVE  /\ acl[t][Inbox][j.user] = IF t \in j.shared THEN "full" ELSE "none"
               /\ ("db" \in features => (j.user \in delegateTo[t]) = (t \in j.shared))
               /\ ("db" \in features /\ Unspoilt({"overlap"})
                     => (j.user \in senders[t]) = (t \in j.shared))
    <3>1. t \in Targets /\ Past(j, t) /\ Closed(j, t) /\ t \notin j.todo
      BY <2>2 DEF Others, Past, Closed, Probing, RoundLabels
    <3> QED
      BY <2>2, <2>3, <3>1 DEF ShareSound, RightsSound, DelegationSound, SendersSound, Granted
  <2>5. ASSUME Unspoilt({"call", "lost"}), NEW t \in Others(j), NEW f \in folders[t]
        PROVE  acl[t][f][t] = "none"
    <3>1. OwnersSound(j)
      BY <2>3, <2>5 DEF ShareSound, Undisturbed, Unspoilt
    <3>2. t \in j.probed
      BY <2>2, <3>1 DEF OwnersSound, Probing
    <3> QED
      BY <2>2, <3>1, <3>2 DEF OwnersSound
  <2>6. "db" \in features => delegateFrom[j.user] = j.shared
    BY <2>2, <2>3 DEF ShareSound, DelegationSound
  <2> QED
    BY <2>1, <2>4, <2>5, <2>6
<1> HIDE DEF Inv
<1>4. Inv => [\A w \in Workers : LET j == job[w] IN
          Answers(w) /\ ~j.dry /\ "sharing" \notin j.errors /\ Unspoilt({"rc", "hand"}) =>
             /\ \A t \in Others(j) :
                   /\ acl[t][Inbox][j.user] = IF t \in j.shared THEN "full" ELSE "none"
                   /\ ("db" \in features => (j.user \in delegateTo[t]) = (t \in j.shared))
                   /\ ("db" \in features /\ Unspoilt({"overlap"})
                         => (j.user \in senders[t]) = (t \in j.shared))
                   /\ (Unspoilt({"call", "lost"})
                         => \A f \in folders[t] : acl[t][f][t] = "none")
             /\ ("db" \in features => delegateFrom[j.user] = j.shared)]_vars
  BY <1>3
<1> QED
  BY <1>1, <1>2, <1>4, PTL DEF Spec, SharingConverges
---------------------------------------------------------------------------
(* The Nextcloud mail database is mended and not spoilt: what was as it should *)
(* be stays so, and a column that is still astray was not touched.             *)
Mended ==
    /\ live' = live /\ boxes' = boxes
    /\ \A a \in Accounts :
          /\ sieve[a] = "ours" => sieve'[a] = "ours"
          /\ \A c \in Drifted(a, mapping[a])' :
                c \in Drifted(a, mapping[a]) /\ mapping'[a][c] = mapping[a][c]

Calmly == Unspoilt({"rc", "hand", "folder"})

(* An UPDATE of a column to the local folder *)
LEMMA ColumnMended ==
    ASSUME MailDbTypeOK, NEW a \in Accounts, a \in live, NEW c \in Columns,
           NEW b \in LocalBoxes(a, c), UpdateMapping(a, c, b)
    PROVE  Mended /\ c \notin Drifted(a, mapping[a])'
<1>1. /\ mapping \in [Accounts -> [Columns -> Boxes \union {None}]]
      /\ mapping' = [mapping EXCEPT ![a][c] = b]
      /\ UNCHANGED <<live, sieve, boxes>>
  BY DEF UpdateMapping, MailDbTypeOK
<1>2. \A d \in Accounts, e \in Columns :
         mapping'[d][e] = IF d = a /\ e = c THEN b ELSE mapping[d][e]
  BY <1>1
<1>3. \A d, e : LocalBoxes(d, e)' = LocalBoxes(d, e) /\ (Resolvable(d, e)' <=> Resolvable(d, e))
  BY <1>1 DEF LocalBoxes, Resolvable
<1>4. c \notin Drifted(a, mapping[a])'
  BY <1>2, <1>3 DEF Drifted
<1>5. ASSUME NEW d \in Accounts, NEW e \in Drifted(d, mapping[d])'
      PROVE  e \in Drifted(d, mapping[d]) /\ mapping'[d][e] = mapping[d][e]
  <2>1. e \in Columns /\ ~(d = a /\ e = c)
    BY <1>4, <1>5 DEF Drifted
  <2>2. mapping'[d][e] = mapping[d][e]
    BY <1>2, <2>1
  <2> QED
    BY <1>3, <1>5, <2>1, <2>2 DEF Drifted
<1> QED
  BY <1>1, <1>4, <1>5 DEF Mended

LEMMA NothingWritten ==
    ASSUME UNCHANGED mailDbVars
    PROVE  Mended
BY DEF Mended, mailDbVars, Drifted, Resolvable, LocalBoxes

(* Requests only mend. *)
LEMMA Mends ==
    ASSUME MailInv, NEW w \in Workers, WorkerStep(w), SettledInv(job[w]), Calmly
    PROVE  Mended
<1>1. PICK j \in Job : j = job[w] /\ JobSound(j) /\ MailSound(j) /\ MailDbTypeOK
  BY DEF MailInv, IInv, TypeOK
<1>2. UNCHANGED stores \/ WritesMailDb(w) \/ WritesSharing(w)
  BY Writes DEF MailInv
<1>3. CASE UNCHANGED stores \/ WritesSharing(w)
  BY <1>3, NothingWritten DEF stores, WritesSharing
<1>4. CASE At(w, "sieveSet") /\ UpdateSieve(j.account)
  <2>1. j.account \in Accounts
    BY <1>1, <1>4 DEF At, JobSound, MailLabels
  <2>2. UNCHANGED <<live, boxes, mapping>>
    BY <1>4 DEF UpdateSieve
  <2>3. \A a \in Accounts : sieve[a] = "ours" => sieve'[a] = "ours"
    BY <1>1, <1>4, <2>1 DEF UpdateSieve, MailDbTypeOK
  <2>4. \A a : Drifted(a, mapping[a])' = Drifted(a, mapping[a])
    BY <2>2 DEF Drifted, Resolvable, LocalBoxes
  <2> QED
    BY <2>2, <2>3, <2>4 DEF Mended
<1>5. ASSUME At(w, "mapSet"), NEW c \in Columns, j.fixes[c] # None,
             UpdateMapping(j.account, c, j.fixes[c])
      PROVE  Mended
  <2>1. j.account \in Accounts /\ ~j.dry
    BY <1>1, <1>5 DEF At, JobSound, MailLabels, WetLabels
  <2>2. j.fixes[c] \in LocalBoxes(j.account, c)
    BY <1>1, <1>5, <2>1 DEF At, SettledInv, Calmly
  <2>3. CASE j.account \in live
    BY <1>1, <1>5, <2>1, <2>2, <2>3, ColumnMended
  <2>4. CASE j.account \notin live
    BY <1>5, <2>4, NothingWritten DEF UpdateMapping, mailDbVars
  <2> QED
    BY <2>3, <2>4
<1> QED
  BY <1>1, <1>2, <1>3, <1>4, <1>5 DEF WritesMailDb

LEMMA SettledKept ==
    ASSUME MailDbTypeOK, NEW j, JobSound(j), SettledInv(j), Mended, disturbed \subseteq disturbed'
    PROVE  SettledInv(j)'
<1> SUFFICES ASSUME j.pc \notin {"idle", "lock"}, ~j.dry, Calmly'
             PROVE  SettledInv(j)'
  BY DEF SettledInv, Calmly
<1>1. Calmly
  BY DEF Calmly, Unspoilt
<1>2. \A u, t : UniqueAccount(u, t)' = UniqueAccount(u, t) /\ UniqueAccount(u, t) \subseteq Accounts
  BY DEF UniqueAccount, AccountsFor, Mended, MailDbTypeOK
<1>3. \A a, c : LocalBoxes(a, c)' = LocalBoxes(a, c)
  BY DEF LocalBoxes, Mended
<1>4. \A a \in Accounts : Settled(j, a) => Settled(j, a)'
  BY DEF Settled, Mended
<1>5. ASSUME NEW t \in j.managed \ (IF j.pc \in MailLabels \union {"mail"} THEN j.todo ELSE {}),
             NEW a \in UniqueAccount(j.user, t)'
      PROVE  Settled(j, a)' \/ AtHand(j, a)
  BY <1>1, <1>2, <1>4 DEF SettledInv, Calmly
<1>6. ASSUME j.pc \in MailLabels
      PROVE  /\ j.pc \in {"map", "mapBoxes", "mapSet"} /\ "sieve" \notin j.errors =>
                  sieve'[j.account] = "ours"
             /\ j.pc = "mapBoxes" =>
                  \A c \in Drifted(j.account, mapping[j.account])' :
                      j.cols[c] = mapping'[j.account][c]
             /\ j.pc = "mapSet" =>
                  \A c \in Drifted(j.account, mapping[j.account])' : j.fixes[c] # None
             /\ j.pc = "mapSet" =>
                  \A c \in Columns : j.fixes[c] # None => j.fixes[c] \in LocalBoxes(j.account, c)'
  <2>1. j.account \in Accounts
    BY <1>6 DEF JobSound
  <2> QED
    BY <1>1, <1>3, <1>6, <2>1 DEF SettledInv, Calmly, Mended
<1> QED
  BY <1>5, <1>6 DEF SettledInv, AtHand, MailLabels
(* The fixes of the columns that are astray *)
LEMMA FixesLocal ==
    ASSUME NEW j \in Job, NEW c \in Columns
    PROVE  /\ c \in Drifted(j.account, j.cols) =>
                FixesFor(j)[c] \in LocalBoxes(j.account, c)
           /\ c \notin Drifted(j.account, j.cols) => FixesFor(j)[c] = None
<1>1. ASSUME c \in Drifted(j.account, j.cols)
      PROVE  FixesFor(j)[c] \in LocalBoxes(j.account, c)
  <2>1. Cardinality(LocalBoxes(j.account, c)) = 1
    BY <1>1 DEF Drifted, Resolvable
  <2>2. LocalBoxes(j.account, c) # {}
    BY <2>1, FS_EmptySet
  <2>3. FixesFor(j)[c] = CHOOSE b \in LocalBoxes(j.account, c) : TRUE
    BY <1>1 DEF FixesFor
  <2> QED
    BY <2>2, <2>3
<1> QED
  BY <1>1 DEF FixesFor

LEMMA SettledMail ==
    ASSUME MailInv, [Next]_vars, NEW w \in Workers, MailDb(w), SettledInv(job[w]),
           ~job'[w].dry, Calmly'
    PROVE  SettledInv(job[w])'
<1>1. PICK j \in Job : j = job[w] /\ JobSound(j) /\ MailSound(j) /\ MailDbTypeOK /\ IInv
  BY DEF MailInv, IInv, TypeOK
<1>2. PICK k : k = job'[w]
  OBVIOUS
<1>3. MailDbMoves(j, k) /\ disturbed \subseteq disturbed' /\ Calmly
  BY <1>1, <1>2, MailDbStep, MailDbSteps DEF Calmly, Unspoilt
<1>4. /\ Carries(k, j) /\ ~j.dry /\ ~k.dry
      /\ j.pc \in MailLabels \union {"mail"} /\ k.pc \in MailLabels \union {"mail"}
  BY <1>2, <1>3 DEF MailDbMoves, Finds, ReadsSieve, WritesSieve, ReadsMapping, ReadsBoxes,
     WritesMapping, SameAccount, Carries, MailLabels
<1>5. Mended
  BY <1>1, <1>3, Mends DEF WorkerStep
<1>6. SettledInv(j) /\ SettledInv(j)'
  BY <1>1, <1>3, <1>5, SettledKept
<1>7. /\ live' = live /\ \A u, t : UniqueAccount(u, t)' = UniqueAccount(u, t)
      /\ \A a, c : LocalBoxes(a, c)' = LocalBoxes(a, c)
  BY <1>5 DEF Mended, UniqueAccount, AccountsFor, LocalBoxes
<1>8. ASSUME NEW t \in j.managed \ j.todo, NEW a \in UniqueAccount(j.user, t)
      PROVE  Settled(j, a)' \/ AtHand(j, a)
  BY <1>4, <1>6, <1>7, <1>8 DEF SettledInv, AtHand, Calmly, MailLabels
<1>9. j.pc \in MailLabels => j.account \in Accounts /\ j.account \in live
  <2>1. ASSUME j.pc \in MailLabels
        PROVE  j.account \in Accounts /\ j.account \in live
    <3>1. UniqueAccount(AccountOf[j.account][1], AccountOf[j.account][2]) = {j.account}
      BY <1>1, <1>3, <2>1 DEF MailSound, Calmly, Unspoilt
    <3> QED
      BY <1>1, <2>1, <3>1 DEF JobSound, UniqueAccount, AccountsFor
  <2> QED
    BY <2>1
<1>10. /\ \A t \in k.managed \ k.todo : \A a \in UniqueAccount(k.user, t) :
             Settled(k, a)' \/ AtHand(k, a)
       /\ k.pc \in {"map", "mapBoxes", "mapSet"} /\ "sieve" \notin k.errors =>
             sieve'[k.account] = "ours"
       /\ k.pc = "mapBoxes" =>
             \A c \in Drifted(k.account, mapping[k.account])' :
                k.cols[c] = mapping'[k.account][c]
       /\ k.pc = "mapSet" =>
             \A c \in Drifted(k.account, mapping[k.account])' : k.fixes[c] # None
       /\ k.pc = "mapSet" =>
             \A c \in Columns : k.fixes[c] # None => k.fixes[c] \in LocalBoxes(k.account, c)
  <2>1. CASE Finds(j, k)
    <3>1. PICK t \in j.todo :
             /\ k.todo = j.todo \ {t}
             /\ \/ k.pc = "sieve" /\ k.account \in UniqueAccount(j.user, t)
                \/ /\ k.pc = "mail"
                   /\ UniqueAccount(j.user, t) = {} \/ {"sieve", "map"} \subseteq k.errors
      BY <1>3, <2>1 DEF Finds, Calmly, Unspoilt
    <3>2. ASSUME NEW s \in k.managed \ k.todo, NEW a \in UniqueAccount(k.user, s)
          PROVE  Settled(k, a)' \/ AtHand(k, a)
      <4>1. k.managed = j.managed /\ k.user = j.user /\ j.errors \subseteq k.errors
        BY <1>4 DEF Carries
      <4>2. CASE s # t
        <5>1. Settled(j, a)' \/ AtHand(j, a)
          BY <1>8, <3>1, <4>1, <4>2
        <5> QED
          BY <2>1, <4>1, <5>1 DEF Settled, AtHand, Finds, MailLabels
      <4>3. CASE s = t /\ k.pc = "sieve"
        <5>1. k.account \in UniqueAccount(j.user, t) /\ a \in UniqueAccount(j.user, t)
          BY <3>1, <4>1, <4>3
        <5>2. AccountOf[a] = AccountOf[k.account]
          BY <5>1 DEF UniqueAccount, AccountsFor
        <5>3. a = k.account
          BY <1>1, <5>1, <5>2, OnlyAccount
        <5> QED
          BY <4>3, <5>3 DEF AtHand, MailLabels
      <4>4. CASE s = t /\ k.pc = "mail"
        BY <3>1, <4>1, <4>4 DEF Settled
      <4> QED
        BY <3>1, <4>2, <4>3, <4>4
    <3> QED
      BY <3>1, <3>2
  <2>2. ASSUME j.pc \in MailLabels, k.todo = j.todo,
               \/ k.pc \in MailLabels /\ k.account = j.account
               \/ k.pc = "mail" /\ Settled(k, j.account)'
        PROVE  \A t \in k.managed \ k.todo : \A a \in UniqueAccount(k.user, t) :
                  Settled(k, a)' \/ AtHand(k, a)
    <3>1. ASSUME NEW t \in k.managed \ k.todo, NEW a \in UniqueAccount(k.user, t)
          PROVE  Settled(k, a)' \/ AtHand(k, a)
      <4>1. k.managed = j.managed /\ k.user = j.user /\ j.errors \subseteq k.errors
        BY <1>4 DEF Carries
      <4>2. Settled(j, a)' \/ AtHand(j, a)
        BY <1>8, <2>2, <4>1
      <4> QED
        BY <2>2, <4>1, <4>2 DEF Settled, AtHand
    <3> QED
      BY <3>1
  <2>3. CASE ReadsSieve(j, k) \/ WritesSieve(j, k)
    <3>1. /\ j.pc \in MailLabels /\ k.todo = j.todo /\ k.account = j.account
          /\ k.pc \in {"sieveSet", "map"}
      BY <2>3 DEF ReadsSieve, WritesSieve, SameAccount, MailLabels
    <3>2. ASSUME k.pc = "map", "sieve" \notin k.errors
          PROVE  sieve'[j.account] = "ours"
      <4>1. CASE ReadsSieve(j, k)
        BY <1>4, <1>9, <3>1, <3>2, <4>1 DEF ReadsSieve, stores, mailDbVars
      <4>2. CASE WritesSieve(j, k)
        BY <1>1, <1>9, <3>1, <3>2, <4>2 DEF WritesSieve, UpdateSieve, MailDbTypeOK
      <4> QED
        BY <2>3, <4>1, <4>2
    <3>3. \A t \in k.managed \ k.todo : \A a \in UniqueAccount(k.user, t) :
             Settled(k, a)' \/ AtHand(k, a)
      BY <2>2, <3>1 DEF MailLabels
    <3> QED
      BY <3>1, <3>2, <3>3
  <2>4. CASE ReadsMapping(j, k)
    <3>1. j.pc \in MailLabels /\ k.todo = j.todo /\ j.pc = "map"
      BY <2>4 DEF ReadsMapping, SameAccount, MailLabels
    <3>2. "sieve" \notin j.errors => sieve'[j.account] = "ours"
      BY <1>4, <1>6, <3>1 DEF SettledInv, Calmly
    <3>3. j.errors \subseteq k.errors
      BY <1>4 DEF Carries
    <3>4. CASE k.pc = "mapBoxes" /\ k.cols = mapping[j.account] /\ SameAccount(k, j)
      <4>1. k.account = j.account /\ mapping' = mapping
        BY <2>4, <3>4 DEF SameAccount, ReadsMapping, stores, mailDbVars
      <4>2. \A t \in k.managed \ k.todo : \A a \in UniqueAccount(k.user, t) :
               Settled(k, a)' \/ AtHand(k, a)
        BY <2>2, <3>1, <3>4, <4>1 DEF MailLabels
      <4> QED
        BY <3>2, <3>3, <3>4, <4>1, <4>2
    <3>5. CASE k.pc = "mail" /\ "map" \in k.errors
      <4>1. Settled(k, j.account)'
        BY <3>2, <3>3, <3>5 DEF Settled
      <4> QED
        BY <2>2, <3>1, <3>5, <4>1
    <3> QED
      BY <1>9, <2>4, <3>1, <3>4, <3>5 DEF ReadsMapping
  <2>5. CASE ReadsBoxes(j, k)
    <3>1. /\ j.pc \in MailLabels /\ k.todo = j.todo /\ j.pc = "mapBoxes"
          /\ UNCHANGED <<sieve, mapping>>
      BY <2>5 DEF ReadsBoxes, SameAccount, MailLabels, stores, mailDbVars
    <3>2. "sieve" \notin j.errors => sieve'[j.account] = "ours"
      BY <1>4, <1>6, <3>1 DEF SettledInv, Calmly
    <3>3. j.errors \subseteq k.errors
      BY <1>4 DEF Carries
    <3>4. CASE k.pc = "mapSet" /\ k.fixes = FixesFor(j) /\ SameAccount(k, j)
      <4>1. k.account = j.account
        BY <3>4 DEF SameAccount
      <4>2. ASSUME NEW c \in Drifted(j.account, mapping[j.account])'
            PROVE  k.fixes[c] # None
        <5>1. c \in Columns /\ j.cols[c] = mapping'[j.account][c]
          BY <1>4, <1>6, <3>1, <4>2 DEF SettledInv, Calmly, Drifted
        <5>2. c \in Drifted(j.account, j.cols)
          BY <1>7, <4>2, <5>1 DEF Drifted, Resolvable
        <5>3. FixesFor(j)[c] \in boxes
          BY <5>1, <5>2, FixesLocal DEF LocalBoxes
        <5> QED
          BY <1>1, <3>4, <5>3, MailDbAssumption DEF MailDbTypeOK
      <4>3. \A c \in Columns : k.fixes[c] # None => k.fixes[c] \in LocalBoxes(j.account, c)
        BY <3>4, FixesLocal
      <4>4. \A t \in k.managed \ k.todo : \A a \in UniqueAccount(k.user, t) :
               Settled(k, a)' \/ AtHand(k, a)
        BY <2>2, <3>1, <3>4, <4>1 DEF MailLabels
      <4> QED
        BY <3>2, <3>3, <3>4, <4>1, <4>2, <4>3, <4>4
    <3>5. CASE k.pc = "mail" /\ "map" \in k.errors
      <4>1. Settled(k, j.account)'
        BY <3>2, <3>3, <3>5 DEF Settled
      <4> QED
        BY <2>2, <3>1, <3>5, <4>1
    <3> QED
      BY <1>4, <2>5, <3>4, <3>5 DEF ReadsBoxes, Calmly, Unspoilt
  <2>6. CASE WritesMapping(j, k)
    <3>1. j.pc \in MailLabels /\ k.todo = j.todo /\ j.pc = "mapSet"
      BY <2>6 DEF WritesMapping, SameAccount, MailLabels
    <3>2. "sieve" \notin j.errors => sieve'[j.account] = "ours"
      BY <1>4, <1>6, <3>1 DEF SettledInv, Calmly
    <3>3. j.errors \subseteq k.errors
      BY <1>4 DEF Carries
    <3>4. /\ \A c \in Drifted(j.account, mapping[j.account])' : j.fixes[c] # None
          /\ \A c \in Columns : j.fixes[c] # None => j.fixes[c] \in LocalBoxes(j.account, c)
      BY <1>4, <1>6, <1>7, <3>1 DEF SettledInv, Calmly
    <3>5. CASE k.pc = "mapSet" /\ SameAccount(k, j) /\
                 \E c \in Columns :
                    /\ j.fixes[c] # None /\ k.fixes = [j.fixes EXCEPT ![c] = None]
                    /\ UpdateMapping(j.account, c, j.fixes[c])
      <4>1. PICK c \in Columns :
                    /\ j.fixes[c] # None /\ k.fixes = [j.fixes EXCEPT ![c] = None]
                    /\ UpdateMapping(j.account, c, j.fixes[c])
        BY <3>5
      <4>2. k.account = j.account /\ j.fixes \in [Columns -> Boxes \union {None}]
        BY <3>5 DEF SameAccount, Job
      <4>3. c \notin Drifted(j.account, mapping[j.account])'
        BY <1>1, <1>9, <3>1, <3>4, <4>1, ColumnMended
      <4>4. \A d \in Columns : d # c => k.fixes[d] = j.fixes[d]
        BY <4>1, <4>2
      <4>5. k.fixes[c] = None
        BY <4>1, <4>2
      <4>6. \A d \in Drifted(j.account, mapping[j.account])' : k.fixes[d] # None
        BY <3>4, <4>3, <4>4 DEF Drifted
      <4>7. \A d \in Columns : k.fixes[d] # None => k.fixes[d] \in LocalBoxes(j.account, d)
        BY <3>4, <4>4, <4>5
      <4>8. \A t \in k.managed \ k.todo : \A a \in UniqueAccount(k.user, t) :
               Settled(k, a)' \/ AtHand(k, a)
        BY <2>2, <3>1, <3>5, <4>2 DEF SameAccount, MailLabels
      <4> QED
        BY <3>2, <3>3, <3>5, <4>2, <4>6, <4>7, <4>8
    <3>6. CASE k.pc = "mail" /\ ("map" \in k.errors \/ (j.fixes = NoBox /\ UNCHANGED stores))
      <4>1. j.fixes = NoBox => Drifted(j.account, mapping[j.account])' = {}
        BY <3>4 DEF NoBox, Drifted
      <4>2. Settled(k, j.account)'
        BY <3>2, <3>3, <3>6, <4>1 DEF Settled
      <4> QED
        BY <2>2, <3>1, <3>6, <4>2
    <3> QED
      BY <2>6, <3>5, <3>6 DEF WritesMapping
  <2> QED
    BY <1>3, <2>1, <2>3, <2>4, <2>5, <2>6 DEF MailDbMoves
<1>11. SettledInv(k)'
  BY <1>4, <1>7, <1>10 DEF SettledInv, MailLabels, AtHand
<1> QED
  BY <1>2, <1>11 DEF SettledInv, Settled, AtHand
(* ... and once the loop over the accounts is over, nothing is at hand. *)
LEMMA SettledSharing ==
    ASSUME MailInv, [Next]_vars, NEW w \in Workers, Sharing(w), SettledInv(job[w]),
           ~job'[w].dry, job'[w].pc # "idle", Calmly'
    PROVE  SettledInv(job[w])'
<1>1. PICK j \in Job : j = job[w] /\ JobSound(j) /\ MailDbTypeOK /\ IInv
  BY DEF MailInv, IInv, TypeOK
<1>2. PICK k : k = job'[w]
  OBVIOUS
<1>3. SharingMoves(j, k) /\ disturbed \subseteq disturbed' /\ Calmly
  BY <1>1, <1>2, SharingStep, MailDbSteps DEF Calmly, Unspoilt
<1>4. k.pc \notin MailLabels \union {"mail", "idle", "lock"}
  BY <1>2, <1>3 DEF SharingMoves, FailsSharing, TakesSenders, TakesDelegateTo, ComparesFrom,
     SetsFrom, Enters, Probes, Lists, Walks, StartsSelf, ClearsSelf, SyncsDelegateTo,
     Finishes, MailLabels
<1>5. Carries(k, j) /\ ~j.dry
  <2>1. Moves(j, k)
    BY <1>3 DEF Moves
  <2> QED
    BY <1>2, <1>4, <2>1, Holding DEF Carries
<1>6. j.pc \notin MailLabels \union {"idle", "lock"} /\ (j.pc = "mail" => j.todo = {})
  BY <1>1 DEF Sharing, SnapshotSenders, SnapshotDelegateTo, ReadDelegateFrom,
     WriteDelegateFrom, SyncSenders, ProbeInbox, ListFolders, SetFolder, StartSelf, ClearSelf,
     SyncDelegateTo, Finish, At, MailLabels
<1>7. SettledInv(j)'
  <2>1. Mended
    BY <1>1, <1>3, Mends DEF WorkerStep
  <2> QED
    BY <1>1, <1>3, <2>1, SettledKept
<1>8. ASSUME NEW t \in k.managed, NEW a \in UniqueAccount(k.user, t)'
      PROVE  Settled(k, a)'
  <2>1. k.managed = j.managed /\ k.user = j.user /\ j.errors \subseteq k.errors
    BY <1>5 DEF Carries
  <2>2. t \in j.managed \ (IF j.pc \in MailLabels \union {"mail"} THEN j.todo ELSE {})
    BY <1>6, <2>1
  <2>3. a \in UniqueAccount(j.user, t)'
    BY <1>8, <2>1 DEF UniqueAccount, AccountsFor
  <2>4. Settled(j, a)'
    BY <1>5, <1>6, <1>7, <2>2, <2>3 DEF SettledInv, AtHand, Calmly
  <2> QED
    BY <2>1, <2>4 DEF Settled
<1>9. SettledInv(k)'
  BY <1>4, <1>8 DEF SettledInv, MailLabels
<1> QED
  BY <1>2, <1>9 DEF SettledInv, Settled, AtHand

LEMMA MailEndsStep ==
    ASSUME MailInv, MailEnds, [Next]_vars
    PROVE  MailEnds'
<1>1. IInv /\ disturbed \subseteq disturbed'
  BY MailDbSteps DEF MailInv
<1> SUFFICES ASSUME Calmly', NEW v \in Workers, HoldsLock(v)', ~job'[v].dry
             PROVE  SettledInv(job[v])'
  BY DEF MailEnds, SettledInv, Calmly, HoldsLock
<1>2. Calmly
  BY <1>1 DEF Calmly, Unspoilt
<1>3. ASSUME Mended, job'[v] = job[v]
      PROVE  SettledInv(job[v])'
  <2>1. PICK j : j = job[v]
    OBVIOUS
  <2>2. SettledInv(j)'
    BY <1>1, <1>3, <2>1, SettledKept DEF MailEnds, IInv, TypeOK
  <2> QED
    BY <1>3, <2>1, <2>2 DEF SettledInv, Settled, AtHand
<1>4. ASSUME NEW w \in Workers, WorkerStep(w)
      PROVE  SettledInv(job[v])'
  <2>1. Mended
    BY <1>2, <1>4, Mends DEF MailEnds
  <2>2. CASE v # w
    BY <1>1, <1>3, <1>4, <2>1, <2>2, OthersJobs
  <2>3. CASE v = w /\ MailDb(w)
    BY <2>3, SettledMail DEF MailEnds
  <2>4. CASE v = w /\ Sharing(w)
    BY <2>4, SettledSharing DEF MailEnds, HoldsLock
  <2>5. CASE v = w /\ ~MailDb(w) /\ ~Sharing(w)
    <3>1. Acquire(w)
      <4> SUFFICES ASSUME ~Acquire(w)
                   PROVE  FALSE
        OBVIOUS
      <4>1. HoldsLock(w)
        BY <1>1, <1>4, <2>5, HoldersKept
      <4>2. Crash(w)
        BY <1>4, <2>5, <4>1 DEF WorkerStep, Receive, HoldsLock, At
      <4>3. job'[w].pc = "idle"
        BY <1>1, <4>2, Becomes DEF Crash, Raises, IdleJob
      <4> QED
        BY <2>5, <4>3 DEF HoldsLock
    <3>2. PICK j \in Job : j = job[w]
      BY <1>1 DEF IInv, TypeOK
    <3>3. job'[w] = [j EXCEPT !.pc = "mail", !.todo = j.managed]
      BY <1>1, <3>1, <3>2, Becomes DEF Acquire
    <3>4. /\ job'[w].pc = "mail" /\ job'[w].managed = j.managed
          /\ job'[w].todo = j.managed
      BY <3>3 DEF Job
    <3> QED
      BY <2>5, <3>4 DEF SettledInv, MailLabels
  <2> QED
    BY <1>4, <2>2, <2>3, <2>4, <2>5
<1>5. ~Surroundings
  <2>1. ASSUME Surroundings
        PROVE  FALSE
    <3>1. Busy
      BY <1>1, <2>1, SurroundingsKeep DEF Busy, HoldsLock
    <3>2. {"hand", "folder"} \intersect disturbed' # {}
      BY <2>1, <3>1 DEF Surroundings, SendersByHand, DelegationByHand, AccountsByHand,
         FolderMade, BoxMade, Mapped, Event, Disturb
    <3> QED
      BY <3>2 DEF Calmly, Unspoilt
  <2> QED
    BY <2>1
<1>6. CASE UNCHANGED vars
  BY <1>3, <1>6, NothingWritten DEF vars, stores
<1> QED
  BY <1>4, <1>5, <1>6 DEF Next, Rest, WorkerStep

(* _provision_nc_maildb: the loop over the accounts, its two steps and the      *)
(* UPDATE per column, with what fails in between, leave no managed account      *)
(* without the ManageSieve settings and no column astray, in any number of      *)
(* processes, whatever the other requests do; MailDbConverges names the         *)
(* conditions.                                                                  *)
THEOREM MailDbIsConverged == Spec => MailDbConverges
<1>1. Init => MailInv /\ MailEnds
  BY MailInitially DEF Init, MailEnds, SettledInv, IdleJob
<1>2. MailInv /\ MailEnds /\ [Next]_vars => (MailInv /\ MailEnds)'
  BY MailInductive, MailEndsStep
<1>3. ASSUME MailEnds, NEW w \in Workers, Answers(w), ~job[w].dry,
             Unspoilt({"rc", "hand", "folder"}), NEW t \in job[w].managed,
             NEW a \in UniqueAccount(job[w].user, t)
      PROVE  /\ "sieve" \notin job[w].errors => sieve[a] = "ours"
             /\ "map" \notin job[w].errors => Drifted(a, mapping[a]) = {}
  <2>1. job[w].pc = "mailbox"
    BY <1>3 DEF Answers, At
  <2>2. Settled(job[w], a)
    BY <1>3, <2>1 DEF MailEnds, SettledInv, AtHand, MailLabels
  <2> QED
    BY <2>2 DEF Settled
<1>4. MailEnds => [\A w \in Workers : LET j == job[w] IN
          Answers(w) /\ ~j.dry /\ Unspoilt({"rc", "hand", "folder"}) =>
             \A t \in j.managed : \A a \in UniqueAccount(j.user, t) :
                /\ "sieve" \notin j.errors => sieve[a] = "ours"
                /\ "map" \notin j.errors => Drifted(a, mapping[a]) = {}]_vars
  BY <1>3
<1> QED
  BY <1>1, <1>2, <1>4, PTL DEF Spec, MailDbConverges

(* In one process the lock is enough for both. *)
COROLLARY SharingInOneProcess ==
    ASSUME SingleProcess
    PROVE  Spec => []InboxSpeaks /\ SharingConverges
<1>1. Spec => []Serial
  BY LockSerializes
<1>2. Spec /\ []Serial => []InboxSpeaks
  BY InboxIsRepresentative
<1>3. Spec /\ []Serial => SharingConverges
  BY SharingIsConverged
<1> QED
  BY <1>1, <1>2, <1>3, PTL

=============================================================================
