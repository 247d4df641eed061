---------------------- MODULE ReconcileTargets_proofs ----------------------
(***************************************************************************)
(* Theorems about ReconcileTargets, for every set of users, targets and    *)
(* workers, every assignment of workers to processes, and every kind of    *)
(* failure and of event around the service.                                *)
(***************************************************************************)
EXTENDS ReconcileTargets, AppPasswords_proofs, TLAPS

(* id was issued, and if Mailcow still has it, it was minted for (u, t) *)
Claim(id, u, t) ==
    /\ id \in Nat
    /\ id < nextPwd
    /\ MintedFor(id, u, t)

TargetLabels == {"adoptFind", "adoptPut", "post", "find", "create", "lookup",
                 "rollback", "put", "close", "revoke", "forget"}
PwdLabels == {"adoptPut", "create", "lookup", "rollback", "put",
              "close", "revoke", "forget"}

(* What the locals of a request are worth at each of its steps *)
JobSound(j) ==
    /\ j.pc # "idle" => j.user \in Users
    /\ j.pc \in TargetLabels => j.target \in Targets
    /\ j.pc \in PwdLabels <=> j.pwd # None
    /\ j.pc \notin {"adoptFind", "adoptPut"} => j.ids = {}
    /\ j.pwd # None => Claim(j.pwd, j.user, j.target)
    /\ \A id \in j.ids : Claim(id, j.user, j.target)

RowsSound ==
    \A u \in Users, t \in Targets :
       rows[<<u, t>>] # None => Claim(rows[<<u, t>>].pwd, u, t)

IInv ==
    /\ TypeOK
    /\ IdsBelow
    /\ IdsUnique
    /\ RowsSound
    /\ \A w \in Workers : JobSound(job[w])

---------------------------------------------------------------------------
(* A claim on an id that was issued before survives every such change. *)
LEMMA ClaimStable ==
    ASSUME MailcowTypeOK, Shrinks \/ Grows,
           NEW id, NEW u, NEW t, Claim(id, u, t)
    PROVE  Claim(id, u, t)'
BY DEF MailcowTypeOK, Shrinks, Grows, Claim, MintedFor, AppPassword

(* The entries found by a marker may be claimed under it. *)
LEMMA MatchingClaim ==
    ASSUME MailcowTypeOK, IdsBelow, IdsUnique, NEW u \in Users, NEW t \in Targets,
           NEW id \in Matching(t, Marker(u, t))
    PROVE  Claim(id, u, t)
BY DEF MailcowTypeOK, IdsBelow, IdsUnique, Matching, Claim, MintedFor, AppPassword

LEMMA IdleTyped == IdleJob \in Job
BY DEF IdleJob, Job, Labels

LEMMA BackTyped ==
    ASSUME NEW j \in Job, NEW label \in Labels
    PROVE  Back(j, label) \in Job
BY DEF Back, Job

(* An idle job claims nothing, and neither does one between two targets. *)
LEMMA IdleSound == JobSound(IdleJob)
BY DEF JobSound, IdleJob, TargetLabels, PwdLabels

LEMMA BackSound ==
    ASSUME NEW j \in Job, j.user \in Users,
           NEW label \in Labels \ (TargetLabels \union PwdLabels)
    PROVE  JobSound(Back(j, label))
BY DEF JobSound, Back, Job

LEMMA GivenUpSound ==
    ASSUME NEW j \in Job, j.user \in Users,
           NEW label \in Labels \ (TargetLabels \union PwdLabels)
    PROVE  GivenUp(j, label) \in Job /\ JobSound(GivenUp(j, label))
<1> DEFINE k == [j EXCEPT !.errors = TRUE]
<1>1. k \in Job /\ k.user \in Users
  BY DEF Job
<1> HIDE DEF k
<1>2. Back(k, label) \in Job /\ JobSound(Back(k, label))
  BY <1>1, BackTyped, BackSound
<1> QED
  BY <1>2 DEF GivenUp, k

(* What is left to show of a step of worker w that makes its job j.  A sound *)
(* job stays sound while the table changes, whoever changed it.              *)
LEMMA Step ==
    ASSUME IInv, NEW w \in Workers, NEW j \in Job, Become(w, j), JobSound(j),
           Shrinks \/ Grows, MailcowTypeOK', NextcloudTypeOK', StateTypeOK',
           RowsSound', served' \in Nat, happened' \in Nat
    PROVE  IInv'
<1>1. MailcowTypeOK /\ IdsBelow /\ IdsUnique /\ job \in [Workers -> Job]
  BY DEF IInv, TypeOK
<1>2. /\ job' \in [Workers -> Job]
      /\ job'[w] = j
      /\ \A v \in Workers \ {w} : job'[v] = job[v]
  BY <1>1 DEF Become
<1>3. ASSUME NEW k, JobSound(k)
      PROVE  JobSound(k)'
  BY <1>1, <1>3, ClaimStable DEF JobSound
<1>4. ASSUME NEW v \in Workers
      PROVE  JobSound(job[v])'
  <2>1. CASE v = w
    BY <1>2, <1>3, <2>1
  <2>2. CASE v # w
    <3>1. JobSound(job[v])
      BY DEF IInv
    <3> QED
      BY <1>2, <1>3, <2>2, <3>1
  <2> QED
    BY <2>1, <2>2
<1>5. IdsBelow' /\ IdsUnique'
  BY <1>1, IdsStable
<1> QED
  BY <1>2, <1>4, <1>5 DEF IInv, TypeOK

(* A step that changes nothing but the worker's own locals. *)
LEMMA LocalStep ==
    ASSUME IInv, NEW w \in Workers, NEW j \in Job, Become(w, j), JobSound(j),
           UNCHANGED <<mailcowVars, nextcloudVars, stateVars, happened>>,
           served' \in Nat
    PROVE  IInv'
<1>1. Shrinks /\ MailcowTypeOK' /\ NextcloudTypeOK' /\ StateTypeOK' /\ happened' \in Nat
  BY DEF IInv, TypeOK, Shrinks, mailcowVars, nextcloudVars, stateVars,
         MailcowTypeOK, NextcloudTypeOK, StateTypeOK
<1>2. RowsSound'
  BY DEF IInv, RowsSound, Claim, MintedFor, mailcowVars, stateVars
<1> QED
  BY <1>1, <1>2, Step

LEMMA RowsOfTyped ==
    ASSUME NEW u
    PROVE  RowsOf(u) \in SUBSET Targets
BY DEF RowsOf

LEMMA PlannedTyped ==
    ASSUME NEW j \in Job, j.user \in Users, NEW current \in SUBSET Targets
    PROVE  Planned(j, current) \in Job /\ JobSound(Planned(j, current))
BY DEF Planned, Back, Job, Labels, JobSound, TargetLabels, PwdLabels

---------------------------------------------------------------------------
(* A request is received, takes its lock, reads Mailcow and the rows. *)
LEMMA StartKeeps ==
    ASSUME IInv, NEW w \in Workers,
           \/ Receive(w) \/ Acquire(w) \/ ListMailboxes(w) \/ ReadRows(w) \/ Gate(w)
           \/ Crash(w)
    PROVE  IInv'
<1>1. job[w] \in Job /\ JobSound(job[w]) /\ served \in Nat /\ mailboxes \subseteq Targets
  BY DEF IInv, TypeOK, MailcowTypeOK
<1>2. IdleJob \in Job /\ JobSound(IdleJob)
  BY IdleTyped, IdleSound
<1>3. CASE Receive(w)
  <2>1. PICK u \in Users, want \in SUBSET Targets, dry \in DryRuns :
           Become(w, [IdleJob EXCEPT !.pc = "lock", !.user = u,
                                     !.want = want, !.dry = dry])
    BY <1>3 DEF Receive
  <2> DEFINE j == [IdleJob EXCEPT !.pc = "lock", !.user = u, !.want = want, !.dry = dry]
  <2>2. dry \in BOOLEAN
    BY ConstantsAssumption
  <2>3. j \in Job
    BY <2>2 DEF IdleJob, Job, Labels
  <2>4. JobSound(j)
    BY DEF IdleJob, JobSound, TargetLabels, PwdLabels
  <2>5. served' \in Nat
    <3>1. served' = served + 1
      BY <1>3 DEF Receive
    <3> QED
      BY <1>1, <3>1
  <2>6. UNCHANGED <<mailcowVars, nextcloudVars, stateVars, happened>>
    BY <1>3 DEF Receive
  <2> QED
    BY <2>1, <2>3, <2>4, <2>5, <2>6, LocalStep
<1>4. CASE Acquire(w)
  <2> DEFINE j == [job[w] EXCEPT !.pc = "list"]
  <2>1. j \in Job /\ JobSound(j)
    BY <1>1, <1>4 DEF Acquire, At, Job, Labels, JobSound, TargetLabels, PwdLabels
  <2> QED
    BY <1>1, <1>4, <2>1, LocalStep DEF Acquire, counters
<1>5. CASE ListMailboxes(w)
  <2> DEFINE j == [job[w] EXCEPT !.pc = "rows", !.want = @ \intersect mailboxes]
  <2>1. j \in Job /\ JobSound(j)
    BY <1>1, <1>5 DEF ListMailboxes, At, Job, Labels, JobSound, TargetLabels, PwdLabels
  <2>2. Become(w, j) \/ Become(w, IdleJob)
    BY <1>5 DEF ListMailboxes, End
  <2> QED
    BY <1>1, <1>2, <1>5, <2>1, <2>2, LocalStep DEF ListMailboxes, counters
<1>6. CASE ReadRows(w)
  <2> DEFINE j == [job[w] EXCEPT !.pc = "adoptList"]
             k == Planned(job[w], RowsOf(job[w].user))
  <2>1. j \in Job /\ JobSound(j)
    BY <1>1, <1>6 DEF ReadRows, At, Job, Labels, JobSound, TargetLabels, PwdLabels
  <2>2. job[w].user \in Users
    BY <1>1, <1>6 DEF ReadRows, At, JobSound
  <2>3. k \in Job /\ JobSound(k)
    BY <1>1, <2>2, RowsOfTyped, PlannedTyped
  <2>4. Become(w, j) \/ Become(w, k)
    BY <1>6 DEF ReadRows
  <2> QED
    BY <1>1, <1>6, <2>1, <2>3, <2>4, LocalStep DEF ReadRows, counters
<1>7. CASE Gate(w)
  <2> DEFINE j == [job[w] EXCEPT !.pc = "add"]
             k == [job[w] EXCEPT !.pc = "add", !.toAdd = {}, !.skipped = TRUE]
  <2>1. j \in Job /\ JobSound(j) /\ k \in Job /\ JobSound(k)
    BY <1>1, <1>7 DEF Gate, At, Job, Labels, JobSound, TargetLabels, PwdLabels
  <2>2. Become(w, j) \/ Become(w, k)
    BY <1>7 DEF Gate
  <2> QED
    BY <1>1, <1>7, <2>1, <2>2, LocalStep DEF Gate, counters
<1>8. CASE Crash(w)
  BY <1>1, <1>2, <1>8, LocalStep DEF Crash, End, counters
<1> QED
  BY <1>3, <1>4, <1>5, <1>6, <1>7, <1>8

---------------------------------------------------------------------------
(* What the calls to the three stores preserve. *)
LEMMA MarkerTyped ==
    ASSUME NEW u \in Users, NEW t \in Targets
    PROVE  Marker(u, t) \in SyncNames /\ Marker(u, t) \in Names
<1>1. Marker(u, t) \in SyncNames
  BY DEF Marker, SyncNames
<1> QED
  BY <1>1 DEF Names

LEMMA OpenTyped ==
    ASSUME NextcloudTypeOK, NEW u \in Users, NEW t \in Targets,
           NEW secret \in Nat \union {None}, OpenAccount(u, t, secret)
    PROVE  NextcloudTypeOK'
BY DEF NextcloudTypeOK, OpenAccount, Account

LEMMA CloseTyped ==
    ASSUME NextcloudTypeOK, NEW id, CloseAccount(id)
    PROVE  NextcloudTypeOK'
BY DEF NextcloudTypeOK, CloseAccount

LEMMA LookupsTyped ==
    ASSUME NextcloudTypeOK, NEW u, NEW t
    PROVE  Lookups(u, t) \subseteq Nat \union {None}
BY DEF NextcloudTypeOK, Lookups, AccountIds, Account

LEMMA RowsStable ==
    ASSUME IInv, Shrinks \/ Grows, UNCHANGED rows
    PROVE  RowsSound'
<1>1. MailcowTypeOK
  BY DEF IInv, TypeOK
<1> QED
  BY <1>1, ClaimStable DEF IInv, RowsSound

LEMMA UpsertSound ==
    ASSUME IInv, NEW u \in Users, NEW t \in Targets, NEW pwd, Claim(pwd, u, t),
           NEW acc \in Nat \union {None}, Upsert(u, t, pwd, acc),
           UNCHANGED mailcowVars
    PROVE  StateTypeOK' /\ RowsSound'
<1> DEFINE row == Merged(rows[<<u, t>>], pwd, acc)
<1>1. rows \in [Users \X Targets -> Row \union {None}] /\ seen \subseteq Users
  BY DEF IInv, TypeOK, StateTypeOK
<1>2. row \in Row /\ row.pwd = pwd
  BY <1>1 DEF Merged, Coalesce, Row, Claim
<1>3. /\ rows' = [rows EXCEPT ![<<u, t>>] = row]
      /\ seen' = seen
  BY DEF Upsert
<1> HIDE DEF row
<1>4. StateTypeOK'
  BY <1>1, <1>2, <1>3 DEF StateTypeOK
<1>5. ASSUME NEW v \in Users, NEW s \in Targets, rows'[<<v, s>>] # None
      PROVE  Claim(rows[<<v, s>>].pwd, v, s)'
  <2>1. UNCHANGED <<pwds, nextPwd>>
    BY DEF mailcowVars
  <2>2. CASE <<v, s>> = <<u, t>>
    BY <1>1, <1>2, <1>3, <2>1, <2>2 DEF Claim, MintedFor
  <2>3. CASE <<v, s>> # <<u, t>>
    BY <1>1, <1>3, <1>5, <2>1, <2>3 DEF IInv, RowsSound, Claim, MintedFor
  <2> QED
    BY <2>2, <2>3
<1> QED
  BY <1>4, <1>5 DEF RowsSound

LEMMA DeleteRowSound ==
    ASSUME IInv, NEW u \in Users, NEW t \in Targets, DeleteRow(u, t),
           UNCHANGED mailcowVars
    PROVE  StateTypeOK' /\ RowsSound'
<1>1. rows \in [Users \X Targets -> Row \union {None}] /\ seen \subseteq Users
  BY DEF IInv, TypeOK, StateTypeOK
<1>2. rows' = [rows EXCEPT ![<<u, t>>] = None] /\ seen' = seen
  BY DEF DeleteRow
<1>3. StateTypeOK'
  BY <1>1, <1>2 DEF StateTypeOK
<1>4. ASSUME NEW v \in Users, NEW s \in Targets, rows'[<<v, s>>] # None
      PROVE  rows'[<<v, s>>] = rows[<<v, s>>]
  BY <1>1, <1>2, <1>4
<1>5. UNCHANGED <<pwds, nextPwd>>
  BY DEF mailcowVars
<1> QED
  BY <1>3, <1>4, <1>5 DEF IInv, RowsSound, Claim, MintedFor

LEMMA NextcloudKept ==
    ASSUME NextcloudTypeOK, UNCHANGED nextcloudVars
    PROVE  NextcloudTypeOK'
BY DEF NextcloudTypeOK, nextcloudVars

LEMMA RowsKept ==
    ASSUME IInv, Shrinks \/ Grows, UNCHANGED stateVars
    PROVE  StateTypeOK' /\ RowsSound'
BY RowsStable DEF IInv, TypeOK, StateTypeOK, stateVars

LEMMA StateKept ==
    ASSUME IInv, NEW u \in Users, NEW t \in Targets, NEW pwd, Claim(pwd, u, t),
           NEW acc \in Nat \union {None}, UNCHANGED mailcowVars,
           UNCHANGED stateVars \/ Upsert(u, t, pwd, acc)
    PROVE  StateTypeOK' /\ RowsSound'
<1>1. CASE UNCHANGED stateVars
  BY <1>1 DEF stateVars, mailcowVars, IInv, TypeOK, StateTypeOK, RowsSound, Claim,
              MintedFor
<1>2. CASE Upsert(u, t, pwd, acc)
  BY <1>2, UpsertSound
<1> QED
  BY <1>1, <1>2

---------------------------------------------------------------------------
(* The steps of adopt_from_markers: what they find carries the user's marker. *)
LEMMA AdoptionKeeps ==
    ASSUME IInv, NEW w \in Workers, Adoption(w)
    PROVE  IInv'
<1>1. /\ job[w] \in Job /\ JobSound(job[w])
      /\ MailcowTypeOK /\ NextcloudTypeOK /\ served \in Nat /\ happened \in Nat
  BY DEF IInv, TypeOK
<1>2. IdleJob \in Job /\ JobSound(IdleJob)
  BY IdleTyped, IdleSound
<1>3. CASE AdoptList(w)
  <2> DEFINE j == [job[w] EXCEPT !.pc = "adopt", !.scan = mailboxes]
  <2>1. j \in Job /\ JobSound(j)
    BY <1>1, <1>3 DEF AdoptList, At, Job, Labels, JobSound, TargetLabels, PwdLabels,
                      MailcowTypeOK
  <2>2. Become(w, j) \/ Become(w, IdleJob)
    BY <1>3 DEF AdoptList, Scanned, End
  <2> QED
    BY <1>1, <1>2, <1>3, <2>1, <2>2, LocalStep DEF AdoptList, counters
<1>4. CASE AdoptScan(w)
  <2>1. PICK t \in job[w].scan :
          LET next == [job[w] EXCEPT !.scan = @ \ {t}] IN
          \/ Become(w, IF Adoptable(job[w].user, t) = {} THEN next
                       ELSE [next EXCEPT !.pc = "adoptFind", !.target = t,
                                         !.ids = Adoptable(job[w].user, t)])
          \/ "call" \in Faults /\ Become(w, next)
    BY <1>4 DEF AdoptScan
  <2> DEFINE ids == Adoptable(job[w].user, t)
             j == [job[w] EXCEPT !.scan = @ \ {t}]
             k == [j EXCEPT !.pc = "adoptFind", !.target = t, !.ids = ids]
  <2>2. job[w].user \in Users /\ t \in Targets
    BY <1>1, <1>4 DEF AdoptScan, At, JobSound, Job
  <2>3. j \in Job /\ JobSound(j)
    BY <1>1, <1>4 DEF AdoptScan, At, Job, Labels, JobSound, TargetLabels, PwdLabels
  <2>4. \A id \in ids : Claim(id, job[w].user, t)
    BY <1>1, <2>2, MatchingClaim DEF IInv, Adoptable
  <2>5. ids \in SUBSET Nat
    BY <2>4 DEF Claim
  <2>6. k \in Job /\ JobSound(k)
    <3>1. job[w].pwd = None
      BY <1>1, <1>4 DEF AdoptScan, At, JobSound, PwdLabels
    <3>2. k \in Job
      BY <2>2, <2>3, <2>5 DEF Job, Labels
    <3>3. /\ k.pc = "adoptFind" /\ k.user = job[w].user /\ k.target = t
          /\ k.ids = ids /\ k.pwd = None
      BY <1>1, <3>1 DEF Job
    <3> HIDE DEF k, ids
    <3> QED
      BY <2>2, <2>4, <3>2, <3>3 DEF JobSound, TargetLabels, PwdLabels
  <2>7. Become(w, j) \/ Become(w, k)
    BY <2>1
  <2> HIDE DEF j, k
  <2> QED
    BY <1>1, <1>4, <2>3, <2>6, <2>7, LocalStep DEF AdoptScan, counters
<1>5. CASE AdoptFind(w)
  <2>1. PICK id \in job[w].ids,
             acc \in Lookups(job[w].user, job[w].target) \union
                       (IF "call" \in Faults THEN {None} ELSE {}) :
           Become(w, [job[w] EXCEPT !.pc = "adoptPut", !.ids = @ \ {id},
                                    !.pwd = id, !.acc = acc])
    BY <1>5 DEF AdoptFind
  <2> DEFINE j == [job[w] EXCEPT !.pc = "adoptPut", !.ids = @ \ {id},
                                 !.pwd = id, !.acc = acc]
  <2>2. acc \in Nat \union {None}
    BY <1>1, LookupsTyped
  <2>3. id \in Nat /\ id # None /\ Claim(id, job[w].user, job[w].target)
    BY <1>1, NoneAssumption DEF Job, JobSound
  <2>4. j \in Job
    BY <1>1, <2>2, <2>3 DEF Job, Labels
  <2>5. JobSound(j)
    BY <1>1, <1>5, <2>3 DEF AdoptFind, At, Job, JobSound, TargetLabels, PwdLabels
  <2>6. Become(w, j)
    BY <2>1
  <2> HIDE DEF j
  <2> QED
    BY <1>1, <1>5, <2>4, <2>5, <2>6, LocalStep DEF AdoptFind, counters
<1>6. CASE AdoptPut(w)
  <2> DEFINE j == Adopted(job[w])
  <2>1. /\ job[w].user \in Users /\ job[w].target \in Targets
        /\ job[w].acc \in Nat \union {None}
        /\ Claim(job[w].pwd, job[w].user, job[w].target)
    BY <1>1, <1>6 DEF AdoptPut, At, Job, JobSound, TargetLabels, PwdLabels
  <2>2. j \in Job /\ JobSound(j)
    <3> DEFINE next == [job[w] EXCEPT !.adopted = @ \union {job[w].target}]
               k == [next EXCEPT !.pc = "adoptFind", !.pwd = None, !.acc = None]
    <3>1. next \in Job /\ next.user = job[w].user
      BY <1>1, <2>1 DEF Job
    <3>2. Back(next, "adopt") \in Job /\ JobSound(Back(next, "adopt"))
      BY <2>1, <3>1, BackTyped, BackSound DEF Labels, TargetLabels, PwdLabels
    <3>3. k \in Job
      BY <3>1 DEF Job, Labels
    <3>4. JobSound(k)
      BY <1>1, <2>1 DEF Job, JobSound, TargetLabels, PwdLabels
    <3> QED
      BY <3>2, <3>3, <3>4 DEF Adopted
  <2>3. Become(w, j) \/ Become(w, IdleJob)
    BY <1>6 DEF AdoptPut, End
  <2>4. UNCHANGED mailcowVars /\ UNCHANGED nextcloudVars /\ UNCHANGED counters
    BY <1>6 DEF AdoptPut
  <2>5. UNCHANGED stateVars \/ Upsert(job[w].user, job[w].target, job[w].pwd, job[w].acc)
    BY <1>6 DEF AdoptPut, RecordAdopted
  <2>6. StateTypeOK' /\ RowsSound'
    BY <2>1, <2>4, <2>5, StateKept
  <2> HIDE DEF j
  <2> QED
    BY <1>1, <1>2, <2>2, <2>3, <2>4, <2>6, MailcowKept, NextcloudKept, Step DEF counters
<1>7. CASE AdoptDone(w)
  <2> DEFINE current == IF job[w].dry THEN job[w].adopted ELSE RowsOf(job[w].user)
             j == Planned(job[w], current)
  <2>1. job[w].user \in Users /\ job[w].adopted \in SUBSET Targets
    BY <1>1, <1>7 DEF AdoptDone, At, Job, JobSound
  <2>2. j \in Job /\ JobSound(j)
    BY <1>1, <2>1, RowsOfTyped, PlannedTyped
  <2>3. Become(w, j)
    BY <1>7 DEF AdoptDone, CurrentTargets
  <2> HIDE DEF j
  <2> QED
    BY <1>1, <1>7, <2>2, <2>3, LocalStep DEF AdoptDone, counters
<1> QED
  BY <1>3, <1>4, <1>5, <1>6, <1>7 DEF Adoption

---------------------------------------------------------------------------
(* The add loop: the id that list-and-find returns is one of the marker's. *)
LEMMA AdditionKeeps ==
    ASSUME IInv, NEW w \in Workers, Addition(w)
    PROVE  IInv'
<1>1. /\ job[w] \in Job /\ JobSound(job[w])
      /\ MailcowTypeOK /\ NextcloudTypeOK /\ StateTypeOK
      /\ served \in Nat /\ happened \in Nat
  BY DEF IInv, TypeOK
<1>2. ASSUME job[w].pc \in TargetLabels
      PROVE  /\ job[w].user \in Users /\ job[w].target \in Targets
             /\ Marker(job[w].user, job[w].target) \in Names
             /\ Back(job[w], "add") \in Job /\ JobSound(Back(job[w], "add"))
             /\ GivenUp(job[w], "add") \in Job /\ JobSound(GivenUp(job[w], "add"))
  <2>1. job[w].user \in Users /\ job[w].target \in Targets
    BY <1>1, <1>2 DEF JobSound, TargetLabels
  <2> QED
    BY <1>1, <2>1, MarkerTyped, BackTyped, BackSound, GivenUpSound
       DEF Labels, TargetLabels, PwdLabels
<1>3. CASE StartAdd(w)
  <2>1. PICK t \in job[w].toAdd :
          LET next == [job[w] EXCEPT !.toAdd = @ \ {t}] IN
          Become(w, IF job[w].dry THEN next
                    ELSE [next EXCEPT !.pc = "post", !.target = t])
    BY <1>3 DEF StartAdd
  <2> DEFINE j == [job[w] EXCEPT !.toAdd = @ \ {t}]
             k == [j EXCEPT !.pc = "post", !.target = t]
  <2>2. j \in Job /\ JobSound(j)
    BY <1>1, <1>3 DEF StartAdd, At, Job, Labels, JobSound, TargetLabels, PwdLabels
  <2>3. k \in Job /\ JobSound(k)
    BY <1>1, <1>3 DEF StartAdd, At, Job, Labels, JobSound, TargetLabels, PwdLabels
  <2>4. Become(w, j) \/ Become(w, k)
    BY <2>1
  <2> HIDE DEF j, k
  <2> QED
    BY <1>1, <1>3, <2>2, <2>3, <2>4, LocalStep DEF StartAdd, counters
<1>4. CASE PostAppPasswd(w)
  <2> DEFINE j == [job[w] EXCEPT !.pc = "find", !.secret = nextPwd]
             k == GivenUp(job[w], "add")
  <2>1. job[w].pc = "post"
    BY <1>4 DEF PostAppPasswd, At
  <2>2. /\ job[w].user \in Users /\ job[w].target \in Targets
        /\ Marker(job[w].user, job[w].target) \in Names
        /\ k \in Job /\ JobSound(k)
    BY <1>2, <2>1 DEF TargetLabels
  <2>3. j \in Job /\ JobSound(j)
    BY <1>1, <2>1 DEF Job, Labels, JobSound, TargetLabels, PwdLabels, MailcowTypeOK
  <2>4. Become(w, j) \/ Become(w, k)
    BY <1>4 DEF PostAppPasswd
  <2>5. Issue(job[w].target, Marker(job[w].user, job[w].target)) \/ UNCHANGED mailcowVars
    BY <1>4 DEF PostAppPasswd
  <2>6. (Shrinks \/ Grows) /\ MailcowTypeOK'
    BY <1>1, <2>2, <2>5, IssueGrows, MailcowKept
  <2>7. UNCHANGED nextcloudVars /\ UNCHANGED stateVars /\ UNCHANGED counters
    BY <1>4 DEF PostAppPasswd
  <2>8. NextcloudTypeOK' /\ StateTypeOK' /\ RowsSound'
    BY <1>1, <2>6, <2>7, NextcloudKept, RowsKept
  <2> HIDE DEF j, k
  <2> QED
    BY <1>1, <2>2, <2>3, <2>4, <2>6, <2>7, <2>8, Step DEF counters
<1>5. CASE FindAppPasswd(w)
  <2> DEFINE k == GivenUp(job[w], "add")
  <2>1. job[w].pc = "find"
    BY <1>5 DEF FindAppPasswd, At
  <2>2. /\ job[w].user \in Users /\ job[w].target \in Targets
        /\ k \in Job /\ JobSound(k)
    BY <1>2, <2>1 DEF TargetLabels
  <2>3. CASE Become(w, k)
    <3> HIDE DEF k
    <3> QED
      BY <1>1, <1>5, <2>2, <2>3, LocalStep DEF FindAppPasswd, counters
  <2>4. ASSUME NEW id \in FoundByName(job[w].target, Marker(job[w].user, job[w].target)),
               Become(w, [job[w] EXCEPT !.pc = "create", !.pwd = id])
        PROVE  IInv'
    <3> DEFINE j == [job[w] EXCEPT !.pc = "create", !.pwd = id]
    <3>1. Claim(id, job[w].user, job[w].target)
      BY <1>1, <2>2, <2>4, MatchingClaim DEF IInv, FoundByName
    <3>2. id \in Nat /\ id # None
      BY <3>1, NoneAssumption DEF Claim
    <3>3. j \in Job /\ JobSound(j)
      BY <1>1, <2>1, <3>1, <3>2 DEF Job, Labels, JobSound, TargetLabels, PwdLabels
    <3>4. Become(w, j)
      BY <2>4
    <3> HIDE DEF j
    <3> QED
      BY <1>1, <1>5, <3>3, <3>4, LocalStep DEF FindAppPasswd, counters
  <2> QED
    BY <1>5, <2>3, <2>4 DEF FindAppPasswd
<1>6. CASE CreateAccount(w)
  <2> DEFINE j == [job[w] EXCEPT !.pc = "lookup"]
             k == [job[w] EXCEPT !.pc = "rollback"]
  <2>1. job[w].pc = "create"
    BY <1>6 DEF CreateAccount, At
  <2>2. /\ job[w].user \in Users /\ job[w].target \in Targets
        /\ job[w].secret \in Nat \union {None}
    BY <1>1, <1>2, <2>1 DEF TargetLabels, Job
  <2>3. j \in Job /\ JobSound(j) /\ k \in Job /\ JobSound(k)
    BY <1>1, <2>1 DEF Job, Labels, JobSound, TargetLabels, PwdLabels
  <2>4. Become(w, j) \/ Become(w, k)
    BY <1>6 DEF CreateAccount
  <2>5. \/ OpenAccount(job[w].user, job[w].target, job[w].secret)
        \/ UNCHANGED nextcloudVars
    BY <1>6 DEF CreateAccount
  <2>6. UNCHANGED mailcowVars /\ UNCHANGED stateVars /\ UNCHANGED counters
    BY <1>6 DEF CreateAccount
  <2>7. NextcloudTypeOK'
    BY <1>1, <2>2, <2>5, OpenTyped, NextcloudKept
  <2>8. Shrinks /\ MailcowTypeOK' /\ StateTypeOK' /\ RowsSound'
    BY <1>1, <2>6, MailcowKept, RowsKept
  <2> HIDE DEF j, k
  <2> QED
    BY <1>1, <2>3, <2>4, <2>6, <2>7, <2>8, Step DEF counters
<1>7. CASE LookupAccount(w)
  <2>1. job[w].pc = "lookup"
    BY <1>7 DEF LookupAccount, At
  <2>2. ASSUME NEW acc \in Lookups(job[w].user, job[w].target) \union
                             (IF "call" \in Faults THEN {None} ELSE {}),
               Become(w, [job[w] EXCEPT !.pc = "put", !.acc = acc])
        PROVE  IInv'
    <3> DEFINE j == [job[w] EXCEPT !.pc = "put", !.acc = acc]
    <3>1. acc \in Nat \union {None}
      BY <1>1, LookupsTyped
    <3>2. j \in Job /\ JobSound(j)
      BY <1>1, <2>1, <3>1 DEF Job, Labels, JobSound, TargetLabels, PwdLabels
    <3>3. Become(w, j)
      BY <2>2
    <3> HIDE DEF j
    <3> QED
      BY <1>1, <1>7, <3>2, <3>3, LocalStep DEF LookupAccount, counters
  <2>3. CASE Become(w, [job[w] EXCEPT !.pc = "rollback"])
    <3> DEFINE j == [job[w] EXCEPT !.pc = "rollback"]
    <3>1. j \in Job /\ JobSound(j)
      BY <1>1, <2>1 DEF Job, Labels, JobSound, TargetLabels, PwdLabels
    <3>2. Become(w, j)
      BY <2>3
    <3> HIDE DEF j
    <3> QED
      BY <1>1, <1>7, <3>1, <3>2, LocalStep DEF LookupAccount, counters
  <2> QED
    BY <1>7, <2>2, <2>3 DEF LookupAccount
<1>8. CASE RollBack(w)
  <2> DEFINE k == GivenUp(job[w], "add")
  <2>1. job[w].pc = "rollback" /\ Become(w, k)
    BY <1>8 DEF RollBack, At
  <2>2. k \in Job /\ JobSound(k)
    BY <1>2, <2>1 DEF TargetLabels
  <2>3. Revoke(job[w].pwd) \/ UNCHANGED mailcowVars
    BY <1>8 DEF RollBack
  <2>4. Shrinks /\ MailcowTypeOK'
    BY <1>1, <2>3, RevokeShrinks, MailcowKept
  <2>5. UNCHANGED nextcloudVars /\ UNCHANGED stateVars /\ UNCHANGED counters
    BY <1>8 DEF RollBack
  <2>6. NextcloudTypeOK' /\ StateTypeOK' /\ RowsSound'
    BY <1>1, <2>4, <2>5, NextcloudKept, RowsKept
  <2> HIDE DEF k
  <2> QED
    BY <1>1, <2>1, <2>2, <2>4, <2>5, <2>6, Step DEF counters
<1>9. CASE PutRow(w)
  <2> DEFINE k == Back(job[w], "add")
             g == GivenUp(job[w], "add")
  <2>1. job[w].pc = "put" /\ (Become(w, k) \/ Become(w, g))
    BY <1>9 DEF PutRow, At
  <2>2. /\ job[w].user \in Users /\ job[w].target \in Targets
        /\ k \in Job /\ JobSound(k) /\ g \in Job /\ JobSound(g)
    BY <1>2, <2>1 DEF TargetLabels
  <2>3. /\ Claim(job[w].pwd, job[w].user, job[w].target)
        /\ job[w].acc \in Nat \union {None}
    BY <1>1, <2>1 DEF JobSound, PwdLabels, Job
  <2>4. UNCHANGED mailcowVars /\ UNCHANGED nextcloudVars /\ UNCHANGED counters
    BY <1>9 DEF PutRow
  <2>5. UNCHANGED stateVars \/ Upsert(job[w].user, job[w].target, job[w].pwd, job[w].acc)
    BY <1>9 DEF PutRow
  <2>6. StateTypeOK' /\ RowsSound'
    BY <2>2, <2>3, <2>4, <2>5, StateKept
  <2> HIDE DEF k, g
  <2> QED
    BY <1>1, <2>1, <2>2, <2>4, <2>6, MailcowKept, NextcloudKept, Step DEF counters
<1>10. CASE EndAdds(w)
  <2> DEFINE j == [job[w] EXCEPT !.pc = "remove"]
  <2>1. j \in Job /\ JobSound(j)
    BY <1>1, <1>10 DEF EndAdds, At, Job, Labels, JobSound, TargetLabels, PwdLabels
  <2> QED
    BY <1>1, <1>10, <2>1, LocalStep DEF EndAdds, counters
<1> QED
  BY <1>3, <1>4, <1>5, <1>6, <1>7, <1>8, <1>9, <1>10 DEF Addition

---------------------------------------------------------------------------
(* The remove loop takes its ids from the user's own rows. *)
LEMMA RemovalKeeps ==
    ASSUME IInv, NEW w \in Workers, Removal(w)
    PROVE  IInv'
<1>1. /\ job[w] \in Job /\ JobSound(job[w])
      /\ MailcowTypeOK /\ NextcloudTypeOK /\ StateTypeOK
      /\ served \in Nat /\ happened \in Nat
  BY DEF IInv, TypeOK
<1>2. CASE StartRemove(w)
  <2>1. PICK t \in job[w].toRemove :
          LET next == [job[w] EXCEPT !.toRemove = @ \ {t}]
              row  == rows[<<job[w].user, t>>]
          IN Become(w, IF job[w].dry \/ row = None THEN next
                       ELSE [next EXCEPT !.pc = "close", !.target = t,
                                         !.pwd = row.pwd, !.acc = row.acc])
    BY <1>2 DEF StartRemove
  <2> DEFINE row == rows[<<job[w].user, t>>]
             j == [job[w] EXCEPT !.toRemove = @ \ {t}]
             k == [j EXCEPT !.pc = "close", !.target = t,
                            !.pwd = row.pwd, !.acc = row.acc]
  <2>2. job[w].pc = "remove" /\ job[w].user \in Users /\ t \in Targets
    BY <1>1, <1>2 DEF StartRemove, At, JobSound, Job
  <2>3. j \in Job /\ JobSound(j)
    BY <1>1, <2>2 DEF Job, Labels, JobSound, TargetLabels, PwdLabels
  <2>4. CASE Become(w, j)
    <3> HIDE DEF j
    <3> QED
      BY <1>1, <1>2, <2>3, <2>4, LocalStep DEF StartRemove, counters
  <2>5. CASE row # None /\ Become(w, k)
    <3>1. row \in Row /\ Claim(row.pwd, job[w].user, t)
      BY <1>1, <2>2, <2>5 DEF StateTypeOK, IInv, RowsSound
    <3>2. /\ row.pwd \in Nat /\ row.pwd # None
          /\ row.acc \in Nat \union {None}
      BY <3>1, NoneAssumption DEF Row
    <3> HIDE DEF row
    <3>3. k \in Job
      BY <2>2, <2>3, <3>2 DEF Job, Labels
    <3>4. JobSound(k)
      BY <1>1, <2>2, <3>1, <3>2 DEF Job, JobSound, TargetLabels, PwdLabels
    <3>5. Become(w, k)
      BY <2>5
    <3> HIDE DEF k
    <3> QED
      BY <1>1, <1>2, <3>3, <3>4, <3>5, LocalStep DEF StartRemove, counters
  <2> QED
    BY <2>1, <2>4, <2>5
<1>3. CASE DeleteAccount(w)
  <2> DEFINE j == [job[w] EXCEPT !.pc = "revoke"]
  <2>1. j \in Job /\ JobSound(j)
    BY <1>1, <1>3 DEF DeleteAccount, At, Job, Labels, JobSound, TargetLabels, PwdLabels
  <2>2. Become(w, j)
    BY <1>3 DEF DeleteAccount
  <2>3. CloseAccount(job[w].acc) \/ UNCHANGED nextcloudVars
    BY <1>3 DEF DeleteAccount
  <2>4. UNCHANGED mailcowVars /\ UNCHANGED stateVars /\ UNCHANGED counters
    BY <1>3 DEF DeleteAccount
  <2>5. Shrinks /\ MailcowTypeOK' /\ NextcloudTypeOK' /\ StateTypeOK' /\ RowsSound'
    BY <1>1, <2>3, <2>4, CloseTyped, MailcowKept, NextcloudKept, RowsKept
  <2> HIDE DEF j
  <2> QED
    BY <1>1, <2>1, <2>2, <2>4, <2>5, Step DEF counters
<1>4. CASE DeleteAppPasswd(w)
  <2> DEFINE j == [job[w] EXCEPT !.pc = "forget"]
  <2>1. j \in Job /\ JobSound(j)
    BY <1>1, <1>4 DEF DeleteAppPasswd, At, Job, Labels, JobSound, TargetLabels, PwdLabels
  <2>2. Become(w, j)
    BY <1>4 DEF DeleteAppPasswd
  <2>3. Revoke(job[w].pwd) \/ UNCHANGED mailcowVars
    BY <1>4 DEF DeleteAppPasswd
  <2>4. UNCHANGED nextcloudVars /\ UNCHANGED stateVars /\ UNCHANGED counters
    BY <1>4 DEF DeleteAppPasswd
  <2>5. Shrinks /\ MailcowTypeOK'
    BY <1>1, <2>3, RevokeShrinks, MailcowKept
  <2>6. NextcloudTypeOK' /\ StateTypeOK' /\ RowsSound'
    BY <1>1, <2>4, <2>5, NextcloudKept, RowsKept
  <2> HIDE DEF j
  <2> QED
    BY <1>1, <2>1, <2>2, <2>4, <2>5, <2>6, Step DEF counters
<1>5. CASE ForgetRow(w)
  <2> DEFINE k == Back(job[w], "remove")
             g == GivenUp(job[w], "remove")
  <2>1. job[w].pc = "forget" /\ (Become(w, k) \/ Become(w, g))
    BY <1>5 DEF ForgetRow, At
  <2>2. job[w].user \in Users /\ job[w].target \in Targets
    BY <1>1, <2>1 DEF JobSound, TargetLabels
  <2>3. k \in Job /\ JobSound(k) /\ g \in Job /\ JobSound(g)
    BY <1>1, <2>2, BackTyped, BackSound, GivenUpSound DEF Labels, TargetLabels, PwdLabels
  <2>4. UNCHANGED mailcowVars /\ UNCHANGED nextcloudVars /\ UNCHANGED counters
    BY <1>5 DEF ForgetRow
  <2>5. DeleteRow(job[w].user, job[w].target) \/ UNCHANGED stateVars
    BY <1>5 DEF ForgetRow
  <2>6. Shrinks /\ MailcowTypeOK' /\ NextcloudTypeOK'
    BY <1>1, <2>4, MailcowKept, NextcloudKept
  <2>7. StateTypeOK' /\ RowsSound'
    BY <2>2, <2>4, <2>5, <2>6, DeleteRowSound, RowsKept
  <2> HIDE DEF k, g
  <2> QED
    BY <1>1, <2>1, <2>3, <2>4, <2>6, <2>7, Step DEF counters
<1>6. CASE Finish(w)
  <2>1. IdleJob \in Job /\ JobSound(IdleJob) /\ Become(w, IdleJob)
    BY <1>6, IdleTyped, IdleSound DEF Finish, End
  <2>2. job[w].user \in Users
    BY <1>1, <1>6 DEF Finish, At, JobSound
  <2>3. UNCHANGED mailcowVars /\ UNCHANGED nextcloudVars /\ UNCHANGED counters
    BY <1>6 DEF Finish
  <2>4. Shrinks /\ MailcowTypeOK' /\ NextcloudTypeOK'
    BY <1>1, <2>3, MailcowKept, NextcloudKept
  <2>5. UNCHANGED rows /\ StateTypeOK'
    BY <1>1, <1>6, <2>2 DEF Finish, TouchUser, stateVars, StateTypeOK
  <2>6. RowsSound'
    BY <2>4, <2>5, RowsStable
  <2> QED
    BY <1>1, <2>1, <2>3, <2>4, <2>5, <2>6, Step DEF counters
<1> QED
  BY <1>2, <1>3, <1>4, <1>5, <1>6 DEF Removal

(* Nothing outside the service can make a claim wrong: names are copied by    *)
(* nobody and ids are not used twice; losing the database drops the rows.     *)
LEMMA SurroundingsKeep ==
    ASSUME IInv, Surroundings
    PROVE  IInv'
<1>1. /\ job \in [Workers -> Job] /\ \A w \in Workers : JobSound(job[w])
      /\ MailcowTypeOK /\ NextcloudTypeOK /\ StateTypeOK /\ IdsBelow /\ IdsUnique
      /\ served \in Nat /\ happened \in Nat
  BY DEF IInv, TypeOK
<1>2. UNCHANGED job /\ UNCHANGED served /\ happened' = happened + 1
  BY DEF Surroundings, Event, MailboxCreated, MailboxDropped, ForeignPassword,
         PasswordDeletedByHand, AccountByHand, StateLost
<1>3. (Shrinks \/ Grows) /\ MailcowTypeOK'
  <2>1. ASSUME NEW m \in Targets, CreateMailbox(m)
        PROVE  Shrinks /\ MailcowTypeOK'
    BY <1>1, <2>1 DEF CreateMailbox, Shrinks, MailcowTypeOK
  <2>2. ASSUME NEW m \in Targets, DropMailbox(m)
        PROVE  Shrinks /\ MailcowTypeOK'
    BY <1>1, <2>2 DEF DropMailbox, Shrinks, MailcowTypeOK
  <2>3. ASSUME NEW m \in Targets, NEW name \in Names \ SyncNames, Issue(m, name)
        PROVE  Grows /\ MailcowTypeOK'
    BY <1>1, <2>3, IssueGrows
  <2>4. ASSUME NEW p \in pwds, Revoke(p.id)
        PROVE  Shrinks /\ MailcowTypeOK'
    BY <1>1, <2>4, RevokeShrinks
  <2> QED
    BY <1>1, <2>1, <2>2, <2>3, <2>4, MailcowKept
       DEF Surroundings, MailboxCreated, MailboxDropped, ForeignPassword,
           PasswordDeletedByHand, AccountByHand, StateLost
<1>4. NextcloudTypeOK'
  BY <1>1, OpenTyped, NextcloudKept
     DEF Surroundings, MailboxCreated, MailboxDropped, ForeignPassword,
         PasswordDeletedByHand, AccountByHand, StateLost
<1>5. StateTypeOK' /\ RowsSound'
  <2>1. CASE LoseState
    BY <2>1 DEF LoseState, StateTypeOK, RowsSound
  <2>2. CASE UNCHANGED stateVars
    BY <1>3, <2>2, RowsKept
  <2> QED
    BY <2>1, <2>2 DEF Surroundings, MailboxCreated, MailboxDropped, ForeignPassword,
                      PasswordDeletedByHand, AccountByHand, StateLost
<1>6. IdsBelow' /\ IdsUnique'
  BY <1>1, <1>3, IdsStable
<1>7. ASSUME NEW w \in Workers
      PROVE  JobSound(job[w])'
  <2>1. JobSound(job[w]) /\ job'[w] = job[w]
    BY <1>1, <1>2
  <2> QED
    BY <1>1, <1>3, <2>1, ClaimStable DEF JobSound
<1> QED
  BY <1>1, <1>2, <1>3, <1>4, <1>5, <1>6, <1>7 DEF IInv, TypeOK

---------------------------------------------------------------------------
LEMMA InitIInv == Init => IInv
<1> SUFFICES ASSUME Init PROVE IInv
  OBVIOUS
<1>1. TypeOK
  BY IdleTyped DEF Init, TypeOK, MailcowInit, MailcowTypeOK, NextcloudInit,
                   NextcloudTypeOK, StateInit, StateTypeOK
<1>2. IdsBelow /\ IdsUnique /\ RowsSound
  BY DEF Init, MailcowInit, StateInit, IdsBelow, IdsUnique, RowsSound
<1>3. \A w \in Workers : JobSound(job[w])
  BY IdleSound DEF Init
<1> QED
  BY <1>1, <1>2, <1>3 DEF IInv

LEMMA StutterIInv == IInv /\ UNCHANGED vars => IInv'
BY DEF IInv, TypeOK, MailcowTypeOK, NextcloudTypeOK, StateTypeOK, IdsBelow, IdsUnique,
       RowsSound, JobSound, Claim, MintedFor, vars, mailcowVars, nextcloudVars,
       stateVars, counters

LEMMA NextIInv == IInv /\ [Next]_vars => IInv'
<1> SUFFICES ASSUME IInv, [Next]_vars
             PROVE  IInv'
  OBVIOUS
<1>1. CASE \E w \in Workers : Receive(w) \/ Work(w) \/ Crash(w)
  BY <1>1, StartKeeps, AdoptionKeeps, AdditionKeeps, RemovalKeeps DEF Work
<1>2. CASE Surroundings
  BY <1>2, SurroundingsKeep
<1>3. CASE UNCHANGED vars
  BY <1>3, StutterIInv
<1> QED
  BY <1>1, <1>2, <1>3 DEF Next, Rest

(* The strengthening under which the claims of rows and of running requests  *)
(* are inductive.                                                            *)
THEOREM Inductive == Spec => []IInv
BY InitIInv, NextIInv, PTL DEF Spec

(* Every variable keeps its type, whatever fails. *)
THEOREM TypeCorrect == Spec => []TypeOK
<1>1. IInv => TypeOK
  BY DEF IInv
<1> QED
  BY <1>1, Inductive, PTL

(* The id in a sync_mailboxes row never comes to name somebody else's entry: *)
(* under every interleaving of any number of processes, under every failure, *)
(* a crash at any step and the loss of the database.                         *)
THEOREM RecordedIdsAreOurs == Spec => []RecordedIsOurs
<1>1. IInv => RecordedIsOurs
  BY DEF IInv, RowsSound, RecordedIsOurs, Claim
<1> QED
  BY <1>1, Inductive, PTL

---------------------------------------------------------------------------
(* The steps of a worker that delete from the app-password table *)
Revokes(w) == Revoke(job[w].pwd) /\ job[w].pc \in {"rollback", "revoke"}

(* Every other step of the service leaves the table's entries where they are. *)
LEMMA WorkDeletes ==
    ASSUME NEW w \in Workers, Receive(w) \/ Work(w) \/ Crash(w)
    PROVE  Revokes(w) \/ pwds \subseteq pwds'
<1>1. CASE Receive(w) \/ Crash(w) \/ Acquire(w) \/ ListMailboxes(w) \/ ReadRows(w) \/ Gate(w)
  BY <1>1 DEF Receive, Crash, Acquire, ListMailboxes, ReadRows, Gate, mailcowVars
<1>2. CASE Adoption(w)
  BY <1>2 DEF Adoption, AdoptList, AdoptScan, AdoptFind, AdoptPut, AdoptDone, mailcowVars
<1>3. CASE PostAppPasswd(w)
  BY <1>3 DEF PostAppPasswd, Issue, mailcowVars
<1>4. CASE RollBack(w)
  BY <1>4 DEF RollBack, Revokes, At, mailcowVars
<1>5. CASE DeleteAppPasswd(w)
  BY <1>5 DEF DeleteAppPasswd, Revokes, At, mailcowVars
<1>6. CASE \/ StartAdd(w) \/ FindAppPasswd(w) \/ CreateAccount(w) \/ LookupAccount(w)
           \/ PutRow(w) \/ EndAdds(w)
  BY <1>6 DEF StartAdd, FindAppPasswd, CreateAccount, LookupAccount, PutRow, EndAdds,
              mailcowVars
<1>7. CASE StartRemove(w) \/ DeleteAccount(w) \/ ForgetRow(w) \/ Finish(w)
  BY <1>7 DEF StartRemove, DeleteAccount, ForgetRow, Finish, mailcowVars
<1> QED
  BY <1>1, <1>2, <1>3, <1>4, <1>5, <1>6, <1>7 DEF Work, Addition, Removal

(* Neither a worker's step nor an event touches the job of another worker. *)
LEMMA OthersJobs ==
    ASSUME job \in [Workers -> Job], NEW w \in Workers,
           Receive(w) \/ Work(w) \/ Crash(w), NEW v \in Workers, v # w
    PROVE  job'[v] = job[v]
<1>1. ASSUME NEW j, Become(w, j) PROVE job'[v] = job[v]
  BY <1>1 DEF Become
<1>2. \E j : Become(w, j)
  <2>1. CASE Receive(w) \/ Crash(w) \/ Acquire(w) \/ ListMailboxes(w) \/ ReadRows(w) \/ Gate(w)
    BY <2>1 DEF Receive, Crash, Acquire, ListMailboxes, ReadRows, Gate, End
  <2>2. CASE Adoption(w)
    BY <2>2 DEF Adoption, AdoptList, AdoptScan, AdoptFind, AdoptPut, AdoptDone, End
  <2>3. CASE Addition(w)
    BY <2>3 DEF Addition, StartAdd, PostAppPasswd, FindAppPasswd, CreateAccount,
                LookupAccount, RollBack, PutRow, EndAdds
  <2>4. CASE Removal(w)
    BY <2>4 DEF Removal, StartRemove, DeleteAccount, DeleteAppPasswd, ForgetRow,
                Finish, End
  <2> QED
    BY <2>1, <2>2, <2>3, <2>4 DEF Work
<1> QED
  BY <1>1, <1>2

(* No request deletes an app-password of another user, of the tb-setup life   *)
(* cycle or of a person: an entry that disappears in a step of a request      *)
(* carries the marker of the user whom the request is for.                    *)
THEOREM ReconcileDeletesOnlyOwn == Spec => DeletesOnlyOwn
<1>1. ASSUME IInv, [Next]_vars, NEW p \in pwds \ pwds', NEW v \in Workers,
             job'[v] # job[v]
      PROVE  p.name = Marker(job[v].user, p.mailbox)
  <2>1. CASE \E w \in Workers : Receive(w) \/ Work(w) \/ Crash(w)
    <3>1. PICK w \in Workers : Receive(w) \/ Work(w) \/ Crash(w)
      BY <2>1
    <3>2. v = w
      BY <1>1, <3>1, OthersJobs DEF IInv, TypeOK
    <3>3. Revokes(w)
      BY <1>1, <3>1, WorkDeletes
    <3>4. p.id = job[w].pwd
      BY <1>1, <3>3 DEF Revokes, Revoke
    <3>5. Claim(job[w].pwd, job[w].user, job[w].target)
      BY <1>1, <3>3 DEF Revokes, IInv, JobSound, PwdLabels
    <3>6. p.mailbox = job[w].target /\ p.name = Marker(job[w].user, job[w].target)
      BY <1>1, <3>4, <3>5 DEF Claim, MintedFor
    <3> QED
      BY <3>2, <3>6
  <2>2. CASE Surroundings
    BY <1>1, <2>2 DEF Surroundings, Event, MailboxCreated, MailboxDropped, ForeignPassword,
                      PasswordDeletedByHand, AccountByHand, StateLost
  <2>3. CASE UNCHANGED vars
    BY <1>1, <2>3 DEF vars, mailcowVars
  <2> QED
    BY <1>1, <2>1, <2>2, <2>3 DEF Next, Rest
<1>2. IInv /\ [Next]_vars =>
        [\A p \in pwds \ pwds', w \in Workers :
            job'[w] # job[w] => p.name = Marker(job[w].user, p.mailbox)]_vars
  BY <1>1
<1> QED
  BY <1>2, Inductive, PTL DEF Spec, DeletesOnlyOwn

---------------------------------------------------------------------------
(* What each step makes of the request it is a step of: j before, k after.   *)
(* The theorems below reason from these facts, and not from the actions.     *)
Own(j, k) == k.user = j.user /\ k.dry = j.dry
Kept(j, k) == Own(j, k) /\ k.want = j.want /\ k.skipped = j.skipped
AsPlanned(j, k) == /\ Kept(j, k) /\ k.toAdd = j.toAdd /\ k.toRemove = j.toRemove
                   /\ k.errors = j.errors
SameEntry(j, k) == AsPlanned(j, k) /\ k.target = j.target /\ k.secret = j.secret

PlansFrom(k, current) ==
    /\ k.pc = "gate"
    /\ k.toAdd = k.want \ current
    /\ k.toRemove = current \ k.want

(* The round of the loop is over, without or with an error *)
RoundOver(j, k) ==
    /\ Kept(j, k) /\ k.toAdd = j.toAdd /\ k.toRemove = j.toRemove
    /\ k.pc = (IF j.pc = "forget" THEN "remove" ELSE "add")
RoundFailed(j, k) == RoundOver(j, k) /\ k.errors = TRUE
RoundDone(j, k) == RoundOver(j, k) /\ k.errors = j.errors

LEMMA Becomes ==
    ASSUME IInv, NEW w \in Workers, NEW j, Become(w, j)
    PROVE  job'[w] = j
BY DEF IInv, TypeOK, Become

StoresKept == UNCHANGED <<mailcowVars, nextcloudVars, stateVars>>

LEMMA StartShape ==
    ASSUME IInv, NEW w \in Workers, NEW j, NEW k, j = job[w], k = job'[w]
    PROVE  /\ Receive(w) => j.pc = "idle" /\ k.pc = "lock" /\ StoresKept
           /\ Acquire(w) => j.pc = "lock" /\ k.pc = "list" /\ Kept(j, k) /\ StoresKept
           /\ ListMailboxes(w) => /\ j.pc = "list" /\ StoresKept
                                  /\ \/ /\ k.pc = "rows" /\ Own(j, k)
                                        /\ k.want = j.want \intersect mailboxes
                                     \/ "call" \in Faults /\ k = IdleJob
           /\ ReadRows(w) => /\ j.pc = "rows" /\ Own(j, k) /\ StoresKept
                             /\ k.want = j.want
                             /\ \/ k.pc = "adoptList" /\ RowsOf(j.user) = {}
                                \/ PlansFrom(k, RowsOf(j.user)) /\ RowsOf(j.user) # {}
           /\ Gate(w) => /\ j.pc = "gate" /\ k.pc = "add" /\ Own(j, k) /\ StoresKept
                         /\ k.want = j.want /\ k.toRemove = j.toRemove
                         /\ \/ k.toAdd = j.toAdd /\ k.skipped = j.skipped
                            \/ k.toAdd = {} /\ k.skipped = TRUE
                         /\ k.errors = j.errors
           /\ Crash(w) => j.pc # "idle" /\ k = IdleJob /\ StoresKept
<1>1. j \in Job
  BY DEF IInv, TypeOK
<1>2. ASSUME Receive(w)
      PROVE  j.pc = "idle" /\ k.pc = "lock" /\ StoresKept
  <2>1. PICK u, want, dry : Become(w, [IdleJob EXCEPT !.pc = "lock", !.user = u,
                                                      !.want = want, !.dry = dry])
    BY <1>2 DEF Receive
  <2>2. k = [IdleJob EXCEPT !.pc = "lock", !.user = u, !.want = want, !.dry = dry]
    BY <2>1, Becomes
  <2> QED
    BY <1>2, <2>2 DEF Receive, At, StoresKept, IdleJob
<1>3. ASSUME Acquire(w)
      PROVE  j.pc = "lock" /\ k.pc = "list" /\ Kept(j, k) /\ StoresKept
  <2>1. k = [j EXCEPT !.pc = "list"]
    BY <1>3, Becomes DEF Acquire
  <2> QED
    BY <1>1, <1>3, <2>1 DEF Acquire, At, Job, Kept, Own, StoresKept
<1>4. ASSUME ListMailboxes(w)
      PROVE  /\ j.pc = "list" /\ StoresKept
             /\ \/ /\ k.pc = "rows" /\ Own(j, k)
                   /\ k.want = j.want \intersect mailboxes
                \/ "call" \in Faults /\ k = IdleJob
  <2>1. \/ k = [j EXCEPT !.pc = "rows", !.want = @ \intersect mailboxes]
        \/ "call" \in Faults /\ k = IdleJob
    BY <1>4, Becomes DEF ListMailboxes, End
  <2> QED
    BY <1>1, <1>4, <2>1 DEF ListMailboxes, At, Job, Own, StoresKept
<1>5. ASSUME ReadRows(w)
      PROVE  /\ j.pc = "rows" /\ Own(j, k) /\ StoresKept
             /\ k.want = j.want
             /\ \/ k.pc = "adoptList" /\ RowsOf(j.user) = {}
                \/ PlansFrom(k, RowsOf(j.user)) /\ RowsOf(j.user) # {}
  <2>1. \/ k = [j EXCEPT !.pc = "adoptList"] /\ RowsOf(j.user) = {}
        \/ k = Planned(j, RowsOf(j.user)) /\ RowsOf(j.user) # {}
    BY <1>5, Becomes DEF ReadRows
  <2>2. CASE k = Planned(j, RowsOf(j.user)) /\ RowsOf(j.user) # {}
    BY <1>1, <1>5, <2>2 DEF ReadRows, At, Job, Own, StoresKept, Planned, Back, PlansFrom
  <2>3. CASE k = [j EXCEPT !.pc = "adoptList"] /\ RowsOf(j.user) = {}
    BY <1>1, <1>5, <2>3 DEF ReadRows, At, Job, Own, StoresKept
  <2> QED
    BY <2>1, <2>2, <2>3
<1>6. ASSUME Gate(w)
      PROVE  /\ j.pc = "gate" /\ k.pc = "add" /\ Own(j, k) /\ StoresKept
             /\ k.want = j.want /\ k.toRemove = j.toRemove
             /\ \/ k.toAdd = j.toAdd /\ k.skipped = j.skipped
                \/ k.toAdd = {} /\ k.skipped = TRUE
             /\ k.errors = j.errors
  <2>1. \/ k = [j EXCEPT !.pc = "add"]
        \/ k = [j EXCEPT !.pc = "add", !.toAdd = {}, !.skipped = TRUE]
    BY <1>6, Becomes DEF Gate
  <2> QED
    BY <1>1, <1>6, <2>1 DEF Gate, At, Job, Own, StoresKept
<1>7. ASSUME Crash(w)
      PROVE  j.pc # "idle" /\ k = IdleJob /\ StoresKept
  BY <1>7, Becomes DEF Crash, End, At, StoresKept
<1> QED
  BY <1>2, <1>3, <1>4, <1>5, <1>6, <1>7

(* The next mailbox of the scan *)
Scans(j, k) ==
    \E t \in j.scan :
       /\ k.scan = j.scan \ {t}
       /\ \/ /\ k.pc = "adopt"
             /\ Adoptable(j.user, t) = {} \/ "call" \in Faults
          \/ /\ k.pc = "adoptFind" /\ k.target = t
             /\ k.ids = Adoptable(j.user, t) /\ Adoptable(j.user, t) # {}

LEMMA AdoptionShape ==
    ASSUME IInv, NEW w \in Workers, NEW j, NEW k, j = job[w], k = job'[w]
    PROVE  /\ AdoptList(w) => /\ j.pc = "adoptList" /\ StoresKept
                              /\ \/ k.pc = "adopt" /\ Own(j, k) /\ k.scan = mailboxes
                                                   /\ k.want = j.want
                                 \/ "call" \in Faults /\ k = IdleJob
           /\ AdoptScan(w) => /\ j.pc = "adopt" /\ Own(j, k) /\ StoresKept
                              /\ k.want = j.want /\ Scans(j, k)
           /\ AdoptFind(w) => /\ j.pc = "adoptFind" /\ k.pc = "adoptPut"
                              /\ Own(j, k) /\ StoresKept /\ k.want = j.want
                              /\ k.target = j.target /\ k.scan = j.scan
                              /\ k.pwd \in j.ids /\ k.ids = j.ids \ {k.pwd}
                              /\ \/ k.acc \in Lookups(j.user, j.target)
                                 \/ "call" \in Faults
           /\ AdoptPut(w) => /\ j.pc = "adoptPut"
                             /\ UNCHANGED <<mailcowVars, nextcloudVars>>
                             /\ \/ /\ RecordAdopted(j)
                                   /\ Own(j, k) /\ k.want = j.want /\ k.scan = j.scan
                                   /\ \/ j.ids = {} /\ k.pc = "adopt"
                                      \/ /\ k.pc = "adoptFind" /\ k.target = j.target
                                         /\ k.ids = j.ids /\ j.ids # {}
                                \/ "db" \in Faults /\ k = IdleJob /\ UNCHANGED stateVars
           /\ AdoptDone(w) => /\ j.pc = "adopt" /\ j.scan = {} /\ Own(j, k) /\ StoresKept
                              /\ k.want = j.want /\ PlansFrom(k, CurrentTargets(j))
<1>1. j \in Job
  BY DEF IInv, TypeOK
<1>2. ASSUME AdoptList(w)
      PROVE  /\ j.pc = "adoptList" /\ StoresKept
             /\ \/ k.pc = "adopt" /\ Own(j, k) /\ k.scan = mailboxes /\ k.want = j.want
                \/ "call" \in Faults /\ k = IdleJob
  <2>1. \/ k = [j EXCEPT !.pc = "adopt", !.scan = mailboxes]
        \/ "call" \in Faults /\ k = IdleJob
    BY <1>2, Becomes DEF AdoptList, End, Scanned
  <2> QED
    BY <1>1, <1>2, <2>1 DEF AdoptList, At, Job, Own, StoresKept
<1>3. ASSUME AdoptScan(w)
      PROVE  /\ j.pc = "adopt" /\ Own(j, k) /\ StoresKept /\ k.want = j.want
             /\ Scans(j, k)
  <2>1. PICK t \in j.scan :
          LET next == [j EXCEPT !.scan = @ \ {t}] IN
          \/ Become(w, IF Adoptable(j.user, t) = {} THEN next
                       ELSE [next EXCEPT !.pc = "adoptFind", !.target = t,
                                         !.ids = Adoptable(j.user, t)])
          \/ "call" \in Faults /\ Become(w, next)
    BY <1>3 DEF AdoptScan
  <2>2. PICK ids : ids = Adoptable(j.user, t)
    OBVIOUS
  <2>3. \/ /\ k = [j EXCEPT !.scan = @ \ {t}]
           /\ ids = {} \/ "call" \in Faults
        \/ /\ k = [j EXCEPT !.scan = @ \ {t}, !.pc = "adoptFind", !.target = t, !.ids = ids]
           /\ ids # {}
    BY <2>1, <2>2, Becomes
  <2>4. j.pc = "adopt" /\ StoresKept
    BY <1>3 DEF AdoptScan, At, StoresKept
  <2>5. Own(j, k) /\ k.want = j.want
    BY <1>1, <2>3 DEF Job, Own
  <2>6. /\ k.scan = j.scan \ {t}
        /\ \/ k.pc = "adopt" /\ (ids = {} \/ "call" \in Faults)
           \/ k.pc = "adoptFind" /\ k.target = t /\ k.ids = ids /\ ids # {}
    BY <1>1, <2>3, <2>4 DEF Job
  <2>7. Scans(j, k)
    BY <2>2, <2>6 DEF Scans
  <2> QED
    BY <2>4, <2>5, <2>7
<1>4. ASSUME AdoptFind(w)
      PROVE  /\ j.pc = "adoptFind" /\ k.pc = "adoptPut"
             /\ Own(j, k) /\ StoresKept /\ k.want = j.want
             /\ k.target = j.target /\ k.scan = j.scan
             /\ k.pwd \in j.ids /\ k.ids = j.ids \ {k.pwd}
             /\ k.acc \in Lookups(j.user, j.target) \/ "call" \in Faults
  <2>1. PICK id \in j.ids,
             acc \in Lookups(j.user, j.target) \union
                       (IF "call" \in Faults THEN {None} ELSE {}) :
          Become(w, [j EXCEPT !.pc = "adoptPut", !.ids = @ \ {id}, !.pwd = id, !.acc = acc])
    BY <1>4 DEF AdoptFind
  <2>2. k = [j EXCEPT !.pc = "adoptPut", !.ids = @ \ {id}, !.pwd = id, !.acc = acc]
    BY <2>1, Becomes
  <2>3. /\ k.pc = "adoptPut" /\ Own(j, k) /\ k.want = j.want /\ k.target = j.target
        /\ k.scan = j.scan /\ k.ids = j.ids \ {id} /\ k.pwd = id /\ k.acc = acc
    BY <1>1, <2>2 DEF Job, Own
  <2> QED
    BY <1>4, <2>1, <2>3 DEF AdoptFind, At, StoresKept
<1>5. ASSUME AdoptPut(w)
      PROVE  /\ j.pc = "adoptPut"
             /\ UNCHANGED <<mailcowVars, nextcloudVars>>
             /\ \/ /\ RecordAdopted(j)
                   /\ Own(j, k) /\ k.want = j.want /\ k.scan = j.scan
                   /\ \/ j.ids = {} /\ k.pc = "adopt"
                      \/ /\ k.pc = "adoptFind" /\ k.target = j.target
                         /\ k.ids = j.ids /\ j.ids # {}
                \/ "db" \in Faults /\ k = IdleJob /\ UNCHANGED stateVars
  <2>1. \/ RecordAdopted(j) /\ k = Adopted(j)
        \/ "db" \in Faults /\ k = IdleJob /\ UNCHANGED stateVars
    BY <1>5, Becomes DEF AdoptPut, End
  <2>2. ASSUME k = Adopted(j)
        PROVE  /\ Own(j, k) /\ k.want = j.want /\ k.scan = j.scan
               /\ \/ j.ids = {} /\ k.pc = "adopt"
                  \/ /\ k.pc = "adoptFind" /\ k.target = j.target
                         /\ k.ids = j.ids /\ j.ids # {}
    BY <1>1, <2>2 DEF Adopted, Back, Job, Own
  <2> QED
    BY <1>5, <2>1, <2>2 DEF AdoptPut, At
<1>6. ASSUME AdoptDone(w)
      PROVE  /\ j.pc = "adopt" /\ j.scan = {} /\ Own(j, k) /\ StoresKept
             /\ k.want = j.want /\ PlansFrom(k, CurrentTargets(j))
  <2>1. PICK current : current = CurrentTargets(j)
    OBVIOUS
  <2>2. k = Planned(j, current)
    BY <1>6, <2>1, Becomes DEF AdoptDone
  <2>3. Own(j, k) /\ k.want = j.want /\ PlansFrom(k, current)
    BY <1>1, <2>2 DEF Planned, Back, Job, Own, PlansFrom
  <2> QED
    BY <1>6, <2>1, <2>3 DEF AdoptDone, At, StoresKept
<1> QED
  BY <1>2, <1>3, <1>4, <1>5, <1>6

(* The next round of the add loop: a dry run does nothing for its target *)
TakesTarget(j, k) ==
    \E t \in j.toAdd :
       /\ k.toAdd = j.toAdd \ {t}
       /\ \/ k.pc = "add" /\ j.dry = TRUE
          \/ k.pc = "post" /\ k.target = t /\ j.dry = FALSE

LEMMA AdditionShape ==
    ASSUME IInv, NEW w \in Workers, NEW j, NEW k, j = job[w], k = job'[w]
    PROVE  /\ StartAdd(w) => /\ j.pc = "add" /\ Kept(j, k) /\ StoresKept
                             /\ k.toRemove = j.toRemove /\ k.errors = j.errors
                             /\ TakesTarget(j, k)
           /\ PostAppPasswd(w) =>
                 /\ j.pc = "post" /\ UNCHANGED <<nextcloudVars, stateVars>>
                 /\ \/ /\ Issue(j.target, Marker(j.user, j.target))
                       /\ k.pc = "find" /\ AsPlanned(j, k) /\ k.target = j.target
                       /\ k.secret = nextPwd
                    \/ /\ "lost" \in Faults
                       /\ Issue(j.target, Marker(j.user, j.target))
                       /\ RoundFailed(j, k)
                    \/ /\ "call" \in Faults \/ j.target \notin mailboxes
                       /\ UNCHANGED mailcowVars /\ RoundFailed(j, k)
           /\ FindAppPasswd(w) =>
                 /\ j.pc = "find" /\ StoresKept
                 /\ \/ /\ k.pc = "create" /\ SameEntry(j, k)
                       /\ k.pwd \in FoundByName(j.target, Marker(j.user, j.target))
                    \/ /\ RoundFailed(j, k)
                       /\ \/ "call" \in Faults
                          \/ FoundByName(j.target, Marker(j.user, j.target)) = {}
           /\ CreateAccount(w) =>
                 /\ j.pc = "create" /\ UNCHANGED <<mailcowVars, stateVars>>
                 /\ SameEntry(j, k) /\ k.pwd = j.pwd
                 /\ \/ k.pc = "lookup" /\ OpenAccount(j.user, j.target, j.secret)
                    \/ k.pc = "rollback" /\ {"call", "lost"} \intersect Faults # {}
           /\ LookupAccount(w) =>
                 /\ j.pc = "lookup" /\ StoresKept
                 /\ SameEntry(j, k) /\ k.pwd = j.pwd
                 /\ \/ /\ k.pc = "put"
                       /\ k.acc \in Lookups(j.user, j.target) \/ "call" \in Faults
                    \/ k.pc = "rollback" /\ "call" \in Faults
           /\ RollBack(w) =>
                 /\ j.pc = "rollback" /\ RoundFailed(j, k)
                 /\ UNCHANGED <<nextcloudVars, stateVars>>
                 /\ Revoke(j.pwd) \/ UNCHANGED mailcowVars
           /\ PutRow(w) =>
                 /\ j.pc = "put" /\ UNCHANGED <<mailcowVars, nextcloudVars>>
                 /\ \/ Upsert(j.user, j.target, j.pwd, j.acc) /\ RoundDone(j, k)
                    \/ "db" \in Faults /\ RoundFailed(j, k) /\ UNCHANGED stateVars
           /\ EndAdds(w) => /\ j.pc = "add" /\ j.toAdd = {} /\ StoresKept
                            /\ AsPlanned(j, k) /\ k.pc = "remove"
<1>1. j \in Job
  BY DEF IInv, TypeOK
<1>2. ASSUME NEW g, g = GivenUp(j, "add"), j.pc # "forget"
      PROVE  RoundFailed(j, g)
  BY <1>1, <1>2 DEF GivenUp, Back, Job, RoundFailed, RoundOver, Kept, Own
<1>3. ASSUME StartAdd(w)
      PROVE  /\ j.pc = "add" /\ Kept(j, k) /\ StoresKept
             /\ k.toRemove = j.toRemove /\ k.errors = j.errors
             /\ TakesTarget(j, k)
  <2>1. PICK t \in j.toAdd :
          LET next == [j EXCEPT !.toAdd = @ \ {t}] IN
          Become(w, IF j.dry THEN next ELSE [next EXCEPT !.pc = "post", !.target = t])
    BY <1>3 DEF StartAdd
  <2>2. \/ k = [j EXCEPT !.toAdd = @ \ {t}] /\ j.dry = TRUE
        \/ k = [j EXCEPT !.toAdd = @ \ {t}, !.pc = "post", !.target = t] /\ j.dry = FALSE
    <3>1. j.dry \in BOOLEAN
      BY <1>1 DEF Job
    <3>2. CASE j.dry
      BY <2>1, <3>1, <3>2, Becomes
    <3>3. CASE ~j.dry
      BY <2>1, <3>1, <3>3, Becomes
    <3> QED
      BY <3>2, <3>3
  <2>3. j.pc = "add" /\ StoresKept
    BY <1>3 DEF StartAdd, At, StoresKept
  <2>4. Kept(j, k) /\ k.toRemove = j.toRemove /\ k.errors = j.errors
    BY <1>1, <2>2 DEF Job, Kept, Own
  <2>5. /\ k.toAdd = j.toAdd \ {t}
        /\ \/ k.pc = "add" /\ j.dry = TRUE
           \/ k.pc = "post" /\ k.target = t /\ j.dry = FALSE
    BY <1>1, <2>2, <2>3 DEF Job
  <2>6. TakesTarget(j, k)
    BY <2>1, <2>5 DEF TakesTarget
  <2> QED
    BY <2>3, <2>4, <2>6
<1>4. ASSUME PostAppPasswd(w)
      PROVE  /\ j.pc = "post" /\ UNCHANGED <<nextcloudVars, stateVars>>
             /\ \/ /\ Issue(j.target, Marker(j.user, j.target))
                   /\ k.pc = "find" /\ AsPlanned(j, k) /\ k.target = j.target
                   /\ k.secret = nextPwd
                \/ /\ "lost" \in Faults
                   /\ Issue(j.target, Marker(j.user, j.target))
                   /\ RoundFailed(j, k)
                \/ /\ "call" \in Faults \/ j.target \notin mailboxes
                   /\ UNCHANGED mailcowVars /\ RoundFailed(j, k)
  <2>1. j.pc = "post" /\ UNCHANGED <<nextcloudVars, stateVars>>
    BY <1>4 DEF PostAppPasswd, At, counters
  <2>2. ASSUME k = [j EXCEPT !.pc = "find", !.secret = nextPwd]
        PROVE  k.pc = "find" /\ AsPlanned(j, k) /\ k.target = j.target /\ k.secret = nextPwd
    BY <1>1, <2>2 DEF Job, AsPlanned, Kept, Own
  <2>3. \/ /\ Issue(j.target, Marker(j.user, j.target))
           /\ k = [j EXCEPT !.pc = "find", !.secret = nextPwd]
        \/ /\ "lost" \in Faults
           /\ Issue(j.target, Marker(j.user, j.target))
           /\ k = GivenUp(j, "add")
        \/ /\ "call" \in Faults \/ j.target \notin mailboxes
           /\ UNCHANGED mailcowVars /\ k = GivenUp(j, "add")
    BY <1>4, Becomes DEF PostAppPasswd
  <2> QED
    BY <1>2, <2>1, <2>2, <2>3
<1>5. ASSUME FindAppPasswd(w)
      PROVE  /\ j.pc = "find" /\ StoresKept
             /\ \/ /\ k.pc = "create" /\ SameEntry(j, k)
                   /\ k.pwd \in FoundByName(j.target, Marker(j.user, j.target))
                \/ /\ RoundFailed(j, k)
                   /\ \/ "call" \in Faults
                      \/ FoundByName(j.target, Marker(j.user, j.target)) = {}
  <2>1. j.pc = "find" /\ StoresKept
    BY <1>5 DEF FindAppPasswd, At, StoresKept
  <2>2. \/ \E id \in FoundByName(j.target, Marker(j.user, j.target)) :
              k = [j EXCEPT !.pc = "create", !.pwd = id]
        \/ /\ \/ "call" \in Faults
              \/ FoundByName(j.target, Marker(j.user, j.target)) = {}
           /\ k = GivenUp(j, "add")
    BY <1>5, Becomes DEF FindAppPasswd
  <2>3. ASSUME NEW id, k = [j EXCEPT !.pc = "create", !.pwd = id]
        PROVE  k.pc = "create" /\ SameEntry(j, k) /\ k.pwd = id
    BY <1>1, <2>3 DEF Job, SameEntry, AsPlanned, Kept, Own
  <2> QED
    BY <1>2, <2>1, <2>2, <2>3
<1>6. ASSUME CreateAccount(w)
      PROVE  /\ j.pc = "create" /\ UNCHANGED <<mailcowVars, stateVars>>
             /\ SameEntry(j, k) /\ k.pwd = j.pwd
             /\ \/ k.pc = "lookup" /\ OpenAccount(j.user, j.target, j.secret)
                \/ k.pc = "rollback" /\ {"call", "lost"} \intersect Faults # {}
  <2>1. \/ /\ k = [j EXCEPT !.pc = "lookup"]
           /\ OpenAccount(j.user, j.target, j.secret)
        \/ k = [j EXCEPT !.pc = "rollback"] /\ {"call", "lost"} \intersect Faults # {}
    BY <1>6, Becomes DEF CreateAccount
  <2>2. j.pc = "create" /\ UNCHANGED <<mailcowVars, stateVars>>
    BY <1>6 DEF CreateAccount, At
  <2>3. ASSUME NEW label, k = [j EXCEPT !.pc = label]
        PROVE  k.pc = label /\ SameEntry(j, k) /\ k.pwd = j.pwd
    BY <1>1, <2>3 DEF Job, SameEntry, AsPlanned, Kept, Own
  <2> QED
    BY <2>1, <2>2, <2>3
<1>7. ASSUME LookupAccount(w)
      PROVE  /\ j.pc = "lookup" /\ StoresKept
             /\ SameEntry(j, k) /\ k.pwd = j.pwd
             /\ \/ /\ k.pc = "put"
                   /\ k.acc \in Lookups(j.user, j.target) \/ "call" \in Faults
                \/ k.pc = "rollback" /\ "call" \in Faults
  <2>1. \/ \E acc \in Lookups(j.user, j.target) \union
                        (IF "call" \in Faults THEN {None} ELSE {}) :
              k = [j EXCEPT !.pc = "put", !.acc = acc]
        \/ "call" \in Faults /\ k = [j EXCEPT !.pc = "rollback"]
    BY <1>7, Becomes DEF LookupAccount
  <2>2. j.pc = "lookup" /\ StoresKept
    BY <1>7 DEF LookupAccount, At, StoresKept
  <2>3. ASSUME NEW acc, k = [j EXCEPT !.pc = "put", !.acc = acc]
        PROVE  SameEntry(j, k) /\ k.pwd = j.pwd /\ k.pc = "put" /\ k.acc = acc
    BY <1>1, <2>3 DEF Job, SameEntry, AsPlanned, Kept, Own
  <2>4. ASSUME k = [j EXCEPT !.pc = "rollback"]
        PROVE  SameEntry(j, k) /\ k.pwd = j.pwd /\ k.pc = "rollback"
    BY <1>1, <2>4 DEF Job, SameEntry, AsPlanned, Kept, Own
  <2>5. ASSUME NEW acc \in Lookups(j.user, j.target) \union
                             (IF "call" \in Faults THEN {None} ELSE {})
        PROVE  acc \in Lookups(j.user, j.target) \/ "call" \in Faults
    OBVIOUS
  <2>6. CASE "call" \in Faults /\ k = [j EXCEPT !.pc = "rollback"]
    BY <2>2, <2>4, <2>6
  <2>7. CASE \E acc \in Lookups(j.user, j.target) \union
                        (IF "call" \in Faults THEN {None} ELSE {}) :
               k = [j EXCEPT !.pc = "put", !.acc = acc]
    <3>1. PICK acc \in Lookups(j.user, j.target) \union
                        (IF "call" \in Faults THEN {None} ELSE {}) :
               k = [j EXCEPT !.pc = "put", !.acc = acc]
      BY <2>7
    <3> QED
      BY <2>2, <2>3, <2>5, <3>1
  <2> QED
    BY <2>1, <2>6, <2>7
<1>8. ASSUME RollBack(w)
      PROVE  /\ j.pc = "rollback" /\ RoundFailed(j, k)
             /\ UNCHANGED <<nextcloudVars, stateVars>>
             /\ Revoke(j.pwd) \/ UNCHANGED mailcowVars
  <2>1. k = GivenUp(j, "add")
    BY <1>8, Becomes DEF RollBack
  <2> QED
    BY <1>2, <1>8, <2>1 DEF RollBack, At
<1>9. ASSUME PutRow(w)
      PROVE  /\ j.pc = "put" /\ UNCHANGED <<mailcowVars, nextcloudVars>>
             /\ \/ Upsert(j.user, j.target, j.pwd, j.acc) /\ RoundDone(j, k)
                \/ "db" \in Faults /\ RoundFailed(j, k) /\ UNCHANGED stateVars
  <2>1. \/ Upsert(j.user, j.target, j.pwd, j.acc) /\ k = Back(j, "add")
        \/ "db" \in Faults /\ k = GivenUp(j, "add") /\ UNCHANGED stateVars
    BY <1>9, Becomes DEF PutRow
  <2>2. j.pc = "put" /\ UNCHANGED <<mailcowVars, nextcloudVars>>
    BY <1>9 DEF PutRow, At
  <2>3. ASSUME k = Back(j, "add")
        PROVE  RoundDone(j, k)
    BY <1>1, <2>2, <2>3 DEF Back, Job, RoundDone, RoundOver, Kept, Own
  <2> QED
    BY <1>2, <2>1, <2>2, <2>3
<1>10. ASSUME EndAdds(w)
       PROVE  /\ j.pc = "add" /\ j.toAdd = {} /\ StoresKept
              /\ AsPlanned(j, k) /\ k.pc = "remove"
  <2>1. k = [j EXCEPT !.pc = "remove"]
    BY <1>10, Becomes DEF EndAdds
  <2> QED
    BY <1>1, <1>10, <2>1 DEF EndAdds, At, Job, AsPlanned, Kept, Own, StoresKept
<1> QED
  BY <1>3, <1>4, <1>5, <1>6, <1>7, <1>8, <1>9, <1>10

(* The next round of the remove loop: nothing to do for the row, or its ids *)
TakesRow(j, k) ==
    \E t \in j.toRemove :
       /\ k.toRemove = j.toRemove \ {t}
       /\ \/ /\ k.pc = "remove"
             /\ j.dry = TRUE \/ rows[<<j.user, t>>] = None
          \/ /\ k.pc = "close" /\ k.target = t /\ j.dry = FALSE
             /\ rows[<<j.user, t>>] # None
             /\ k.pwd = rows[<<j.user, t>>].pwd
             /\ k.acc = rows[<<j.user, t>>].acc

LEMMA StartRemoveShape ==
    ASSUME IInv, NEW w \in Workers, NEW j, NEW k, j = job[w], k = job'[w], StartRemove(w)
    PROVE  /\ j.pc = "remove" /\ Kept(j, k) /\ StoresKept
           /\ k.toAdd = j.toAdd /\ k.errors = j.errors /\ TakesRow(j, k)
<1>0. j \in Job /\ j.dry \in BOOLEAN
  BY DEF IInv, TypeOK, Job
<1>1. PICK t \in j.toRemove :
        LET next == [j EXCEPT !.toRemove = @ \ {t}]
            row  == rows[<<j.user, t>>]
        IN Become(w, IF j.dry \/ row = None THEN next
                     ELSE [next EXCEPT !.pc = "close", !.target = t,
                                       !.pwd = row.pwd, !.acc = row.acc])
  BY DEF StartRemove
<1>2. PICK row : row = rows[<<j.user, t>>]
  OBVIOUS
<1>3. \/ k = [j EXCEPT !.toRemove = @ \ {t}] /\ (j.dry = TRUE \/ row = None)
      \/ /\ k = [j EXCEPT !.toRemove = @ \ {t}, !.pc = "close", !.target = t,
                          !.pwd = row.pwd, !.acc = row.acc]
         /\ j.dry = FALSE /\ row # None
  <2>1. CASE j.dry \/ row = None
    BY <1>0, <1>1, <1>2, <2>1, Becomes
  <2>2. CASE ~(j.dry \/ row = None)
    BY <1>0, <1>1, <1>2, <2>2, Becomes
  <2> QED
    BY <2>1, <2>2
<1>4. j.pc = "remove" /\ StoresKept
  BY DEF StartRemove, At, StoresKept
<1>5. Kept(j, k) /\ k.toAdd = j.toAdd /\ k.errors = j.errors
  BY <1>0, <1>3 DEF Job, Kept, Own
<1>6. /\ k.toRemove = j.toRemove \ {t}
      /\ \/ k.pc = "remove" /\ (j.dry = TRUE \/ row = None)
         \/ /\ k.pc = "close" /\ k.target = t /\ j.dry = FALSE /\ row # None
            /\ k.pwd = row.pwd /\ k.acc = row.acc
  BY <1>0, <1>3, <1>4 DEF Job
<1> QED
  BY <1>2, <1>4, <1>5, <1>6 DEF TakesRow

LEMMA RemovalShape ==
    ASSUME IInv, NEW w \in Workers, NEW j, NEW k, j = job[w], k = job'[w]
    PROVE  /\ StartRemove(w) =>
                 /\ j.pc = "remove" /\ Kept(j, k) /\ StoresKept
                 /\ k.toAdd = j.toAdd /\ k.errors = j.errors /\ TakesRow(j, k)
           /\ DeleteAccount(w) =>
                 /\ j.pc = "close" /\ k.pc = "revoke"
                 /\ UNCHANGED <<mailcowVars, stateVars>>
                 /\ SameEntry(j, k) /\ k.pwd = j.pwd /\ k.acc = j.acc
                 /\ \/ j.acc = None /\ UNCHANGED nextcloudVars
                    \/ j.acc # None /\ CloseAccount(j.acc)
                    \/ "call" \in Faults /\ UNCHANGED nextcloudVars
           /\ DeleteAppPasswd(w) =>
                 /\ j.pc = "revoke" /\ k.pc = "forget"
                 /\ UNCHANGED <<nextcloudVars, stateVars>>
                 /\ SameEntry(j, k) /\ k.pwd = j.pwd /\ k.acc = j.acc
                 /\ Revoke(j.pwd) \/ ("call" \in Faults /\ UNCHANGED mailcowVars)
           /\ ForgetRow(w) =>
                 /\ j.pc = "forget" /\ UNCHANGED <<mailcowVars, nextcloudVars>>
                 /\ \/ DeleteRow(j.user, j.target) /\ RoundDone(j, k)
                    \/ "db" \in Faults /\ RoundFailed(j, k) /\ UNCHANGED stateVars
           /\ Finish(w) =>
                 /\ j.pc = "remove" /\ j.toRemove = {} /\ k = IdleJob
                 /\ UNCHANGED <<mailcowVars, nextcloudVars>>
                 /\ \/ j.dry = TRUE /\ UNCHANGED stateVars
                    \/ j.dry = FALSE /\ TouchUser(j.user)
<1>1. j \in Job /\ j.dry \in BOOLEAN
  BY DEF IInv, TypeOK, Job
<1>2. ASSUME StartRemove(w)
      PROVE  /\ j.pc = "remove" /\ Kept(j, k) /\ StoresKept
             /\ k.toAdd = j.toAdd /\ k.errors = j.errors /\ TakesRow(j, k)
  BY <1>2, StartRemoveShape
<1>3. ASSUME DeleteAccount(w)
      PROVE  /\ j.pc = "close" /\ k.pc = "revoke"
             /\ UNCHANGED <<mailcowVars, stateVars>>
             /\ SameEntry(j, k) /\ k.pwd = j.pwd /\ k.acc = j.acc
             /\ \/ j.acc = None /\ UNCHANGED nextcloudVars
                \/ j.acc # None /\ CloseAccount(j.acc)
                \/ "call" \in Faults /\ UNCHANGED nextcloudVars
  <2>1. k = [j EXCEPT !.pc = "revoke"]
    BY <1>3, Becomes DEF DeleteAccount
  <2>2. k.pc = "revoke" /\ SameEntry(j, k) /\ k.pwd = j.pwd /\ k.acc = j.acc
    BY <1>1, <2>1 DEF Job, SameEntry, AsPlanned, Kept, Own
  <2> QED
    BY <1>3, <2>2 DEF DeleteAccount, At
<1>4. ASSUME DeleteAppPasswd(w)
      PROVE  /\ j.pc = "revoke" /\ k.pc = "forget"
             /\ UNCHANGED <<nextcloudVars, stateVars>>
             /\ SameEntry(j, k) /\ k.pwd = j.pwd /\ k.acc = j.acc
             /\ Revoke(j.pwd) \/ ("call" \in Faults /\ UNCHANGED mailcowVars)
  <2>1. k = [j EXCEPT !.pc = "forget"]
    BY <1>4, Becomes DEF DeleteAppPasswd
  <2>2. k.pc = "forget" /\ SameEntry(j, k) /\ k.pwd = j.pwd /\ k.acc = j.acc
    BY <1>1, <2>1 DEF Job, SameEntry, AsPlanned, Kept, Own
  <2> QED
    BY <1>4, <2>2 DEF DeleteAppPasswd, At
<1>5. ASSUME ForgetRow(w)
      PROVE  /\ j.pc = "forget" /\ UNCHANGED <<mailcowVars, nextcloudVars>>
             /\ \/ DeleteRow(j.user, j.target) /\ RoundDone(j, k)
                \/ "db" \in Faults /\ RoundFailed(j, k) /\ UNCHANGED stateVars
  <2>1. j.pc = "forget" /\ UNCHANGED <<mailcowVars, nextcloudVars>>
    BY <1>5 DEF ForgetRow, At
  <2>2. \/ DeleteRow(j.user, j.target) /\ k = Back(j, "remove")
        \/ "db" \in Faults /\ k = GivenUp(j, "remove") /\ UNCHANGED stateVars
    BY <1>5, Becomes DEF ForgetRow
  <2>3. ASSUME k = Back(j, "remove")
        PROVE  RoundDone(j, k)
    BY <1>1, <2>1, <2>3 DEF Back, Job, RoundDone, RoundOver, Kept, Own
  <2>4. ASSUME k = GivenUp(j, "remove")
        PROVE  RoundFailed(j, k)
    BY <1>1, <2>1, <2>4 DEF GivenUp, Back, Job, RoundFailed, RoundOver, Kept, Own
  <2> QED
    BY <2>1, <2>2, <2>3, <2>4
<1>6. ASSUME Finish(w)
      PROVE  /\ j.pc = "remove" /\ j.toRemove = {} /\ k = IdleJob
             /\ UNCHANGED <<mailcowVars, nextcloudVars>>
             /\ \/ j.dry = TRUE /\ UNCHANGED stateVars
                \/ j.dry = FALSE /\ TouchUser(j.user)
  <2>1. IF j.dry THEN UNCHANGED stateVars ELSE TouchUser(j.user)
    BY <1>6 DEF Finish
  <2>2. \/ j.dry = TRUE /\ UNCHANGED stateVars
        \/ j.dry = FALSE /\ TouchUser(j.user)
    BY <1>1, <2>1
  <2> QED
    BY <1>6, <2>2, Becomes DEF Finish, End, At
<1> QED
  BY <1>2, <1>3, <1>4, <1>5, <1>6

WorkerStep(w) == Receive(w) \/ Work(w) \/ Crash(w)

LEMMA WhoMoved ==
    ASSUME IInv, [Next]_vars, NEW w \in Workers, job'[w] # job[w]
    PROVE  WorkerStep(w)
<1>1. CASE \E v \in Workers : WorkerStep(v)
  BY <1>1, OthersJobs DEF WorkerStep, IInv, TypeOK
<1>2. CASE Surroundings
  BY <1>2 DEF Surroundings, Event, MailboxCreated, MailboxDropped, ForeignPassword,
              PasswordDeletedByHand, AccountByHand, StateLost
<1>3. CASE UNCHANGED vars
  BY <1>3 DEF vars
<1> QED
  BY <1>1, <1>2, <1>3 DEF Next, Rest, WorkerStep

(* A step that is not a worker's leaves the requests alone, and the tables too *)
(* unless the database is lost, which happens between requests.                *)
LEMMA NobodyMoved ==
    ASSUME [Next]_vars, \A w \in Workers : ~WorkerStep(w)
    PROVE  /\ UNCHANGED job
           /\ \/ UNCHANGED stateVars
              \/ LoseState /\ \A w \in Workers : job[w].pc = "idle"
<1>1. CASE Surroundings
  BY <1>1 DEF Surroundings, Event, MailboxCreated, MailboxDropped, ForeignPassword,
              PasswordDeletedByHand, AccountByHand, StateLost, At
<1>2. CASE UNCHANGED vars
  BY <1>2 DEF vars
<1> QED
  BY <1>1, <1>2 DEF Next, Rest, WorkerStep

---------------------------------------------------------------------------
(* Dry runs *)
WetLabels == {"post", "find", "create", "lookup", "rollback", "put",
              "close", "revoke", "forget"}

(* A dry run never gets to the steps that write. *)
StaysDry(j) == j.dry = TRUE => j.pc \notin WetLabels

DryInv == IInv /\ \A w \in Workers : StaysDry(job[w])

LEMMA DryStep ==
    ASSUME IInv, NEW w \in Workers, WorkerStep(w), StaysDry(job[w])
    PROVE  StaysDry(job'[w])
<1>0. PICK j, k : j = job[w] /\ k = job'[w]
  OBVIOUS
<1>1. IdleJob.pc = "idle"
  BY DEF IdleJob
<1>2. CASE \/ Receive(w) \/ Acquire(w) \/ ListMailboxes(w) \/ ReadRows(w) \/ Gate(w)
           \/ Crash(w)
  BY <1>0, <1>1, <1>2, StartShape DEF StaysDry, WetLabels, PlansFrom
<1>3. CASE Adoption(w)
  BY <1>0, <1>1, <1>3, AdoptionShape DEF Adoption, StaysDry, WetLabels, PlansFrom, Scans
<1>4. CASE Addition(w)
  <2>1. StaysDry(j)
    BY <1>0
  <2>2. CASE StartAdd(w) \/ EndAdds(w)
    BY <1>0, <2>2, AdditionShape DEF TakesTarget, StaysDry, WetLabels, AsPlanned, Kept, Own
  <2>3. CASE /\ ~StartAdd(w) /\ ~EndAdds(w)
    <3>1. j.pc \in WetLabels
      BY <1>0, <1>4, <2>3, AdditionShape DEF Addition, WetLabels
    <3>2. Own(j, k)
      BY <1>0, <1>4, <2>3, AdditionShape
         DEF Addition, SameEntry, AsPlanned, Kept, RoundFailed, RoundDone, RoundOver
    <3> QED
      BY <1>0, <2>1, <3>1, <3>2 DEF StaysDry, Own
  <2> QED
    BY <2>2, <2>3
<1>5. CASE Removal(w)
  <2>1. StaysDry(j)
    BY <1>0
  <2>2. CASE StartRemove(w)
    <3>1. Kept(j, k)
      BY <1>0, <2>2, RemovalShape
    <3>2. TakesRow(j, k)
      BY <1>0, <2>2, RemovalShape
    <3>3. k.pc = "remove" \/ (k.pc = "close" /\ j.dry = FALSE)
      BY <3>2 DEF TakesRow
    <3> QED
      BY <1>0, <3>1, <3>3 DEF StaysDry, WetLabels, Kept, Own
  <2>3. CASE Finish(w)
    <3>1. k = IdleJob
      BY <1>0, <2>3, Becomes DEF Finish, End
    <3> QED
      BY <1>0, <1>1, <3>1 DEF StaysDry, WetLabels
  <2>4. CASE ~StartRemove(w) /\ ~Finish(w)
    <3>1. j.pc \in WetLabels
      BY <1>0, <1>5, <2>4, RemovalShape DEF Removal, WetLabels
    <3>2. Own(j, k)
      BY <1>0, <1>5, <2>4, RemovalShape
         DEF Removal, SameEntry, AsPlanned, Kept, RoundFailed, RoundDone, RoundOver
    <3> QED
      BY <1>0, <2>1, <3>1, <3>2 DEF StaysDry, Own
  <2> QED
    BY <2>2, <2>3, <2>4
<1> QED
  BY <1>2, <1>3, <1>4, <1>5 DEF WorkerStep, Work

LEMMA DryKeeps ==
    ASSUME DryInv, [Next]_vars
    PROVE  DryInv'
<1>1. IInv /\ IInv'
  BY NextIInv DEF DryInv
<1>2. ASSUME NEW w \in Workers
      PROVE  StaysDry(job'[w])
  BY <1>1, <1>2, WhoMoved, DryStep DEF DryInv
<1> QED
  BY <1>1, <1>2 DEF DryInv, StaysDry

(* What a dry run does to the stores, at each of its steps *)
LEMMA DryEffects ==
    ASSUME IInv, NEW w \in Workers, WorkerStep(w), StaysDry(job[w]), job[w].dry = TRUE
    PROVE  StoresKept
<1>0. PICK j, k : j = job[w] /\ k = job'[w]
  OBVIOUS
<1>1. j.pc \notin WetLabels
  BY <1>0 DEF StaysDry
<1>2. CASE \/ Receive(w) \/ Acquire(w) \/ ListMailboxes(w) \/ ReadRows(w) \/ Gate(w)
           \/ Crash(w)
  BY <1>0, <1>2, StartShape
<1>3. CASE AdoptList(w) \/ AdoptScan(w) \/ AdoptFind(w) \/ AdoptDone(w)
  BY <1>0, <1>3, AdoptionShape
<1>4. CASE AdoptPut(w)
  <2>1. RecordAdopted(j) => UNCHANGED stateVars
    BY <1>0 DEF RecordAdopted
  <2> QED
    BY <1>0, <1>4, <2>1, AdoptionShape DEF StoresKept
<1>5. CASE Addition(w)
  BY <1>0, <1>1, <1>5, AdditionShape DEF Addition, WetLabels
<1>6. CASE Removal(w)
  BY <1>0, <1>1, <1>6, RemovalShape DEF Removal, WetLabels, StoresKept
<1> QED
  BY <1>2, <1>3, <1>4, <1>5, <1>6 DEF WorkerStep, Work, Adoption

(* A dry run computes the diff and touches nothing: no step of its request     *)
(* changes Mailcow, Nextcloud or the tables, not even of its adoption and not  *)
(* when it ends, whatever fails and whatever other requests do.                *)
THEOREM DryRunsChangeNothing == Spec => DryRunChangesNothing
<1>1. Init => DryInv
  BY InitIInv DEF Init, DryInv, IdleJob, StaysDry
<1>2. DryInv /\ [Next]_vars => DryInv'
  BY DryKeeps
<1>3. ASSUME DryInv, [Next]_vars, NEW w \in Workers, job[w].dry, job'[w] # job[w]
      PROVE  UNCHANGED <<mailcowVars, nextcloudVars, stateVars>>
  <2>1. IInv /\ StaysDry(job[w]) /\ WorkerStep(w)
    BY <1>3, WhoMoved DEF DryInv
  <2>2. job[w].dry = TRUE
    BY <1>3, <2>1 DEF IInv, TypeOK, Job
  <2> QED
    BY <2>1, <2>2, DryEffects DEF StoresKept
<1>4. DryInv /\ [Next]_vars =>
        [\A w \in Workers : job[w].dry /\ job'[w] # job[w] =>
            UNCHANGED <<mailcowVars, nextcloudVars, stateVars>>]_vars
  BY <1>3
<1> QED
  BY <1>1, <1>2, <1>4, PTL DEF Spec, DryRunChangesNothing

---------------------------------------------------------------------------
(* What the steps of the service do to the two tables *)
LEMMA RowUpserted ==
    ASSUME StateTypeOK, NEW u \in Users, NEW t \in Targets, NEW pwd \in Nat,
           NEW acc \in Nat \union {None}, Upsert(u, t, pwd, acc)
    PROVE  /\ RowsOf(u)' = RowsOf(u) \union {t}
           /\ \A v \in Users \ {u} : RowsOf(v)' = RowsOf(v)
           /\ rows'[<<u, t>>] # None /\ rows'[<<u, t>>].pwd = pwd
           /\ \A v \in Users, s \in Targets :
                 <<v, s>> # <<u, t>> => rows'[<<v, s>>] = rows[<<v, s>>]
           /\ seen' = seen
<1>1. PICK row : row = Merged(rows[<<u, t>>], pwd, acc)
  OBVIOUS
<1>2. rows \in [Users \X Targets -> Row \union {None}]
  BY DEF StateTypeOK
<1>3. row \in Row /\ row.pwd = pwd
  BY <1>1, <1>2 DEF Merged, Coalesce, Row
<1>4. rows' = [rows EXCEPT ![<<u, t>>] = row] /\ seen' = seen
  BY <1>1 DEF Upsert
<1>5. row # None
  BY <1>3, NoRowAssumption
<1>6. rows'[<<u, t>>] = row
  BY <1>2, <1>4
<1>7. ASSUME NEW v \in Users, NEW s \in Targets, <<v, s>> # <<u, t>>
      PROVE  rows'[<<v, s>>] = rows[<<v, s>>]
  BY <1>2, <1>4, <1>7
<1>8. RowsOf(u)' = RowsOf(u) \union {t}
  BY <1>5, <1>6, <1>7 DEF RowsOf
<1>9. \A v \in Users \ {u} : RowsOf(v)' = RowsOf(v)
  BY <1>7 DEF RowsOf
<1> QED
  BY <1>3, <1>4, <1>5, <1>6, <1>7, <1>8, <1>9

LEMMA RowDeleted ==
    ASSUME StateTypeOK, NEW u \in Users, NEW t \in Targets, DeleteRow(u, t)
    PROVE  /\ RowsOf(u)' = RowsOf(u) \ {t}
           /\ \A v \in Users \ {u} : RowsOf(v)' = RowsOf(v)
           /\ rows'[<<u, t>>] = None
           /\ \A v \in Users, s \in Targets :
                 <<v, s>> # <<u, t>> => rows'[<<v, s>>] = rows[<<v, s>>]
           /\ seen' = seen
<1>1. rows \in [Users \X Targets -> Row \union {None}]
  BY DEF StateTypeOK
<1>2. rows' = [rows EXCEPT ![<<u, t>>] = None] /\ seen' = seen
  BY DEF DeleteRow
<1>3. rows'[<<u, t>>] = None
  BY <1>1, <1>2
<1>4. ASSUME NEW v \in Users, NEW s \in Targets, <<v, s>> # <<u, t>>
      PROVE  rows'[<<v, s>>] = rows[<<v, s>>]
  BY <1>1, <1>2, <1>4
<1>5. RowsOf(u)' = RowsOf(u) \ {t}
  BY <1>3, <1>4 DEF RowsOf
<1>6. \A v \in Users \ {u} : RowsOf(v)' = RowsOf(v)
  BY <1>4 DEF RowsOf
<1> QED
  BY <1>2, <1>3, <1>4, <1>5, <1>6

(* The steps that write the tables, and what they write *)
Recorded(j) == Upsert(j.user, j.target, j.pwd, j.acc)
Forgotten(j) == DeleteRow(j.user, j.target)

LEMMA TableWrites ==
    ASSUME IInv, NEW w \in Workers, WorkerStep(w), StaysDry(job[w]),
           NEW j, j = job[w]
    PROVE  \/ UNCHANGED stateVars
           \/ AdoptPut(w) /\ j.dry = FALSE /\ Recorded(j) /\ job'[w] # IdleJob
           \/ PutRow(w) /\ j.dry = FALSE /\ Recorded(j)
           \/ ForgetRow(w) /\ j.dry = FALSE /\ Forgotten(j)
           \/ Finish(w) /\ j.dry = FALSE /\ TouchUser(j.user)
<1>0. PICK k : k = job'[w]
  OBVIOUS
<1>1. j.dry \in BOOLEAN
  BY DEF IInv, TypeOK, Job
<1>2. StaysDry(j)
  OBVIOUS
<1>3. CASE \/ Receive(w) \/ Acquire(w) \/ ListMailboxes(w) \/ ReadRows(w) \/ Gate(w)
           \/ Crash(w)
  BY <1>0, <1>3, StartShape DEF StoresKept
<1>4. CASE AdoptList(w) \/ AdoptScan(w) \/ AdoptFind(w) \/ AdoptDone(w)
  BY <1>0, <1>4, AdoptionShape DEF StoresKept
<1>5. CASE AdoptPut(w)
  <2>1. k.pc # IdleJob.pc \/ UNCHANGED stateVars
    BY <1>0, <1>5, AdoptionShape DEF IdleJob
  <2>2. RecordAdopted(j) \/ UNCHANGED stateVars
    BY <1>0, <1>5, AdoptionShape
  <2>3. \/ UNCHANGED stateVars
        \/ j.dry = FALSE /\ Recorded(j)
    BY <1>1, <2>2 DEF RecordAdopted, Recorded
  <2> QED
    BY <1>0, <1>5, <2>1, <2>3
<1>6. CASE PutRow(w)
  <2>1. j.pc = "put" /\ (Recorded(j) \/ UNCHANGED stateVars)
    BY <1>0, <1>6, AdditionShape DEF Recorded
  <2> QED
    BY <1>1, <1>2, <1>6, <2>1 DEF StaysDry, WetLabels
<1>7. CASE Addition(w) /\ ~PutRow(w)
  BY <1>0, <1>7, AdditionShape DEF Addition, StoresKept
<1>8. CASE ForgetRow(w)
  <2>1. j.pc = "forget" /\ (Forgotten(j) \/ UNCHANGED stateVars)
    BY <1>0, <1>8, RemovalShape DEF Forgotten
  <2> QED
    BY <1>1, <1>2, <1>8, <2>1 DEF StaysDry, WetLabels
<1>9. CASE Finish(w)
  <2>1. (j.dry = TRUE /\ UNCHANGED stateVars) \/ (j.dry = FALSE /\ TouchUser(j.user))
    BY <1>0, <1>9, RemovalShape
  <2> QED
    BY <1>9, <2>1
<1>10. CASE StartRemove(w) \/ DeleteAccount(w) \/ DeleteAppPasswd(w)
  BY <1>0, <1>10, RemovalShape DEF StoresKept
<1> QED
  BY <1>3, <1>4, <1>5, <1>6, <1>7, <1>8, <1>9, <1>10
     DEF WorkerStep, Work, Adoption, Removal

(* The arguments of a write are what Upsert and DeleteRow expect. *)
LEMMA WriteTyped ==
    ASSUME IInv, NEW w \in Workers, job[w].pc \in {"adoptPut", "put", "forget"},
           NEW j, j = job[w]
    PROVE  /\ j.user \in Users /\ j.target \in Targets
           /\ j.pwd \in Nat /\ j.acc \in Nat \union {None}
BY DEF IInv, TypeOK, Job, JobSound, TargetLabels, PwdLabels, Claim

---------------------------------------------------------------------------
(* Every user with a row is among sync_users_seen, or will be. *)
LateLabels == Labels \ {"idle", "lock", "list", "rows", "adoptList"}

Writer(j, u) == j.user = u /\ j.dry = FALSE /\ j.pc \in LateLabels

SeenInv ==
    /\ DryInv
    /\ \A u \in Users :
          RowsOf(u) # {} => u \in seen \/ \E w \in Workers : Writer(job[w], u)

(* A request that may have written rows goes on, or comes to its end. *)
LEMMA WriterGoesOn ==
    ASSUME IInv, Faults \subseteq {"call", "lost"}, NEW w \in Workers, WorkerStep(w),
           NEW u \in Users, Writer(job[w], u)
    PROVE  Writer(job'[w], u) \/ Finish(w)
<1>0. PICK j, k : j = job[w] /\ k = job'[w]
  OBVIOUS
<1>1. j.user = u /\ j.dry = FALSE /\ j.pc \in LateLabels
  BY <1>0 DEF Writer
<1>2. "db" \notin Faults /\ "crash" \notin Faults
  OBVIOUS
<1>3. ASSUME Own(j, k), k.pc \in LateLabels
      PROVE  Writer(job'[w], u)
  BY <1>0, <1>1, <1>3 DEF Own, Writer
<1>4. CASE \/ Receive(w) \/ Acquire(w) \/ ListMailboxes(w) \/ ReadRows(w)
           \/ Crash(w) \/ AdoptList(w)
  <2>1. j.pc \in {"idle", "lock", "list", "rows", "adoptList"} \/ Crash(w)
    BY <1>0, <1>4, StartShape, AdoptionShape
  <2>2. ~Crash(w)
    BY <1>2 DEF Crash
  <2> QED
    BY <1>1, <2>1, <2>2 DEF LateLabels
<1>5. CASE Gate(w)
  BY <1>0, <1>3, <1>5, StartShape DEF LateLabels, Labels
<1>6. CASE AdoptScan(w) \/ AdoptFind(w) \/ AdoptDone(w) \/ AdoptPut(w)
  BY <1>0, <1>2, <1>3, <1>6, AdoptionShape DEF LateLabels, Labels, PlansFrom, Scans
<1>7. CASE Addition(w)
  <2>1. Own(j, k)
    BY <1>0, <1>7, AdditionShape
       DEF Addition, SameEntry, AsPlanned, Kept, RoundFailed, RoundDone, RoundOver
  <2>2. CASE StartAdd(w) \/ EndAdds(w)
    BY <1>0, <1>3, <2>1, <2>2, AdditionShape DEF TakesTarget, LateLabels, Labels
  <2>3. CASE PostAppPasswd(w) \/ FindAppPasswd(w)
    BY <1>0, <1>3, <2>1, <2>3, AdditionShape
       DEF LateLabels, Labels, RoundFailed, RoundOver
  <2>4. CASE CreateAccount(w) \/ LookupAccount(w)
    <3>1. k.pc \in {"lookup", "rollback", "put"}
      BY <1>0, <2>4, AdditionShape
    <3> QED
      BY <1>3, <2>1, <3>1 DEF LateLabels, Labels
  <2>5. CASE RollBack(w) \/ PutRow(w)
    <3>1. RoundOver(j, k)
      BY <1>0, <2>5, AdditionShape DEF RoundFailed, RoundDone
    <3> QED
      BY <1>3, <2>1, <3>1 DEF LateLabels, Labels, RoundOver
  <2> QED
    BY <1>7, <2>2, <2>3, <2>4, <2>5 DEF Addition
<1>8. CASE Removal(w)
  <2>1. CASE Finish(w)
    BY <2>1
  <2>2. CASE StartRemove(w)
    <3>1. Own(j, k) /\ TakesRow(j, k)
      BY <1>0, <2>2, RemovalShape DEF Kept
    <3> QED
      BY <1>3, <3>1 DEF TakesRow, LateLabels, Labels
  <2>3. CASE DeleteAccount(w) \/ DeleteAppPasswd(w)
    <3>1. SameEntry(j, k) /\ k.pc \in {"revoke", "forget"}
      BY <1>0, <2>3, RemovalShape
    <3> QED
      BY <1>3, <3>1 DEF LateLabels, Labels, SameEntry, AsPlanned, Kept
  <2>4. CASE ForgetRow(w)
    <3>1. RoundOver(j, k)
      BY <1>0, <2>4, RemovalShape DEF RoundFailed, RoundDone
    <3> QED
      BY <1>3, <3>1 DEF LateLabels, Labels, RoundOver, Kept
  <2> QED
    BY <1>8, <2>1, <2>2, <2>3, <2>4 DEF Removal
<1> QED
  BY <1>4, <1>5, <1>6, <1>7, <1>8 DEF WorkerStep, Work, Adoption

LEMMA RowsAreWritten ==
    ASSUME IInv, NEW w \in Workers, WorkerStep(w), StaysDry(job[w]),
           NEW u \in Users, RowsOf(u)' # {}
    PROVE  RowsOf(u) # {} \/ Writer(job[w], u)
<1>0. PICK j : j = job[w]
  OBVIOUS
<1>1. StateTypeOK
  BY DEF IInv, TypeOK
<1>2. CASE UNCHANGED stateVars
  BY <1>2 DEF stateVars, RowsOf
<1>3. CASE /\ j.dry = FALSE /\ Recorded(j)
           /\ AdoptPut(w) \/ PutRow(w)
  <2>1. j.pc \in {"adoptPut", "put"}
    BY <1>0, <1>3 DEF AdoptPut, PutRow, At
  <2>2. /\ j.user \in Users /\ j.target \in Targets
        /\ j.pwd \in Nat /\ j.acc \in Nat \union {None}
    BY <1>0, <2>1, WriteTyped
  <2>3. CASE j.user = u
    BY <1>0, <1>3, <2>1, <2>3 DEF Writer, LateLabels, Labels
  <2>4. CASE j.user # u
    BY <1>1, <1>3, <2>2, <2>4, RowUpserted DEF Recorded
  <2> QED
    BY <2>3, <2>4
<1>4. CASE ForgetRow(w) /\ Forgotten(j)
  <2>1. j.user \in Users /\ j.target \in Targets
    BY <1>0, <1>4, WriteTyped DEF ForgetRow, At
  <2>2. RowsOf(u)' \subseteq RowsOf(u)
    BY <1>1, <1>4, <2>1, RowDeleted DEF Forgotten
  <2> QED
    BY <2>2
<1>5. CASE TouchUser(j.user)
  BY <1>5 DEF TouchUser, RowsOf
<1> QED
  BY <1>0, <1>2, <1>3, <1>4, <1>5, TableWrites

LEMMA SeenGrows ==
    ASSUME IInv, NEW w \in Workers, WorkerStep(w), StaysDry(job[w])
    PROVE  seen \subseteq seen'
BY TableWrites DEF Recorded, Forgotten, Upsert, DeleteRow, TouchUser, stateVars

LEMMA SeenStep ==
    ASSUME SeenInv, Faults \subseteq {"call", "lost"}, [Next]_vars
    PROVE  SeenInv'
<1>1. IInv /\ DryInv /\ DryInv'
  BY DryKeeps DEF SeenInv, DryInv
<1>2. ASSUME NEW u \in Users, RowsOf(u)' # {}
      PROVE  u \in seen' \/ \E w \in Workers : Writer(job'[w], u)
  <2>1. CASE \E w \in Workers : WorkerStep(w)
    <3>1. PICK w \in Workers : WorkerStep(w)
      BY <2>1
    <3>2. StaysDry(job[w])
      BY <1>1 DEF DryInv
    <3>3. u \in seen \/ \E v \in Workers : Writer(job[v], u)
      BY <1>1, <1>2, <3>1, <3>2, RowsAreWritten DEF SeenInv
    <3>4. CASE u \in seen
      BY <1>1, <3>1, <3>2, <3>4, SeenGrows
    <3>5. CASE \E v \in Workers : Writer(job[v], u)
      <4>1. PICK v \in Workers : Writer(job[v], u)
        BY <3>5
      <4>2. CASE v = w
        <5>1. Writer(job'[v], u) \/ Finish(v)
          BY <1>1, <3>1, <4>1, <4>2, WriterGoesOn
        <5>2. CASE Finish(v)
          <6>1. PICK j : j = job[v]
            OBVIOUS
          <6>2. j.user = u /\ j.dry = FALSE
            BY <4>1, <6>1 DEF Writer
          <6>3. TouchUser(u)
            BY <1>1, <5>2, <6>1, <6>2, RemovalShape
          <6> QED
            BY <6>3 DEF TouchUser
        <5> QED
          BY <5>1, <5>2
      <4>3. CASE v # w
        <5>1. job'[v] = job[v]
          BY <1>1, <3>1, <4>3, OthersJobs DEF WorkerStep, IInv, TypeOK
        <5> QED
          BY <4>1, <5>1
      <4> QED
        BY <4>2, <4>3
    <3> QED
      BY <3>3, <3>4, <3>5
  <2>2. CASE ~\E w \in Workers : WorkerStep(w)
    <3>1. UNCHANGED job /\ (UNCHANGED stateVars \/ LoseState)
      BY <2>2, NobodyMoved
    <3>2. CASE LoseState
      BY <1>2, <3>2 DEF LoseState, RowsOf
    <3>3. CASE UNCHANGED stateVars
      BY <1>2, <3>1, <3>3 DEF stateVars, RowsOf, SeenInv
    <3> QED
      BY <3>1, <3>2, <3>3
  <2> QED
    BY <2>1, <2>2
<1> QED
  BY <1>1, <1>2 DEF SeenInv

(* As long as requests are only disturbed by calls that fail or whose answers *)
(* are lost, every user with a row is in sync_users_seen between requests: the *)
(* sweep's garbage collection, which starts from that table, sees all rows --  *)
(* with any number of processes, whatever happens around the service, and also *)
(* after the database was lost.                                                *)
THEOREM RowsAreSeen ==
    ASSUME Faults \subseteq {"call", "lost"}
    PROVE  Spec => []RowsMeanSeen
<1>1. Init => SeenInv
  <2>1. Init => DryInv
    BY InitIInv DEF Init, DryInv, IdleJob, StaysDry
  <2> QED
    BY <2>1 DEF Init, StateInit, RowsOf, SeenInv
<1>2. SeenInv /\ [Next]_vars => SeenInv'
  BY SeenStep
<1>3. SeenInv => RowsMeanSeen
  BY DEF SeenInv, RowsMeanSeen, Writer, LateLabels, Busy, HoldsLock
<1> QED
  BY <1>1, <1>2, <1>3, PTL DEF Spec

---------------------------------------------------------------------------
(* Where the requests of a user come one after the other, nobody else writes  *)
(* the user's rows.  The per-key lock sees to it inside one process, and the   *)
(* theorems below ask for it, because two processes have two pools of locks.   *)
Serial == \A v, w \in Workers :
    HoldsLock(v) /\ HoldsLock(w) /\ job[v].user = job[w].user => v = w

SingleProcess == \A v, w \in Workers : ProcessOf[v] = ProcessOf[w]

Exclusive == \A v, w \in Workers : SameLock(v, w) /\ HoldsLock(v) /\ HoldsLock(w) => v = w

(* Only Acquire takes a lock, and a request that has it keeps its user. *)
LEMMA Holders ==
    ASSUME IInv, NEW w \in Workers, WorkerStep(w), HoldsLock(w)'
    PROVE  /\ Acquire(w) \/ HoldsLock(w)
           /\ Own(job[w], job'[w])
<1>0. PICK j, k : j = job[w] /\ k = job'[w]
  OBVIOUS
<1>1. k.pc \notin {"idle", "lock"}
  BY <1>0 DEF HoldsLock
<1>2. ~Receive(w) /\ k # IdleJob
  <2>1. Receive(w) => k.pc = "lock"
    BY <1>0, StartShape
  <2>2. IdleJob.pc = "idle"
    BY DEF IdleJob
  <2> QED
    BY <1>1, <2>1, <2>2
<1>3. ~Crash(w) /\ ~Finish(w)
  BY <1>0, <1>2, Becomes DEF Crash, Finish, End
<1>4. CASE Acquire(w) \/ ListMailboxes(w) \/ ReadRows(w) \/ Gate(w)
  <2>1. Acquire(w) \/ j.pc \notin {"idle", "lock"}
    BY <1>0, <1>4 DEF ListMailboxes, ReadRows, Gate, At
  <2>2. Own(j, k)
    BY <1>0, <1>2, <1>4, StartShape DEF Kept
  <2> QED
    BY <1>0, <2>1, <2>2 DEF HoldsLock
<1>5. CASE Adoption(w)
  <2>1. j.pc \notin {"idle", "lock"}
    BY <1>0, <1>5 DEF Adoption, AdoptList, AdoptScan, AdoptFind, AdoptPut, AdoptDone, At
  <2>2. CASE AdoptList(w) \/ AdoptPut(w)
    BY <1>0, <1>2, <2>1, <2>2, AdoptionShape DEF HoldsLock
  <2>3. CASE AdoptScan(w) \/ AdoptFind(w) \/ AdoptDone(w)
    <3>1. Own(j, k)
      BY <1>0, <2>3, AdoptionShape
    <3> QED
      BY <1>0, <2>1, <3>1 DEF HoldsLock
  <2> QED
    BY <1>5, <2>2, <2>3 DEF Adoption
<1>6. CASE Addition(w)
  <2>1. j.pc \notin {"idle", "lock"}
    BY <1>0, <1>6, AdditionShape DEF Addition
  <2>2. Own(j, k)
    BY <1>0, <1>6, AdditionShape
       DEF Addition, SameEntry, AsPlanned, Kept, RoundFailed, RoundDone, RoundOver
  <2> QED
    BY <1>0, <2>1, <2>2 DEF HoldsLock
<1>7. CASE Removal(w)
  <2>1. j.pc \notin {"idle", "lock"}
    BY <1>0, <1>7, RemovalShape DEF Removal
  <2>2. Own(j, k)
    BY <1>0, <1>3, <1>7, RemovalShape
       DEF Removal, SameEntry, AsPlanned, Kept, RoundFailed, RoundDone, RoundOver
  <2> QED
    BY <1>0, <2>1, <2>2 DEF HoldsLock
<1> QED
  BY <1>2, <1>3, <1>4, <1>5, <1>6, <1>7 DEF WorkerStep, Work

LEMMA ExclusiveStep ==
    ASSUME IInv, Exclusive, [Next]_vars
    PROVE  Exclusive'
<1>1. ASSUME NEW w \in Workers, WorkerStep(w)
      PROVE  Exclusive'
  <2>1. \A v \in Workers : v # w => job'[v] = job[v]
    BY <1>1, OthersJobs DEF IInv, TypeOK, WorkerStep
  <2>2. HoldsLock(w)' => job'[w].user = job[w].user
    BY <1>1, Holders DEF Own
  <2>3. CASE Acquire(w)
    <3>1. \A v \in Workers : SameLock(v, w) => ~HoldsLock(v)
      BY <2>3 DEF Acquire
    <3> QED
      BY <2>1, <2>2, <3>1 DEF Exclusive, SameLock, HoldsLock
  <2>4. CASE ~Acquire(w)
    <3>1. HoldsLock(w)' => HoldsLock(w)
      BY <1>1, <2>4, Holders
    <3> QED
      BY <2>1, <2>2, <3>1 DEF Exclusive, SameLock, HoldsLock
  <2> QED
    BY <2>3, <2>4
<1>2. CASE UNCHANGED job
  BY <1>2 DEF Exclusive, SameLock, HoldsLock
<1>3. (\E w \in Workers : WorkerStep(w)) \/ UNCHANGED job
  BY NobodyMoved
<1> QED
  BY <1>1, <1>2, <1>3

(* locks.py: "two concurrent webhooks for the same user serialize".  In one    *)
(* process, that is: whatever fails, no two requests of a user are between     *)
(* taking the lock and their end, dry runs included.                           *)
THEOREM LockSerializes ==
    ASSUME SingleProcess
    PROVE  Spec => []Serial
<1>1. Init => IInv /\ Exclusive
  BY InitIInv DEF Init, IdleJob, Exclusive, HoldsLock
<1>2. IInv /\ Exclusive /\ [Next]_vars => IInv' /\ Exclusive'
  BY ExclusiveStep, NextIInv
<1>3. Exclusive => Serial
  BY DEF Exclusive, Serial, SameLock, SingleProcess
<1> QED
  BY <1>1, <1>2, <1>3, PTL DEF Spec

(* A step of one request leaves alone the rows of a user whose lock another has. *)
LEMMA OthersRows ==
    ASSUME IInv, Serial, NEW v \in Workers, WorkerStep(v),
           StaysDry(job[v]), NEW w \in Workers, w # v, HoldsLock(w),
           NEW u, u = job[w].user
    PROVE  /\ RowsOf(u)' = RowsOf(u)
           /\ \A t \in Targets : rows'[<<u, t>>] = rows[<<u, t>>]
<1>0. PICK i : i = job[v]
  OBVIOUS
<1>1. StateTypeOK
  BY DEF IInv, TypeOK
<1>2. u \in Users
  BY <1>0 DEF HoldsLock, IInv, JobSound
<1>3. HoldsLock(v) => i.user # u
  BY <1>0 DEF Serial
<1>4. CASE UNCHANGED rows
  BY <1>0, <1>4 DEF RowsOf
<1>5. CASE Recorded(i) /\ (AdoptPut(v) \/ PutRow(v))
  <2>1. i.pc \in {"adoptPut", "put"}
    BY <1>0, <1>5 DEF AdoptPut, PutRow, At
  <2>2. HoldsLock(v)
    BY <1>0, <2>1 DEF HoldsLock
  <2>3. /\ i.user \in Users /\ i.target \in Targets
        /\ i.pwd \in Nat /\ i.acc \in Nat \union {None}
    BY <1>0, <2>1, WriteTyped
  <2>4. \A t \in Targets : <<u, t>> # <<i.user, i.target>>
    BY <1>3, <2>2
  <2>5. /\ RowsOf(u)' = RowsOf(u)
        /\ \A t \in Targets : rows'[<<u, t>>] = rows[<<u, t>>]
    <3>1. /\ \A x \in Users \ {i.user} : RowsOf(x)' = RowsOf(x)
          /\ \A x \in Users, s \in Targets :
                <<x, s>> # <<i.user, i.target>> => rows'[<<x, s>>] = rows[<<x, s>>]
      BY <1>1, <1>5, <2>3, RowUpserted DEF Recorded
    <3> QED
      BY <1>2, <1>3, <2>2, <2>4, <3>1
  <2> QED
    BY <1>0, <2>5
<1>6. CASE ForgetRow(v) /\ Forgotten(i)
  <2>1. i.pc = "forget"
    BY <1>0, <1>6 DEF ForgetRow, At
  <2>2. HoldsLock(v)
    BY <1>0, <2>1 DEF HoldsLock
  <2>3. i.user \in Users /\ i.target \in Targets
    BY <1>0, <2>1, WriteTyped
  <2>4. \A t \in Targets : <<u, t>> # <<i.user, i.target>>
    BY <1>3, <2>2
  <2>5. /\ RowsOf(u)' = RowsOf(u)
        /\ \A t \in Targets : rows'[<<u, t>>] = rows[<<u, t>>]
    <3>1. /\ \A x \in Users \ {i.user} : RowsOf(x)' = RowsOf(x)
          /\ \A x \in Users, s \in Targets :
                <<x, s>> # <<i.user, i.target>> => rows'[<<x, s>>] = rows[<<x, s>>]
      BY <1>1, <1>6, <2>3, RowDeleted DEF Forgotten
    <3> QED
      BY <1>2, <1>3, <2>2, <2>4, <3>1
  <2> QED
    BY <1>0, <2>5
<1> QED
  BY <1>0, <1>4, <1>5, <1>6, TableWrites DEF stateVars, TouchUser

(* No step that is not a worker's changes the rows while a lock is held. *)
LEMMA NobodysRows ==
    ASSUME [Next]_vars, \A v \in Workers : ~WorkerStep(v), NEW w \in Workers, HoldsLock(w)
    PROVE  UNCHANGED <<job, rows>>
<1>1. job[w].pc # "idle"
  BY DEF HoldsLock
<1> QED
  BY <1>1, NobodyMoved DEF stateVars

---------------------------------------------------------------------------
(* The diff and what the two loops have done of it: R are the user's rows *)
AddRound == {"post", "find", "create", "lookup", "rollback", "put"}
RemoveRound == {"close", "revoke", "forget"}
DiffLabels == {"gate", "add", "remove"} \union AddRound \union RemoveRound

PlanFor(j, R) ==
    j.pc \in DiffLabels /\ j.dry = FALSE =>
       /\ j.toAdd \subseteq j.want
       /\ j.toRemove \intersect j.want = {}
       /\ j.pc \in AddRound => j.target \in j.want
       /\ j.pc \in RemoveRound => j.target \notin j.want
       /\ j.pc \in RemoveRound \union {"remove"} => j.toAdd = {}
       /\ "db" \notin Faults \/ j.errors = FALSE =>
             R \subseteq j.want \union j.toRemove \union
                            (IF j.pc \in RemoveRound THEN {j.target} ELSE {})
       /\ j.skipped = FALSE /\ j.errors = FALSE =>
             j.want \subseteq R \union j.toAdd \union
                                 (IF j.pc \in AddRound THEN {j.target} ELSE {})

PlanSound(j) == PlanFor(j, RowsOf(j.user))

PlanInv ==
    /\ DryInv
    /\ \A w \in Workers : PlanSound(job[w])

LEMMA PlanMade ==
    ASSUME NEW k, NEW R, PlansFrom(k, R)
    PROVE  PlanFor(k, R)
BY DEF PlansFrom, PlanFor, DiffLabels, AddRound, RemoveRound

(* A step within a round of one of the loops *)
LEMMA PlanKept ==
    ASSUME NEW j, NEW k, NEW R, PlanFor(j, R), AsPlanned(j, k), k.target = j.target,
           \/ j.pc \in AddRound /\ k.pc \in AddRound
           \/ j.pc \in RemoveRound /\ k.pc \in RemoveRound
    PROVE  PlanFor(k, R)
BY DEF AsPlanned, Kept, Own, PlanFor, DiffLabels, AddRound, RemoveRound

(* The end of a round *)
LEMMA PlanFailed ==
    ASSUME NEW j, NEW k, NEW R, PlanFor(j, R), RoundFailed(j, k),
           j.pc \in AddRound \/ (j.pc = "forget" /\ "db" \in Faults)
    PROVE  PlanFor(k, R)
BY DEF RoundFailed, RoundOver, Kept, Own, PlanFor, DiffLabels, AddRound, RemoveRound

LEMMA PlanAdded ==
    ASSUME NEW j, NEW k, NEW R, PlanFor(j, R), RoundDone(j, k), j.pc = "put"
    PROVE  PlanFor(k, R \union {j.target})
BY DEF RoundDone, RoundOver, Kept, Own, PlanFor, DiffLabels, AddRound, RemoveRound

LEMMA PlanRemoved ==
    ASSUME NEW j, NEW k, NEW R, PlanFor(j, R), RoundDone(j, k), j.pc = "forget"
    PROVE  PlanFor(k, R \ {j.target})
BY DEF RoundDone, RoundOver, Kept, Own, PlanFor, DiffLabels, AddRound, RemoveRound

(* The steps between the rounds *)
LEMMA PlanMoves ==
    ASSUME IInv, NEW w \in Workers, NEW j, NEW k, j = job[w], k = job'[w],
           NEW R, R = RowsOf(j.user), PlanFor(j, R),
           Gate(w) \/ StartAdd(w) \/ EndAdds(w) \/ StartRemove(w)
    PROVE  PlanFor(k, R) /\ Own(j, k)
<1>1. CASE Gate(w)
  <2>1. /\ j.pc = "gate" /\ k.pc = "add" /\ Own(j, k)
        /\ k.want = j.want /\ k.toRemove = j.toRemove /\ k.errors = j.errors
        /\ \/ k.toAdd = j.toAdd /\ k.skipped = j.skipped
           \/ k.toAdd = {} /\ k.skipped = TRUE
    BY <1>1, StartShape
  <2> QED
    BY <2>1 DEF Own, PlanFor, DiffLabels, AddRound, RemoveRound
<1>2. CASE StartAdd(w)
  <2>1. j.pc = "add" /\ Kept(j, k) /\ k.toRemove = j.toRemove /\ k.errors = j.errors
    BY <1>2, AdditionShape
  <2>2. TakesTarget(j, k)
    BY <1>2, AdditionShape
  <2>3. PICK t \in j.toAdd :
           /\ k.toAdd = j.toAdd \ {t}
           /\ \/ k.pc = "add" /\ j.dry = TRUE
              \/ k.pc = "post" /\ k.target = t /\ j.dry = FALSE
    BY <2>2 DEF TakesTarget
  <2> QED
    BY <2>1, <2>3 DEF Kept, Own, PlanFor, DiffLabels, AddRound, RemoveRound
<1>3. CASE EndAdds(w)
  <2>1. j.pc = "add" /\ j.toAdd = {} /\ AsPlanned(j, k) /\ k.pc = "remove"
    BY <1>3, AdditionShape
  <2> QED
    BY <2>1 DEF AsPlanned, Kept, Own, PlanFor, DiffLabels, AddRound, RemoveRound
<1>4. CASE StartRemove(w)
  <2>1. /\ j.pc = "remove" /\ Kept(j, k)
        /\ k.toAdd = j.toAdd /\ k.errors = j.errors
    BY <1>4, StartRemoveShape
  <2>2. TakesRow(j, k)
    BY <1>4, StartRemoveShape
  <2>3. PICK t \in j.toRemove :
           /\ k.toRemove = j.toRemove \ {t}
           /\ \/ k.pc = "remove" /\ (j.dry = TRUE \/ t \notin R)
              \/ k.pc = "close" /\ k.target = t /\ j.dry = FALSE
    BY <2>2 DEF TakesRow, RowsOf
  <2> QED
    BY <2>1, <2>3 DEF Kept, Own, PlanFor, DiffLabels, AddRound, RemoveRound
<1> QED
  BY <1>1, <1>2, <1>3, <1>4

LEMMA PlanOwnStep ==
    ASSUME IInv, NEW w \in Workers, WorkerStep(w), StaysDry(job[w]), PlanSound(job[w]),
           NEW k, k = job'[w]
    PROVE  PlanSound(k)'
<1>0. PICK j, R : j = job[w] /\ R = RowsOf(j.user)
  OBVIOUS
<1>1. PlanFor(j, R)
  BY <1>0 DEF PlanSound
<1>2. StateTypeOK
  BY DEF IInv, TypeOK
<1>3. ASSUME NEW u, UNCHANGED rows
      PROVE  RowsOf(u)' = RowsOf(u)
  BY <1>3 DEF RowsOf
<1>4. ASSUME PlanFor(k, R), UNCHANGED rows, Own(j, k)
      PROVE  PlanSound(k)'
  BY <1>0, <1>3, <1>4 DEF PlanSound, Own
<1>5. ASSUME k.pc \notin DiffLabels
      PROVE  PlanSound(k)'
  BY <1>5 DEF PlanSound, PlanFor
<1>6. IdleJob.pc = "idle"
  BY DEF IdleJob
<1>7. CASE Receive(w) \/ Acquire(w) \/ ListMailboxes(w) \/ AdoptList(w) \/ AdoptScan(w)
           \/ AdoptFind(w) \/ AdoptPut(w) \/ Crash(w) \/ Finish(w)
  <2>1. k.pc \in {"lock", "list", "rows", "adopt", "adoptFind", "adoptPut", "idle"}
    <3>1. CASE Receive(w) \/ Acquire(w) \/ ListMailboxes(w) \/ Crash(w)
      BY <1>0, <1>6, <3>1, StartShape
    <3>2. CASE AdoptList(w) \/ AdoptScan(w) \/ AdoptFind(w) \/ AdoptPut(w)
      BY <1>0, <1>6, <3>2, AdoptionShape DEF Scans
    <3>3. CASE Finish(w)
      BY <1>6, <3>3, Becomes DEF Finish, End
    <3> QED
      BY <1>7, <3>1, <3>2, <3>3
  <2> QED
    BY <1>5, <2>1 DEF DiffLabels, AddRound, RemoveRound
<1>8. CASE ReadRows(w)
  <2>1. Own(j, k) /\ StoresKept /\ (k.pc = "adoptList" \/ PlansFrom(k, R))
    BY <1>0, <1>8, StartShape
  <2>2. UNCHANGED rows
    BY <2>1 DEF StoresKept, stateVars
  <2>3. k.pc = "adoptList" => k.pc \notin DiffLabels
    BY DEF DiffLabels, AddRound, RemoveRound
  <2> QED
    BY <1>4, <1>5, <2>1, <2>2, <2>3, PlanMade
<1>9. CASE AdoptDone(w)
  <2>1. Own(j, k) /\ StoresKept /\ PlansFrom(k, CurrentTargets(j))
    BY <1>0, <1>9, AdoptionShape
  <2>2. UNCHANGED rows
    BY <2>1 DEF StoresKept, stateVars
  <2>3. j.dry = FALSE => PlansFrom(k, R)
    BY <1>0, <2>1 DEF CurrentTargets
  <2>4. k.dry = FALSE => PlanFor(k, R)
    BY <2>1, <2>3, PlanMade DEF Own
  <2> QED
    BY <1>4, <2>1, <2>2, <2>4 DEF PlanFor
<1>10. CASE Gate(w) \/ StartAdd(w) \/ EndAdds(w) \/ StartRemove(w)
  <2>1. PlanFor(k, R) /\ Own(j, k)
    BY <1>0, <1>1, <1>10, PlanMoves
  <2>2. UNCHANGED rows
    BY <1>10 DEF Gate, StartAdd, EndAdds, StartRemove, stateVars
  <2> QED
    BY <1>4, <2>1, <2>2
<1>11. CASE PostAppPasswd(w) \/ FindAppPasswd(w) \/ CreateAccount(w) \/ LookupAccount(w)
            \/ RollBack(w)
  <2>1. UNCHANGED rows
    BY <1>11 DEF PostAppPasswd, FindAppPasswd, CreateAccount, LookupAccount, RollBack,
                 stateVars
  <2>2. j.pc \in AddRound
    BY <1>0, <1>11, AdditionShape DEF AddRound
  <2>3. \/ RoundFailed(j, k)
        \/ AsPlanned(j, k) /\ k.target = j.target /\ k.pc \in AddRound
    <3>1. CASE PostAppPasswd(w)
      BY <1>0, <3>1, AdditionShape DEF AddRound
    <3>2. CASE FindAppPasswd(w) \/ RollBack(w)
      BY <1>0, <3>2, AdditionShape DEF AddRound, SameEntry
    <3>3. CASE CreateAccount(w) \/ LookupAccount(w)
      <4>1. SameEntry(j, k) /\ k.pc \in {"lookup", "rollback", "put"}
        BY <1>0, <3>3, AdditionShape
      <4> QED
        BY <4>1 DEF AddRound, SameEntry
    <3> QED
      BY <1>11, <3>1, <3>2, <3>3
  <2>4. PlanFor(k, R)
    BY <1>1, <2>2, <2>3, PlanKept, PlanFailed
  <2>5. Own(j, k)
    BY <2>3 DEF RoundFailed, RoundOver, AsPlanned, Kept
  <2> QED
    BY <1>4, <2>1, <2>4, <2>5
<1>12. CASE PutRow(w)
  <2>1. j.pc = "put"
    BY <1>0, <1>12 DEF PutRow, At
  <2>2. \/ Recorded(j) /\ RoundDone(j, k)
        \/ RoundFailed(j, k) /\ UNCHANGED stateVars
    BY <1>0, <1>12, AdditionShape DEF Recorded
  <2>3. CASE RoundFailed(j, k) /\ UNCHANGED stateVars
    <3>1. PlanFor(k, R)
      BY <1>1, <2>1, <2>3, PlanFailed DEF AddRound
    <3> QED
      BY <1>4, <2>3, <3>1 DEF stateVars, RoundFailed, RoundOver, Kept
  <2>4. CASE Recorded(j) /\ RoundDone(j, k)
    <3>1. /\ j.user \in Users /\ j.target \in Targets
          /\ j.pwd \in Nat /\ j.acc \in Nat \union {None}
      BY <1>0, <2>1, WriteTyped
    <3>2. RowsOf(j.user)' = R \union {j.target}
      BY <1>0, <1>2, <2>4, <3>1, RowUpserted DEF Recorded
    <3>3. PlanFor(k, R \union {j.target}) /\ k.user = j.user
      BY <1>1, <2>1, <2>4, PlanAdded DEF RoundDone, RoundOver, Kept, Own
    <3> QED
      BY <3>2, <3>3 DEF PlanSound
  <2> QED
    BY <2>2, <2>3, <2>4
<1>13. CASE DeleteAccount(w) \/ DeleteAppPasswd(w)
  <2>1. UNCHANGED rows
    BY <1>13 DEF DeleteAccount, DeleteAppPasswd, stateVars
  <2>2. /\ j.pc \in {"close", "revoke"} /\ k.pc \in {"revoke", "forget"}
        /\ SameEntry(j, k)
    BY <1>0, <1>13, RemovalShape
  <2>3. PlanFor(k, R)
    BY <1>1, <2>2, PlanKept DEF SameEntry, RemoveRound
  <2> QED
    BY <1>4, <2>1, <2>2, <2>3 DEF SameEntry, AsPlanned, Kept
<1>14. CASE ForgetRow(w)
  <2>1. j.pc = "forget"
    BY <1>0, <1>14 DEF ForgetRow, At
  <2>2. \/ Forgotten(j) /\ RoundDone(j, k)
        \/ "db" \in Faults /\ RoundFailed(j, k) /\ UNCHANGED stateVars
    BY <1>0, <1>14, RemovalShape DEF Forgotten
  <2>3. CASE "db" \in Faults /\ RoundFailed(j, k) /\ UNCHANGED stateVars
    <3>1. PlanFor(k, R)
      BY <1>1, <2>1, <2>3, PlanFailed
    <3> QED
      BY <1>4, <2>3, <3>1 DEF stateVars, RoundFailed, RoundOver, Kept
  <2>4. CASE Forgotten(j) /\ RoundDone(j, k)
    <3>1. j.user \in Users /\ j.target \in Targets
      BY <1>0, <2>1, WriteTyped
    <3>2. RowsOf(j.user)' = R \ {j.target}
      BY <1>0, <1>2, <2>4, <3>1, RowDeleted DEF Forgotten
    <3>3. PlanFor(k, R \ {j.target}) /\ k.user = j.user
      BY <1>1, <2>1, <2>4, PlanRemoved DEF RoundDone, RoundOver, Kept, Own
    <3> QED
      BY <3>2, <3>3 DEF PlanSound
  <2> QED
    BY <2>2, <2>3, <2>4
<1> QED
  BY <1>7, <1>8, <1>9, <1>10, <1>11, <1>12, <1>13, <1>14
     DEF WorkerStep, Work, Adoption, Addition, Removal

LEMMA PlanStep ==
    ASSUME PlanInv, Serial, [Next]_vars
    PROVE  PlanInv'
<1>1. IInv /\ DryInv'
  BY DryKeeps DEF PlanInv, DryInv
<1>2. ASSUME NEW w \in Workers, NEW k, k = job'[w]
      PROVE  PlanSound(k)'
  <2>1. CASE WorkerStep(w)
    BY <1>1, <1>2, <2>1, PlanOwnStep DEF PlanInv, DryInv
  <2>2. CASE ~WorkerStep(w)
    <3>1. k = job[w] /\ PlanSound(k)
      BY <1>1, <1>2, <2>2, WhoMoved DEF PlanInv
    <3>2. CASE ~HoldsLock(w)
      BY <3>1, <3>2 DEF HoldsLock, PlanSound, PlanFor, DiffLabels, AddRound, RemoveRound
    <3>3. CASE HoldsLock(w)
      <4>1. RowsOf(k.user)' = RowsOf(k.user)
        <5>1. CASE \E v \in Workers : WorkerStep(v)
          <6>1. PICK v \in Workers : WorkerStep(v)
            BY <5>1
          <6>2. StaysDry(job[v]) /\ v # w
            BY <2>2, <6>1 DEF PlanInv, DryInv
          <6> QED
            BY <1>1, <3>1, <3>3, <6>1, <6>2, OthersRows
        <5>2. CASE \A v \in Workers : ~WorkerStep(v)
          BY <3>3, <5>2, NobodysRows DEF RowsOf
        <5> QED
          BY <5>1, <5>2
      <4> QED
        BY <3>1, <4>1 DEF PlanSound
    <3> QED
      BY <3>2, <3>3
  <2> QED
    BY <2>1, <2>2
<1>3. ASSUME NEW w \in Workers
      PROVE  PlanSound(job[w])'
  <2>1. PICK k : k = job'[w]
    OBVIOUS
  <2>2. PlanSound(k)'
    BY <1>2, <2>1
  <2> QED
    BY <2>1, <2>2 DEF PlanSound, RowsOf
<1> QED
  BY <1>1, <1>3 DEF PlanInv

LEMMA PlanInitially == Init => PlanInv
<1>1. Init => DryInv
  BY InitIInv DEF Init, DryInv, IdleJob, StaysDry
<1>2. IdleJob.pc = "idle"
  BY DEF IdleJob
<1> QED
  BY <1>1, <1>2 DEF Init, PlanInv, HoldsLock, PlanSound, PlanFor, DiffLabels,
                    AddRound, RemoveRound

(* A request that ends in the remove loop has emptied it, unless it crashed. *)
LEMMA EndsByFinish ==
    ASSUME IInv, [Next]_vars, "crash" \notin Faults, NEW w \in Workers,
           At(w, "remove"), job'[w] = IdleJob
    PROVE  job[w].toRemove = {}
<1>0. PICK j, k : j = job[w] /\ k = job'[w]
  OBVIOUS
<1>1. j.pc = "remove" /\ k.pc = "idle"
  BY <1>0 DEF At, IdleJob
<1>2. WorkerStep(w)
  BY <1>0, <1>1, WhoMoved
<1>3. ~StartRemove(w)
  <2>1. StartRemove(w) => TakesRow(j, k)
    BY <1>0, StartRemoveShape
  <2> QED
    BY <1>1, <2>1 DEF TakesRow
<1>4. Finish(w)
  BY <1>0, <1>1, <1>2, <1>3
     DEF WorkerStep, Work, Adoption, Addition, Removal, At, Receive, Crash, Acquire,
         ListMailboxes, ReadRows, AdoptList, AdoptScan, AdoptFind, AdoptPut, AdoptDone,
         Gate, StartAdd, PostAppPasswd, FindAppPasswd, CreateAccount, LookupAccount,
         RollBack, PutRow, EndAdds, DeleteAccount, DeleteAppPasswd, ForgetRow
<1> QED
  BY <1>4 DEF Finish

(* With the requests of a user served in turn, and remote calls that may fail: *)
(* when a request gets to touch_user, every row of its user outside the        *)
(* actionable targets is gone -- also the rows it adopted itself, and those of *)
(* requests before it that did not get through.                                *)
THEOREM FinishesCleared ==
    ASSUME Faults \subseteq {"call", "lost"}
    PROVE  Spec /\ []Serial => FinishClears
<1>1. PlanInv /\ Serial /\ [Next]_vars => PlanInv'
  BY PlanStep
<1>2. ASSUME PlanInv, [Next]_vars, NEW w \in Workers,
             At(w, "remove"), ~job[w].dry, job'[w] = IdleJob
      PROVE  RowsOf(job[w].user) \subseteq job[w].want
  <2>1. PICK j : j = job[w]
    OBVIOUS
  <2>2. j.pc = "remove" /\ j.dry = FALSE
    BY <1>2, <2>1 DEF At, PlanInv, DryInv, IInv, TypeOK, Job
  <2>3. j.toRemove = {}
    BY <1>2, <2>1, EndsByFinish DEF PlanInv, DryInv
  <2>4. PlanFor(j, RowsOf(j.user))
    BY <1>2, <2>1 DEF PlanInv, PlanSound
  <2>5. "db" \notin Faults
    OBVIOUS
  <2>6. RowsOf(j.user) \subseteq j.want
    BY <2>2, <2>3, <2>4, <2>5 DEF PlanFor, DiffLabels, AddRound, RemoveRound
  <2> QED
    BY <2>1, <2>6
<1>3. PlanInv /\ [Next]_vars =>
        [\A w \in Workers :
            At(w, "remove") /\ ~job[w].dry /\ job[w].user \in seen' /\ job'[w] = IdleJob
               => RowsOf(job[w].user) \subseteq job[w].want]_vars
  BY <1>2
<1> QED
  BY <1>1, <1>3, PlanInitially, PTL DEF Spec, FinishClears

(* ... and with whatever kinds of failures, crashes of other requests and of   *)
(* earlier ones included: a request that answers without errors, and did not   *)
(* skip the additions, leaves one row for each actionable target and no other. *)
(* No failure that leaves a target undone goes unreported.                     *)
THEOREM FinishesConverged == Spec /\ []Serial => FinishConverges
<1>1. PlanInv /\ Serial /\ [Next]_vars => PlanInv'
  BY PlanStep
<1>2. ASSUME PlanInv, NEW j, j \in Job, PlanFor(j, RowsOf(j.user)), j.pc = "remove",
             j.toRemove = {}, ~j.dry, ~j.skipped, ~j.errors
      PROVE  RowsOf(j.user) = j.want
  <2>1. j.dry = FALSE /\ j.skipped = FALSE /\ j.errors = FALSE
    BY <1>2 DEF Job
  <2> QED
    BY <1>2, <2>1 DEF PlanFor, DiffLabels, AddRound, RemoveRound
<1>3. ASSUME PlanInv, NEW w \in Workers, At(w, "remove"), job[w].toRemove = {},
             ~job[w].dry, ~job[w].skipped, ~job[w].errors
      PROVE  RowsOf(job[w].user) = job[w].want
  <2>1. PICK j : j = job[w]
    OBVIOUS
  <2>2. j \in Job /\ PlanFor(j, RowsOf(j.user))
    BY <1>3, <2>1 DEF PlanInv, PlanSound, DryInv, IInv, TypeOK
  <2> QED
    BY <1>2, <1>3, <2>1, <2>2 DEF At
<1>4. PlanInv /\ [Next]_vars =>
        [\A w \in Workers :
            LET j == job[w] IN
            (/\ At(w, "remove") /\ j.toRemove = {} /\ job'[w] = IdleJob
             /\ ~j.dry /\ ~j.skipped /\ ~j.errors /\ j.user \in seen')
            => RowsOf(j.user) = j.want]_vars
  BY <1>3
<1> QED
  BY <1>1, <1>4, PlanInitially, PTL DEF Spec, FinishConverges

---------------------------------------------------------------------------
(* A removal and the row it is for *)
LEMMA NewIds ==
    ASSUME [Next]_vars
    PROVE  \A p \in pwds' \ pwds : p.id = nextPwd
<1>1. ASSUME NEW w \in Workers, WorkerStep(w)
      PROVE  \A p \in pwds' \ pwds : p.id = nextPwd
  <2>1. CASE Receive(w) \/ Crash(w) \/ Acquire(w) \/ ListMailboxes(w) \/ ReadRows(w) \/ Gate(w)
    BY <2>1 DEF Receive, Crash, Acquire, ListMailboxes, ReadRows, Gate, mailcowVars
  <2>2. CASE Adoption(w)
    BY <2>2 DEF Adoption, AdoptList, AdoptScan, AdoptFind, AdoptPut, AdoptDone, mailcowVars
  <2>3. CASE PostAppPasswd(w)
    BY <2>3 DEF PostAppPasswd, Issue, mailcowVars
  <2>4. CASE \/ StartAdd(w) \/ FindAppPasswd(w) \/ CreateAccount(w) \/ LookupAccount(w)
             \/ PutRow(w) \/ EndAdds(w) \/ RollBack(w)
    BY <2>4 DEF StartAdd, FindAppPasswd, CreateAccount, LookupAccount, PutRow, EndAdds,
                RollBack, Revoke, mailcowVars
  <2>5. CASE Removal(w)
    BY <2>5 DEF Removal, StartRemove, DeleteAccount, DeleteAppPasswd, ForgetRow, Finish,
                Revoke, mailcowVars
  <2> QED
    BY <1>1, <2>1, <2>2, <2>3, <2>4, <2>5 DEF WorkerStep, Work, Addition
<1>2. CASE Surroundings
  BY <1>2 DEF Surroundings, MailboxCreated, MailboxDropped, ForeignPassword,
              PasswordDeletedByHand, AccountByHand, StateLost, CreateMailbox,
              DropMailbox, Issue, Revoke, mailcowVars
<1>3. CASE UNCHANGED vars
  BY <1>3 DEF vars, mailcowVars
<1> QED
  BY <1>1, <1>2, <1>3 DEF Next, Rest, WorkerStep

(* An id that was issued and is gone does not come back. *)
Gone(id) == \A p \in pwds : p.id # id

LEMMA StaysGone ==
    ASSUME IInv, [Next]_vars, NEW id \in Nat, id < nextPwd, Gone(id)
    PROVE  Gone(id)'
<1>1. nextPwd \in Nat
  BY DEF IInv, TypeOK, MailcowTypeOK
<1> QED
  BY <1>1, NewIds DEF Gone

RemovalSound(j) ==
    /\ j.pc \in RemoveRound =>
          /\ rows[<<j.user, j.target>>] # None
          /\ rows[<<j.user, j.target>>].pwd = j.pwd
    /\ j.pc = "forget" => Gone(j.pwd)

ForgetInv ==
    /\ DryInv
    /\ \A w \in Workers : RemovalSound(job[w])

LEMMA RemovalOwnStep ==
    ASSUME IInv, "call" \notin Faults, NEW w \in Workers, WorkerStep(w),
           RemovalSound(job[w]), NEW k, k = job'[w]
    PROVE  RemovalSound(k)'
<1>0. PICK j : j = job[w]
  OBVIOUS
<1>1. CASE StartRemove(w)
  <2>1. TakesRow(j, k) /\ Own(j, k) /\ StoresKept
    BY <1>0, <1>1, StartRemoveShape DEF Kept
  <2>2. \/ k.pc = "remove"
        \/ /\ k.pc = "close" /\ rows[<<j.user, k.target>>] # None
           /\ k.pwd = rows[<<j.user, k.target>>].pwd
    BY <2>1 DEF TakesRow
  <2>3. k.user = j.user /\ rows' = rows
    BY <2>1 DEF Own, StoresKept, stateVars
  <2> QED
    BY <2>2, <2>3 DEF RemovalSound, RemoveRound
<1>2. CASE DeleteAccount(w)
  <2>1. /\ j.pc = "close" /\ k.pc = "revoke" /\ SameEntry(j, k) /\ k.pwd = j.pwd
    BY <1>0, <1>2, RemovalShape
  <2>2. rows' = rows
    BY <1>2 DEF DeleteAccount, stateVars
  <2>3. k.user = j.user /\ k.target = j.target
    BY <2>1 DEF SameEntry, AsPlanned, Kept, Own
  <2> QED
    BY <1>0, <2>1, <2>2, <2>3 DEF RemovalSound, RemoveRound
<1>3. CASE DeleteAppPasswd(w)
  <2>1. /\ j.pc = "revoke" /\ k.pc = "forget" /\ SameEntry(j, k) /\ k.pwd = j.pwd
    BY <1>0, <1>3, RemovalShape
  <2>2. Revoke(j.pwd) /\ rows' = rows
    BY <1>0, <1>3 DEF DeleteAppPasswd, stateVars
  <2>3. k.user = j.user /\ k.target = j.target
    BY <2>1 DEF SameEntry, AsPlanned, Kept, Own
  <2>4. Gone(k.pwd)'
    BY <2>1, <2>2 DEF Revoke, Gone
  <2> QED
    BY <1>0, <2>1, <2>2, <2>3, <2>4 DEF RemovalSound, RemoveRound
<1>4. CASE ~StartRemove(w) /\ ~DeleteAccount(w) /\ ~DeleteAppPasswd(w)
  <2>1. IdleJob.pc = "idle"
    BY DEF IdleJob
  <2>2. k.pc \notin RemoveRound
    <3>1. CASE \/ Receive(w) \/ Acquire(w) \/ ListMailboxes(w) \/ ReadRows(w) \/ Gate(w)
               \/ Crash(w)
      BY <1>0, <2>1, <3>1, StartShape DEF PlansFrom, RemoveRound
    <3>2. CASE Adoption(w)
      BY <1>0, <2>1, <3>2, AdoptionShape DEF Adoption, PlansFrom, RemoveRound, Scans
    <3>3. CASE Addition(w)
      <4>1. CASE StartAdd(w)
        <5>1. TakesTarget(j, k)
          BY <1>0, <4>1, AdditionShape
        <5> QED
          BY <5>1 DEF TakesTarget, RemoveRound
      <4>2. CASE Addition(w) /\ ~StartAdd(w)
        <5>1. \/ k.pc \in {"find", "create", "lookup", "rollback", "put", "remove"}
              \/ RoundOver(j, k) /\ j.pc # "forget"
          BY <1>0, <4>2, AdditionShape DEF Addition, RoundFailed, RoundDone
        <5> QED
          BY <5>1 DEF RoundOver, RemoveRound
      <4> QED
        BY <3>3, <4>1, <4>2
    <3>4. CASE ForgetRow(w)
      <4>1. RoundOver(j, k)
        BY <1>0, <3>4, RemovalShape DEF RoundFailed, RoundDone
      <4> QED
        BY <4>1 DEF RoundOver, RemoveRound
    <3>5. CASE Finish(w)
      BY <2>1, <3>5, Becomes DEF Finish, End, RemoveRound
    <3> QED
      BY <1>4, <3>1, <3>2, <3>3, <3>4, <3>5 DEF WorkerStep, Work, Removal
  <2> QED
    BY <2>2 DEF RemovalSound, RemoveRound
<1> QED
  BY <1>1, <1>2, <1>3, <1>4

LEMMA ForgetStep ==
    ASSUME ForgetInv, Serial, "call" \notin Faults, [Next]_vars
    PROVE  ForgetInv'
<1>1. IInv /\ DryInv'
  BY DryKeeps DEF ForgetInv, DryInv
<1>2. ASSUME NEW w \in Workers, NEW k, k = job'[w]
      PROVE  RemovalSound(k)'
  <2>1. CASE WorkerStep(w)
    BY <1>1, <1>2, <2>1, RemovalOwnStep DEF ForgetInv
  <2>2. CASE ~WorkerStep(w)
    <3>1. k = job[w] /\ RemovalSound(k)
      BY <1>1, <1>2, <2>2, WhoMoved DEF ForgetInv
    <3>2. CASE k.pc \notin RemoveRound
      BY <3>2 DEF RemovalSound, RemoveRound
    <3>3. CASE k.pc \in RemoveRound
      <4>0. HoldsLock(w)
        BY <3>1, <3>3 DEF HoldsLock, RemoveRound
      <4>1. k.target \in Targets /\ k.pwd # None
        BY <1>1, <3>1, <3>3 DEF IInv, JobSound, TargetLabels, PwdLabels, RemoveRound
      <4>2. rows'[<<k.user, k.target>>] = rows[<<k.user, k.target>>]
        <5>1. CASE \E v \in Workers : WorkerStep(v)
          <6>1. PICK v \in Workers : WorkerStep(v)
            BY <5>1
          <6>2. StaysDry(job[v]) /\ v # w
            BY <2>2, <6>1 DEF ForgetInv, DryInv
          <6> QED
            BY <1>1, <3>1, <4>0, <4>1, <6>1, <6>2, OthersRows
        <5>2. CASE \A v \in Workers : ~WorkerStep(v)
          BY <4>0, <5>2, NobodysRows
        <5> QED
          BY <5>1, <5>2
      <4>3. k.pwd \in Nat /\ k.pwd < nextPwd
        BY <1>1, <3>1, <4>1 DEF IInv, JobSound, Claim
      <4>4. Gone(k.pwd) => Gone(k.pwd)'
        BY <1>1, <4>3, StaysGone
      <4> QED
        BY <3>1, <4>2, <4>4 DEF RemovalSound
    <3> QED
      BY <3>2, <3>3
  <2> QED
    BY <2>1, <2>2
<1>3. ASSUME NEW w \in Workers
      PROVE  RemovalSound(job[w])'
  <2>1. PICK k : k = job'[w]
    OBVIOUS
  <2>2. RemovalSound(k)'
    BY <1>2, <2>1
  <2> QED
    BY <2>1, <2>2 DEF RemovalSound, Gone
<1> QED
  BY <1>1, <1>3 DEF ForgetInv

(* With the requests of a user served in turn, and no failing call, a request  *)
(* forgets a row only when the app-password it named is gone from Mailcow:     *)
(* also when crashes and refused writes of earlier requests left rows half-way *)
(* through their removal, and whatever is done to mailboxes, entries and       *)
(* accounts around the service.                                                *)
THEOREM ForgottenAreRevoked ==
    ASSUME "call" \notin Faults
    PROVE  Spec /\ []Serial => ForgetsOnlyRevoked
<1>1. Init => ForgetInv
  BY PlanInitially DEF PlanInv, Init, ForgetInv, IdleJob, RemovalSound, RemoveRound
<1>2. ForgetInv /\ Serial /\ [Next]_vars => ForgetInv'
  BY ForgetStep
<1>3. ASSUME ForgetInv, [Next]_vars, NEW u \in Users, NEW t \in Targets,
             rows[<<u, t>>] # None, rows'[<<u, t>>] = None, job' # job
      PROVE  \A p \in pwds' : p.id # rows[<<u, t>>].pwd
  <2>0. IInv /\ StateTypeOK
    BY <1>3 DEF ForgetInv, DryInv, IInv, TypeOK
  <2>1. PICK w \in Workers : WorkerStep(w)
    BY <1>3, NobodyMoved
  <2>2. PICK j : j = job[w]
    OBVIOUS
  <2>3. StaysDry(job[w]) /\ RemovalSound(j)
    BY <1>3, <2>2 DEF ForgetInv, DryInv
  <2>4. ~TouchUser(j.user) /\ ~UNCHANGED stateVars
    BY <1>3 DEF TouchUser, stateVars
  <2>5. ~(Recorded(j) /\ j.pc \in {"adoptPut", "put"})
    <3>1. ASSUME Recorded(j), j.pc \in {"adoptPut", "put"}
          PROVE  FALSE
      <4>1. /\ j.user \in Users /\ j.target \in Targets
            /\ j.pwd \in Nat /\ j.acc \in Nat \union {None}
        BY <2>0, <2>2, <3>1, WriteTyped
      <4>2. /\ RowsOf(j.user)' = RowsOf(j.user) \union {j.target}
            /\ \A v \in Users \ {j.user} : RowsOf(v)' = RowsOf(v)
        BY <2>0, <3>1, <4>1, RowUpserted DEF Recorded
      <4>3. t \in RowsOf(u) /\ t \notin RowsOf(u)'
        BY <1>3 DEF RowsOf
      <4> QED
        BY <4>2, <4>3
    <3> QED
      BY <3>1
  <2>6. ForgetRow(w) /\ Forgotten(j)
    BY <2>0, <2>1, <2>2, <2>3, <2>4, <2>5, TableWrites DEF AdoptPut, PutRow, At
  <2>7. j.pc = "forget" /\ j.user \in Users /\ j.target \in Targets
    BY <2>0, <2>2, <2>6, WriteTyped DEF ForgetRow, At
  <2>8. \A v \in Users, s \in Targets :
           <<v, s>> # <<j.user, j.target>> => rows'[<<v, s>>] = rows[<<v, s>>]
    BY <2>0, <2>6, <2>7, RowDeleted DEF Forgotten
  <2>9. <<u, t>> = <<j.user, j.target>>
    BY <1>3, <2>8
  <2>10. rows[<<u, t>>].pwd = j.pwd /\ Gone(j.pwd)
    BY <2>3, <2>7, <2>9 DEF RemovalSound, RemoveRound
  <2>11. pwds' = pwds
    BY <2>6 DEF ForgetRow, mailcowVars
  <2> QED
    BY <2>10, <2>11 DEF Gone
<1>4. ForgetInv /\ [Next]_vars =>
        [\A u \in Users, t \in Targets :
            rows[<<u, t>>] # None /\ rows'[<<u, t>>] = None /\ job' # job =>
               \A p \in pwds' : p.id # rows[<<u, t>>].pwd]_vars
  BY <1>3
<1> QED
  BY <1>1, <1>2, <1>4, PTL DEF Spec, ForgetsOnlyRevoked

---------------------------------------------------------------------------
(* Pairs.  What there is for a user and a target: the ids of the entries that  *)
(* carry their marker, those of the accounts, what these log in with, the row. *)
Ids(u, t) == Matching(t, Marker(u, t))
Logins(u, t) == {a.secret : a \in {b \in accounts : b.user = u /\ b.email = t}}

Cell(u, t) == [ids    |-> Ids(u, t),
               accs   |-> AccountIds(u, t),
               logins |-> Logins(u, t),
               row    |-> rows[<<u, t>>]]

AccountsSound ==
    /\ \A a \in accounts : a.id < nextAcc
    /\ \A a, b \in accounts : a.id = b.id => a = b

LEMMA MarkersDiffer ==
    ASSUME NEW u, NEW t, NEW v, NEW s, Marker(u, t) = Marker(v, s)
    PROVE  u = v /\ t = s
BY DEF Marker

LEMMA CellKept ==
    ASSUME NEW u, NEW t, UNCHANGED pwds, UNCHANGED accounts, rows'[<<u, t>>] = rows[<<u, t>>]
    PROVE  Cell(u, t)' = Cell(u, t)
BY DEF Cell, Ids, Matching, AccountIds, Logins

LEMMA IdsIssued ==
    ASSUME NEW u, NEW t, Issue(t, Marker(u, t))
    PROVE  /\ Ids(u, t)' = Ids(u, t) \union {nextPwd}
           /\ \A v \in Users, s \in Targets :
                 <<v, s>> # <<u, t>> => Ids(v, s)' = Ids(v, s)
<1> DEFINE e == [id |-> nextPwd, mailbox |-> t, name |-> Marker(u, t)]
<1>1. e.id = nextPwd /\ e.mailbox = t /\ e.name = Marker(u, t)
  OBVIOUS
<1>2. pwds' = pwds \union {e}
  BY DEF Issue
<1> HIDE DEF e
<1>3. Ids(u, t)' = Ids(u, t) \union {nextPwd}
  BY <1>1, <1>2 DEF Ids, Matching, Marker
<1>4. ASSUME NEW v \in Users, NEW s \in Targets, <<v, s>> # <<u, t>>
      PROVE  Ids(v, s)' = Ids(v, s)
  <2>1. ~(e.mailbox = s /\ e.name = Marker(v, s))
    BY <1>1, <1>4, MarkersDiffer
  <2> QED
    BY <1>2, <2>1 DEF Ids, Matching, Marker
<1> QED
  BY <1>3, <1>4

LEMMA IdsRevoked ==
    ASSUME NEW u, NEW t, NEW id, MintedFor(id, u, t), Revoke(id)
    PROVE  /\ Ids(u, t)' = Ids(u, t) \ {id}
           /\ \A v \in Users, s \in Targets :
                 <<v, s>> # <<u, t>> => Ids(v, s)' = Ids(v, s)
<1>1. pwds' = {p \in pwds : p.id # id}
  BY DEF Revoke
<1>2. Ids(u, t)' = Ids(u, t) \ {id}
  BY <1>1 DEF Ids, Matching, Marker
<1>3. ASSUME NEW v \in Users, NEW s \in Targets, <<v, s>> # <<u, t>>
      PROVE  Ids(v, s)' = Ids(v, s)
  <2>1. \A p \in pwds : p.id = id => ~(p.mailbox = s /\ p.name = Marker(v, s))
    BY <1>3, MarkersDiffer DEF MintedFor
  <2> QED
    BY <1>1, <2>1 DEF Ids, Matching, Marker
<1> QED
  BY <1>2, <1>3

LEMMA AccountOpened ==
    ASSUME NEW u \in Users, NEW t \in Targets, NEW secret, OpenAccount(u, t, secret)
    PROVE  /\ AccountIds(u, t)' = AccountIds(u, t) \union {nextAcc}
           /\ Logins(u, t)' = Logins(u, t) \union {secret}
           /\ \A v \in Users, s \in Targets :
                 <<v, s>> # <<u, t>> => /\ AccountIds(v, s)' = AccountIds(v, s)
                                        /\ Logins(v, s)' = Logins(v, s)
<1> DEFINE b == [id |-> nextAcc, user |-> u, email |-> t, secret |-> secret]
<1>1. b.id = nextAcc /\ b.user = u /\ b.email = t /\ b.secret = secret
  OBVIOUS
<1>2. accounts' = accounts \union {b}
  BY DEF OpenAccount
<1> HIDE DEF b
<1>3. AccountIds(u, t)' = AccountIds(u, t) \union {nextAcc}
  BY <1>1, <1>2 DEF AccountIds
<1>4. Logins(u, t)' = Logins(u, t) \union {secret}
  BY <1>1, <1>2 DEF Logins
<1>5. ASSUME NEW v \in Users, NEW s \in Targets, <<v, s>> # <<u, t>>
      PROVE  /\ AccountIds(v, s)' = AccountIds(v, s)
             /\ Logins(v, s)' = Logins(v, s)
  <2>1. ~(b.user = v /\ b.email = s)
    BY <1>1, <1>5
  <2>2. AccountIds(v, s)' = AccountIds(v, s)
    BY <1>2, <2>1 DEF AccountIds
  <2>3. Logins(v, s)' = Logins(v, s)
    BY <1>2, <2>1 DEF Logins
  <2> QED
    BY <2>2, <2>3
<1> QED
  BY <1>3, <1>4, <1>5

LEMMA AccountClosed ==
    ASSUME AccountsSound, NEW u \in Users, NEW t \in Targets, NEW acc,
           AccountIds(u, t) = {acc}, CloseAccount(acc)
    PROVE  /\ AccountIds(u, t)' = {} /\ Logins(u, t)' = {}
           /\ \A v \in Users, s \in Targets :
                 <<v, s>> # <<u, t>> => /\ AccountIds(v, s)' = AccountIds(v, s)
                                        /\ Logins(v, s)' = Logins(v, s)
<1>1. accounts' = {a \in accounts : a.id # acc}
  BY DEF CloseAccount
<1>2. \A a \in accounts : a.id = acc <=> (a.user = u /\ a.email = t)
  BY DEF AccountIds, AccountsSound
<1>3. AccountIds(u, t)' = {} /\ Logins(u, t)' = {}
  BY <1>1, <1>2 DEF AccountIds, Logins
<1>4. ASSUME NEW v \in Users, NEW s \in Targets, <<v, s>> # <<u, t>>
      PROVE  /\ AccountIds(v, s)' = AccountIds(v, s)
             /\ Logins(v, s)' = Logins(v, s)
  <2>1. \A a \in accounts : a.user = v /\ a.email = s => a.id # acc
    BY <1>2, <1>4
  <2>2. AccountIds(v, s)' = AccountIds(v, s)
    BY <1>1, <2>1 DEF AccountIds
  <2>3. Logins(v, s)' = Logins(v, s)
    BY <1>1, <2>1 DEF Logins
  <2> QED
    BY <2>2, <2>3
<1> QED
  BY <1>3, <1>4

(* The states such a cell can be in *)
Bare(c) == c.ids = {} /\ c.accs = {} /\ c.logins = {}
Half(c, pwd) == c.ids = {pwd} /\ c.accs = {} /\ c.logins = {}
Holds(c, pwd, acc) == c.ids = {pwd} /\ c.accs = {acc} /\ c.logins = {pwd}

Whole(c) == \E pwd, acc : Holds(c, pwd, acc)
Unrecorded(c) == c.row = None /\ (Bare(c) \/ Whole(c))
Exact(c) == \/ c.row = None /\ Bare(c)
            \/ c.row # None /\ Holds(c, c.row.pwd, c.row.acc)

AdoptLabels == {"adopt", "adoptFind", "adoptPut"}
AtWork == {"adoptFind", "adoptPut"} \union AddRound \union RemoveRound

Working(j, t) == j.pc \in AtWork /\ t = j.target
Pending(j, t) == j.pc \in AdoptLabels /\ t \in j.scan

(* The cell of the target that a request is at *)
TargetCell(j, c) ==
    /\ j.pc \in {"adoptFind", "adoptPut"} \union AddRound => c.row = None
    /\ j.pc = "adoptFind" => Whole(c) /\ j.ids = c.ids
    /\ j.pc = "adoptPut" => Holds(c, j.pwd, j.acc) /\ j.ids = {}
    /\ j.pc = "post" => Bare(c)
    /\ j.pc = "find" => Half(c, j.secret)
    /\ j.pc = "create" => Half(c, j.pwd) /\ j.pwd = j.secret
    /\ j.pc = "lookup" => \E acc : Holds(c, j.pwd, acc)
    /\ j.pc = "put" => Holds(c, j.pwd, j.acc)
    /\ j.pc # "rollback"
    /\ j.pc \in RemoveRound => c.row # None
    /\ j.pc = "close" => Holds(c, j.pwd, j.acc)
    /\ j.pc = "revoke" => Half(c, j.pwd)
    /\ j.pc = "forget" => Bare(c)

(* The cell of t while the request j works for its user *)
CellFor(j, t, c) ==
    /\ Working(j, t) => TargetCell(j, c)
    /\ ~Working(j, t) => IF Pending(j, t) THEN Unrecorded(c) ELSE Exact(c)
    /\ Pending(j, t) => ~Working(j, t)
    /\ j.pc \in DiffLabels /\ t \in j.toAdd => c.row = None /\ ~Working(j, t)

Adopting(j) == j.pc \in AdoptLabels
Applying(j) == j.pc \in DiffLabels

(* A target that the request is neither at before nor after the step *)
LEMMA OtherCell ==
    ASSUME NEW j, NEW k, NEW t, NEW c, CellFor(j, t, c),
           ~Working(j, t), ~Working(k, t),
           \/ Adopting(j) /\ Adopting(k) /\ (t \in k.scan <=> t \in j.scan)
           \/ Applying(j) /\ Applying(k) /\ k.toAdd \subseteq j.toAdd
    PROVE  CellFor(k, t, c)
<1>1. AdoptLabels \intersect DiffLabels = {}
  BY DEF AdoptLabels, DiffLabels, AddRound, RemoveRound
<1> QED
  BY <1>1 DEF CellFor, Pending, Adopting, Applying

(* The one that it is at after the step *)
LEMMA CellAtWork ==
    ASSUME NEW k, NEW c, k.pc \in AtWork, TargetCell(k, c),
           \/ Adopting(k) /\ k.target \notin k.scan
           \/ Applying(k) /\ k.target \notin k.toAdd
    PROVE  CellFor(k, k.target, c)
<1>1. AdoptLabels \intersect DiffLabels = {}
  BY DEF AdoptLabels, DiffLabels, AddRound, RemoveRound
<1> QED
  BY <1>1 DEF CellFor, Working, Pending, Adopting, Applying

(* The one that it has done with *)
LEMMA CellDone ==
    ASSUME NEW k, NEW t, NEW c, Exact(c), k.pc \notin AtWork,
           \/ Adopting(k) /\ t \notin k.scan
           \/ Applying(k) /\ (t \in k.toAdd => c.row = None)
    PROVE  CellFor(k, t, c)
<1>1. AdoptLabels \intersect DiffLabels = {}
  BY DEF AdoptLabels, DiffLabels, AddRound, RemoveRound
<1> QED
  BY <1>1 DEF CellFor, Working, Pending, Adopting, Applying

EntriesSound ==
    \A p \in pwds : p.mailbox \in mailboxes /\ \E u \in Users : p.name = Marker(u, p.mailbox)

(* All cells of a user between the requests that write: exact, unless the      *)
(* database was lost since, or the user is new.                                *)
Loose(u) ==
    \/ u \notin seen /\ \A t \in Targets : Unrecorded(Cell(u, t))
    \/ \A t \in Targets : Exact(Cell(u, t))

Serves(j) == j.dry = FALSE /\ j.pc \in LateLabels

JobPaired(j) ==
    /\ j.pc \notin {"idle", "lock", "list"} => j.want \subseteq mailboxes
    /\ j.pc = "adoptList" /\ j.dry = FALSE => RowsOf(j.user) = {}
    /\ Serves(j) => \A t \in Targets : CellFor(j, t, Cell(j.user, t))

PairInv ==
    /\ PlanInv
    /\ AccountsSound
    /\ EntriesSound
    /\ \A w \in Workers : JobPaired(job[w])
    /\ \A u \in Users : Loose(u) \/ \E w \in Workers : Serves(job[w]) /\ job[w].user = u

---------------------------------------------------------------------------
(* What each step does to the cells *)
LEMMA QuietCells ==
    ASSUME StoresKept
    PROVE  \A v, s : Cell(v, s)' = Cell(v, s)
BY CellKept DEF StoresKept, mailcowVars, nextcloudVars, stateVars

(* A row is written where there was none. *)
LEMMA CellRecorded ==
    ASSUME IInv, NEW w \in Workers, job[w].pc \in {"adoptPut", "put"},
           NEW j, j = job[w], Recorded(j), UNCHANGED <<mailcowVars, nextcloudVars>>,
           NEW c, c = Cell(j.user, j.target), c.row = None, Holds(c, j.pwd, j.acc)
    PROVE  /\ Exact(Cell(j.user, j.target)')
           /\ \A v \in Users, s \in Targets :
                 <<v, s>> # <<j.user, j.target>> => Cell(v, s)' = Cell(v, s)
<1>1. StateTypeOK
  BY DEF IInv, TypeOK
<1>2. /\ j.user \in Users /\ j.target \in Targets
      /\ j.pwd \in Nat /\ j.acc \in Nat \union {None}
  BY WriteTyped
<1>3. PICK u, t : u = j.user /\ t = j.target
  OBVIOUS
<1>4. rows[<<u, t>>] = None
  BY <1>3 DEF Cell
<1>5. /\ rows'[<<u, t>>] # None /\ rows'[<<u, t>>].pwd = j.pwd /\ rows'[<<u, t>>].acc = j.acc
      /\ \A v \in Users, s \in Targets :
            <<v, s>> # <<u, t>> => rows'[<<v, s>>] = rows[<<v, s>>]
  <2>1. PICK row : row = [pwd |-> j.pwd, acc |-> j.acc]
    OBVIOUS
  <2>2. row.pwd = j.pwd /\ row.acc = j.acc /\ row \in Row
    BY <1>2, <2>1 DEF Row
  <2>3. rows' = [rows EXCEPT ![<<u, t>>] = row]
    BY <1>3, <1>4, <2>1 DEF Recorded, Upsert, Merged
  <2>4. rows \in [Users \X Targets -> Row \union {None}] /\ <<u, t>> \in Users \X Targets
    BY <1>1, <1>2, <1>3 DEF StateTypeOK
  <2>5. rows'[<<u, t>>] = row /\ row # None
    BY <2>2, <2>3, <2>4, NoRowAssumption
  <2>6. ASSUME NEW v \in Users, NEW s \in Targets, <<v, s>> # <<u, t>>
        PROVE  rows'[<<v, s>>] = rows[<<v, s>>]
    BY <2>3, <2>4, <2>6
  <2> QED
    BY <2>2, <2>5, <2>6
<1>6. PICK d : d = Cell(u, t)'
  OBVIOUS
<1>7. pwds' = pwds /\ accounts' = accounts
  BY DEF mailcowVars, nextcloudVars
<1>8. d.ids = c.ids /\ d.accs = c.accs /\ d.logins = c.logins
  BY <1>3, <1>6, <1>7 DEF Cell, Ids, Matching, AccountIds, Logins
<1>9. d.row # None /\ d.row.pwd = j.pwd /\ d.row.acc = j.acc
  BY <1>5, <1>6 DEF Cell
<1>10. Exact(d)
  BY <1>8, <1>9 DEF Exact, Holds
<1>11. ASSUME NEW v \in Users, NEW s \in Targets, <<v, s>> # <<u, t>>
       PROVE  Cell(v, s)' = Cell(v, s)
  BY <1>5, <1>7, <1>11, CellKept
<1> QED
  BY <1>3, <1>6, <1>10, <1>11


LEMMA AdoptionPairs ==
    ASSUME IInv, Faults = {}, NEW w \in Workers, NEW j, NEW k, j = job[w], k = job'[w],
           Serves(j), \A t \in Targets : CellFor(j, t, Cell(j.user, t)),
           Adoption(w)
    PROVE  /\ \A t \in Targets : CellFor(k, t, Cell(j.user, t)')
           /\ \A v \in Users, s \in Targets : v # j.user => Cell(v, s)' = Cell(v, s)
<1>1. PICK u : u = j.user
  OBVIOUS
<1>2. AdoptLabels \intersect DiffLabels = {}
  BY DEF AdoptLabels, DiffLabels, AddRound, RemoveRound
<1>3. \A c : Whole(c) => c.ids # {}
  BY DEF Whole, Holds
<1>4. CASE AdoptList(w)
  BY <1>4 DEF AdoptList, At, Serves, LateLabels
<1>5. CASE AdoptScan(w)
  <2>1. j.pc = "adopt" /\ Scans(j, k) /\ StoresKept
    BY <1>5, AdoptionShape
  <2>2. PICK t0 \in j.scan :
          /\ k.scan = j.scan \ {t0}
          /\ \/ k.pc = "adopt" /\ Ids(u, t0) = {}
             \/ /\ k.pc = "adoptFind" /\ k.target = t0
                /\ k.ids = Ids(u, t0) /\ Ids(u, t0) # {}
    BY <1>1, <2>1 DEF Scans, Adoptable, Ids
  <2>3. \A v, s : Cell(v, s)' = Cell(v, s)
    BY <2>1, QuietCells
  <2>4. ASSUME NEW t \in Targets, NEW c, c = Cell(u, t)
        PROVE  CellFor(k, t, c)
    <3>1. CellFor(j, t, c) /\ ~Working(j, t)
      BY <1>1, <2>1, <2>4 DEF Working, AtWork, AddRound, RemoveRound
    <3>2. Adopting(j) /\ Adopting(k)
      BY <2>1, <2>2 DEF Adopting, AdoptLabels
    <3>3. CASE t # t0
      BY <2>2, <3>1, <3>2, <3>3, OtherCell
         DEF Working, AtWork, AddRound, RemoveRound
    <3>4. CASE t = t0
      <4>1. Unrecorded(c) /\ c.ids = Ids(u, t0)
        BY <2>1, <2>4, <3>1, <3>2, <3>4 DEF CellFor, Pending, Adopting, Cell
      <4>2. CASE k.pc = "adopt"
        <5>1. Exact(c)
          BY <1>3, <2>2, <4>1, <4>2 DEF Unrecorded, Exact
        <5> QED
          BY <2>2, <3>2, <3>4, <4>2, <5>1, CellDone DEF AtWork, AddRound, RemoveRound
      <4>3. CASE k.pc = "adoptFind"
        <5>1. Whole(c) /\ k.target = t /\ k.ids = c.ids /\ c.row = None
          BY <2>2, <3>4, <4>1, <4>3 DEF Unrecorded, Bare
        <5>2. TargetCell(k, c)
          BY <4>3, <5>1 DEF TargetCell, AddRound, RemoveRound
        <5> QED
          BY <2>2, <3>2, <4>3, <5>1, <5>2, CellAtWork DEF AtWork
      <4> QED
        BY <2>2, <4>2, <4>3
    <3> QED
      BY <3>3, <3>4
  <2> QED
    BY <1>1, <2>3, <2>4
<1>6. CASE AdoptFind(w)
  <2>1. /\ j.pc = "adoptFind" /\ k.pc = "adoptPut" /\ StoresKept
        /\ k.target = j.target /\ k.scan = j.scan
        /\ k.pwd \in j.ids /\ k.ids = j.ids \ {k.pwd}
        /\ k.acc \in Lookups(u, j.target)
    BY <1>1, <1>6, AdoptionShape
  <2>2. \A v, s : Cell(v, s)' = Cell(v, s)
    BY <2>1, QuietCells
  <2>3. Adopting(j) /\ Adopting(k)
    BY <2>1 DEF Adopting, AdoptLabels
  <2>4. ASSUME NEW t \in Targets, NEW c, c = Cell(u, t)
        PROVE  CellFor(k, t, c)
    <3>1. CellFor(j, t, c)
      BY <1>1, <2>4
    <3>2. CASE t # j.target
      BY <2>1, <2>3, <3>1, <3>2, OtherCell DEF Working
    <3>3. CASE t = j.target
      <4>1. Working(j, t)
        BY <2>1, <3>3 DEF Working, AtWork
      <4>2. Whole(c) /\ j.ids = c.ids /\ c.row = None /\ t \notin j.scan
        BY <2>1, <2>3, <3>1, <4>1 DEF CellFor, TargetCell, Pending, Adopting
      <4>3. PICK pwd, acc : Holds(c, pwd, acc)
        BY <4>2 DEF Whole
      <4>4. k.pwd = pwd /\ k.ids = {}
        BY <2>1, <4>2, <4>3 DEF Holds
      <4>5. AccountIds(u, t) = {acc}
        BY <2>4, <4>3 DEF Holds, Cell
      <4>6. k.acc = acc
        BY <2>1, <3>3, <4>5 DEF Lookups
      <4>7. TargetCell(k, c)
        BY <2>1, <4>2, <4>3, <4>4, <4>6 DEF TargetCell, AddRound, RemoveRound
      <4> QED
        BY <2>1, <2>3, <3>3, <4>2, <4>7, CellAtWork DEF AtWork
    <3> QED
      BY <3>2, <3>3
  <2> QED
    BY <1>1, <2>2, <2>4
<1>7. CASE AdoptPut(w)
  <2>1. /\ j.pc = "adoptPut" /\ UNCHANGED <<mailcowVars, nextcloudVars>>
        /\ RecordAdopted(j) /\ k.scan = j.scan
        /\ \/ j.ids = {} /\ k.pc = "adopt"
           \/ k.pc = "adoptFind" /\ j.ids # {}
    BY <1>7, AdoptionShape
  <2>2. PICK c0 : c0 = Cell(u, j.target)
    OBVIOUS
  <2>3. j.target \in Targets /\ j.user \in Users
    BY <2>1, WriteTyped
  <2>4. Working(j, j.target) /\ CellFor(j, j.target, c0)
    BY <1>1, <2>1, <2>2, <2>3 DEF Working, AtWork
  <2>5. Holds(c0, j.pwd, j.acc) /\ j.ids = {} /\ c0.row = None /\ j.target \notin j.scan
    BY <2>1, <2>4 DEF CellFor, TargetCell, Pending, AdoptLabels
  <2>6. k.pc = "adopt"
    BY <2>1, <2>5
  <2>7. Adopting(j) /\ Adopting(k)
    BY <2>1, <2>6 DEF Adopting, AdoptLabels
  <2>8. Recorded(j)
    BY <2>1 DEF RecordAdopted, Recorded, Serves
  <2>9. /\ Exact(Cell(j.user, j.target)')
        /\ \A v \in Users, s \in Targets :
              <<v, s>> # <<j.user, j.target>> => Cell(v, s)' = Cell(v, s)
    BY <1>1, <2>1, <2>2, <2>5, <2>8, CellRecorded
  <2>10. ASSUME NEW t \in Targets
         PROVE  CellFor(k, t, Cell(j.user, t)')
    <3>1. CASE t = j.target
      BY <2>1, <2>5, <2>6, <2>7, <2>9, <3>1, CellDone DEF AtWork, AddRound, RemoveRound
    <3>2. CASE t # j.target
      <4>1. PICK c : c = Cell(j.user, t)
        OBVIOUS
      <4>2. Cell(j.user, t)' = c
        BY <2>3, <2>9, <3>2, <4>1
      <4>3. CellFor(k, t, c)
        BY <2>1, <2>6, <2>7, <3>2, <4>1, OtherCell
           DEF Working, AtWork, AddRound, RemoveRound
      <4> QED
        BY <4>2, <4>3
    <3> QED
      BY <3>1, <3>2
  <2> QED
    BY <2>9, <2>10
<1>8. CASE AdoptDone(w)
  <2>1. /\ j.pc = "adopt" /\ j.scan = {} /\ StoresKept
        /\ PlansFrom(k, CurrentTargets(j))
    BY <1>8, AdoptionShape
  <2>2. \A v, s : Cell(v, s)' = Cell(v, s)
    BY <2>1, QuietCells
  <2>3. k.pc = "gate" /\ k.toAdd \intersect RowsOf(u) = {}
    BY <1>1, <2>1 DEF PlansFrom, CurrentTargets, Serves
  <2>4. ASSUME NEW t \in Targets, NEW c, c = Cell(u, t)
        PROVE  CellFor(k, t, c)
    <3>1. CellFor(j, t, c) /\ ~Working(j, t) /\ ~Pending(j, t)
      BY <1>1, <2>1, <2>4 DEF Working, AtWork, AddRound, RemoveRound, Pending
    <3>2. Exact(c) /\ (t \in k.toAdd => c.row = None)
      BY <2>3, <2>4, <3>1 DEF CellFor, RowsOf, Cell
    <3> QED
      BY <2>3, <3>2, CellDone DEF Applying, DiffLabels, AtWork, AddRound, RemoveRound
  <2> QED
    BY <1>1, <2>2, <2>4
<1> QED
  BY <1>4, <1>5, <1>6, <1>7, <1>8 DEF Adoption
(* A step changes no other cell than that of (u, t). *)
OnlyCell(u, t) ==
    \A v \in Users, s \in Targets : <<v, s>> # <<u, t>> => Cell(v, s)' = Cell(v, s)

LEMMA CellSame ==
    ASSUME NEW u, NEW t, Ids(u, t)' = Ids(u, t), AccountIds(u, t)' = AccountIds(u, t),
           Logins(u, t)' = Logins(u, t), rows'[<<u, t>>] = rows[<<u, t>>]
    PROVE  Cell(u, t)' = Cell(u, t)
BY DEF Cell

LEMMA NoIdsMove ==
    ASSUME UNCHANGED mailcowVars, NEW u, NEW t
    PROVE  Ids(u, t)' = Ids(u, t)
BY DEF mailcowVars, Ids, Matching

LEMMA NoAccountsMove ==
    ASSUME UNCHANGED nextcloudVars, NEW u, NEW t
    PROVE  AccountIds(u, t)' = AccountIds(u, t) /\ Logins(u, t)' = Logins(u, t)
BY DEF nextcloudVars, AccountIds, Logins

(* A step within the round of one target: d is what its cell becomes. *)
LEMMA RoundCells ==
    ASSUME NEW j, NEW k, j.user \in Users, j.target \in Targets,
           \A t \in Targets : CellFor(j, t, Cell(j.user, t)),
           j.pc \in AddRound \union RemoveRound, Applying(k), k.toAdd = j.toAdd,
           OnlyCell(j.user, j.target), NEW d, d = Cell(j.user, j.target)',
           k.pc \in AtWork => k.target = j.target /\ TargetCell(k, d),
           k.pc \notin AtWork => Exact(d)
    PROVE  /\ \A t \in Targets : CellFor(k, t, Cell(j.user, t)')
           /\ \A v \in Users, s \in Targets : v # j.user => Cell(v, s)' = Cell(v, s)
<1>1. Applying(j) /\ Working(j, j.target) /\ j.target \notin j.toAdd
  BY DEF CellFor, Applying, DiffLabels, Working, AtWork
<1>2. CellFor(k, j.target, d)
  <2>1. CASE k.pc \in AtWork
    BY <1>1, <2>1, CellAtWork
  <2>2. CASE k.pc \notin AtWork
    BY <1>1, <2>2, CellDone
  <2> QED
    BY <2>1, <2>2
<1>3. ASSUME NEW t \in Targets, t # j.target
      PROVE  CellFor(k, t, Cell(j.user, t)')
  <2>1. PICK c : c = Cell(j.user, t)
    OBVIOUS
  <2>2. Cell(j.user, t)' = c
    BY <1>3, <2>1 DEF OnlyCell
  <2>3. ~Working(j, t) /\ ~Working(k, t)
    BY <1>3 DEF Working
  <2>4. CellFor(k, t, c)
    BY <1>1, <2>1, <2>3, OtherCell
  <2> QED
    BY <2>2, <2>4
<1> QED
  BY <1>2, <1>3 DEF OnlyCell

(* The request begins or ends a loop, or takes the next target; no store moves. *)
LEMMA LoopCells ==
    ASSUME NEW j, NEW k, StoresKept,
           \A t \in Targets : CellFor(j, t, Cell(j.user, t)),
           j.pc \in {"gate", "add", "remove"}, Applying(k), k.toAdd \subseteq j.toAdd,
           k.pc \in AtWork =>
              /\ k.target \in Targets /\ k.target \notin k.toAdd
              /\ TargetCell(k, Cell(j.user, k.target))
    PROVE  /\ \A t \in Targets : CellFor(k, t, Cell(j.user, t)')
           /\ \A v \in Users, s \in Targets : v # j.user => Cell(v, s)' = Cell(v, s)
<1>1. \A v, s : Cell(v, s)' = Cell(v, s)
  BY QuietCells
<1>2. Applying(j) /\ \A t : ~Working(j, t)
  BY DEF Applying, DiffLabels, Working, AtWork, AddRound, RemoveRound
<1>3. ASSUME NEW t \in Targets, NEW c, c = Cell(j.user, t)
      PROVE  CellFor(k, t, c)
  <2>1. CellFor(j, t, c)
    BY <1>3
  <2>2. CASE ~Working(k, t)
    BY <1>2, <2>1, <2>2, OtherCell
  <2>3. CASE Working(k, t)
    BY <1>3, <2>3, CellAtWork DEF Working
  <2> QED
    BY <2>2, <2>3
<1> QED
  BY <1>1, <1>3
LEMMA AdditionPairs ==
    ASSUME IInv, Faults = {}, NEW w \in Workers, NEW j, NEW k, j = job[w], k = job'[w],
           Serves(j), \A t \in Targets : CellFor(j, t, Cell(j.user, t)),
           PlanSound(j), j.want \subseteq mailboxes, Gate(w) \/ Addition(w)
    PROVE  /\ \A t \in Targets : CellFor(k, t, Cell(j.user, t)')
           /\ \A v \in Users, s \in Targets : v # j.user => Cell(v, s)' = Cell(v, s)
<1>1. PICK u, t0 : u = j.user /\ t0 = j.target
  OBVIOUS
<1>2. j.user \in Users /\ j.want \subseteq Targets /\ j.dry = FALSE /\ j.toAdd \subseteq Targets
  BY DEF Serves, LateLabels, IInv, JobSound, TypeOK, Job
<1>3. ASSUME j.pc \in AddRound
      PROVE  /\ t0 \in Targets /\ TargetCell(j, Cell(u, t0)) /\ t0 \in mailboxes
  <2>1. t0 \in j.want
    BY <1>1, <1>2, <1>3 DEF PlanSound, PlanFor, DiffLabels
  <2>2. Working(j, t0)
    BY <1>1, <1>3 DEF Working, AtWork
  <2> QED
    BY <1>1, <1>2, <2>1, <2>2 DEF CellFor
<1>4. PICK c : c = Cell(u, t0)
  OBVIOUS
<1>5. PICK d : d = Cell(u, t0)'
  OBVIOUS
<1>6. CASE Gate(w)
  <2>1. j.pc = "gate" /\ k.pc = "add" /\ StoresKept /\ k.toAdd \subseteq j.toAdd
    BY <1>6, StartShape
  <2> QED
    BY <2>1, LoopCells DEF Applying, DiffLabels, AtWork, AddRound, RemoveRound
<1>7. CASE EndAdds(w)
  <2>1. j.pc = "add" /\ k.pc = "remove" /\ StoresKept /\ k.toAdd = j.toAdd
    BY <1>7, AdditionShape DEF AsPlanned
  <2> QED
    BY <2>1, LoopCells DEF Applying, DiffLabels, AtWork, AddRound, RemoveRound
<1>8. CASE StartAdd(w)
  <2>1. j.pc = "add" /\ StoresKept /\ TakesTarget(j, k)
    BY <1>8, AdditionShape
  <2>2. PICK t \in j.toAdd : /\ k.toAdd = j.toAdd \ {t}
                             /\ k.pc = "post" /\ k.target = t
    BY <1>2, <2>1 DEF TakesTarget
  <2>3. CellFor(j, t, Cell(j.user, t))
    BY <1>2
  <2>4. Exact(Cell(j.user, t)) /\ Cell(j.user, t).row = None
    BY <2>1, <2>3 DEF CellFor, Working, Pending, AtWork, AddRound, RemoveRound, AdoptLabels,
                      DiffLabels
  <2>5. TargetCell(k, Cell(j.user, t))
    BY <2>2, <2>4 DEF TargetCell, Exact, AddRound, RemoveRound
  <2> QED
    BY <1>2, <2>1, <2>2, <2>5, LoopCells DEF Applying, DiffLabels, AddRound
<1>9. CASE PostAppPasswd(w)
  <2>1. j.pc = "post" /\ UNCHANGED <<nextcloudVars, stateVars>>
    BY <1>9, AdditionShape
  <2>2. /\ Issue(t0, Marker(u, t0)) /\ k.pc = "find" /\ k.toAdd = j.toAdd
        /\ k.target = t0 /\ k.secret = nextPwd
    <3>1. t0 \in mailboxes
      BY <1>3, <2>1 DEF AddRound
    <3> QED
      BY <1>1, <1>9, <3>1, AdditionShape DEF AsPlanned
  <2>3. /\ Ids(u, t0)' = Ids(u, t0) \union {nextPwd}
        /\ \A v \in Users, s \in Targets : <<v, s>> # <<u, t0>> => Ids(v, s)' = Ids(v, s)
    BY <2>2, IdsIssued
  <2>4. OnlyCell(u, t0)
    BY <2>1, <2>3, NoAccountsMove, CellSame DEF OnlyCell, stateVars
  <2>5. Bare(c) /\ c.row = None /\ t0 \in Targets
    BY <1>3, <1>4, <2>1 DEF TargetCell, AddRound
  <2>6. d.ids = {nextPwd} /\ d.accs = {} /\ d.logins = {} /\ d.row = None
    BY <1>4, <1>5, <2>1, <2>3, <2>5, NoAccountsMove DEF Bare, Cell, stateVars
  <2>7. TargetCell(k, d)
    BY <2>2, <2>6 DEF TargetCell, Half, AddRound, RemoveRound
  <2> QED
    BY <1>1, <1>2, <1>5, <2>1, <2>2, <2>4, <2>5, <2>7, RoundCells
       DEF Applying, DiffLabels, AtWork, AddRound
<1>10. CASE FindAppPasswd(w)
  <2>1. j.pc = "find" /\ t0 \in Targets /\ c.row = None /\ Half(c, j.secret)
    <3>1. j.pc = "find"
      BY <1>10, AdditionShape
    <3> QED
      BY <1>3, <1>4, <3>1 DEF TargetCell, AddRound
  <2>2. FoundByName(t0, Marker(u, t0)) = {j.secret}
    BY <1>4, <2>1 DEF Half, Cell, Ids, FoundByName
  <2>3. StoresKept /\ k.pc = "create" /\ SameEntry(j, k) /\ k.pwd = j.secret
    BY <1>1, <1>10, <2>2, AdditionShape
  <2>4. d = c /\ OnlyCell(u, t0)
    BY <1>4, <1>5, <2>3, QuietCells DEF OnlyCell
  <2>5. TargetCell(k, d) /\ k.target = t0 /\ k.toAdd = j.toAdd
    BY <1>1, <2>1, <2>3, <2>4 DEF TargetCell, AddRound, RemoveRound, SameEntry, AsPlanned
  <2> QED
    BY <1>1, <1>2, <1>5, <2>1, <2>3, <2>4, <2>5, RoundCells
       DEF Applying, DiffLabels, AtWork, AddRound
<1>11. CASE CreateAccount(w)
  <2>1. /\ j.pc = "create" /\ UNCHANGED <<mailcowVars, stateVars>>
        /\ SameEntry(j, k) /\ k.pwd = j.pwd
        /\ k.pc = "lookup" /\ OpenAccount(u, t0, j.secret)
    BY <1>1, <1>11, AdditionShape
  <2>2. t0 \in Targets /\ c.row = None /\ Half(c, j.pwd) /\ j.pwd = j.secret
    BY <1>3, <1>4, <2>1 DEF TargetCell, AddRound
  <2>3. /\ AccountIds(u, t0)' = AccountIds(u, t0) \union {nextAcc}
        /\ Logins(u, t0)' = Logins(u, t0) \union {j.secret}
        /\ \A v \in Users, s \in Targets :
              <<v, s>> # <<u, t0>> => /\ AccountIds(v, s)' = AccountIds(v, s)
                                      /\ Logins(v, s)' = Logins(v, s)
    BY <1>1, <1>2, <2>1, <2>2, AccountOpened
  <2>4. OnlyCell(u, t0)
    BY <2>1, <2>3, NoIdsMove, CellSame DEF OnlyCell, stateVars
  <2>5. d.ids = {j.pwd} /\ d.accs = {nextAcc} /\ d.logins = {j.pwd} /\ d.row = None
    BY <1>4, <1>5, <2>1, <2>2, <2>3, NoIdsMove DEF Half, Cell, stateVars
  <2>6. TargetCell(k, d) /\ k.target = t0 /\ k.toAdd = j.toAdd
    BY <1>1, <2>1, <2>5 DEF TargetCell, Holds, AddRound, RemoveRound, SameEntry, AsPlanned
  <2> QED
    BY <1>1, <1>2, <1>5, <2>1, <2>2, <2>4, <2>6, RoundCells
       DEF Applying, DiffLabels, AtWork, AddRound
<1>12. CASE LookupAccount(w)
  <2>1. /\ j.pc = "lookup" /\ StoresKept /\ SameEntry(j, k) /\ k.pwd = j.pwd
        /\ k.pc = "put" /\ k.acc \in Lookups(u, t0)
    BY <1>1, <1>12, AdditionShape
  <2>2. t0 \in Targets /\ c.row = None /\ \E acc : Holds(c, j.pwd, acc)
    BY <1>3, <1>4, <2>1 DEF TargetCell, AddRound
  <2>3. PICK acc : Holds(c, j.pwd, acc)
    BY <2>2
  <2>4. k.acc = acc
    BY <1>4, <2>1, <2>3 DEF Holds, Cell, Lookups
  <2>5. d = c /\ OnlyCell(u, t0)
    BY <1>4, <1>5, <2>1, QuietCells DEF OnlyCell
  <2>6. TargetCell(k, d) /\ k.target = t0 /\ k.toAdd = j.toAdd
    BY <1>1, <2>1, <2>2, <2>3, <2>4, <2>5
       DEF TargetCell, AddRound, RemoveRound, SameEntry, AsPlanned
  <2> QED
    BY <1>1, <1>2, <1>5, <2>1, <2>2, <2>5, <2>6, RoundCells
       DEF Applying, DiffLabels, AtWork, AddRound
<1>13. CASE RollBack(w)
  <2>1. j.pc = "rollback"
    BY <1>13, AdditionShape
  <2> QED
    BY <1>3, <2>1 DEF TargetCell, AddRound
<1>14. CASE PutRow(w)
  <2>1. /\ j.pc = "put" /\ UNCHANGED <<mailcowVars, nextcloudVars>>
        /\ Recorded(j) /\ RoundDone(j, k)
    BY <1>14, AdditionShape DEF Recorded
  <2>2. t0 \in Targets /\ c.row = None /\ Holds(c, j.pwd, j.acc)
    BY <1>3, <1>4, <2>1 DEF TargetCell, AddRound
  <2>3. Exact(d) /\ OnlyCell(u, t0)
    BY <1>1, <1>4, <1>5, <2>1, <2>2, CellRecorded DEF OnlyCell
  <2>4. k.pc = "add" /\ k.toAdd = j.toAdd
    BY <2>1 DEF RoundDone, RoundOver
  <2> QED
    BY <1>1, <1>2, <1>5, <2>1, <2>2, <2>3, <2>4, RoundCells
       DEF Applying, DiffLabels, AtWork, AddRound, RemoveRound
<1> QED
  BY <1>6, <1>7, <1>8, <1>9, <1>10, <1>11, <1>12, <1>13, <1>14 DEF Addition
LEMMA RemovalPairs ==
    ASSUME IInv, Faults = {}, AccountsSound, NEW w \in Workers, NEW j, NEW k,
           j = job[w], k = job'[w],
           Serves(j), \A t \in Targets : CellFor(j, t, Cell(j.user, t)),
           \/ StartRemove(w) \/ DeleteAccount(w) \/ DeleteAppPasswd(w) \/ ForgetRow(w)
    PROVE  /\ \A t \in Targets : CellFor(k, t, Cell(j.user, t)')
           /\ \A v \in Users, s \in Targets : v # j.user => Cell(v, s)' = Cell(v, s)
<1>1. PICK u, t0 : u = j.user /\ t0 = j.target
  OBVIOUS
<1>2. j.user \in Users /\ j.dry = FALSE /\ j.toRemove \subseteq Targets
  BY DEF Serves, LateLabels, IInv, JobSound, TypeOK, Job
<1>3. ASSUME j.pc \in RemoveRound
      PROVE  /\ t0 \in Targets /\ TargetCell(j, Cell(u, t0))
             /\ Claim(j.pwd, u, t0)
  <2>1. t0 \in Targets /\ Claim(j.pwd, u, t0)
    BY <1>1, <1>3 DEF IInv, JobSound, TargetLabels, PwdLabels, RemoveRound
  <2>2. Working(j, t0)
    BY <1>1, <1>3 DEF Working, AtWork
  <2> QED
    BY <1>1, <2>1, <2>2 DEF CellFor
<1>4. PICK c : c = Cell(u, t0)
  OBVIOUS
<1>5. PICK d : d = Cell(u, t0)'
  OBVIOUS
<1>6. CASE StartRemove(w)
  <2>1. j.pc = "remove" /\ StoresKept /\ k.toAdd = j.toAdd /\ TakesRow(j, k)
    BY <1>6, StartRemoveShape
  <2>2. PICK t \in j.toRemove :
          \/ k.pc = "remove"
          \/ /\ k.pc = "close" /\ k.target = t
             /\ rows[<<u, t>>] # None
             /\ k.pwd = rows[<<u, t>>].pwd /\ k.acc = rows[<<u, t>>].acc
    BY <1>1, <2>1 DEF TakesRow
  <2>3. CASE k.pc = "remove"
    BY <2>1, <2>3, LoopCells DEF Applying, DiffLabels, AtWork, AddRound, RemoveRound
  <2>4. CASE k.pc = "close"
    <3>1. PICK b : b = Cell(u, t)
      OBVIOUS
    <3>2. CellFor(j, t, b) /\ t \in Targets
      BY <1>1, <1>2, <3>1
    <3>3. k.target = t /\ b.row # None /\ k.pwd = b.row.pwd /\ k.acc = b.row.acc
      BY <2>2, <2>4, <3>1 DEF Cell
    <3>4. Exact(b) /\ t \notin j.toAdd
      BY <2>1, <3>2, <3>3 DEF CellFor, Working, Pending, AtWork, AddRound, RemoveRound,
                              AdoptLabels, DiffLabels
    <3>5. TargetCell(k, b)
      BY <2>4, <3>3, <3>4 DEF TargetCell, Exact, AddRound, RemoveRound
    <3> QED
      BY <1>1, <2>1, <2>4, <3>1, <3>2, <3>3, <3>4, <3>5, LoopCells
         DEF Applying, DiffLabels, RemoveRound
  <2> QED
    BY <2>2, <2>3, <2>4
<1>7. CASE DeleteAccount(w)
  <2>1. /\ j.pc = "close" /\ k.pc = "revoke" /\ UNCHANGED <<mailcowVars, stateVars>>
        /\ SameEntry(j, k) /\ k.pwd = j.pwd /\ k.acc = j.acc
        /\ j.acc = None \/ CloseAccount(j.acc)
    BY <1>7, RemovalShape
  <2>2. t0 \in Targets /\ c.row # None /\ Holds(c, j.pwd, j.acc)
    BY <1>3, <1>4, <2>1 DEF TargetCell, RemoveRound
  <2>3. AccountIds(u, t0) = {j.acc}
    BY <1>4, <2>2 DEF Holds, Cell
  <2>4. j.acc # None
    <3>1. j.acc \in Nat
      BY <2>3 DEF AccountIds, IInv, TypeOK, NextcloudTypeOK, Account
    <3> QED
      BY <3>1, NoneAssumption
  <2>5. /\ AccountIds(u, t0)' = {} /\ Logins(u, t0)' = {}
        /\ \A v \in Users, s \in Targets :
              <<v, s>> # <<u, t0>> => /\ AccountIds(v, s)' = AccountIds(v, s)
                                      /\ Logins(v, s)' = Logins(v, s)
    BY <1>1, <1>2, <2>1, <2>2, <2>3, <2>4, AccountClosed
  <2>6. OnlyCell(u, t0)
    BY <2>1, <2>5, NoIdsMove, CellSame DEF OnlyCell, stateVars
  <2>7. d.ids = {j.pwd} /\ d.accs = {} /\ d.logins = {} /\ d.row # None
    BY <1>4, <1>5, <2>1, <2>2, <2>5, NoIdsMove DEF Holds, Cell, stateVars
  <2>8. TargetCell(k, d) /\ k.target = t0 /\ k.toAdd = j.toAdd
    BY <1>1, <2>1, <2>7 DEF TargetCell, Half, AddRound, RemoveRound, SameEntry, AsPlanned
  <2> QED
    BY <1>1, <1>2, <1>5, <2>1, <2>2, <2>6, <2>8, RoundCells
       DEF Applying, DiffLabels, AtWork, RemoveRound
<1>8. CASE DeleteAppPasswd(w)
  <2>1. /\ j.pc = "revoke" /\ k.pc = "forget" /\ UNCHANGED <<nextcloudVars, stateVars>>
        /\ SameEntry(j, k) /\ k.pwd = j.pwd /\ k.acc = j.acc /\ Revoke(j.pwd)
    BY <1>8, RemovalShape
  <2>2. t0 \in Targets /\ c.row # None /\ Half(c, j.pwd) /\ MintedFor(j.pwd, u, t0)
    BY <1>3, <1>4, <2>1 DEF TargetCell, RemoveRound, Claim
  <2>3. /\ Ids(u, t0)' = Ids(u, t0) \ {j.pwd}
        /\ \A v \in Users, s \in Targets : <<v, s>> # <<u, t0>> => Ids(v, s)' = Ids(v, s)
    BY <2>1, <2>2, IdsRevoked
  <2>4. OnlyCell(u, t0)
    BY <2>1, <2>3, NoAccountsMove, CellSame DEF OnlyCell, stateVars
  <2>5. d.ids = {} /\ d.accs = {} /\ d.logins = {} /\ d.row # None
    BY <1>4, <1>5, <2>1, <2>2, <2>3, NoAccountsMove DEF Half, Cell, stateVars
  <2>6. TargetCell(k, d) /\ k.target = t0 /\ k.toAdd = j.toAdd
    BY <1>1, <2>1, <2>5 DEF TargetCell, Bare, AddRound, RemoveRound, SameEntry, AsPlanned
  <2> QED
    BY <1>1, <1>2, <1>5, <2>1, <2>2, <2>4, <2>6, RoundCells
       DEF Applying, DiffLabels, AtWork, RemoveRound
<1>9. CASE ForgetRow(w)
  <2>1. /\ j.pc = "forget" /\ UNCHANGED <<mailcowVars, nextcloudVars>>
        /\ DeleteRow(u, t0) /\ RoundDone(j, k)
    BY <1>1, <1>9, RemovalShape
  <2>2. t0 \in Targets /\ Bare(c)
    BY <1>3, <1>4, <2>1 DEF TargetCell, RemoveRound
  <2>3. /\ rows'[<<u, t0>>] = None
        /\ \A v \in Users, s \in Targets :
              <<v, s>> # <<u, t0>> => rows'[<<v, s>>] = rows[<<v, s>>]
    <3>1. StateTypeOK /\ u \in Users /\ t0 \in Targets /\ DeleteRow(u, t0)
      BY <1>1, <1>2, <2>1, <2>2 DEF IInv, TypeOK
    <3> QED
      BY <3>1, RowDeleted
  <2>4. OnlyCell(u, t0)
    BY <2>1, <2>3, NoIdsMove, NoAccountsMove, CellSame DEF OnlyCell
  <2>5. d.ids = {} /\ d.accs = {} /\ d.logins = {} /\ d.row = None
    BY <1>4, <1>5, <2>1, <2>2, <2>3, NoIdsMove, NoAccountsMove DEF Bare, Cell
  <2>6. Exact(d) /\ k.pc = "remove" /\ k.toAdd = j.toAdd
    BY <2>1, <2>5 DEF Exact, Bare, RoundDone, RoundOver
  <2> QED
    BY <1>1, <1>2, <1>5, <2>1, <2>2, <2>4, <2>6, RoundCells
       DEF Applying, DiffLabels, AtWork, AddRound, RemoveRound
<1> QED
  BY <1>6, <1>7, <1>8, <1>9

(* A request that gets to touch_user has every cell of its user exact. *)
LEMMA FinishPairs ==
    ASSUME IInv, NEW w \in Workers, NEW j, j = job[w], Finish(w),
           \A t \in Targets : CellFor(j, t, Cell(j.user, t))
    PROVE  /\ \A t \in Targets : Exact(Cell(j.user, t)')
           /\ \A v \in Users, s \in Targets : Cell(v, s)' = Cell(v, s)
<1>1. j.pc = "remove" /\ UNCHANGED <<mailcowVars, nextcloudVars>> /\ UNCHANGED rows
  <2>1. j.pc = "remove" /\ UNCHANGED <<mailcowVars, nextcloudVars>>
    BY RemovalShape
  <2>2. UNCHANGED stateVars \/ TouchUser(j.user)
    BY RemovalShape
  <2> QED
    BY <2>1, <2>2 DEF stateVars, TouchUser
<1>2. \A v \in Users, s \in Targets : Cell(v, s)' = Cell(v, s)
  BY <1>1, CellKept DEF mailcowVars, nextcloudVars
<1>3. ASSUME NEW t \in Targets
      PROVE  Exact(Cell(j.user, t)')
  <2>1. PICK c : c = Cell(j.user, t)
    OBVIOUS
  <2>2. Exact(c)
    BY <1>1, <2>1 DEF CellFor, Working, Pending, AtWork, AddRound, RemoveRound, AdoptLabels
  <2>3. Cell(j.user, t)' = c
    BY <1>1, <2>1, CellKept DEF mailcowVars, nextcloudVars
  <2> QED
    BY <2>2, <2>3
<1> QED
  BY <1>2, <1>3
(* A request that may not write, because it has not got that far or is dry, *)
(* moves no store.                                                           *)
LEMMA QuietRequest ==
    ASSUME IInv, NEW w \in Workers, WorkerStep(w), StaysDry(job[w]), ~Serves(job[w])
    PROVE  StoresKept
<1>0. PICK j, k : j = job[w] /\ k = job'[w]
  OBVIOUS
<1>1. j.dry \in BOOLEAN /\ j.pc \in Labels
  BY <1>0 DEF IInv, TypeOK, Job
<1>2. CASE j.dry = TRUE
  BY <1>0, <1>2, DryEffects
<1>3. CASE j.pc \in {"idle", "lock", "list", "rows", "adoptList"}
  <2>1. ~Gate(w) /\ ~Addition(w) /\ ~Removal(w) /\ (Adoption(w) => AdoptList(w))
    BY <1>0, <1>3
       DEF Gate, Addition, Removal, Adoption, At, AdoptScan, AdoptFind, AdoptPut, AdoptDone,
           StartAdd, PostAppPasswd, FindAppPasswd, CreateAccount, LookupAccount, RollBack,
           PutRow, EndAdds, StartRemove, DeleteAccount, DeleteAppPasswd, ForgetRow, Finish
  <2>2. CASE Receive(w) \/ Acquire(w) \/ ListMailboxes(w) \/ ReadRows(w) \/ Crash(w)
    BY <1>0, <2>2, StartShape
  <2>3. CASE AdoptList(w)
    BY <1>0, <2>3, AdoptionShape
  <2> QED
    BY <2>1, <2>2, <2>3 DEF WorkerStep, Work
<1> QED
  BY <1>0, <1>1, <1>2, <1>3 DEF Serves, LateLabels

(* Nobody makes or drops a mailbox, and the request wants existing ones only. *)
LEMMA MailboxesKept ==
    ASSUME NEW w \in Workers, WorkerStep(w)
    PROVE  mailboxes' = mailboxes
<1>1. CASE Receive(w) \/ Crash(w) \/ Acquire(w) \/ ListMailboxes(w) \/ ReadRows(w) \/ Gate(w)
  BY <1>1 DEF Receive, Crash, Acquire, ListMailboxes, ReadRows, Gate, mailcowVars
<1>2. CASE Adoption(w)
  BY <1>2 DEF Adoption, AdoptList, AdoptScan, AdoptFind, AdoptPut, AdoptDone, mailcowVars
<1>3. CASE Addition(w)
  BY <1>3 DEF Addition, StartAdd, PostAppPasswd, FindAppPasswd, CreateAccount,
              LookupAccount, RollBack, PutRow, EndAdds, Issue, Revoke, mailcowVars
<1>4. CASE Removal(w)
  BY <1>4 DEF Removal, StartRemove, DeleteAccount, DeleteAppPasswd, ForgetRow, Finish,
              Revoke, mailcowVars
<1> QED
  BY <1>1, <1>2, <1>3, <1>4 DEF WorkerStep, Work

EarlyLabels == {"idle", "lock", "list"}

LEMMA WantListed ==
    ASSUME IInv, NEW w \in Workers, WorkerStep(w), NEW j, NEW k, j = job[w], k = job'[w],
           j.pc \notin EarlyLabels => j.want \subseteq mailboxes,
           k.pc \notin EarlyLabels
    PROVE  k.want \subseteq mailboxes
<1>1. k # IdleJob
  BY DEF IdleJob, EarlyLabels
<1>2. ~Crash(w) /\ ~Finish(w)
  BY <1>1, Becomes DEF Crash, Finish, End
<1>3. ~Receive(w) /\ ~Acquire(w)
  BY StartShape DEF EarlyLabels
<1>4. CASE ListMailboxes(w)
  BY <1>1, <1>4, StartShape
<1>5. ASSUME k.want = j.want, j.pc \notin EarlyLabels
      PROVE  k.want \subseteq mailboxes
  BY <1>5
<1>6. CASE ReadRows(w) \/ Gate(w)
  BY <1>5, <1>6, StartShape DEF EarlyLabels
<1>7. CASE Adoption(w)
  <2>1. k.want = j.want
    BY <1>1, <1>7, AdoptionShape DEF Adoption
  <2>2. j.pc \in {"adoptList", "adopt", "adoptFind", "adoptPut"}
    BY <1>7, AdoptionShape DEF Adoption
  <2> QED
    BY <1>5, <2>1, <2>2 DEF EarlyLabels
<1>8. CASE Addition(w)
  <2>1. k.want = j.want
    BY <1>8, AdditionShape
       DEF Addition, SameEntry, AsPlanned, Kept, RoundFailed, RoundDone, RoundOver
  <2>2. j.pc \notin EarlyLabels
    BY <1>8, AdditionShape DEF Addition, EarlyLabels
  <2> QED
    BY <1>5, <2>1, <2>2
<1>9. CASE Removal(w)
  <2>1. k.want = j.want
    BY <1>2, <1>9, RemovalShape
       DEF Removal, SameEntry, AsPlanned, Kept, RoundFailed, RoundDone, RoundOver
  <2>2. j.pc \notin EarlyLabels
    BY <1>9, RemovalShape DEF Removal, EarlyLabels
  <2> QED
    BY <1>5, <2>1, <2>2
<1> QED
  BY <1>2, <1>3, <1>4, <1>6, <1>7, <1>8, <1>9 DEF WorkerStep, Work

(* The cells of a user when a request for them begins to work on them *)
LEMMA ServiceBegins ==
    ASSUME IInv, Faults = {}, EntriesSound, NEW w \in Workers, WorkerStep(w),
           NEW j, NEW k, j = job[w], k = job'[w], ~Serves(j), Serves(k),
           JobPaired(j), Loose(j.user)
    PROVE  /\ k.user = j.user
           /\ \A t \in Targets : CellFor(k, t, Cell(j.user, t))
<1>1. k.pc \notin {"idle", "lock", "list", "rows", "adoptList"} /\ k.dry = FALSE
  BY DEF Serves, LateLabels
<1>2. HoldsLock(w)'
  BY <1>1 DEF HoldsLock
<1>3. Own(j, k)
  BY <1>2, Holders
<1>4. k.user = j.user /\ j.dry = FALSE
  BY <1>1, <1>3 DEF Own
<1>5. j.pc \in {"idle", "lock", "list", "rows", "adoptList"}
  BY <1>4 DEF Serves, LateLabels, IInv, TypeOK, Job
<1>6. ReadRows(w) \/ AdoptList(w)
  <2>1. ~Gate(w) /\ ~Addition(w) /\ ~Removal(w) /\ (Adoption(w) => AdoptList(w))
    BY <1>5
       DEF Gate, Addition, Removal, Adoption, At, AdoptScan, AdoptFind, AdoptPut, AdoptDone,
           StartAdd, PostAppPasswd, FindAppPasswd, CreateAccount, LookupAccount, RollBack,
           PutRow, EndAdds, StartRemove, DeleteAccount, DeleteAppPasswd, ForgetRow, Finish
  <2>2. ~Receive(w) /\ ~Acquire(w) /\ ~ListMailboxes(w)
    <3>1. IdleJob.pc = "idle"
      BY DEF IdleJob
    <3> QED
      BY <1>1, <3>1, StartShape
  <2>3. ~Crash(w)
    BY DEF Crash
  <2> QED
    BY <2>1, <2>2, <2>3 DEF WorkerStep, Work
<1>7. PICK u : u = j.user
  OBVIOUS
<1>8. AdoptLabels \intersect DiffLabels = {}
  BY DEF AdoptLabels, DiffLabels, AddRound, RemoveRound
<1>9. CASE ReadRows(w)
  <2>1. PlansFrom(k, RowsOf(u)) /\ RowsOf(u) # {}
    BY <1>1, <1>7, <1>9, StartShape
  <2>2. \A t \in Targets : Exact(Cell(u, t))
    <3>1. PICK t \in Targets : rows[<<u, t>>] # None
      BY <2>1 DEF RowsOf
    <3>2. ~Unrecorded(Cell(u, t))
      BY <3>1 DEF Unrecorded, Cell
    <3> QED
      BY <1>7, <3>2 DEF Loose
  <2>3. ASSUME NEW t \in Targets, NEW c, c = Cell(u, t)
        PROVE  CellFor(k, t, c)
    <3>1. Exact(c) /\ (t \in k.toAdd => c.row = None)
      BY <2>1, <2>2, <2>3 DEF PlansFrom, RowsOf, Cell
    <3>2. k.pc = "gate"
      BY <2>1 DEF PlansFrom
    <3> QED
      BY <3>1, <3>2, CellDone DEF Applying, DiffLabels, AtWork, AddRound, RemoveRound
  <2> QED
    BY <1>4, <1>7, <2>3
<1>10. CASE AdoptList(w)
  <2>1. j.pc = "adoptList" /\ k.pc = "adopt" /\ k.scan = mailboxes
    BY <1>10, AdoptionShape
  <2>2. RowsOf(u) = {}
    BY <1>4, <1>7, <2>1 DEF JobPaired
  <2>3. ASSUME NEW t \in Targets, NEW c, c = Cell(u, t)
        PROVE  CellFor(k, t, c)
    <3>1. c.row = None
      BY <2>2, <2>3 DEF RowsOf, Cell
    <3>2. Unrecorded(c)
      BY <1>7, <2>3, <3>1 DEF Loose, Exact, Unrecorded
    <3>3. CASE t \in mailboxes
      BY <2>1, <3>2, <3>3
         DEF CellFor, Pending, Working, AdoptLabels, AtWork, AddRound, RemoveRound, DiffLabels
    <3>4. CASE t \notin mailboxes
      <4>1. c.ids = {}
        BY <2>3, <3>4 DEF Cell, Ids, Matching, EntriesSound
      <4>2. Exact(c)
        BY <3>2, <4>1 DEF Unrecorded, Exact, Whole, Holds
      <4> QED
        BY <2>1, <3>4, <4>2, CellDone DEF Adopting, AdoptLabels, AtWork, AddRound, RemoveRound
    <3> QED
      BY <3>3, <3>4
  <2> QED
    BY <1>4, <1>7, <2>3
<1> QED
  BY <1>6, <1>9, <1>10
(* Nextcloud's accounts: ids are drawn from a counter. *)
LEMMA AccountsMove ==
    ASSUME NEW w \in Workers, WorkerStep(w)
    PROVE  \/ UNCHANGED nextcloudVars
           \/ \E u, t, secret : OpenAccount(u, t, secret)
           \/ \E id : CloseAccount(id)
<1>1. CASE Receive(w) \/ Crash(w) \/ Acquire(w) \/ ListMailboxes(w) \/ ReadRows(w) \/ Gate(w)
  BY <1>1 DEF Receive, Crash, Acquire, ListMailboxes, ReadRows, Gate
<1>2. CASE Adoption(w)
  BY <1>2 DEF Adoption, AdoptList, AdoptScan, AdoptFind, AdoptPut, AdoptDone
<1>3. CASE CreateAccount(w)
  BY <1>3 DEF CreateAccount
<1>4. CASE \/ StartAdd(w) \/ PostAppPasswd(w) \/ FindAppPasswd(w) \/ LookupAccount(w)
           \/ PutRow(w) \/ EndAdds(w) \/ RollBack(w)
  BY <1>4 DEF StartAdd, PostAppPasswd, FindAppPasswd, LookupAccount, PutRow, EndAdds,
              RollBack
<1>5. CASE DeleteAccount(w)
  BY <1>5 DEF DeleteAccount
<1>6. CASE StartRemove(w) \/ DeleteAppPasswd(w) \/ ForgetRow(w) \/ Finish(w)
  BY <1>6 DEF StartRemove, DeleteAppPasswd, ForgetRow, Finish
<1> QED
  BY <1>1, <1>2, <1>3, <1>4, <1>5, <1>6 DEF WorkerStep, Work, Addition, Removal

LEMMA AccountsStep ==
    ASSUME IInv, AccountsSound, NEW w \in Workers, WorkerStep(w)
    PROVE  AccountsSound'
<1>1. nextAcc \in Nat /\ \A a \in accounts : a.id \in Nat
  BY DEF IInv, TypeOK, NextcloudTypeOK, Account
<1>2. CASE UNCHANGED nextcloudVars
  BY <1>2 DEF nextcloudVars, AccountsSound
<1>3. ASSUME NEW u, NEW t, NEW secret, OpenAccount(u, t, secret)
      PROVE  AccountsSound'
  <2> DEFINE b == [id |-> nextAcc, user |-> u, email |-> t, secret |-> secret]
  <2>1. b.id = nextAcc
    OBVIOUS
  <2>2. accounts' = accounts \union {b} /\ nextAcc' = nextAcc + 1
    BY <1>3 DEF OpenAccount
  <2> HIDE DEF b
  <2>3. \A a \in accounts : a.id < nextAcc /\ a.id # b.id
    BY <1>1, <2>1 DEF AccountsSound
  <2>4. \A a \in accounts' : a.id < nextAcc'
    BY <1>1, <2>1, <2>2, <2>3
  <2>5. \A a, c \in accounts' : a.id = c.id => a = c
    BY <2>2, <2>3 DEF AccountsSound
  <2> QED
    BY <2>4, <2>5 DEF AccountsSound
<1>4. ASSUME NEW id, CloseAccount(id)
      PROVE  AccountsSound'
  BY <1>4 DEF CloseAccount, AccountsSound
<1> QED
  BY <1>2, <1>3, <1>4, AccountsMove

(* Every app-password is an entry of this service's, in an existing mailbox. *)
LEMMA EntriesStep ==
    ASSUME IInv, EntriesSound, NEW w \in Workers, WorkerStep(w)
    PROVE  EntriesSound'
<1>0. PICK j : j = job[w]
  OBVIOUS
<1>1. mailboxes' = mailboxes
  BY MailboxesKept
<1>2. CASE pwds' \subseteq pwds
  BY <1>1, <1>2 DEF EntriesSound, Marker
<1>3. CASE PostAppPasswd(w) /\ Issue(j.target, Marker(j.user, j.target))
  <2>1. j.pc = "post"
    BY <1>0, <1>3 DEF PostAppPasswd, At
  <2>2. j.user \in Users
    BY <1>0, <2>1 DEF IInv, JobSound
  <2>3. PICK u, t : u = j.user /\ t = j.target
    OBVIOUS
  <2> DEFINE e == [id |-> nextPwd, mailbox |-> t, name |-> Marker(u, t)]
  <2>4. e.mailbox = t /\ e.name = Marker(u, t)
    OBVIOUS
  <2>5. pwds' = pwds \union {e} /\ t \in mailboxes
    BY <1>3, <2>3 DEF Issue
  <2> HIDE DEF e
  <2> QED
    BY <1>1, <2>2, <2>3, <2>4, <2>5 DEF EntriesSound, Marker
<1>4. CASE Receive(w) \/ Crash(w) \/ Acquire(w) \/ ListMailboxes(w) \/ ReadRows(w) \/ Gate(w)
  BY <1>2, <1>4 DEF Receive, Crash, Acquire, ListMailboxes, ReadRows, Gate, mailcowVars
<1>5. CASE Adoption(w)
  BY <1>2, <1>5
     DEF Adoption, AdoptList, AdoptScan, AdoptFind, AdoptPut, AdoptDone, mailcowVars
<1>6. CASE PostAppPasswd(w)
  BY <1>0, <1>2, <1>3, <1>6 DEF PostAppPasswd, mailcowVars
<1>7. CASE \/ StartAdd(w) \/ FindAppPasswd(w) \/ CreateAccount(w) \/ LookupAccount(w)
           \/ PutRow(w) \/ EndAdds(w) \/ RollBack(w)
  BY <1>2, <1>7 DEF StartAdd, FindAppPasswd, CreateAccount, LookupAccount, PutRow, EndAdds,
                    RollBack, Revoke, mailcowVars
<1>8. CASE Removal(w)
  BY <1>2, <1>8 DEF Removal, StartRemove, DeleteAccount, DeleteAppPasswd, ForgetRow, Finish,
                    Revoke, mailcowVars
<1> QED
  BY <1>4, <1>5, <1>6, <1>7, <1>8 DEF WorkerStep, Work, Addition

(* A request that may write: its user's cells stay in order until it ends with  *)
(* all of them exact, and nobody else's cell is touched.                        *)
LEMMA ServiceGoesOn ==
    ASSUME PairInv, Faults = {}, NEW w \in Workers, WorkerStep(w),
           NEW j, NEW k, j = job[w], k = job'[w], Serves(j)
    PROVE  /\ \A v \in Users, s \in Targets : v # j.user => Cell(v, s)' = Cell(v, s)
           /\ \A v \in Users : v # j.user => (v \in seen' <=> v \in seen)
           /\ \/ Serves(k) /\ k.user = j.user /\ \A t \in Targets : CellFor(k, t, Cell(j.user, t)')
              \/ k = IdleJob /\ \A t \in Targets : Exact(Cell(j.user, t)')
<1>1. /\ IInv /\ AccountsSound /\ StaysDry(j) /\ PlanSound(j) /\ JobPaired(j)
  BY DEF PairInv, PlanInv, DryInv
<1>2. j.pc \in LateLabels /\ j.dry = FALSE /\ j.user \in Users
  BY <1>1 DEF Serves, LateLabels, IInv, JobSound
<1>3. /\ \A t \in Targets : CellFor(j, t, Cell(j.user, t))
      /\ j.want \subseteq mailboxes
  BY <1>1, <1>2 DEF JobPaired, LateLabels
<1>4. Finish(w) \/ (Serves(k) /\ k.user = j.user)
  <2>1. Writer(j, j.user)
    BY <1>2 DEF Writer
  <2>2. Writer(k, j.user) \/ Finish(w)
    BY <1>1, <1>2, <2>1, WriterGoesOn
  <2> QED
    BY <2>2 DEF Writer, Serves
<1>5. \A v \in Users : v # j.user => (v \in seen' <=> v \in seen)
  <2>1. \/ UNCHANGED stateVars
        \/ Recorded(j) \/ Forgotten(j) \/ TouchUser(j.user)
    BY <1>1, TableWrites
  <2> QED
    BY <2>1 DEF Recorded, Forgotten, Upsert, DeleteRow, TouchUser, stateVars
<1>6. CASE Finish(w)
  <2>1. k = IdleJob
    BY <1>6, <1>1, Becomes DEF Finish, End
  <2>2. /\ \A t \in Targets : Exact(Cell(j.user, t)')
        /\ \A v \in Users, s \in Targets : Cell(v, s)' = Cell(v, s)
    BY <1>1, <1>3, <1>6, FinishPairs
  <2> QED
    BY <1>5, <2>1, <2>2
<1>7. CASE ~Finish(w)
  <2>1. /\ \A t \in Targets : CellFor(k, t, Cell(j.user, t)')
        /\ \A v \in Users, s \in Targets : v # j.user => Cell(v, s)' = Cell(v, s)
    <3>1. CASE Adoption(w)
      BY <1>1, <1>3, <3>1, AdoptionPairs
    <3>2. CASE Gate(w) \/ Addition(w)
      BY <1>1, <1>3, <3>2, AdditionPairs
    <3>3. CASE Removal(w)
      BY <1>1, <1>3, <1>7, <3>3, RemovalPairs DEF Removal
    <3>4. ~Crash(w)
      BY DEF Crash
    <3>5. ~(Receive(w) \/ Acquire(w) \/ ListMailboxes(w) \/ ReadRows(w))
      BY <1>2 DEF Receive, Acquire, ListMailboxes, ReadRows, At, LateLabels
    <3> QED
      BY <3>1, <3>2, <3>3, <3>4, <3>5 DEF WorkerStep, Work
  <2> QED
    BY <1>4, <1>5, <1>7, <2>1
<1> QED
  BY <1>6, <1>7
LEMMA LooseKept ==
    ASSUME NEW u, Loose(u), \A t \in Targets : Cell(u, t)' = Cell(u, t),
           u \in seen' => u \in seen
    PROVE  Loose(u)'
BY DEF Loose

(* With the database the rows are lost, and every user is new again. *)
LEMMA LooseLost ==
    ASSUME NEW u \in Users, Loose(u), LoseState, UNCHANGED <<mailcowVars, nextcloudVars>>
    PROVE  Loose(u)'
<1>1. ASSUME NEW t \in Targets
      PROVE  Unrecorded(Cell(u, t)')
  <2>1. PICK c, d : c = Cell(u, t) /\ d = Cell(u, t)'
    OBVIOUS
  <2>2. d.ids = c.ids /\ d.accs = c.accs /\ d.logins = c.logins
    BY <2>1, NoIdsMove, NoAccountsMove DEF Cell
  <2>3. d.row = None
    BY <2>1 DEF LoseState, Cell
  <2>4. Bare(c) \/ Whole(c)
    BY <2>1 DEF Loose, Unrecorded, Exact, Whole
  <2>5. Unrecorded(d)
    BY <2>2, <2>3, <2>4 DEF Unrecorded, Bare, Whole, Holds
  <2> QED
    BY <2>1, <2>5
<1>2. u \notin seen'
  BY DEF LoseState
<1> QED
  BY <1>1, <1>2 DEF Loose

LEMMA AdoptListEntered ==
    ASSUME IInv, NEW w \in Workers, WorkerStep(w), NEW j, NEW k, j = job[w], k = job'[w],
           k.pc = "adoptList"
    PROVE  ReadRows(w) /\ k.user = j.user /\ RowsOf(j.user)' = {}
<1>1. k # IdleJob
  BY DEF IdleJob
<1>2. ~Crash(w) /\ ~Finish(w)
  BY <1>1, Becomes DEF Crash, Finish, End
<1>3. ~Receive(w) /\ ~Acquire(w) /\ ~ListMailboxes(w) /\ ~Gate(w)
  BY <1>1, StartShape
<1>4. ~Adoption(w)
  BY <1>1, AdoptionShape DEF Adoption, Scans, PlansFrom
<1>5. ~Addition(w)
  <2>1. ~StartAdd(w) /\ ~EndAdds(w) /\ ~CreateAccount(w) /\ ~LookupAccount(w)
    BY AdditionShape DEF TakesTarget
  <2>2. ~PostAppPasswd(w) /\ ~FindAppPasswd(w) /\ ~RollBack(w) /\ ~PutRow(w)
    BY AdditionShape DEF RoundFailed, RoundDone, RoundOver
  <2> QED
    BY <2>1, <2>2 DEF Addition
<1>6. ~Removal(w)
  BY <1>2, RemovalShape DEF Removal, TakesRow, RoundFailed, RoundDone, RoundOver
<1>7. ReadRows(w)
  BY <1>2, <1>3, <1>4, <1>5, <1>6 DEF WorkerStep, Work
<1>8. Own(j, k) /\ StoresKept /\ RowsOf(j.user) = {}
  BY <1>7, StartShape DEF PlansFrom
<1> QED
  BY <1>7, <1>8 DEF Own, StoresKept, stateVars, RowsOf

(* Who has no lock works on no cell, and who has it does so alone. *)
LEMMA LooseWhileIdle ==
    ASSUME PairInv, Serial, NEW w \in Workers, HoldsLock(w), ~Serves(job[w])
    PROVE  Loose(job[w].user)
<1>1. PICK u : u = job[w].user
  OBVIOUS
<1>2. u \in Users
  BY <1>1 DEF HoldsLock, PairInv, PlanInv, DryInv, IInv, JobSound
<1>3. ASSUME NEW v \in Workers, Serves(job[v]), job[v].user = u
      PROVE  v = w
  <2>1. HoldsLock(v) /\ job[v].user = job[w].user
    BY <1>1, <1>3 DEF Serves, LateLabels, HoldsLock
  <2> QED
    BY <2>1 DEF Serial
<1> QED
  BY <1>1, <1>2, <1>3 DEF PairInv

(* The request that takes the step *)
LEMMA PairsOfOwn ==
    ASSUME PairInv, Serial, Faults = {}, NEW w \in Workers, WorkerStep(w),
           NEW k, k = job'[w]
    PROVE  JobPaired(k)'
<1>0. PICK j : j = job[w]
  OBVIOUS
<1>1. IInv /\ EntriesSound /\ StaysDry(j) /\ JobPaired(j)
  BY <1>0 DEF PairInv, PlanInv, DryInv
<1>2. mailboxes' = mailboxes
  BY MailboxesKept
<1>3. k.pc \notin {"idle", "lock", "list"} => k.want \subseteq mailboxes
  <2>1. j.pc \notin EarlyLabels => j.want \subseteq mailboxes
    BY <1>1 DEF JobPaired, EarlyLabels
  <2> QED
    BY <1>0, <1>1, <2>1, WantListed DEF EarlyLabels
<1>4. k.pc = "adoptList" => RowsOf(k.user)' = {}
  <2>1. SUFFICES ASSUME k.pc = "adoptList" PROVE RowsOf(k.user)' = {}
    OBVIOUS
  <2>2. PICK u : u = j.user
    OBVIOUS
  <2>3. k.user = u /\ RowsOf(u)' = {}
    BY <1>0, <1>1, <2>1, <2>2, AdoptListEntered
  <2> QED
    BY <2>3
<1>5. ASSUME Serves(k)
      PROVE  \A t \in Targets : CellFor(k, t, Cell(k.user, t)')
  <2>1. CASE Serves(j)
    <3>1. k # IdleJob
      BY <1>5 DEF Serves, LateLabels, IdleJob
    <3>2. k.user = j.user /\ \A t \in Targets : CellFor(k, t, Cell(j.user, t)')
      BY <1>0, <2>1, <3>1, ServiceGoesOn
    <3> QED
      BY <3>2
  <2>2. CASE ~Serves(j)
    <3>1. HoldsLock(w)
      <4>1. HoldsLock(w)'
        BY <1>5 DEF Serves, LateLabels, HoldsLock
      <4>2. ~Acquire(w)
        <5>1. Acquire(w) => k.pc = "list"
          BY <1>0, <1>1, StartShape
        <5> QED
          BY <1>5, <5>1 DEF Serves, LateLabels
      <4> QED
        BY <1>1, <4>1, <4>2, Holders
    <3>2. Loose(j.user)
      BY <1>0, <2>2, <3>1, LooseWhileIdle
    <3>3. k.user = j.user /\ \A t \in Targets : CellFor(k, t, Cell(j.user, t))
      BY <1>0, <1>1, <1>5, <2>2, <3>2, ServiceBegins
    <3>4. \A v, s : Cell(v, s)' = Cell(v, s)
      BY <1>0, <1>1, <2>2, QuietRequest, QuietCells
    <3> QED
      BY <3>3, <3>4
  <2> QED
    BY <2>1, <2>2
<1> QED
  BY <1>2, <1>3, <1>4, <1>5 DEF JobPaired
(* The requests that wait while another takes a step *)
LEMMA PairsOfOthers ==
    ASSUME PairInv, Serial, Faults = {}, NEW w \in Workers, WorkerStep(w),
           NEW x \in Workers, x # w, NEW m, m = job[x]
    PROVE  JobPaired(m)'
<1>0. PICK j, k, u : j = job[w] /\ k = job'[w] /\ u = m.user
  OBVIOUS
<1>1. IInv /\ StaysDry(j) /\ JobPaired(m)
  BY <1>0 DEF PairInv, PlanInv, DryInv
<1>2. mailboxes' = mailboxes
  BY MailboxesKept
<1>3. m.pc = "adoptList" => RowsOf(u)' = RowsOf(u)
  <2>1. m.pc = "adoptList" => HoldsLock(x)
    BY DEF HoldsLock
  <2> QED
    BY <1>0, <1>1, <2>1, OthersRows
<1>4. ASSUME Serves(m)
      PROVE  \A t \in Targets : Cell(u, t)' = Cell(u, t)
  <2>1. HoldsLock(x) /\ u \in Users
    BY <1>0, <1>1, <1>4 DEF Serves, LateLabels, HoldsLock, IInv, JobSound
  <2>2. CASE ~Serves(j)
    BY <1>0, <1>1, <2>2, QuietRequest, QuietCells
  <2>3. CASE Serves(j)
    <3>1. HoldsLock(w)
      BY <1>0, <2>3 DEF Serves, LateLabels, HoldsLock
    <3>2. u # j.user
      BY <1>0, <1>1, <2>1, <3>1 DEF Serial
    <3> QED
      BY <1>0, <2>1, <2>3, <3>2, ServiceGoesOn
  <2> QED
    BY <2>2, <2>3
<1> QED
  BY <1>0, <1>1, <1>2, <1>3, <1>4 DEF JobPaired

(* The users for whom no request is writing *)
LEMMA PairsOfUsers ==
    ASSUME PairInv, Faults = {}, NEW w \in Workers, WorkerStep(w), NEW u \in Users
    PROVE  Loose(u)' \/ \E v \in Workers : Serves(job'[v]) /\ job'[v].user = u
<1>0. PICK j, k : j = job[w] /\ k = job'[w]
  OBVIOUS
<1>1. IInv /\ StaysDry(j)
  BY <1>0 DEF PairInv, PlanInv, DryInv
<1>2. ASSUME NEW v \in Workers, v # w, Serves(job[v]), job[v].user = u
      PROVE  Serves(job'[v]) /\ job'[v].user = u
  BY <1>1, <1>2, OthersJobs DEF WorkerStep, IInv, TypeOK
<1>3. CASE Serves(j) /\ j.user = u
  <2>1. \/ Serves(k) /\ k.user = u
        \/ \A t \in Targets : Exact(Cell(u, t)')
    BY <1>0, <1>3, ServiceGoesOn
  <2> QED
    BY <1>0, <2>1 DEF Loose
<1>4. CASE Serves(j) /\ j.user # u
  <2>1. /\ \A t \in Targets : Cell(u, t)' = Cell(u, t)
        /\ u \in seen' <=> u \in seen
    BY <1>0, <1>4, ServiceGoesOn
  <2>2. Loose(u) \/ \E v \in Workers : v # w /\ Serves(job[v]) /\ job[v].user = u
    BY <1>0, <1>4 DEF PairInv
  <2>3. Loose(u) => Loose(u)'
    BY <2>1, LooseKept
  <2> QED
    BY <1>2, <2>2, <2>3
<1>5. CASE ~Serves(j)
  <2>1. StoresKept
    BY <1>0, <1>1, <1>5, QuietRequest
  <2>2. \A t \in Targets : Cell(u, t)' = Cell(u, t)
    BY <2>1, QuietCells
  <2>3. Loose(u) \/ \E v \in Workers : v # w /\ Serves(job[v]) /\ job[v].user = u
    BY <1>0, <1>5 DEF PairInv
  <2>4. Loose(u) => Loose(u)'
    BY <2>1, <2>2, LooseKept DEF StoresKept, stateVars
  <2> QED
    BY <1>2, <2>3, <2>4
<1> QED
  BY <1>3, <1>4, <1>5

(* What is left when no worker moves: nothing, or the database is lost. *)
LEMMA NobodyPairs ==
    ASSUME PairInv, Environment \subseteq {"dbLoss"}, [Next]_vars,
           \A w \in Workers : ~WorkerStep(w)
    PROVE  /\ AccountsSound' /\ EntriesSound'
           /\ \A w \in Workers : JobPaired(job[w])'
           /\ \A u \in Users :
                 Loose(u)' \/ \E v \in Workers : Serves(job'[v]) /\ job'[v].user = u
<1>1. UNCHANGED <<mailcowVars, nextcloudVars>>
  <2>1. CASE Surroundings
    BY <2>1 DEF Surroundings, Event, MailboxCreated, MailboxDropped, ForeignPassword,
                PasswordDeletedByHand, AccountByHand, StateLost
  <2>2. CASE UNCHANGED vars
    BY <2>2 DEF vars
  <2> QED
    BY <2>1, <2>2 DEF Next, Rest, WorkerStep
<1>2. /\ job' = job
      /\ \/ UNCHANGED stateVars
         \/ LoseState /\ \A w \in Workers : job[w].pc = "idle"
  BY NobodyMoved
<1>3. AccountsSound' /\ EntriesSound'
  BY <1>1 DEF PairInv, AccountsSound, EntriesSound, Marker, mailcowVars, nextcloudVars
<1>4. CASE UNCHANGED stateVars
  <2>1. StoresKept
    BY <1>1, <1>4 DEF StoresKept
  <2>2. \A v, s : Cell(v, s)' = Cell(v, s)
    BY <2>1, QuietCells
  <2>3. ASSUME NEW w \in Workers, NEW m, m = job[w]
        PROVE  JobPaired(m)'
    <3>1. JobPaired(m)
      BY <2>3 DEF PairInv
    <3>2. mailboxes' = mailboxes /\ RowsOf(m.user)' = RowsOf(m.user)
      BY <2>1 DEF StoresKept, mailcowVars, stateVars, RowsOf
    <3> QED
      BY <2>2, <3>1, <3>2 DEF JobPaired
  <2>4. ASSUME NEW w \in Workers
        PROVE  JobPaired(job[w])'
    <3>1. PICK m : m = job[w]
      OBVIOUS
    <3>2. job'[w] = m /\ JobPaired(m)'
      BY <1>2, <2>3, <3>1
    <3> QED
      BY <3>2 DEF JobPaired, RowsOf, Cell
  <2>5. \A u \in Users : Loose(u) => Loose(u)'
    BY <2>1, <2>2, LooseKept DEF StoresKept, stateVars
  <2> QED
    BY <1>2, <1>3, <2>4, <2>5 DEF PairInv
<1>5. CASE LoseState /\ \A w \in Workers : job[w].pc = "idle"
  <2>1. ASSUME NEW w \in Workers
        PROVE  job'[w].pc = "idle" /\ ~Serves(job[w])
    BY <1>2, <1>5, <2>1 DEF Serves, LateLabels
  <2>2. \A w \in Workers : JobPaired(job[w])'
    BY <2>1 DEF JobPaired, Serves, LateLabels
  <2>3. \A u \in Users : Loose(u)'
    BY <1>1, <1>5, <2>1, LooseLost DEF PairInv
  <2> QED
    BY <1>3, <2>2, <2>3
<1> QED
  BY <1>2, <1>4, <1>5

LEMMA PairStep ==
    ASSUME PairInv, Serial, Faults = {}, Environment \subseteq {"dbLoss"}, [Next]_vars
    PROVE  PairInv'
<1>1. PlanInv' /\ IInv
  BY PlanStep DEF PairInv, PlanInv, DryInv
<1>2. CASE \A w \in Workers : ~WorkerStep(w)
  BY <1>1, <1>2, NobodyPairs DEF PairInv
<1>3. ASSUME NEW w \in Workers, WorkerStep(w)
      PROVE  PairInv'
  <2>1. AccountsSound' /\ EntriesSound'
    BY <1>1, <1>3, AccountsStep, EntriesStep DEF PairInv
  <2>2. ASSUME NEW x \in Workers, NEW m, m = job'[x]
        PROVE  JobPaired(m)'
    <3>1. CASE x = w
      BY <1>3, <2>2, <3>1, PairsOfOwn
    <3>2. CASE x # w
      <4>1. m = job[x]
        BY <1>1, <1>3, <2>2, <3>2, OthersJobs DEF WorkerStep, IInv, TypeOK
      <4> QED
        BY <1>3, <3>2, <4>1, PairsOfOthers
    <3> QED
      BY <3>1, <3>2
  <2>3. ASSUME NEW x \in Workers
        PROVE  JobPaired(job[x])'
    <3>1. PICK m : m = job'[x]
      OBVIOUS
    <3>2. JobPaired(m)'
      BY <2>2, <3>1
    <3> QED
      BY <3>1, <3>2 DEF JobPaired, RowsOf, Cell
  <2>4. \A u \in Users :
           Loose(u)' \/ \E v \in Workers : Serves(job'[v]) /\ job'[v].user = u
    BY <1>3, PairsOfUsers
  <2> QED
    BY <1>1, <2>1, <2>3, <2>4 DEF PairInv
<1> QED
  BY <1>2, <1>3

LEMMA PairInitially == Init => PairInv
<1> SUFFICES ASSUME Init PROVE PairInv
  OBVIOUS
<1>1. PlanInv
  BY PlanInitially
<1>2. AccountsSound /\ EntriesSound
  BY DEF Init, NextcloudInit, MailcowInit, AccountsSound, EntriesSound
<1>3. \A w \in Workers : JobPaired(job[w])
  BY DEF Init, IdleJob, JobPaired, Serves, LateLabels
<1>4. \A u \in Users, t \in Targets : Exact(Cell(u, t))
  <2>1. ASSUME NEW u \in Users, NEW t \in Targets, NEW c, c = Cell(u, t)
        PROVE  Exact(c)
    <3>1. c.ids = {} /\ c.accs = {} /\ c.logins = {}
      BY <2>1 DEF Init, MailcowInit, NextcloudInit, Cell, Ids, Matching, AccountIds, Logins
    <3>2. c.row = None
      BY <2>1 DEF Init, StateInit, Cell
    <3> QED
      BY <3>1, <3>2 DEF Exact, Bare
  <2> QED
    BY <2>1
<1> QED
  BY <1>1, <1>2, <1>3, <1>4 DEF PairInv, Loose

LEMMA UnwatchedIsLoose ==
    ASSUME PairInv, NEW u \in Users, ~Busy(u)
    PROVE  Loose(u)
BY DEF PairInv, Busy, HoldsLock, Serves, LateLabels

(* Where nothing fails and the requests of a user are served in turn: between  *)
(* two of them, every row names an app-password and the one account that logs  *)
(* in with it -- also rows that were adopted after the database was lost.      *)
THEOREM PairsAreComplete ==
    ASSUME Faults = {}, Environment \subseteq {"dbLoss"}
    PROVE  Spec /\ []Serial => []PairComplete
<1>1. PairInv /\ Serial /\ [Next]_vars => PairInv'
  BY PairStep
<1>2. PairInv => PairComplete
  <2>1. ASSUME PairInv, NEW u \in Users, NEW t \in Targets,
               rows[<<u, t>>] # None, ~Busy(u)
        PROVE  \E a \in accounts : /\ a.id = rows[<<u, t>>].acc
                                   /\ a.user = u /\ a.email = t
                                   /\ a.secret = rows[<<u, t>>].pwd
    <3>1. PICK c : c = Cell(u, t)
      OBVIOUS
    <3>2. c.row = rows[<<u, t>>]
      BY <3>1 DEF Cell
    <3>3. Holds(c, c.row.pwd, c.row.acc)
      BY <2>1, <3>1, <3>2, UnwatchedIsLoose DEF Loose, Unrecorded, Exact
    <3>4. AccountIds(u, t) = {c.row.acc} /\ Logins(u, t) = {c.row.pwd}
      BY <3>1, <3>3 DEF Holds, Cell
    <3>5. PICK a \in accounts : a.user = u /\ a.email = t /\ a.id = c.row.acc
      BY <3>4 DEF AccountIds
    <3>6. a.secret = c.row.pwd
      BY <3>4, <3>5 DEF Logins
    <3> QED
      BY <3>2, <3>5, <3>6
  <2> QED
    BY <2>1 DEF PairComplete
<1> QED
  BY <1>1, <1>2, PairInitially, PTL DEF Spec

(* ... and every app-password that carries the marker of a user the service    *)
(* has finished with once is the one in their row: none is left that nobody    *)
(* would ever revoke.                                                          *)
THEOREM LedgerIsExact ==
    ASSUME Faults = {}, Environment \subseteq {"dbLoss"}
    PROVE  Spec /\ []Serial => []LedgerExact
<1>1. PairInv /\ Serial /\ [Next]_vars => PairInv'
  BY PairStep
<1>2. PairInv => LedgerExact
  <2>1. ASSUME PairInv, NEW u \in seen, ~Busy(u), NEW p \in pwds, NEW t \in Targets,
               p.name = Marker(u, t)
        PROVE  rows[<<u, t>>] # None /\ rows[<<u, t>>].pwd = p.id
    <3>1. u \in Users
      BY <2>1 DEF PairInv, PlanInv, DryInv, IInv, TypeOK, StateTypeOK
    <3>2. p.mailbox = t
      <4>1. PICK v \in Users : p.name = Marker(v, p.mailbox)
        BY <2>1 DEF PairInv, EntriesSound
      <4> QED
        BY <2>1, <4>1 DEF Marker
    <3>3. PICK c : c = Cell(u, t)
      OBVIOUS
    <3>4. p.id \in c.ids
      BY <2>1, <3>2, <3>3 DEF Cell, Ids, Matching
    <3>5. Exact(c)
      BY <2>1, <3>1, <3>3, UnwatchedIsLoose DEF Loose
    <3>6. c.row # None /\ c.row.pwd = p.id
      BY <3>4, <3>5 DEF Exact, Bare, Holds
    <3> QED
      BY <3>3, <3>6 DEF Cell
  <2> QED
    BY <2>1 DEF LedgerExact
<1> QED
  BY <1>1, <1>2, PairInitially, PTL DEF Spec

(* At every step of a request, what the accounts of its targets log in with is *)
(* live.                                                                        *)
LEMMA LoginsOfCell ==
    ASSUME NEW j, NEW t, NEW c, j.pc \in Labels, CellFor(j, t, c)
    PROVE  c.logins \subseteq c.ids
<1>1. (Bare(c) \/ Whole(c) \/ (\E pwd : Half(c, pwd)) \/ (\E pwd, acc : Holds(c, pwd, acc)))
      => c.logins \subseteq c.ids
  BY DEF Bare, Whole, Half, Holds
<1>2. CASE Working(j, t)
  <2>1. TargetCell(j, c) /\ j.pc \in AtWork
    BY <1>2 DEF CellFor, Working
  <2>2. CASE j.pc \in {"adoptFind", "post", "forget"}
    BY <1>1, <2>1, <2>2 DEF TargetCell
  <2>3. CASE j.pc \in {"find", "create", "revoke"}
    BY <1>1, <2>1, <2>3 DEF TargetCell
  <2>4. CASE j.pc \in {"adoptPut", "lookup", "put", "close"}
    BY <1>1, <2>1, <2>4 DEF TargetCell
  <2> QED
    BY <2>1, <2>2, <2>3, <2>4 DEF TargetCell, AtWork, AddRound, RemoveRound
<1>3. CASE ~Working(j, t)
  BY <1>1, <1>3 DEF CellFor, Unrecorded, Exact
<1> QED
  BY <1>2, <1>3

LEMMA LoginsLive ==
    ASSUME PairInv, NEW u \in Users, NEW t \in Targets
    PROVE  Logins(u, t) \subseteq Ids(u, t)
<1>1. PICK c : c = Cell(u, t)
  OBVIOUS
<1>2. CASE Loose(u)
  <2>1. Unrecorded(c) \/ Exact(c)
    BY <1>1, <1>2 DEF Loose
  <2>2. c.logins \subseteq c.ids
    BY <2>1 DEF Unrecorded, Exact, Bare, Whole, Holds
  <2> QED
    BY <1>1, <2>2 DEF Cell
<1>3. CASE ~Loose(u)
  <2>1. PICK w \in Workers : Serves(job[w]) /\ job[w].user = u
    BY <1>3 DEF PairInv
  <2>2. PICK j : j = job[w]
    OBVIOUS
  <2>3. CellFor(j, t, c) /\ j.pc \in Labels
    BY <1>1, <2>1, <2>2 DEF PairInv, JobPaired, Serves, LateLabels
  <2>4. c.logins \subseteq c.ids
    BY <2>3, LoginsOfCell
  <2> QED
    BY <1>1, <2>4 DEF Cell
<1> QED
  BY <1>2, <1>3

(* "Delete NC first": in the same surroundings, no step deletes an app-password *)
(* while an account that logs in with it is left, whoever the account belongs   *)
(* to and whatever was adopted before.                                          *)
THEOREM AccountsGoFirst ==
    ASSUME Faults = {}, Environment \subseteq {"dbLoss"}
    PROVE  Spec /\ []Serial => NoAccountOutlivesPwd
<1>1. PairInv /\ Serial /\ [Next]_vars => PairInv'
  BY PairStep
<1>2. ASSUME PairInv, [Next]_vars, NEW p \in pwds \ pwds', NEW a \in accounts'
      PROVE  a.secret # p.id
  <2>1. PICK w \in Workers : WorkerStep(w)
    <3>1. CASE Surroundings
      BY <1>2, <3>1 DEF Surroundings, Event, MailboxCreated, MailboxDropped, ForeignPassword,
                        PasswordDeletedByHand, AccountByHand, StateLost, mailcowVars
    <3>2. CASE UNCHANGED vars
      BY <1>2, <3>2 DEF vars, mailcowVars
    <3> QED
      BY <1>2, <3>1, <3>2 DEF Next, Rest, WorkerStep
  <2>2. PICK j, k : j = job[w] /\ k = job'[w]
    OBVIOUS
  <2>3. IInv /\ StaysDry(j) /\ JobPaired(j)
    BY <1>2, <2>2 DEF PairInv, PlanInv, DryInv
  <2>4. Revoke(j.pwd) /\ j.pc \in {"rollback", "revoke"}
    BY <1>2, <2>1, <2>2, WorkDeletes DEF WorkerStep, Revokes
  <2>5. /\ j.user \in Users /\ j.target \in Targets
        /\ MintedFor(j.pwd, j.user, j.target)
    BY <2>2, <2>3, <2>4 DEF IInv, JobSound, TargetLabels, PwdLabels, Claim
  <2>6. Serves(j)
    BY <2>2, <2>3, <2>4 DEF StaysDry, WetLabels, Serves, LateLabels, Labels, IInv, TypeOK, Job
  <2>7. PICK c : c = Cell(j.user, j.target)
    OBVIOUS
  <2>8. TargetCell(j, c)
    BY <2>3, <2>4, <2>5, <2>6, <2>7
       DEF JobPaired, CellFor, Working, AtWork, AddRound, RemoveRound
  <2>9. j.pc = "revoke" /\ c.logins = {}
    BY <2>4, <2>8 DEF TargetCell, Half
  <2>10. accounts' = accounts
    <3>1. ~Crash(w)
      BY DEF Crash
    <3>2. DeleteAppPasswd(w)
      BY <2>1, <2>2, <2>9, <3>1
         DEF WorkerStep, Work, Adoption, Addition, Removal, At, Receive, Acquire,
             ListMailboxes, ReadRows, AdoptList, AdoptScan, AdoptFind, AdoptPut, AdoptDone,
             Gate, StartAdd, PostAppPasswd, FindAppPasswd, CreateAccount, LookupAccount,
             RollBack, PutRow, EndAdds, StartRemove, DeleteAccount, ForgetRow, Finish
    <3> QED
      BY <3>2 DEF DeleteAppPasswd, nextcloudVars
  <2>11. p.id = j.pwd
    BY <1>2, <2>4 DEF Revoke
  <2>12. SUFFICES ASSUME a.secret = j.pwd PROVE FALSE
    BY <2>11
  <2>13. PICK v, s : v = a.user /\ s = a.email
    OBVIOUS
  <2>14. v \in Users /\ s \in Targets /\ j.pwd \in Logins(v, s)
    BY <1>2, <2>3, <2>10, <2>12, <2>13
       DEF Logins, IInv, TypeOK, NextcloudTypeOK, Account
  <2>15. j.pwd \in Ids(v, s)
    BY <1>2, <2>14, LoginsLive
  <2>16. v = j.user /\ s = j.target
    <3>1. PICK q \in pwds : q.id = j.pwd /\ q.mailbox = s /\ q.name = Marker(v, s)
      BY <2>15 DEF Ids, Matching
    <3>2. q.name = Marker(j.user, j.target)
      BY <2>5, <3>1 DEF MintedFor
    <3> QED
      BY <3>1, <3>2 DEF Marker
  <2>17. j.pwd \in c.logins
    BY <2>7, <2>14, <2>16 DEF Cell
  <2> QED
    BY <2>9, <2>17
<1>3. PairInv /\ [Next]_vars =>
        [\A p \in pwds \ pwds', a \in accounts' :
            p.mailbox \in mailboxes' => a.secret # p.id]_vars
  BY <1>2
<1> QED
  BY <1>1, <1>3, PairInitially, PTL DEF Spec, NoAccountOutlivesPwd

(* The lock of one process is enough for all of it: where nothing fails, what  *)
(* a request leaves behind is complete, exact and as planned, and it takes     *)
(* things away in the right order.                                             *)
COROLLARY InOneProcess ==
    ASSUME SingleProcess, Faults = {}, Environment \subseteq {"dbLoss"}
    PROVE  Spec => /\ []PairComplete /\ []LedgerExact
                   /\ FinishClears /\ FinishConverges
                   /\ NoAccountOutlivesPwd /\ ForgetsOnlyRevoked
<1>1. Spec => []Serial
  BY LockSerializes
<1>2. Spec /\ []Serial => []PairComplete
  BY PairsAreComplete
<1>3. Spec /\ []Serial => []LedgerExact
  BY LedgerIsExact
<1>4. Spec /\ []Serial => FinishClears
  BY FinishesCleared
<1>5. Spec /\ []Serial => FinishConverges
  BY FinishesConverged
<1>6. Spec /\ []Serial => NoAccountOutlivesPwd
  BY AccountsGoFirst
<1>7. Spec /\ []Serial => ForgetsOnlyRevoked
  BY ForgottenAreRevoked
<1> QED
  BY <1>1, <1>2, <1>3, <1>4, <1>5, <1>6, <1>7, PTL

=============================================================================
