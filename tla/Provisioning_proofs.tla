------------------------ MODULE Provisioning_proofs ------------------------
(***************************************************************************)
(* Theorems about Provisioning, for every set of users, mailboxes, folders *)
(* and workers, every configuration of the service, and every failure and  *)
(* event around it.                                                        *)
(***************************************************************************)
EXTENDS Provisioning, FiniteSetTheorems, TLAPS

MailLabels == {"sieve", "sieveSet", "map", "mapBoxes", "mapSet"}
RoundLabels == {"probe", "list", "walk", "self", "selfWalk", "delegate"}
WetLabels == {"sieveSet", "mapSet", "fromSet", "list", "walk"}

Steps == {"sieve", "map", "sharing"}

(* What the locals of a request are worth at each of its steps: whose account *)
(* or mailbox is at hand, and where a dry run never gets.                     *)
JobSound(j) ==
    /\ j.pc # "idle" => j.user \in Users
    /\ j.pc \in MailLabels \union {"mail"} => j.todo \subseteq j.managed
    /\ j.pc \in MailLabels =>
          /\ j.account \in Accounts
          /\ \E t \in j.managed : AccountOf[j.account] = <<j.user, t>>
    /\ j.pc \in RoundLabels => j.target \in Others(j)
    /\ j.pc \in RoundLabels \union {"mailbox"} => j.todo \subseteq Others(j)
    /\ j.dry => j.pc \notin WetLabels

IInv == TypeOK /\ \A w \in Workers : JobSound(job[w])

WeatherTyped ==
    /\ disturbed \subseteq FaultKinds \union EventKinds \union {"overlap", "quiet"}
    /\ happened \in Nat

---------------------------------------------------------------------------
(* A step of worker w that makes its job j. *)
LEMMA Step ==
    ASSUME IInv, NEW w \in Workers, NEW j \in Job, Become(w, j), JobSound(j),
           SharingTypeOK', MailDbTypeOK', WeatherTyped',
           features' = features, served' \in Nat
    PROVE  IInv'
<1>1. /\ job \in [Workers -> Job]
      /\ features \subseteq Features
      /\ \A v \in Workers : JobSound(job[v])
  BY DEF IInv, TypeOK
<1>2. /\ job' \in [Workers -> Job]
      /\ job'[w] = j
      /\ \A v \in Workers \ {w} : job'[v] = job[v]
  BY <1>1 DEF Become
<1>3. ASSUME NEW k, JobSound(k)
      PROVE  JobSound(k)'
  BY <1>3 DEF JobSound, Others
<1>4. ASSUME NEW v \in Workers
      PROVE  JobSound(job[v])'
  <2>1. CASE v = w
    BY <1>2, <1>3, <2>1
  <2>2. CASE v # w
    <3>1. JobSound(job[v])
      BY <1>1
    <3> QED
      BY <1>2, <1>3, <2>2, <3>1
  <2> QED
    BY <2>1, <2>2
<1> QED
  BY <1>1, <1>2, <1>4 DEF IInv, TypeOK, WeatherTyped

LEMMA StoresKept ==
    ASSUME IInv, UNCHANGED stores
    PROVE  SharingTypeOK' /\ MailDbTypeOK'
BY DEF IInv, TypeOK, SharingTypeOK, MailDbTypeOK, stores, sharingVars, mailDbVars,
       aclVars, profileVars

LEMMA WeatherKept ==
    ASSUME IInv, NEW kind \in FaultKinds \union EventKinds \union {"overlap", "quiet"},
           UNCHANGED weather \/ Disturb(kind)
    PROVE  WeatherTyped'
BY DEF IInv, TypeOK, WeatherTyped, weather, Disturb

LEMMA LocallyStep ==
    ASSUME IInv, NEW w \in Workers, NEW j \in Job, JobSound(j), Locally(w, j)
    PROVE  IInv'
<1>1. SharingTypeOK' /\ MailDbTypeOK'
  BY StoresKept DEF Locally
<1>2. WeatherTyped'
  BY DEF IInv, TypeOK, WeatherTyped, Locally, weather
<1>3. Become(w, j) /\ features' = features /\ served' \in Nat
  BY DEF IInv, TypeOK, Locally, counters
<1> QED
  BY <1>1, <1>2, <1>3, Step

LEMMA RaisesStep ==
    ASSUME IInv, NEW w \in Workers, NEW kind \in FaultKinds, NEW j \in Job, JobSound(j),
           Raises(w, kind, j)
    PROVE  IInv'
<1>1. SharingTypeOK' /\ MailDbTypeOK'
  BY StoresKept DEF Raises
<1>2. WeatherTyped'
  BY WeatherKept DEF Raises, Fault
<1>3. Become(w, j) /\ features' = features /\ served' \in Nat
  BY DEF IInv, TypeOK, Raises, counters
<1> QED
  BY <1>1, <1>2, <1>3, Step

LEMMA ReadStep ==
    ASSUME IInv, NEW w \in Workers, NEW ok \in Job, NEW no \in Job,
           JobSound(ok), JobSound(no), Read(w, ok, no)
    PROVE  IInv'
<1>1. "call" \in FaultKinds
  BY DEF FaultKinds
<1>2. CASE Locally(w, ok)
  BY <1>2, LocallyStep
<1>3. CASE Raises(w, "call", no)
  BY <1>1, <1>3, RaisesStep
<1> QED
  BY <1>2, <1>3 DEF Read

(* What a Call comes to, but for its effect on the stores *)
Outcome(w, ok, no) ==
    /\ Become(w, ok) \/ Become(w, no)
    /\ UNCHANGED counters
    /\ UNCHANGED weather \/ Fault("lost") \/ Fault("call")

LEMMA CallStep ==
    ASSUME IInv, NEW w \in Workers, NEW ok \in Job, NEW no \in Job,
           JobSound(ok), JobSound(no), Outcome(w, ok, no),
           SharingTypeOK', MailDbTypeOK'
    PROVE  IInv'
<1>1. WeatherTyped'
  <2>1. {"lost", "call"} \subseteq FaultKinds
    BY DEF FaultKinds
  <2> QED
    BY <2>1, WeatherKept DEF Outcome, Fault
<1>2. features' = features /\ served' \in Nat
  BY DEF IInv, TypeOK, Outcome, counters
<1> QED
  BY <1>1, <1>2, Step DEF Outcome

---------------------------------------------------------------------------
LEMMA IdleTyped == Nobody \in [Targets -> SUBSET Principals] /\ IdleJob \in Job
BY DEF IdleJob, Job, Labels, Nobody, NoBox

LEMMA IdleSound == JobSound(IdleJob)
BY DEF JobSound, IdleJob, MailLabels, RoundLabels, WetLabels

LEMMA FailedKeeps ==
    ASSUME NEW j \in Job, NEW step \in Steps
    PROVE  /\ Failed(j, step) \in Job
           /\ JobSound(j) => JobSound(Failed(j, step))
<1>1. Failed(j, step) \in Job
  BY DEF Failed, Job, Steps
<1>2. /\ Failed(j, step).pc = j.pc /\ Failed(j, step).user = j.user
      /\ Failed(j, step).dry = j.dry /\ Failed(j, step).todo = j.todo
      /\ Failed(j, step).managed = j.managed /\ Failed(j, step).target = j.target
      /\ Failed(j, step).account = j.account
  BY DEF Failed, Job
<1> QED
  BY <1>1, <1>2 DEF JobSound, Others

LEMMA EndMailKeeps ==
    ASSUME NEW j \in Job, j.user \in Users, j.todo \subseteq j.managed
    PROVE  EndMail(j) \in Job /\ JobSound(EndMail(j))
BY DEF EndMail, Job, Labels, NoBox, JobSound, MailLabels, RoundLabels, WetLabels

LEMMA EndRoundKeeps ==
    ASSUME NEW j \in Job, j.user \in Users, j.todo \subseteq Others(j)
    PROVE  EndRound(j) \in Job /\ JobSound(EndRound(j))
<1>1. EndRound(j) \in Job
  BY DEF EndRound, Job, Labels
<1>2. /\ EndRound(j).pc = "mailbox" /\ EndRound(j).user = j.user
      /\ EndRound(j).todo = j.todo
  BY DEF EndRound, Job
<1> QED
  BY <1>1, <1>2 DEF JobSound, Others, MailLabels, RoundLabels, WetLabels

LEMMA FailRoundKeeps ==
    ASSUME NEW j \in Job, j.user \in Users, j.todo \subseteq Others(j)
    PROVE  FailRound(j) \in Job /\ JobSound(FailRound(j))
<1> DEFINE k == Failed(j, "sharing")
<1>1. k \in Job /\ k.user \in Users /\ k.todo \subseteq Others(k)
  BY DEF Failed, Job, Others
<1> HIDE DEF k
<1>2. EndRound(k) \in Job /\ JobSound(EndRound(k))
  BY <1>1, EndRoundKeeps
<1> QED
  BY <1>2 DEF FailRound, k

---------------------------------------------------------------------------
(* Each action preserves the invariant. *)
LEMMA RequestSound ==
    ASSUME NEW u \in Users, NEW want \in SUBSET Targets, NEW managed \in SUBSET Targets,
           NEW probed \in SUBSET Targets, NEW dry \in BOOLEAN
    PROVE  LET j == Request(u, want, managed, probed, dry) IN j \in Job /\ JobSound(j)
<1> DEFINE j == Request(u, want, managed, probed, dry)
<1>1. j \in Job
  BY IdleTyped DEF Request, Job, Labels
<1>2. j.pc = "lock" /\ j.user = u
  BY DEF Request, IdleJob
<1> HIDE DEF j
<1>3. JobSound(j)
  BY <1>2 DEF JobSound, MailLabels, RoundLabels, WetLabels
<1> QED
  BY <1>1, <1>3 DEF j

LEMMA ReceiveKeeps ==
    ASSUME IInv, NEW w \in Workers, Receive(w)
    PROVE  IInv'
<1>1. job[w].probed \in SUBSET Targets /\ job[w].dry \in BOOLEAN
  BY DEF IInv, TypeOK, Job
<1>2. {} \in SUBSET Targets /\ DryRuns \subseteq BOOLEAN
  BY ProvisioningAssumption
<1>3. PICK u \in Users, want \in SUBSET Targets, managed \in SUBSET Targets,
           probed \in SUBSET Targets, dry \in BOOLEAN :
           Become(w, Request(u, want, managed, probed, dry))
  BY <1>1, <1>2 DEF Receive
<1> DEFINE j == Request(u, want, managed, probed, dry)
<1>4. j \in Job /\ JobSound(j)
  BY RequestSound
<1>5. Become(w, j)
  BY <1>3
<1> HIDE DEF j
<1>6. SharingTypeOK' /\ MailDbTypeOK'
  BY StoresKept DEF Receive
<1>7. WeatherTyped'
  BY DEF IInv, TypeOK, WeatherTyped, Receive, weather
<1>8. features' = features /\ served' \in Nat
  BY DEF IInv, TypeOK, Receive
<1> QED
  BY <1>4, <1>5, <1>6, <1>7, <1>8, Step

LEMMA AcquireKeeps ==
    ASSUME IInv, NEW w \in Workers, Acquire(w)
    PROVE  IInv'
<1>1. job[w] \in Job /\ JobSound(job[w])
  BY DEF IInv, TypeOK
<1> DEFINE j == [job[w] EXCEPT !.pc = "mail", !.todo = job[w].managed]
<1>2. j \in Job
  BY <1>1 DEF Job, Labels
<1>3. j.pc = "mail" /\ j.todo = j.managed /\ j.user \in Users
  BY <1>1 DEF Acquire, At, Job, JobSound
<1>4. Become(w, j)
  BY DEF Acquire
<1> HIDE DEF j
<1>5. JobSound(j)
  BY <1>3 DEF JobSound, MailLabels, RoundLabels, WetLabels
<1>6. SharingTypeOK' /\ MailDbTypeOK'
  BY StoresKept DEF Acquire
<1>7. WeatherTyped'
  <2>1. UNCHANGED weather \/ Disturb("overlap")
    BY DEF Acquire
  <2> QED
    BY <2>1, WeatherKept
<1>8. features' = features /\ served' \in Nat
  BY DEF IInv, TypeOK, Acquire, counters
<1> QED
  BY <1>2, <1>4, <1>5, <1>6, <1>7, <1>8, Step

---------------------------------------------------------------------------
(* The Nextcloud mail database *)
LEMMA UniqueAccountOf ==
    ASSUME MailDbTypeOK, NEW u, NEW t, NEW a \in UniqueAccount(u, t)
    PROVE  a \in Accounts /\ AccountOf[a] = <<u, t>>
BY DEF MailDbTypeOK, UniqueAccount, AccountsFor

(* On to another label of the same account, or of the same mailbox *)
LEMMA GotoKeeps ==
    ASSUME NEW j \in Job, JobSound(j), NEW label \in Labels, j.dry => label \notin WetLabels,
           \/ j.pc \in MailLabels /\ label \in MailLabels
           \/ j.pc \in RoundLabels /\ label \in RoundLabels
    PROVE  Goto(j, label) \in Job /\ JobSound(Goto(j, label))
<1>1. Goto(j, label) \in Job
  BY DEF Goto, Job
<1>2. /\ Goto(j, label).pc = label /\ Goto(j, label).user = j.user
      /\ Goto(j, label).dry = j.dry /\ Goto(j, label).todo = j.todo
      /\ Goto(j, label).managed = j.managed /\ Goto(j, label).target = j.target
      /\ Goto(j, label).account = j.account
  BY DEF Goto, Job
<1>3. JobSound(Goto(j, label))
  BY <1>2 DEF JobSound, Others, MailLabels, RoundLabels
<1> QED
  BY <1>1, <1>3

LEMMA SieveFailedKeeps ==
    ASSUME NEW j \in Job, JobSound(j), j.pc \in MailLabels
    PROVE  SieveFailed(j) \in Job /\ JobSound(SieveFailed(j))
<1> DEFINE k == Failed(j, "sieve")
<1>1. k \in Job /\ JobSound(k)
  BY FailedKeeps DEF Steps
<1>2. k.pc \in MailLabels
  BY DEF Failed, Job
<1>3. "map" \in Labels /\ "map" \in MailLabels /\ "map" \notin WetLabels
  BY DEF Labels, MailLabels, WetLabels
<1> HIDE DEF k
<1>4. Goto(k, "map") \in Job /\ JobSound(Goto(k, "map"))
  BY <1>1, <1>2, <1>3, GotoKeeps
<1> QED
  BY <1>4 DEF SieveFailed, k

LEMMA MapFailedKeeps ==
    ASSUME NEW j \in Job, j.user \in Users, j.todo \subseteq j.managed
    PROVE  EndMail(Failed(j, "map")) \in Job /\ JobSound(EndMail(Failed(j, "map")))
<1> DEFINE k == Failed(j, "map")
<1>1. k \in Job /\ k.user \in Users /\ k.todo \subseteq k.managed
  BY DEF Failed, Job
<1> HIDE DEF k
<1>2. EndMail(k) \in Job /\ JobSound(EndMail(k))
  BY <1>1, EndMailKeeps
<1> QED
  BY <1>2 DEF k

LEMMA FindAccountKeeps ==
    ASSUME IInv, NEW w \in Workers, FindAccount(w)
    PROVE  IInv'
<1>1. job[w] \in Job /\ JobSound(job[w]) /\ MailDbTypeOK
  BY DEF IInv, TypeOK
<1>2. job[w].pc = "mail" /\ job[w].user \in Users /\ job[w].todo \subseteq job[w].managed
  BY <1>1 DEF FindAccount, At, JobSound, MailLabels
<1>3. PICK t \in job[w].todo :
          LET next == [job[w] EXCEPT !.todo = @ \ {t}]
              found == UniqueAccount(job[w].user, t)
          IN \/ \E a \in found : Locally(w, [next EXCEPT !.pc = "sieve", !.account = a])
             \/ found = {} /\ Locally(w, next)
             \/ Raises(w, "rc", next)
             \/ Raises(w, "call", Failed(Failed(next, "sieve"), "map"))
  BY DEF FindAccount
<1> DEFINE next == [job[w] EXCEPT !.todo = @ \ {t}]
<1>4. next \in Job
  BY <1>1 DEF Job
<1>5. /\ next.pc = "mail" /\ next.user = job[w].user /\ next.dry = job[w].dry
      /\ next.managed = job[w].managed /\ next.todo \subseteq next.managed
  BY <1>1, <1>2 DEF Job
<1> HIDE DEF next
<1>6. JobSound(next)
  BY <1>2, <1>5 DEF JobSound, MailLabels, RoundLabels, WetLabels
<1>7. CASE \E a \in UniqueAccount(job[w].user, t) :
              Locally(w, [next EXCEPT !.pc = "sieve", !.account = a])
  <2>1. PICK a \in UniqueAccount(job[w].user, t) :
             Locally(w, [next EXCEPT !.pc = "sieve", !.account = a])
    BY <1>7
  <2>2. a \in Accounts /\ AccountOf[a] = <<job[w].user, t>>
    BY <1>1, UniqueAccountOf
  <2> DEFINE j == [next EXCEPT !.pc = "sieve", !.account = a]
  <2>3. j \in Job
    BY <1>4, <2>2 DEF Job, Labels
  <2>4. /\ j.pc = "sieve" /\ j.account = a /\ j.user = job[w].user
        /\ j.managed = job[w].managed /\ j.todo \subseteq j.managed
    BY <1>4, <1>5 DEF Job
  <2>5. Locally(w, j)
    BY <2>1
  <2> HIDE DEF j
  <2>6. JobSound(j)
    BY <1>2, <1>3, <2>2, <2>4 DEF JobSound, MailLabels, RoundLabels, WetLabels
  <2> QED
    BY <2>3, <2>5, <2>6, LocallyStep
<1>8. CASE Locally(w, next)
  BY <1>4, <1>6, <1>8, LocallyStep
<1>9. CASE Raises(w, "rc", next)
  <2>1. "rc" \in FaultKinds
    BY DEF FaultKinds
  <2> QED
    BY <1>4, <1>6, <1>9, <2>1, RaisesStep
<1>10. CASE Raises(w, "call", Failed(Failed(next, "sieve"), "map"))
  <2>1. "call" \in FaultKinds /\ "sieve" \in Steps /\ "map" \in Steps
    BY DEF FaultKinds, Steps
  <2>2. Failed(next, "sieve") \in Job /\ JobSound(Failed(next, "sieve"))
    BY <1>4, <1>6, <2>1, FailedKeeps
  <2>3. /\ Failed(Failed(next, "sieve"), "map") \in Job
        /\ JobSound(Failed(Failed(next, "sieve"), "map"))
    BY <2>1, <2>2, FailedKeeps
  <2> QED
    BY <1>10, <2>1, <2>3, RaisesStep
<1> QED
  BY <1>3, <1>7, <1>8, <1>9, <1>10 DEF next

(* What the steps on one account have in common *)
LEMMA MailJob ==
    ASSUME IInv, NEW w \in Workers, job[w].pc \in MailLabels
    PROVE  /\ job[w] \in Job /\ JobSound(job[w])
           /\ job[w].user \in Users /\ job[w].todo \subseteq job[w].managed
           /\ job[w].account \in Accounts
           /\ EndMail(job[w]) \in Job /\ JobSound(EndMail(job[w]))
           /\ EndMail(Failed(job[w], "map")) \in Job
           /\ JobSound(EndMail(Failed(job[w], "map")))
           /\ SieveFailed(job[w]) \in Job /\ JobSound(SieveFailed(job[w]))
<1>1. job[w] \in Job /\ JobSound(job[w])
  BY DEF IInv, TypeOK
<1>2. /\ job[w].user \in Users /\ job[w].todo \subseteq job[w].managed
      /\ job[w].account \in Accounts
  BY <1>1 DEF JobSound, MailLabels
<1> QED
  BY <1>1, <1>2, EndMailKeeps, MapFailedKeeps, SieveFailedKeeps

LEMMA ReadSieveKeeps ==
    ASSUME IInv, NEW w \in Workers, ReadSieve(w)
    PROVE  IInv'
<1>1. job[w].pc = "sieve" /\ job[w].pc \in MailLabels
  BY DEF ReadSieve, At, MailLabels
<1>2. PICK label \in {"map", "sieveSet"} :
          /\ Read(w, Goto(job[w], label), SieveFailed(job[w]))
          /\ label = "sieveSet" => ~job[w].dry
  BY DEF ReadSieve
<1>3. label \in Labels /\ label \in MailLabels /\ (job[w].dry => label \notin WetLabels)
  BY <1>2 DEF Labels, MailLabels, WetLabels
<1>4. Goto(job[w], label) \in Job /\ JobSound(Goto(job[w], label))
  BY <1>1, <1>3, MailJob, GotoKeeps
<1> QED
  BY <1>1, <1>2, <1>4, MailJob, ReadStep

LEMMA WriteSieveKeeps ==
    ASSUME IInv, NEW w \in Workers, WriteSieve(w)
    PROVE  IInv'
<1>1. job[w].pc = "sieveSet" /\ job[w].pc \in MailLabels
  BY DEF WriteSieve, At, MailLabels
<1>2. Outcome(w, Goto(job[w], "map"), SieveFailed(job[w]))
  BY DEF WriteSieve, Call, Outcome, Raises
<1>3. "map" \in Labels /\ "map" \in MailLabels /\ "map" \notin WetLabels
  BY DEF Labels, MailLabels, WetLabels
<1>4. Goto(job[w], "map") \in Job /\ JobSound(Goto(job[w], "map"))
  BY <1>1, <1>3, MailJob, GotoKeeps
<1>5. SharingTypeOK' /\ MailDbTypeOK'
  <2>1. CASE UNCHANGED stores
    BY <2>1, StoresKept
  <2>2. CASE UpdateSieve(job[w].account) /\ UNCHANGED sharingVars
    BY <2>2 DEF UpdateSieve, IInv, TypeOK, SharingTypeOK, MailDbTypeOK, sharingVars,
                aclVars, profileVars, SieveStates
  <2> QED
    BY <2>1, <2>2 DEF WriteSieve, Call
<1> QED
  BY <1>1, <1>2, <1>4, <1>5, MailJob, CallStep

LEMMA ReadMappingKeeps ==
    ASSUME IInv, NEW w \in Workers, ReadMapping(w)
    PROVE  IInv'
<1>1. job[w].pc = "map" /\ job[w].pc \in MailLabels
  BY DEF ReadMapping, At, MailLabels
<1>2. job[w] \in Job /\ JobSound(job[w]) /\ job[w].account \in Accounts
  BY <1>1, MailJob
<1> DEFINE j == [job[w] EXCEPT !.pc = "mapBoxes", !.cols = mapping[job[w].account]]
<1>3. j \in Job
  BY <1>2 DEF IInv, TypeOK, MailDbTypeOK, Job, Labels
<1>4. /\ j.pc = "mapBoxes" /\ j.user = job[w].user /\ j.dry = job[w].dry
      /\ j.todo = job[w].todo /\ j.managed = job[w].managed
      /\ j.account = job[w].account
  BY <1>2 DEF Job
<1>5. Read(w, j, EndMail(Failed(job[w], "map")))
         \/ Read(w, EndMail(job[w]), EndMail(Failed(job[w], "map")))
  BY DEF ReadMapping
<1> HIDE DEF j
<1>6. JobSound(j)
  BY <1>1, <1>2, <1>4 DEF JobSound, MailLabels, RoundLabels, WetLabels
<1> QED
  BY <1>1, <1>3, <1>5, <1>6, MailJob, ReadStep

(* What is written into a column is a folder of the account that has the      *)
(* column's local name, and the column was set when it was read.              *)
LEMMA FixesSound ==
    ASSUME MailDbTypeOK, NEW j \in Job, NEW c \in Columns, FixesFor(j)[c] # None
    PROVE  /\ FixesFor(j)[c] \in Boxes
           /\ BoxOf[FixesFor(j)[c]] = j.account /\ BoxName[FixesFor(j)[c]] = c
           /\ j.cols[c] # None
<1>1. /\ FixesFor(j)[c] = CHOOSE b \in LocalBoxes(j.account, c) : TRUE
      /\ c \in Drifted(j.account, j.cols)
  BY DEF FixesFor
<1>2. Cardinality(LocalBoxes(j.account, c)) = 1 /\ j.cols[c] # None
  BY <1>1 DEF Drifted, Resolvable
<1>3. LocalBoxes(j.account, c) # {}
  BY <1>2, FS_EmptySet
<1>4. FixesFor(j)[c] \in LocalBoxes(j.account, c)
  BY <1>1, <1>3
<1> QED
  BY <1>2, <1>4 DEF LocalBoxes, MailDbTypeOK

LEMMA FixesTyped ==
    ASSUME MailDbTypeOK, NEW j \in Job
    PROVE  FixesFor(j) \in [Columns -> Boxes \union {None}]
<1>1. \A c \in Columns : FixesFor(j)[c] \in Boxes \union {None}
  BY FixesSound
<1>2. FixesFor(j) = [c \in Columns |-> FixesFor(j)[c]]
  BY DEF FixesFor
<1> QED
  BY <1>1, <1>2

LEMMA ReadBoxesKeeps ==
    ASSUME IInv, NEW w \in Workers, ReadBoxes(w)
    PROVE  IInv'
<1>1. job[w].pc = "mapBoxes" /\ job[w].pc \in MailLabels
  BY DEF ReadBoxes, At, MailLabels
<1>2. job[w] \in Job /\ JobSound(job[w])
  BY <1>1, MailJob
<1> DEFINE j == [job[w] EXCEPT !.pc = "mapSet", !.fixes = FixesFor(job[w])]
<1>3. j \in Job
  <2>1. FixesFor(job[w]) \in [Columns -> Boxes \union {None}]
    BY <1>2, FixesTyped DEF IInv, TypeOK
  <2> QED
    BY <1>2, <2>1 DEF Job, Labels
<1>4. /\ j.pc = "mapSet" /\ j.user = job[w].user /\ j.dry = job[w].dry
      /\ j.todo = job[w].todo /\ j.managed = job[w].managed
      /\ j.account = job[w].account
  BY <1>2 DEF Job
<1>5. \/ ~job[w].dry /\ Read(w, j, EndMail(Failed(job[w], "map")))
      \/ Read(w, EndMail(job[w]), EndMail(Failed(job[w], "map")))
      \/ Raises(w, "rc", EndMail(job[w]))
  BY DEF ReadBoxes
<1> HIDE DEF j
<1>6. ~job[w].dry => JobSound(j)
  BY <1>1, <1>2, <1>4 DEF JobSound, MailLabels, RoundLabels, WetLabels
<1>7. "rc" \in FaultKinds
  BY DEF FaultKinds
<1> QED
  BY <1>1, <1>3, <1>5, <1>6, <1>7, MailJob, ReadStep, RaisesStep

LEMMA WriteMappingKeeps ==
    ASSUME IInv, NEW w \in Workers, WriteMapping(w)
    PROVE  IInv'
<1>1. job[w].pc = "mapSet" /\ job[w].pc \in MailLabels
  BY DEF WriteMapping, At, MailLabels
<1>2. job[w] \in Job /\ JobSound(job[w]) /\ job[w].account \in Accounts
  BY <1>1, MailJob
<1>3. ASSUME NEW c \in Columns, job[w].fixes[c] # None,
             Call(w, UpdateMapping(job[w].account, c, job[w].fixes[c]) /\ UNCHANGED sharingVars,
                  [job[w] EXCEPT !.fixes[c] = None], EndMail(Failed(job[w], "map")))
      PROVE  IInv'
  <2> DEFINE j == [job[w] EXCEPT !.fixes[c] = None]
  <2>1. j \in Job
    BY <1>2 DEF Job
  <2>2. /\ j.pc = job[w].pc /\ j.user = job[w].user /\ j.dry = job[w].dry
        /\ j.todo = job[w].todo /\ j.managed = job[w].managed
        /\ j.account = job[w].account /\ j.target = job[w].target
    BY <1>2 DEF Job
  <2>3. Outcome(w, j, EndMail(Failed(job[w], "map")))
    BY <1>3 DEF Call, Outcome
  <2> HIDE DEF j
  <2>4. JobSound(j)
    BY <1>2, <2>2 DEF JobSound, Others
  <2>5. SharingTypeOK' /\ MailDbTypeOK'
    <3>1. CASE UNCHANGED stores
      BY <3>1, StoresKept
    <3>2. CASE UpdateMapping(job[w].account, c, job[w].fixes[c]) /\ UNCHANGED sharingVars
      <4>1. SharingTypeOK'
        BY <3>2 DEF IInv, TypeOK, SharingTypeOK, sharingVars, aclVars, profileVars
      <4>2. job[w].fixes[c] \in Boxes
        BY <1>2, <1>3 DEF Job
      <4>3. mapping' \in [Accounts -> [Columns -> Boxes \union {None}]]
        BY <1>2, <3>2, <4>2 DEF UpdateMapping, IInv, TypeOK, MailDbTypeOK
      <4> QED
        BY <3>2, <4>1, <4>3 DEF UpdateMapping, IInv, TypeOK, MailDbTypeOK
    <3> QED
      BY <1>3, <3>1, <3>2 DEF Call
  <2> QED
    BY <1>1, <2>1, <2>3, <2>4, <2>5, MailJob, CallStep
<1>4. CASE Locally(w, EndMail(job[w]))
  BY <1>1, <1>4, MailJob, LocallyStep
<1> QED
  BY <1>3, <1>4 DEF WriteMapping

---------------------------------------------------------------------------
(* The sharing *)
LEMMA ChangedKeeps ==
    ASSUME NEW j \in Job
    PROVE  /\ Changed(j) \in Job
           /\ JobSound(j) => JobSound(Changed(j))
<1>1. Changed(j) \in Job
  BY DEF Changed, Job
<1>2. /\ Changed(j).pc = j.pc /\ Changed(j).user = j.user
      /\ Changed(j).dry = j.dry /\ Changed(j).todo = j.todo
      /\ Changed(j).managed = j.managed /\ Changed(j).target = j.target
      /\ Changed(j).account = j.account
  BY DEF Changed, Job
<1> QED
  BY <1>1, <1>2 DEF JobSound, Others

LEMMA StartLoopKeeps ==
    ASSUME NEW j \in Job, j.user \in Users
    PROVE  /\ StartLoop(j) \in Job /\ JobSound(StartLoop(j))
           /\ Changed(StartLoop(j)) \in Job /\ JobSound(Changed(StartLoop(j)))
           /\ Failed(StartLoop(j), "sharing") \in Job
           /\ JobSound(Failed(StartLoop(j), "sharing"))
<1>1. StartLoop(j) \in Job
  BY DEF StartLoop, Others, Job, Labels
<1>2. /\ StartLoop(j).pc = "mailbox" /\ StartLoop(j).user = j.user
      /\ StartLoop(j).todo = Others(StartLoop(j))
  BY DEF StartLoop, Others, Job
<1>3. JobSound(StartLoop(j))
  BY <1>2 DEF JobSound, MailLabels, RoundLabels, WetLabels
<1>4. "sharing" \in Steps
  BY DEF Steps
<1> QED
  BY <1>1, <1>3, <1>4, ChangedKeeps, FailedKeeps

(* A request that reads its snapshots *)
LEMMA SnapshotSound ==
    ASSUME NEW j \in Job, j.pc \in {"dts", "from"}, j.user \in Users
    PROVE  JobSound(j)
BY DEF JobSound, MailLabels, RoundLabels, WetLabels

LEMMA SnapshotSendersKeeps ==
    ASSUME IInv, NEW w \in Workers, SnapshotSenders(w)
    PROVE  IInv'
<1>1. job[w] \in Job /\ job[w].user \in Users
  BY DEF IInv, TypeOK, SnapshotSenders, At, JobSound
<1> DEFINE ok == [job[w] EXCEPT !.pc = "dts", !.acls = senders]
           no == Goto(Failed(job[w], "sharing"), "dts")
<1>2. ok \in Job /\ no \in Job
  BY <1>1 DEF IInv, TypeOK, SharingTypeOK, Goto, Failed, Job, Labels
<1>3. /\ ok.pc = "dts" /\ ok.user = job[w].user
      /\ no.pc = "dts" /\ no.user = job[w].user
  BY <1>1 DEF Goto, Failed, Job
<1>4. Read(w, ok, no) \/ Locally(w, StartLoop(job[w]))
  BY DEF SnapshotSenders
<1> HIDE DEF ok, no
<1>5. JobSound(ok) /\ JobSound(no)
  BY <1>1, <1>2, <1>3, SnapshotSound
<1> QED
  BY <1>1, <1>2, <1>4, <1>5, StartLoopKeeps, ReadStep, LocallyStep

LEMMA SnapshotDelegateToKeeps ==
    ASSUME IInv, NEW w \in Workers, SnapshotDelegateTo(w)
    PROVE  IInv'
<1>1. job[w] \in Job /\ job[w].user \in Users
  BY DEF IInv, TypeOK, SnapshotDelegateTo, At, JobSound
<1> DEFINE ok == [job[w] EXCEPT !.pc = "from", !.dts = delegateTo]
           no == Goto(Failed(job[w], "sharing"), "from")
<1>2. ok \in Job /\ no \in Job
  BY <1>1 DEF IInv, TypeOK, SharingTypeOK, Goto, Failed, Job, Labels
<1>3. /\ ok.pc = "from" /\ ok.user = job[w].user
      /\ no.pc = "from" /\ no.user = job[w].user
  BY <1>1 DEF Goto, Failed, Job
<1>4. Read(w, ok, no)
  BY DEF SnapshotDelegateTo
<1> HIDE DEF ok, no
<1>5. JobSound(ok) /\ JobSound(no)
  BY <1>1, <1>2, <1>3, SnapshotSound
<1> QED
  BY <1>2, <1>4, <1>5, ReadStep

LEMMA ReadDelegateFromKeeps ==
    ASSUME IInv, NEW w \in Workers, ReadDelegateFrom(w)
    PROVE  IInv'
<1>1. job[w] \in Job /\ job[w].user \in Users
  BY DEF IInv, TypeOK, ReadDelegateFrom, At, JobSound
<1> DEFINE loop == StartLoop(job[w])
<1>2. \/ Read(w, loop, Failed(loop, "sharing"))
      \/ Read(w, Changed(loop), Failed(loop, "sharing"))
      \/ ~job[w].dry /\ Read(w, Goto(job[w], "fromSet"), Failed(loop, "sharing"))
  BY DEF ReadDelegateFrom
<1>3. ~job[w].dry => /\ Goto(job[w], "fromSet") \in Job
                     /\ JobSound(Goto(job[w], "fromSet"))
  <2>1. Goto(job[w], "fromSet") \in Job
    BY <1>1 DEF Goto, Job, Labels
  <2>2. /\ Goto(job[w], "fromSet").pc = "fromSet"
        /\ Goto(job[w], "fromSet").user = job[w].user
        /\ Goto(job[w], "fromSet").dry = job[w].dry
    BY <1>1 DEF Goto, Job
  <2> QED
    BY <1>1, <2>1, <2>2 DEF JobSound, MailLabels, RoundLabels
<1> QED
  BY <1>1, <1>2, <1>3, StartLoopKeeps, ReadStep

LEMMA WriteDelegateFromKeeps ==
    ASSUME IInv, NEW w \in Workers, WriteDelegateFrom(w)
    PROVE  IInv'
<1>1. job[w] \in Job /\ job[w].user \in Users /\ job[w].shared \in SUBSET Targets
  BY DEF IInv, TypeOK, WriteDelegateFrom, At, JobSound, Job
<1> DEFINE loop == StartLoop(job[w])
<1>2. Outcome(w, Changed(loop), Failed(loop, "sharing"))
  BY DEF WriteDelegateFrom, Call, Outcome
<1>3. SharingTypeOK' /\ MailDbTypeOK'
  <2>1. CASE UNCHANGED stores
    BY <2>1, StoresKept
  <2>2. CASE SetDelegateFrom(job[w].user, job[w].shared) /\ UNCHANGED mailDbVars
    BY <1>1, <2>2 DEF SetDelegateFrom, ProfileStale, IInv, TypeOK, SharingTypeOK,
                      MailDbTypeOK, mailDbVars, aclVars, profileVars
  <2> QED
    BY <2>1, <2>2 DEF WriteDelegateFrom, Call
<1> QED
  BY <1>1, <1>2, <1>3, StartLoopKeeps, CallStep

(* What the steps on one mailbox have in common *)
LEMMA RoundKeeps ==
    ASSUME NEW j \in Job, JobSound(j), j.pc \in RoundLabels
    PROVE  /\ j.user \in Users /\ j.target \in Targets \ {j.user}
           /\ EndRound(j) \in Job /\ JobSound(EndRound(j))
           /\ Changed(EndRound(j)) \in Job /\ JobSound(Changed(EndRound(j)))
           /\ FailRound(j) \in Job /\ JobSound(FailRound(j))
<1>1. j.user \in Users /\ j.target \in Targets \ {j.user} /\ j.todo \subseteq Others(j)
  BY DEF JobSound, Others, RoundLabels
<1>2. /\ EndRound(j) \in Job /\ JobSound(EndRound(j))
      /\ FailRound(j) \in Job /\ JobSound(FailRound(j))
  BY <1>1, EndRoundKeeps, FailRoundKeeps
<1> QED
  BY <1>1, <1>2, ChangedKeeps

LEMMA RoundJob ==
    ASSUME IInv, NEW w \in Workers
    PROVE  job[w] \in Job /\ JobSound(job[w])
BY DEF IInv, TypeOK

LEMMA SyncSendersKeeps ==
    ASSUME IInv, NEW w \in Workers, SyncSenders(w)
    PROVE  IInv'
<1>1. job[w] \in Job /\ job[w].user \in Users /\ job[w].todo \subseteq Others(job[w])
  BY DEF IInv, TypeOK, SyncSenders, At, JobSound
<1>2. PICK t \in job[w].todo :
          LET j == [job[w] EXCEPT !.todo = @ \ {t}, !.target = t, !.pc = "probe"] IN
          Locally(w, j) \/ Change(w, j, ReplaceSenders(t, NewSenders(j)), j)
  BY DEF SyncSenders
<1> DEFINE j == [job[w] EXCEPT !.todo = @ \ {t}, !.target = t, !.pc = "probe"]
<1>3. t \in Targets
  BY <1>1 DEF Others
<1>4. j \in Job
  BY <1>1, <1>3 DEF Job, Labels
<1>5. /\ j.pc = "probe" /\ j.user = job[w].user /\ j.target = t
      /\ j.todo \subseteq job[w].todo
  BY <1>1 DEF Job
<1>6. Locally(w, j) \/ Change(w, j, ReplaceSenders(t, NewSenders(j)), j)
  BY <1>2
<1> HIDE DEF j
<1>7. JobSound(j) /\ j.pc \in RoundLabels
  BY <1>1, <1>5 DEF JobSound, Others, MailLabels, RoundLabels, WetLabels
<1>8. Changed(j) \in Job /\ JobSound(Changed(j)) /\ FailRound(j) \in Job /\ JobSound(FailRound(j))
  BY <1>4, <1>7, ChangedKeeps, RoundKeeps
<1>9. CASE Locally(w, j)
  BY <1>4, <1>7, <1>9, LocallyStep
<1>10. CASE Change(w, j, ReplaceSenders(t, NewSenders(j)), j)
  <2>1. CASE Locally(w, Changed(j))
    BY <1>8, <2>1, LocallyStep
  <2>2. CASE Call(w, ReplaceSenders(t, NewSenders(j)) /\ UNCHANGED mailDbVars,
                  Changed(j), FailRound(j))
    <3>1. Outcome(w, Changed(j), FailRound(j))
      BY <2>2 DEF Call, Outcome
    <3>2. NewSenders(j) \in SUBSET Principals
      <4>1. j.acls[j.target] \in SUBSET Principals /\ j.user \in Principals
        BY <1>1, <1>3, <1>4, <1>5 DEF Job, Principals
      <4> QED
        BY <4>1 DEF NewSenders
    <3>3. SharingTypeOK' /\ MailDbTypeOK'
      <4>1. CASE UNCHANGED stores
        BY <4>1, StoresKept
      <4>2. CASE ReplaceSenders(t, NewSenders(j)) /\ UNCHANGED mailDbVars
        BY <1>3, <3>2, <4>2 DEF ReplaceSenders, IInv, TypeOK, SharingTypeOK, MailDbTypeOK,
                                mailDbVars, aclVars, profileVars
      <4> QED
        BY <2>2, <4>1, <4>2 DEF Call
    <3> QED
      BY <1>8, <3>1, <3>3, CallStep
  <2> QED
    BY <1>10, <2>1, <2>2 DEF Change
<1> QED
  BY <1>6, <1>9, <1>10

LEMMA DecideKeeps ==
    ASSUME NEW j \in Job, JobSound(j), j.pc = "probe", NEW rights
    PROVE  Decide(j, rights) \in Job /\ JobSound(Decide(j, rights))
<1>1. /\ j.pc \in RoundLabels /\ "self" \in RoundLabels /\ "list" \in RoundLabels
      /\ "self" \in Labels /\ "list" \in Labels /\ "self" \notin WetLabels
  BY DEF RoundLabels, Labels, WetLabels
<1>2. Goto(j, "self") \in Job /\ JobSound(Goto(j, "self"))
  BY <1>1, GotoKeeps
<1>3. Changed(Goto(j, "self")) \in Job /\ JobSound(Changed(Goto(j, "self")))
  BY <1>2, ChangedKeeps
<1>4. ~j.dry => Goto(j, "list") \in Job /\ JobSound(Goto(j, "list"))
  BY <1>1, GotoKeeps
<1> QED
  BY <1>2, <1>3, <1>4 DEF Decide

LEMMA ProbeInboxKeeps ==
    ASSUME IInv, NEW w \in Workers, ProbeInbox(w)
    PROVE  IInv'
<1>1. job[w] \in Job /\ JobSound(job[w]) /\ job[w].pc = "probe" /\ job[w].pc \in RoundLabels
  BY RoundJob DEF ProbeInbox, At, RoundLabels
<1>2. PICK rights \in {acl[job[w].target][Inbox][job[w].user], "none"} :
         \/ Read(w, Decide(job[w], rights), FailRound(job[w]))
         \/ Raises(w, "rc", Decide(job[w], rights))
  BY DEF ProbeInbox
<1>3. Decide(job[w], rights) \in Job /\ JobSound(Decide(job[w], rights))
  BY <1>1, DecideKeeps
<1>4. FailRound(job[w]) \in Job /\ JobSound(FailRound(job[w])) /\ "rc" \in FaultKinds
  BY <1>1, RoundKeeps DEF FaultKinds
<1> QED
  BY <1>2, <1>3, <1>4, ReadStep, RaisesStep

LEMMA ListFoldersKeeps ==
    ASSUME IInv, NEW w \in Workers, ListFolders(w)
    PROVE  IInv'
<1>1. job[w] \in Job /\ JobSound(job[w]) /\ job[w].pc = "list" /\ job[w].pc \in RoundLabels
  BY RoundJob DEF ListFolders, At, RoundLabels
<1>2. job[w].target \in Targets
  BY <1>1, RoundKeeps
<1> DEFINE j == [job[w] EXCEPT !.pc = "walk", !.walk = folders[job[w].target]]
<1>3. j \in Job
  BY <1>1, <1>2 DEF IInv, TypeOK, SharingTypeOK, Job, Labels
<1>4. /\ j.pc = "walk" /\ j.user = job[w].user /\ j.target = job[w].target
      /\ j.todo = job[w].todo /\ j.dry = job[w].dry
  BY <1>1 DEF Job
<1>5. Read(w, j, FailRound(job[w]))
  BY DEF ListFolders
<1> HIDE DEF j
<1>6. JobSound(j)
  BY <1>1, <1>4 DEF JobSound, Others, MailLabels, RoundLabels, WetLabels
<1> QED
  BY <1>1, <1>3, <1>5, <1>6, RoundKeeps, ReadStep

(* One folder of a walk is done *)
LEMMA NextFolderKeeps ==
    ASSUME NEW j \in Job, JobSound(j), NEW f
    PROVE  LET k == [j EXCEPT !.walk = @ \ {f}] IN
           /\ k \in Job /\ JobSound(k)
           /\ k.pc = j.pc /\ k.user = j.user /\ k.target = j.target /\ k.dry = j.dry
<1> DEFINE k == [j EXCEPT !.walk = @ \ {f}]
<1>1. k \in Job
  BY DEF Job
<1>2. /\ k.pc = j.pc /\ k.user = j.user /\ k.target = j.target /\ k.dry = j.dry
      /\ k.todo = j.todo /\ k.managed = j.managed /\ k.account = j.account
  BY DEF Job
<1> HIDE DEF k
<1>3. JobSound(k)
  BY <1>2 DEF JobSound, Others
<1> QED
  BY <1>1, <1>2, <1>3 DEF k

LEMMA RightsTyped ==
    ASSUME IInv, NEW t \in Targets, NEW f \in Folders, NEW p \in Principals,
           NEW rights \in Rights,
           \/ UNCHANGED stores
           \/ SetRights(t, f, p, rights) /\ UNCHANGED mailDbVars
    PROVE  SharingTypeOK' /\ MailDbTypeOK'
<1>1. CASE UNCHANGED stores
  BY <1>1, StoresKept
<1>2. CASE SetRights(t, f, p, rights) /\ UNCHANGED mailDbVars
  <2> DEFINE ofFolder == [acl[t][f] EXCEPT ![p] = rights]
             ofMailbox == [acl[t] EXCEPT ![f] = ofFolder]
  <2>1. acl' \in [Targets -> [Folders -> [Principals -> Rights]]]
    <3>1. acl \in [Targets -> [Folders -> [Principals -> Rights]]]
      BY DEF IInv, TypeOK, SharingTypeOK
    <3>2. ofFolder \in [Principals -> Rights]
      BY <3>1
    <3> HIDE DEF ofFolder
    <3>3. ofMailbox \in [Folders -> [Principals -> Rights]]
      BY <3>1, <3>2
    <3>4. acl' = [acl EXCEPT ![t] = ofMailbox]
      BY <1>2 DEF SetRights, ofFolder
    <3> HIDE DEF ofMailbox
    <3> QED
      BY <3>1, <3>3, <3>4
  <2> QED
    BY <1>2, <2>1 DEF SetRights, IInv, TypeOK, SharingTypeOK, MailDbTypeOK,
                      mailDbVars, profileVars
<1> QED
  BY <1>1, <1>2

LEMMA SetFolderKeeps ==
    ASSUME IInv, NEW w \in Workers, SetFolder(w)
    PROVE  IInv'
<1>1. job[w] \in Job /\ JobSound(job[w]) /\ job[w].pc = "walk" /\ job[w].pc \in RoundLabels
  BY RoundJob DEF SetFolder, At, RoundLabels
<1>2. PICK f \in job[w].walk :
          LET j == [job[w] EXCEPT !.walk = @ \ {f}] IN
          \/ Call(w, SetRights(j.target, f, j.user, Due(j)) /\ UNCHANGED mailDbVars,
                  Walked(j), FailRound(j))
          \/ Raises(w, "rc", Walked(j))
  BY DEF SetFolder
<1> DEFINE j == [job[w] EXCEPT !.walk = @ \ {f}]
<1>3. j \in Job /\ JobSound(j) /\ j.pc = "walk" /\ j.pc \in RoundLabels
  BY <1>1, NextFolderKeeps
<1>4. \/ Call(w, SetRights(j.target, f, j.user, Due(j)) /\ UNCHANGED mailDbVars,
              Walked(j), FailRound(j))
      \/ Raises(w, "rc", Walked(j))
  BY <1>2
<1> HIDE DEF j
<1>5. Walked(j) \in Job /\ JobSound(Walked(j))
  <2>1. "self" \in Labels /\ "self" \in RoundLabels /\ "self" \notin WetLabels
    BY DEF Labels, RoundLabels, WetLabels
  <2>2. Goto(j, "self") \in Job /\ JobSound(Goto(j, "self"))
    BY <1>3, <2>1, GotoKeeps
  <2> QED
    BY <1>3, <2>2, ChangedKeeps DEF Walked
<1>6. /\ FailRound(j) \in Job /\ JobSound(FailRound(j))
      /\ j.target \in Targets /\ j.user \in Principals /\ f \in Folders
  BY <1>1, <1>3, RoundKeeps DEF Principals, Job
<1>7. CASE Call(w, SetRights(j.target, f, j.user, Due(j)) /\ UNCHANGED mailDbVars,
                Walked(j), FailRound(j))
  <2>1. Outcome(w, Walked(j), FailRound(j))
    BY <1>7 DEF Call, Outcome
  <2>2. \/ UNCHANGED stores
        \/ SetRights(j.target, f, j.user, Due(j)) /\ UNCHANGED mailDbVars
    BY <1>7 DEF Call
  <2>3. Due(j) \in Rights
    BY DEF Due, Rights
  <2>4. SharingTypeOK' /\ MailDbTypeOK'
    BY <1>6, <2>2, <2>3, RightsTyped
  <2> QED
    BY <1>5, <1>6, <2>1, <2>4, CallStep
<1>8. CASE Raises(w, "rc", Walked(j))
  <2>1. "rc" \in FaultKinds
    BY DEF FaultKinds
  <2> QED
    BY <1>5, <1>8, <2>1, RaisesStep
<1> QED
  BY <1>4, <1>7, <1>8

LEMMA StartSelfKeeps ==
    ASSUME IInv, NEW w \in Workers, StartSelf(w)
    PROVE  IInv'
<1>1. job[w] \in Job /\ JobSound(job[w]) /\ job[w].pc = "self" /\ job[w].pc \in RoundLabels
  BY RoundJob DEF StartSelf, At, RoundLabels
<1>2. job[w].target \in Targets
  BY <1>1, RoundKeeps
<1> DEFINE next == [Goto(job[w], "delegate") EXCEPT !.probed = @ \union {job[w].target}]
           walk == [next EXCEPT !.pc = "selfWalk", !.walk = folders[job[w].target]]
<1>3. next \in Job /\ walk \in Job
  <2>1. next \in Job
    BY <1>1, <1>2 DEF Goto, Job, Labels
  <2>2. folders[job[w].target] \in SUBSET Folders
    BY <1>2 DEF IInv, TypeOK, SharingTypeOK
  <2> HIDE DEF next
  <2>3. walk \in Job
    BY <2>1, <2>2 DEF Job, Labels
  <2> QED
    BY <2>1, <2>3
<1>4. /\ next.pc = "delegate" /\ next.user = job[w].user /\ next.target = job[w].target
      /\ next.todo = job[w].todo
      /\ walk.pc = "selfWalk" /\ walk.user = job[w].user /\ walk.target = job[w].target
      /\ walk.todo = job[w].todo
  BY <1>1 DEF Goto, Job
<1>5. Locally(w, next) \/ Read(w, walk, Failed(next, "sharing"))
  BY DEF StartSelf
<1> HIDE DEF next, walk
<1>6. JobSound(next) /\ JobSound(walk)
  BY <1>1, <1>4 DEF JobSound, Others, MailLabels, RoundLabels, WetLabels
<1>7. Failed(next, "sharing") \in Job /\ JobSound(Failed(next, "sharing"))
  BY <1>3, <1>6, FailedKeeps DEF Steps
<1> QED
  BY <1>3, <1>5, <1>6, <1>7, LocallyStep, ReadStep

(* What becomes of a walk over an owner's entries *)
LEMMA ClearedKeeps ==
    ASSUME NEW j \in Job, JobSound(j), j.pc = "selfWalk"
    PROVE  /\ Cleared(j) \in Job /\ JobSound(Cleared(j))
           /\ Cleared([j EXCEPT !.found = TRUE]) \in Job
           /\ JobSound(Cleared([j EXCEPT !.found = TRUE]))
           /\ [Failed(j, "sharing") EXCEPT !.pc = "delegate", !.walk = {}] \in Job
           /\ JobSound([Failed(j, "sharing") EXCEPT !.pc = "delegate", !.walk = {}])
<1>1. /\ j.user \in Users /\ j.target \in Others(j) /\ j.todo \subseteq Others(j)
      /\ j.dry \in BOOLEAN
  BY DEF JobSound, RoundLabels, Job
<1>2. ASSUME NEW k \in Job, k.pc \in {"selfWalk", "delegate"}, k.user = j.user,
             k.target = j.target, k.todo = j.todo
      PROVE  JobSound(k)
  BY <1>1, <1>2 DEF JobSound, Others, MailLabels, RoundLabels, WetLabels
<1>3. ASSUME NEW k \in Job, k.pc = "selfWalk", k.user = j.user,
             k.target = j.target, k.todo = j.todo
      PROVE  Cleared(k) \in Job /\ JobSound(Cleared(k))
  <2>1. JobSound(k)
    BY <1>2, <1>3
  <2>2. /\ "delegate" \in Labels /\ "delegate" \in RoundLabels /\ "delegate" \notin WetLabels
        /\ "selfWalk" \in RoundLabels
    BY DEF Labels, RoundLabels, WetLabels
  <2>3. Goto(k, "delegate") \in Job /\ JobSound(Goto(k, "delegate"))
    BY <1>3, <2>1, <2>2, GotoKeeps
  <2> QED
    BY <2>1, <2>3, ChangedKeeps DEF Cleared
<1> DEFINE found == [j EXCEPT !.found = TRUE]
           failed == [Failed(j, "sharing") EXCEPT !.pc = "delegate", !.walk = {}]
<1>4. found \in Job /\ failed \in Job
  BY DEF Failed, Job, Labels
<1>5. /\ found.pc = "selfWalk" /\ found.user = j.user /\ found.target = j.target
      /\ found.todo = j.todo
      /\ failed.pc = "delegate" /\ failed.user = j.user /\ failed.target = j.target
      /\ failed.todo = j.todo
  BY DEF Failed, Job
<1> HIDE DEF found, failed
<1>6. Cleared(found) \in Job /\ JobSound(Cleared(found)) /\ JobSound(failed)
  BY <1>2, <1>3, <1>4, <1>5
<1>7. Cleared(j) \in Job /\ JobSound(Cleared(j))
  BY <1>3
<1> QED
  BY <1>4, <1>6, <1>7 DEF found, failed

LEMMA ClearSelfKeeps ==
    ASSUME IInv, NEW w \in Workers, ClearSelf(w)
    PROVE  IInv'
<1>1. job[w] \in Job /\ JobSound(job[w]) /\ job[w].pc = "selfWalk"
  BY RoundJob DEF ClearSelf, At
<1>2. PICK f \in job[w].walk :
          LET j == [job[w] EXCEPT !.walk = @ \ {f}]
              given_up == [Failed(j, "sharing") EXCEPT !.pc = "delegate", !.walk = {}] IN
          \/ Read(w, Cleared(j), given_up)
          \/ Read(w, Cleared([j EXCEPT !.found = TRUE]), given_up)
          \/ Call(w, SetRights(j.target, f, j.target, "none") /\ UNCHANGED mailDbVars,
                  Cleared([j EXCEPT !.found = TRUE]), given_up)
          \/ Raises(w, "rc", Cleared(j))
  BY DEF ClearSelf
<1> DEFINE j == [job[w] EXCEPT !.walk = @ \ {f}]
<1>3. j \in Job /\ JobSound(j) /\ j.pc = "selfWalk"
  BY <1>1, NextFolderKeeps
<1>4. LET given_up == [Failed(j, "sharing") EXCEPT !.pc = "delegate", !.walk = {}] IN
          \/ Read(w, Cleared(j), given_up)
          \/ Read(w, Cleared([j EXCEPT !.found = TRUE]), given_up)
          \/ Call(w, SetRights(j.target, f, j.target, "none") /\ UNCHANGED mailDbVars,
                  Cleared([j EXCEPT !.found = TRUE]), given_up)
          \/ Raises(w, "rc", Cleared(j))
  BY <1>2
<1> HIDE DEF j
<1> DEFINE done == Cleared(j)
           cleared == Cleared([j EXCEPT !.found = TRUE])
           given_up == [Failed(j, "sharing") EXCEPT !.pc = "delegate", !.walk = {}]
<1>5. /\ done \in Job /\ JobSound(done) /\ cleared \in Job /\ JobSound(cleared)
      /\ given_up \in Job /\ JobSound(given_up)
  BY <1>3, ClearedKeeps
<1>6. /\ j.target \in Targets /\ j.target \in Principals /\ f \in Folders
      /\ "none" \in Rights /\ "rc" \in FaultKinds
  BY <1>1, <1>3, RoundKeeps DEF Principals, Job, RoundLabels, Rights, FaultKinds
<1> HIDE DEF done, cleared, given_up
<1>7. CASE Read(w, done, given_up) \/ Read(w, cleared, given_up)
  BY <1>5, <1>7, ReadStep
<1>8. CASE Call(w, SetRights(j.target, f, j.target, "none") /\ UNCHANGED mailDbVars,
                cleared, given_up)
  <2>1. Outcome(w, cleared, given_up)
    BY <1>8 DEF Call, Outcome
  <2>2. \/ UNCHANGED stores
        \/ SetRights(j.target, f, j.target, "none") /\ UNCHANGED mailDbVars
    BY <1>8 DEF Call
  <2>3. SharingTypeOK' /\ MailDbTypeOK'
    BY <1>6, <2>2, RightsTyped
  <2> QED
    BY <1>5, <2>1, <2>3, CallStep
<1>9. CASE Raises(w, "rc", done)
  BY <1>5, <1>6, <1>9, RaisesStep
<1> QED
  BY <1>4, <1>7, <1>8, <1>9 DEF done, cleared, given_up

LEMMA SyncDelegateToKeeps ==
    ASSUME IInv, NEW w \in Workers, SyncDelegateTo(w)
    PROVE  IInv'
<1>1. job[w] \in Job /\ JobSound(job[w]) /\ job[w].pc \in RoundLabels
  BY RoundJob DEF SyncDelegateTo, At, RoundLabels
<1> DEFINE j == job[w]
           done == EndRound(j)
           changed == Changed(EndRound(j))
           failed == FailRound(j)
<1>2. /\ done \in Job /\ JobSound(done) /\ changed \in Job /\ JobSound(changed)
      /\ failed \in Job /\ JobSound(failed)
      /\ j.user \in Principals /\ j.target \in Targets
  BY <1>1, RoundKeeps DEF Principals
<1>3. \/ Locally(w, done) \/ Locally(w, changed)
      \/ Call(w, PatchDelegateTo(j.target, j.user, Wanted(j)) /\ UNCHANGED mailDbVars,
              changed, failed)
  BY DEF SyncDelegateTo, Change
<1> HIDE DEF j, done, changed, failed
<1>4. CASE Locally(w, done) \/ Locally(w, changed)
  BY <1>2, <1>4, LocallyStep
<1>5. CASE Call(w, PatchDelegateTo(j.target, j.user, Wanted(j)) /\ UNCHANGED mailDbVars,
                changed, failed)
  <2>1. Outcome(w, changed, failed)
    BY <1>5 DEF Call, Outcome
  <2>2. SharingTypeOK' /\ MailDbTypeOK'
    <3>1. CASE UNCHANGED stores
      BY <3>1, StoresKept
    <3>2. CASE PatchDelegateTo(j.target, j.user, Wanted(j)) /\ UNCHANGED mailDbVars
      BY <1>2, <3>2 DEF PatchDelegateTo, ProfileStale, IInv, TypeOK, SharingTypeOK,
                        MailDbTypeOK, mailDbVars, aclVars
    <3> QED
      BY <1>5, <3>1, <3>2 DEF Call
  <2> QED
    BY <1>2, <2>1, <2>2, CallStep
<1> QED
  BY <1>3, <1>4, <1>5

LEMMA FinishKeeps ==
    ASSUME IInv, NEW w \in Workers, Finish(w)
    PROVE  IInv'
<1>1. job[w] \in Job /\ "flush" \in FaultKinds
  BY DEF IInv, TypeOK, FaultKinds
<1> DEFINE done == [IdleJob EXCEPT !.probed = job[w].probed, !.dry = job[w].dry]
<1>2. done \in Job
  BY <1>1, IdleTyped DEF Job
<1>3. done.pc = "idle"
  BY DEF IdleJob
<1>4. \/ Locally(w, done)
      \/ FlushCache /\ Become(w, done) /\ UNCHANGED <<mailDbVars, weather, counters>>
      \/ Raises(w, "flush", done)
  BY DEF Finish
<1> HIDE DEF done
<1>5. JobSound(done)
  BY <1>3 DEF JobSound, MailLabels, RoundLabels, WetLabels
<1>6. CASE FlushCache /\ Become(w, done) /\ UNCHANGED <<mailDbVars, weather, counters>>
  <2>1. SharingTypeOK' /\ MailDbTypeOK'
    BY <1>6 DEF FlushCache, IInv, TypeOK, SharingTypeOK, MailDbTypeOK, mailDbVars,
                aclVars, profileVars
  <2>2. WeatherTyped' /\ features' = features /\ served' \in Nat
    BY <1>6 DEF IInv, TypeOK, WeatherTyped, weather, counters
  <2> QED
    BY <1>2, <1>5, <1>6, <2>1, <2>2, Step
<1> QED
  BY <1>1, <1>2, <1>4, <1>5, <1>6, LocallyStep, RaisesStep

LEMMA CrashKeeps ==
    ASSUME IInv, NEW w \in Workers, Crash(w)
    PROVE  IInv'
BY IdleTyped, IdleSound, RaisesStep DEF Crash, FaultKinds

---------------------------------------------------------------------------
(* What happens around the service changes no request. *)
LEMMA SurroundingsKeep ==
    ASSUME IInv, Surroundings
    PROVE  IInv' /\ UNCHANGED job
<1>1. PICK kind \in EventKinds, part \in Features : Event(kind, part)
  BY DEF Surroundings, SendersByHand, DelegationByHand, AccountsByHand, FolderMade,
         BoxMade, Mapped, EventKinds, Features
<1>2. UNCHANGED job /\ features' = features /\ served' \in Nat
  BY <1>1 DEF Event, counters, IInv, TypeOK
<1>3. WeatherTyped'
  <2>1. Disturb(IF Busy THEN kind ELSE "quiet")
    BY <1>1 DEF Event
  <2> QED
    BY <2>1, WeatherKept
<1>4. SharingTypeOK' /\ MailDbTypeOK'
  <2>1. SharingTypeOK /\ MailDbTypeOK
    BY DEF IInv, TypeOK
  <2>2. CASE SendersByHand
    <3>1. PICK t \in Targets, p \in Principals : ReplaceSenders(t, Toggled(senders[t], p))
      BY <2>2 DEF SendersByHand
    <3>2. Toggled(senders[t], p) \in SUBSET Principals
      BY <2>1 DEF SharingTypeOK, Toggled
    <3> QED
      BY <2>1, <2>2, <3>1, <3>2 DEF SendersByHand, ReplaceSenders, SharingTypeOK,
              MailDbTypeOK, mailDbVars, aclVars, profileVars
  <2>3. CASE DelegationByHand
    <3>1. PICK t \in Targets, p \in Principals :
               delegateTo' = [delegateTo EXCEPT ![t] = Toggled(@, p)]
      BY <2>3 DEF DelegationByHand
    <3>2. Toggled(delegateTo[t], p) \in SUBSET Principals
      BY <2>1 DEF SharingTypeOK, Toggled
    <3> QED
      BY <2>1, <2>3, <3>1, <3>2 DEF DelegationByHand, SharingTypeOK, MailDbTypeOK,
              mailDbVars, aclVars
  <2>4. CASE AccountsByHand
    BY <2>1, <2>4 DEF AccountsByHand, Toggled, SharingTypeOK, MailDbTypeOK, sharingVars,
              aclVars, profileVars
  <2>5. CASE FolderMade
    BY <2>1, <2>5 DEF FolderMade, SharingTypeOK, MailDbTypeOK, mailDbVars, profileVars
  <2>6. CASE BoxMade
    BY <2>1, <2>6 DEF BoxMade, Toggled, SharingTypeOK, MailDbTypeOK, sharingVars,
              aclVars, profileVars
  <2>7. CASE Mapped
    <3>1. PICK b \in boxes, c \in Columns : mapping' = [mapping EXCEPT ![BoxOf[b]][c] = b]
      BY <2>7 DEF Mapped
    <3>2. b \in Boxes /\ BoxOf[b] \in Accounts
      BY <2>1, MailDbAssumption DEF MailDbTypeOK
    <3>3. mapping' \in [Accounts -> [Columns -> Boxes \union {None}]]
      BY <2>1, <3>1, <3>2 DEF MailDbTypeOK
    <3> QED
      BY <2>1, <2>7, <3>3 DEF Mapped, SharingTypeOK, MailDbTypeOK, sharingVars,
              aclVars, profileVars
  <2> QED
    BY <2>2, <2>3, <2>4, <2>5, <2>6, <2>7 DEF Surroundings
<1>5. ASSUME NEW v \in Workers
      PROVE  JobSound(job[v])'
  BY <1>2 DEF IInv, JobSound, Others
<1> QED
  BY <1>2, <1>3, <1>4, <1>5 DEF IInv, TypeOK, WeatherTyped

LEMMA Inductive ==
    ASSUME IInv, [Next]_vars
    PROVE  IInv'
<1>1. CASE UNCHANGED vars
  BY <1>1 DEF IInv, TypeOK, SharingTypeOK, MailDbTypeOK, JobSound, Others, vars, stores,
              sharingVars, mailDbVars, aclVars, profileVars, weather, counters
<1>2. ASSUME NEW w \in Workers, Receive(w) \/ Acquire(w) \/ MailDb(w) \/ Sharing(w) \/ Crash(w)
      PROVE  IInv'
  <2>1. CASE Receive(w) \/ Acquire(w) \/ Crash(w)
    BY <2>1, ReceiveKeeps, AcquireKeeps, CrashKeeps
  <2>2. CASE MailDb(w)
    BY <2>2, FindAccountKeeps, ReadSieveKeeps, WriteSieveKeeps, ReadMappingKeeps,
       ReadBoxesKeeps, WriteMappingKeeps DEF MailDb
  <2>3. CASE Sharing(w)
    BY <2>3, SnapshotSendersKeeps, SnapshotDelegateToKeeps, ReadDelegateFromKeeps,
       WriteDelegateFromKeeps, SyncSendersKeeps, ProbeInboxKeeps, ListFoldersKeeps,
       SetFolderKeeps, StartSelfKeeps, ClearSelfKeeps, SyncDelegateToKeeps, FinishKeeps
       DEF Sharing
  <2> QED
    BY <1>2, <2>1, <2>2, <2>3
<1>3. CASE Surroundings
  BY <1>3, SurroundingsKeep
<1>4. CASE Rest
  BY <1>1, <1>4 DEF Rest
<1> QED
  BY <1>1, <1>2, <1>3, <1>4 DEF Next

LEMMA Initially ==
    ASSUME Init
    PROVE  IInv
<1>1. TypeOK
  BY IdleTyped, ProvisioningAssumption DEF Init, TypeOK, SharingInit, SharingTypeOK,
     MailDbInit, MailDbTypeOK
<1>2. ASSUME NEW w \in Workers
      PROVE  JobSound(job[w])
  BY IdleSound DEF Init
<1> QED
  BY <1>1, <1>2 DEF IInv

THEOREM Invariance == Spec => []IInv
<1>1. Init => IInv
  BY Initially
<1>2. IInv /\ [Next]_vars => IInv'
  BY Inductive
<1> QED
  BY <1>1, <1>2, PTL DEF Spec

(* The parts of the state keep their types, whatever fails. *)
THEOREM TypeCorrect == Spec => []TypeOK
<1>1. IInv => TypeOK
  BY DEF IInv
<1> QED
  BY <1>1, Invariance, PTL

---------------------------------------------------------------------------
(* What a step of a request writes *)
WorkerStep(w) == Receive(w) \/ Acquire(w) \/ MailDb(w) \/ Sharing(w) \/ Crash(w)

WritesMailDb(w) ==
    LET j == job[w] IN
    /\ UNCHANGED sharingVars
    /\ \/ At(w, "sieveSet") /\ UpdateSieve(j.account)
       \/ /\ At(w, "mapSet")
          /\ \E c \in Columns : j.fixes[c] # None /\ UpdateMapping(j.account, c, j.fixes[c])

(* the mailbox that a round of the loop begins with *)
Entered(j, t) == [j EXCEPT !.todo = @ \ {t}, !.target = t, !.pc = "probe"]

WritesSenders(w) ==
    /\ At(w, "mailbox") /\ ~job[w].dry
    /\ \E t \in job[w].todo :
          ReplaceSenders(t, NewSenders(Entered(job[w], t))) /\ job'[w].todo = job[w].todo \ {t}

WritesAcl(w) ==
    LET j == job[w] IN
    \/ At(w, "walk") /\ \E f \in j.walk : SetRights(j.target, f, j.user, Due(j))
    \/ At(w, "selfWalk") /\ ~j.dry /\ \E f \in j.walk : SetRights(j.target, f, j.target, "none")

WritesProfile(w) ==
    LET j == job[w] IN
    \/ At(w, "fromSet") /\ SetDelegateFrom(j.user, j.shared)
    \/ At(w, "delegate") /\ ~j.dry /\ PatchDelegateTo(j.target, j.user, Wanted(j))

WritesSharing(w) ==
    /\ UNCHANGED mailDbVars
    /\ \/ WritesSenders(w) \/ WritesAcl(w) \/ WritesProfile(w)
       \/ At(w, "mailbox") /\ ~job[w].dry /\ FlushCache

LEMMA Writes ==
    ASSUME IInv, NEW w \in Workers, WorkerStep(w)
    PROVE  UNCHANGED stores \/ WritesMailDb(w) \/ WritesSharing(w)
<1>1. job[w] \in Job /\ job \in [Workers -> Job]
  BY DEF IInv, TypeOK
<1>2. CASE Receive(w) \/ Acquire(w) \/ Crash(w)
  BY <1>2 DEF Receive, Acquire, Crash, Raises
<1>3. CASE FindAccount(w) \/ ReadSieve(w) \/ ReadMapping(w) \/ ReadBoxes(w)
  BY <1>3 DEF FindAccount, ReadSieve, ReadMapping, ReadBoxes, Read, Locally, Raises
<1>4. CASE WriteSieve(w)
  BY <1>4 DEF WriteSieve, Call, WritesMailDb
<1>5. CASE WriteMapping(w)
  BY <1>5 DEF WriteMapping, Call, Locally, WritesMailDb
<1>6. CASE SnapshotSenders(w) \/ SnapshotDelegateTo(w) \/ ReadDelegateFrom(w)
           \/ ProbeInbox(w) \/ ListFolders(w) \/ StartSelf(w)
  BY <1>6 DEF SnapshotSenders, SnapshotDelegateTo, ReadDelegateFrom, ProbeInbox,
              ListFolders, StartSelf, Read, Locally, Raises
<1>7. CASE WriteDelegateFrom(w)
  BY <1>7 DEF WriteDelegateFrom, Call, WritesSharing, WritesProfile
<1>8. CASE SyncSenders(w)
  <2>1. PICK t \in job[w].todo :
             \/ Locally(w, Entered(job[w], t))
             \/ Change(w, Entered(job[w], t),
                       ReplaceSenders(t, NewSenders(Entered(job[w], t))), Entered(job[w], t))
    BY <1>8 DEF SyncSenders, Entered
  <2> DEFINE k == Entered(job[w], t)
  <2>2. k.dry = job[w].dry /\ k.todo = job[w].todo \ {t}
    BY <1>1 DEF Entered, Job
  <2>3. Changed(k).todo = k.todo /\ FailRound(k).todo = k.todo
    BY <1>1 DEF Changed, FailRound, EndRound, Failed, Entered, Job
  <2>4. ASSUME NEW j, Become(w, j), j.todo = k.todo
        PROVE  job'[w].todo = job[w].todo \ {t}
    BY <1>1, <2>2, <2>4 DEF Become
  <2> HIDE DEF k
  <2>5. CASE Locally(w, k) \/ Locally(w, Changed(k))
    BY <2>5 DEF Locally
  <2>6. CASE /\ ~k.dry
             /\ Call(w, ReplaceSenders(t, NewSenders(k)) /\ UNCHANGED mailDbVars,
                     Changed(k), FailRound(k))
    <3>1. job'[w].todo = job[w].todo \ {t}
      BY <2>3, <2>4, <2>6 DEF Call
    <3> QED
      BY <1>8, <2>2, <2>6, <3>1 DEF SyncSenders, Call, WritesSharing, WritesSenders, k
  <2> QED
    BY <2>1, <2>5, <2>6 DEF Change, k
<1>9. CASE SetFolder(w)
  <2>1. PICK f \in job[w].walk :
          LET j == [job[w] EXCEPT !.walk = @ \ {f}] IN
          \/ Call(w, SetRights(j.target, f, j.user, Due(j)) /\ UNCHANGED mailDbVars,
                  Walked(j), FailRound(j))
          \/ Raises(w, "rc", Walked(j))
    BY <1>9 DEF SetFolder
  <2> DEFINE j == [job[w] EXCEPT !.walk = @ \ {f}]
  <2>2. j.target = job[w].target /\ j.user = job[w].user /\ Due(j) = Due(job[w])
    BY <1>1 DEF Due, Wanted, Job
  <2>3. UNCHANGED stores \/ (SetRights(j.target, f, j.user, Due(j)) /\ UNCHANGED mailDbVars)
    BY <2>1 DEF Call, Raises
  <2> HIDE DEF j
  <2> QED
    BY <1>9, <2>2, <2>3 DEF SetFolder, WritesSharing, WritesAcl
<1>10. CASE ClearSelf(w)
  <2>1. PICK f \in job[w].walk :
          LET j == [job[w] EXCEPT !.walk = @ \ {f}] IN
          \/ UNCHANGED stores
          \/ ~j.dry /\ SetRights(j.target, f, j.target, "none") /\ UNCHANGED mailDbVars
    BY <1>10 DEF ClearSelf, Read, Locally, Raises, Call
  <2> DEFINE j == [job[w] EXCEPT !.walk = @ \ {f}]
  <2>2. j.target = job[w].target /\ j.dry = job[w].dry
    BY <1>1 DEF Job
  <2>3. UNCHANGED stores
           \/ (~j.dry /\ SetRights(j.target, f, j.target, "none") /\ UNCHANGED mailDbVars)
    BY <2>1
  <2> HIDE DEF j
  <2> QED
    BY <1>10, <2>2, <2>3 DEF ClearSelf, WritesSharing, WritesAcl
<1>11. CASE SyncDelegateTo(w)
  BY <1>11 DEF SyncDelegateTo, Change, Call, Locally, WritesSharing, WritesProfile
<1>12. CASE Finish(w)
  BY <1>12 DEF Finish, Locally, Raises, WritesSharing
<1> QED
  BY <1>2, <1>3, <1>4, <1>5, <1>6, <1>7, <1>8, <1>9, <1>10, <1>11, <1>12
     DEF WorkerStep, MailDb, Sharing

(* A step of one worker leaves the requests of the others alone. *)
LEMMA OthersJobs ==
    ASSUME IInv, NEW w \in Workers, WorkerStep(w), NEW v \in Workers, v # w
    PROVE  job'[v] = job[v]
<1>1. ASSUME NEW j, Become(w, j)
      PROVE  job'[v] = job[v]
  BY <1>1 DEF Become, IInv, TypeOK
<1>2. ASSUME NEW ok, NEW no, Read(w, ok, no)
      PROVE  \E j : Become(w, j)
  BY <1>2 DEF Read, Locally, Raises
<1>3. \E j : Become(w, j)
  <2>1. CASE Receive(w) \/ Acquire(w) \/ Crash(w)
    BY <2>1 DEF Receive, Acquire, Crash, Raises
  <2>2. CASE MailDb(w)
    BY <2>2 DEF MailDb, FindAccount, ReadSieve, WriteSieve, ReadMapping, ReadBoxes,
                WriteMapping, Read, Call, Locally, Raises
  <2>3. CASE SnapshotSenders(w) \/ SnapshotDelegateTo(w) \/ ReadDelegateFrom(w)
             \/ WriteDelegateFrom(w) \/ SyncSenders(w) \/ ProbeInbox(w)
    BY <2>3 DEF SnapshotSenders, SnapshotDelegateTo, ReadDelegateFrom, WriteDelegateFrom,
                SyncSenders, ProbeInbox, Change, Read, Call, Locally, Raises
  <2>4. CASE ListFolders(w) \/ SetFolder(w) \/ StartSelf(w) \/ ClearSelf(w)
             \/ SyncDelegateTo(w) \/ Finish(w)
    BY <2>4 DEF ListFolders, SetFolder, StartSelf, ClearSelf, SyncDelegateTo, Finish,
                Change, Read, Call, Locally, Raises
  <2> QED
    BY <2>1, <2>2, <2>3, <2>4 DEF WorkerStep, Sharing
<1> QED
  BY <1>1, <1>3

(* A job that changes is that of the worker who took the step. *)
LEMMA WhoMoved ==
    ASSUME IInv, [Next]_vars, NEW w \in Workers, job'[w] # job[w]
    PROVE  WorkerStep(w)
<1>1. CASE \E v \in Workers : WorkerStep(v)
  BY <1>1, OthersJobs
<1>2. CASE Surroundings \/ Rest \/ UNCHANGED vars
  BY <1>2, SurroundingsKeep DEF Rest, vars
<1> QED
  BY <1>1, <1>2 DEF Next, WorkerStep

---------------------------------------------------------------------------
(* The prose of reconcile_user: "dry_run" computes and reports, and none of   *)
(* its steps writes to a store, in whatever state and after whatever failure. *)
THEOREM DryRunsWriteNothing == Spec => DryRunWritesNothing
<1>1. ASSUME IInv, [Next]_vars, NEW w \in Workers, job[w].dry, job'[w] # job[w]
      PROVE  UNCHANGED stores
  <2>1. UNCHANGED stores \/ WritesMailDb(w) \/ WritesSharing(w)
    BY <1>1, WhoMoved, Writes
  <2>2. JobSound(job[w])
    BY <1>1 DEF IInv
  <2>3. ~WritesMailDb(w)
    BY <1>1, <2>2 DEF WritesMailDb, At, JobSound, WetLabels
  <2>4. ~WritesSharing(w)
    BY <1>1, <2>2 DEF WritesSharing, WritesSenders, WritesAcl, WritesProfile, At, JobSound,
                      WetLabels
  <2> QED
    BY <2>1, <2>3, <2>4
<1>2. IInv /\ [Next]_vars =>
        [\A w \in Workers : job[w].dry /\ job'[w] # job[w] /\ ~At(w, "idle") =>
            UNCHANGED stores]_vars
  BY <1>1
<1> QED
  BY <1>2, Invariance, PTL DEF Spec, DryRunWritesNothing

---------------------------------------------------------------------------
(* Entries of u, and owners' entries that go *)
OwnEntries(u) ==
    /\ \A t \in Targets, p \in Principals : p # u \/ t = u =>
          /\ (p \in delegateTo'[t]) = (p \in delegateTo[t])
          /\ \A f \in Folders :
                acl'[t][f][p] \in {acl[t][f][p]} \union (IF p = t THEN {"none"} ELSE {})
    /\ \A v \in Users \ {u} : /\ delegateFrom'[v] = delegateFrom[v]
                                /\ othersFolders'[v] = othersFolders[v]

LEMMA OwnRights ==
    ASSUME SharingTypeOK, NEW u \in Users, NEW s \in Targets, NEW g, NEW q, NEW rights,
           SetRights(s, g, q, rights),
           \/ q = u /\ s # u
           \/ q = s /\ rights = "none"
    PROVE  OwnEntries(u)
<1>1. UNCHANGED profileVars
  BY DEF SetRights
<1>2. ASSUME NEW t \in Targets, NEW p \in Principals, p # u \/ t = u, NEW f \in Folders
      PROVE  acl'[t][f][p] \in {acl[t][f][p]} \union (IF p = t THEN {"none"} ELSE {})
  <2>1. acl \in [Targets -> [Folders -> [Principals -> Rights]]]
    BY DEF SharingTypeOK
  <2>2. acl' = [acl EXCEPT ![s] = [acl[s] EXCEPT ![g] = [acl[s][g] EXCEPT ![q] = rights]]]
    BY DEF SetRights
  <2>3. acl'[t][f][p] = IF t = s /\ f = g /\ p = q THEN rights ELSE acl[t][f][p]
    <3>1. acl'[t] = IF t = s THEN [acl[s] EXCEPT ![g] = [acl[s][g] EXCEPT ![q] = rights]]
                             ELSE acl[t]
      BY <2>1, <2>2
    <3>2. acl'[t][f] = IF t = s /\ f = g THEN [acl[s][g] EXCEPT ![q] = rights]
                                         ELSE acl[t][f]
      BY <2>1, <3>1
    <3> QED
      BY <2>1, <3>2
  <2> QED
    BY <1>2, <2>3
<1> QED
  BY <1>1, <1>2 DEF OwnEntries, profileVars

(* A step of a request, whatever it is, writes own entries only. *)
LEMMA OwnStep ==
    ASSUME IInv, NEW w \in Workers, WorkerStep(w)
    PROVE  OwnEntries(job[w].user)
<1> DEFINE j == job[w]
<1>1. UNCHANGED stores \/ WritesMailDb(w) \/ WritesSharing(w)
  BY Writes
<1>2. j \in Job /\ JobSound(j) /\ SharingTypeOK
  BY DEF IInv, TypeOK
<1> HIDE DEF j
<1> SUFFICES OwnEntries(j.user)
  BY DEF j
<1>3. ASSUME UNCHANGED <<acl, delegateTo, delegateFrom, othersFolders>>
      PROVE  OwnEntries(j.user)
  BY <1>3 DEF OwnEntries
<1>4. CASE UNCHANGED stores \/ WritesMailDb(w)
  BY <1>3, <1>4 DEF stores, sharingVars, aclVars, profileVars, WritesMailDb
<1>5. CASE WritesSenders(w) \/ FlushCache
  BY <1>3, <1>5 DEF WritesSenders, ReplaceSenders, FlushCache, aclVars, profileVars
<1>6. CASE WritesAcl(w)
  <2>1. j.pc \in RoundLabels
    BY <1>6 DEF WritesAcl, At, RoundLabels, j
  <2>2. j.user \in Users /\ j.target \in Targets \ {j.user}
    BY <1>2, <2>1, RoundKeeps
  <2>3. \/ \E f \in j.walk : SetRights(j.target, f, j.user, Due(j))
        \/ \E f \in j.walk : SetRights(j.target, f, j.target, "none")
    BY <1>6 DEF WritesAcl, j
  <2> QED
    BY <1>2, <2>2, <2>3, OwnRights
<1>7. CASE WritesProfile(w)
  <2>1. CASE SetDelegateFrom(j.user, j.shared)
    BY <1>2, <2>1 DEF SetDelegateFrom, OwnEntries, aclVars, SharingTypeOK
  <2>2. CASE At(w, "delegate") /\ PatchDelegateTo(j.target, j.user, Wanted(j))
    <3>1. j.pc \in RoundLabels
      BY <2>2 DEF At, RoundLabels, j
    <3>2. j.target \in Targets \ {j.user}
      BY <1>2, <3>1, RoundKeeps
    <3> QED
      BY <1>2, <2>2, <3>2 DEF PatchDelegateTo, OwnEntries, aclVars, SharingTypeOK
  <2> QED
    BY <1>7, <2>1, <2>2 DEF WritesProfile, j
<1> QED
  BY <1>1, <1>4, <1>5, <1>6, <1>7 DEF WritesSharing, j

(* "Other entries in those ACLs are not touched", of the Dovecot ACLs and of  *)
(* SOGo's delegations: a request that fails, repeats, overlaps with others or *)
(* dies changes entries of its own user only, and takes away owners' entries. *)
THEOREM OnlyOwnEntriesChange == Spec => OnlyOwnEntries
<1>1. ASSUME IInv, [Next]_vars, NEW w \in Workers, job'[w] # job[w]
      PROVE  OwnEntries(job[w].user)
  BY <1>1, WhoMoved, OwnStep
<1>2. IInv /\ [Next]_vars =>
        [\A w \in Workers : job'[w] # job[w] => OwnEntries(job[w].user)]_vars
  BY <1>1
<1>3. [\A w \in Workers : job'[w] # job[w] => OwnEntries(job[w].user)]_vars =>
        [\A w \in Workers : job'[w] # job[w] =>
          LET u == job[w].user IN
          /\ \A t \in Targets, p \in Principals : p # u \/ t = u =>
                /\ (p \in delegateTo'[t]) = (p \in delegateTo[t])
                /\ \A f \in Folders :
                      acl'[t][f][p] \in {acl[t][f][p]} \union (IF p = t THEN {"none"} ELSE {})
          /\ \A v \in Users \ {u} : /\ delegateFrom'[v] = delegateFrom[v]
                                      /\ othersFolders'[v] = othersFolders[v]]_vars
  BY Zenon DEF OwnEntries
<1> QED
  BY <1>2, <1>3, Invariance, PTL DEF Spec, OnlyOwnEntries

---------------------------------------------------------------------------
(* What a request knows of the account at hand, until it is done with it: it  *)
(* is the only one of its address, unless people changed that meanwhile; a    *)
(* column that was set is set; a fix is a local folder for a column that is.  *)
MailSound(j) ==
    j.pc \in MailLabels =>
       /\ Unspoilt({"hand"}) =>
             UniqueAccount(AccountOf[j.account][1], AccountOf[j.account][2]) = {j.account}
       /\ j.pc = "mapBoxes" =>
             \A c \in Columns : j.cols[c] # None => mapping[j.account][c] # None
       /\ j.pc = "mapSet" =>
             \A c \in Columns : j.fixes[c] # None =>
                /\ BoxOf[j.fixes[c]] = j.account /\ BoxName[j.fixes[c]] = c
                /\ mapping[j.account][c] # None

MailInv == IInv /\ \A w \in Workers : MailSound(job[w])

LEMMA OnlyAccount ==
    ASSUME MailDbTypeOK, NEW u, NEW t, NEW a \in UniqueAccount(u, t)
    PROVE  UniqueAccount(AccountOf[a][1], AccountOf[a][2]) = {a}
<1>1. a \in AccountsFor(u, t) /\ Cardinality(AccountsFor(u, t)) = 1
  BY DEF UniqueAccount
<1>2. AccountsFor(u, t) \subseteq Accounts
  BY DEF AccountsFor, MailDbTypeOK
<1>3. IsFiniteSet(AccountsFor(u, t))
  BY <1>2, MailDbAssumption, FS_Subset
<1>4. AccountsFor(u, t) = {a}
  BY <1>1, <1>3, FS_Singleton
<1>5. AccountOf[a] = <<u, t>>
  BY <1>1 DEF AccountsFor
<1> QED
  BY <1>1, <1>4, <1>5 DEF UniqueAccount

(* Such knowledge outlives the steps of others. *)
LEMMA MailSoundKept ==
    ASSUME NEW j, JobSound(j), MailSound(j), disturbed \subseteq disturbed',
           live' = live \/ "hand" \in disturbed',
           \A a \in Accounts, c \in Columns : mapping[a][c] # None => mapping'[a][c] # None
    PROVE  MailSound(j)'
<1>1. CASE j.pc \in MailLabels
  <2>1. j.account \in Accounts
    BY <1>1 DEF JobSound
  <2>2. Unspoilt({"hand"})' => Unspoilt({"hand"}) /\ live' = live
    BY DEF Unspoilt
  <2>3. ASSUME Unspoilt({"hand"})'
        PROVE  (UniqueAccount(AccountOf[j.account][1], AccountOf[j.account][2]) = {j.account})'
    BY <1>1, <2>2, <2>3 DEF MailSound, UniqueAccount, AccountsFor
  <2> QED
    BY <1>1, <2>1, <2>3 DEF MailSound
<1> QED
  BY <1>1 DEF MailSound

(* Nobody clears a column, and accounts come and go by people's hands only. *)
LEMMA MailDbSteps ==
    ASSUME IInv, [Next]_vars
    PROVE  /\ disturbed \subseteq disturbed'
           /\ \A a \in Accounts, c \in Columns : mapping[a][c] # None => mapping'[a][c] # None
           /\ live' # live => AccountsByHand
<1>1. CASE \E w \in Workers : WorkerStep(w)
  <2>1. PICK w \in Workers : WorkerStep(w)
    BY <1>1
  <2>2. UNCHANGED stores \/ WritesMailDb(w) \/ WritesSharing(w)
    BY <2>1, Writes
  <2>3. live' = live
    BY <2>2 DEF stores, mailDbVars, WritesSharing, WritesMailDb, UpdateSieve, UpdateMapping
  <2>4. \A a \in Accounts, c \in Columns : mapping[a][c] # None => mapping'[a][c] # None
    <3>1. CASE mapping' = mapping
      BY <3>1
    <3>2. ASSUME NEW d \in Columns, job[w].fixes[d] # None,
                 UpdateMapping(job[w].account, d, job[w].fixes[d])
          PROVE  \A a \in Accounts, c \in Columns : mapping[a][c] # None => mapping'[a][c] # None
      <4>1. mapping \in [Accounts -> [Columns -> Boxes \union {None}]]
        BY DEF IInv, TypeOK, MailDbTypeOK
      <4> QED
        BY <3>2, <4>1 DEF UpdateMapping
    <3> QED
      BY <2>2, <3>1, <3>2 DEF stores, mailDbVars, WritesSharing, WritesMailDb, UpdateSieve
  <2>5. disturbed \subseteq disturbed'
    <3>1. CASE Receive(w) \/ Acquire(w) \/ Crash(w)
      BY <3>1 DEF Receive, Acquire, Crash, Raises, Fault, Disturb, weather
    <3>2. CASE MailDb(w)
      BY <3>2 DEF MailDb, FindAccount, ReadSieve, WriteSieve, ReadMapping, ReadBoxes,
                  WriteMapping, Read, Call, Locally, Raises, Fault, Disturb, weather
    <3>3. CASE SnapshotSenders(w) \/ SnapshotDelegateTo(w) \/ ReadDelegateFrom(w)
               \/ WriteDelegateFrom(w) \/ SyncSenders(w) \/ ProbeInbox(w)
      BY <3>3 DEF SnapshotSenders, SnapshotDelegateTo, ReadDelegateFrom, WriteDelegateFrom,
                  SyncSenders, ProbeInbox, Change, Read, Call, Locally, Raises, Fault,
                  Disturb, weather
    <3>4. CASE ListFolders(w) \/ SetFolder(w) \/ StartSelf(w) \/ ClearSelf(w)
               \/ SyncDelegateTo(w) \/ Finish(w)
      BY <3>4 DEF ListFolders, SetFolder, StartSelf, ClearSelf, SyncDelegateTo, Finish,
                  Change, Read, Call, Locally, Raises, Fault, Disturb, weather
    <3> QED
      BY <2>1, <3>1, <3>2, <3>3, <3>4 DEF WorkerStep, Sharing
  <2> QED
    BY <2>3, <2>4, <2>5
<1>2. CASE Surroundings
  <2>1. disturbed \subseteq disturbed'
    BY <1>2 DEF Surroundings, SendersByHand, DelegationByHand, AccountsByHand, FolderMade,
                BoxMade, Mapped, Event, Disturb
  <2>2. CASE Mapped
    <3>1. PICK b \in boxes, d \in Columns : mapping' = [mapping EXCEPT ![BoxOf[b]][d] = b]
      BY <2>2 DEF Mapped
    <3>2. b # None /\ mapping \in [Accounts -> [Columns -> Boxes \union {None}]]
      BY MailDbAssumption DEF IInv, TypeOK, MailDbTypeOK
    <3>3. \A a \in Accounts, c \in Columns : mapping[a][c] # None => mapping'[a][c] # None
      BY <3>1, <3>2
    <3> QED
      BY <2>1, <2>2, <3>3 DEF Mapped
  <2>3. CASE ~Mapped
    <3>1. mapping' = mapping
      BY <1>2, <2>3 DEF Surroundings, SendersByHand, DelegationByHand, AccountsByHand,
                        FolderMade, BoxMade, mailDbVars
    <3>2. live' # live => AccountsByHand
      BY <1>2 DEF Surroundings, SendersByHand, DelegationByHand, FolderMade, BoxMade,
                  Mapped, mailDbVars
    <3> QED
      BY <2>1, <3>1, <3>2
  <2> QED
    BY <2>2, <2>3
<1>3. CASE Rest \/ UNCHANGED vars
  BY <1>3 DEF Rest, vars, stores, mailDbVars, weather
<1> QED
  BY <1>1, <1>2, <1>3 DEF Next, WorkerStep

(* What becomes of the label: none of the sharing's is one of the mail database's. *)
LEMMA Labelled ==
    ASSUME NEW j, "pc" \in DOMAIN j
    PROVE  /\ \A label : Goto(j, label).pc = label
           /\ \A step : Failed(j, step).pc = j.pc /\ "pc" \in DOMAIN Failed(j, step)
           /\ Changed(j).pc = j.pc /\ "pc" \in DOMAIN Changed(j)
           /\ StartLoop(j).pc = "mailbox" /\ "pc" \in DOMAIN StartLoop(j)
           /\ EndRound(j).pc = "mailbox" /\ "pc" \in DOMAIN EndRound(j)
           /\ EndMail(j).pc = "mail"
BY DEF Goto, Failed, Changed, StartLoop, EndRound, EndMail

LEMMA LabelledToo ==
    ASSUME NEW j, "pc" \in DOMAIN j
    PROVE  /\ \A step : Goto(Failed(j, step), "dts").pc = "dts"
           /\ \A step : Goto(Failed(j, step), "from").pc = "from"
           /\ Changed(StartLoop(j)).pc = "mailbox"
           /\ Failed(StartLoop(j), "sharing").pc = "mailbox"
           /\ FailRound(j).pc = "mailbox"
           /\ Changed(EndRound(j)).pc = "mailbox"
           /\ EndMail(Failed(j, "map")).pc = "mail"
           /\ Changed(Goto(j, "self")).pc = "self"
           /\ Changed(Goto(j, "delegate")).pc = "delegate"
<1>1. ASSUME NEW label PROVE "pc" \in DOMAIN Goto(j, label)
  BY DEF Goto
<1>2. /\ \A step : "pc" \in DOMAIN Failed(j, step)
      /\ "pc" \in DOMAIN StartLoop(j) /\ "pc" \in DOMAIN EndRound(j)
  BY Labelled
<1>3. ASSUME NEW step
      PROVE  Goto(Failed(j, step), "dts").pc = "dts" /\ Goto(Failed(j, step), "from").pc = "from"
  BY <1>2 DEF Goto
<1>4. Changed(StartLoop(j)).pc = "mailbox" /\ Failed(StartLoop(j), "sharing").pc = "mailbox"
  BY <1>2, Labelled DEF Changed, Failed
<1>5. EndRound(Failed(j, "sharing")).pc = "mailbox" /\ Changed(EndRound(j)).pc = "mailbox"
  BY <1>2, Labelled
<1>6. EndMail(Failed(j, "map")).pc = "mail"
  BY <1>2, Labelled
<1>7. ASSUME NEW label
      PROVE  Changed(Goto(j, label)).pc = label
  <2>1. "pc" \in DOMAIN Goto(j, label) /\ Goto(j, label).pc = label
    BY <1>1, Labelled
  <2> QED
    BY <2>1, Labelled
<1> QED
  BY <1>3, <1>4, <1>5, <1>6, <1>7 DEF FailRound

LEMMA Becomes ==
    ASSUME IInv, NEW w \in Workers, NEW j, Become(w, j)
    PROVE  job'[w] = j
BY DEF IInv, TypeOK, Become

(* The outcomes of a read, a write, and a change *)
LEMMA Reads ==
    ASSUME IInv, NEW w \in Workers, NEW ok, NEW no, Read(w, ok, no)
    PROVE  job'[w] \in {ok, no} /\ UNCHANGED stores
BY Becomes DEF Read, Locally, Raises

LEMMA Changes ==
    ASSUME IInv, NEW w \in Workers, NEW j, NEW effect, NEW next, Change(w, j, effect, next)
    PROVE  job'[w] \in {Changed(next), FailRound(j)}
BY Becomes DEF Change, Call, Locally

(* A step of the sharing, or one that begins or ends a request, does not leave *)
(* it in the midst of an account, nor takes it back to before the loop.        *)
LEMMA NotAtMail ==
    ASSUME IInv, NEW w \in Workers, Receive(w) \/ Acquire(w) \/ Sharing(w) \/ Crash(w)
    PROVE  /\ job'[w].pc \notin MailLabels
           /\ job'[w].pc \in {"dts", "from", "fromSet"} =>
                 job[w].pc \in {"mail", "dts", "from"}
<1> DEFINE j == job[w]
<1>1. j \in Job /\ "pc" \in DOMAIN j
  BY DEF IInv, TypeOK, Job
<1> HIDE DEF j
<1>0. /\ StartLoop(j).pc = "mailbox" /\ Changed(StartLoop(j)).pc = "mailbox"
      /\ Failed(StartLoop(j), "sharing").pc = "mailbox"
      /\ EndRound(j).pc = "mailbox" /\ Changed(EndRound(j)).pc = "mailbox"
      /\ FailRound(j).pc = "mailbox" /\ Goto(Failed(j, "sharing"), "dts").pc = "dts"
      /\ Goto(j, "fromSet").pc = "fromSet" /\ Goto(j, "self").pc = "self"
      /\ Goto(j, "list").pc = "list" /\ Changed(Goto(j, "self")).pc = "self"
  <2>1. /\ StartLoop(j).pc = "mailbox" /\ EndRound(j).pc = "mailbox"
        /\ Goto(j, "fromSet").pc = "fromSet" /\ Goto(j, "self").pc = "self"
        /\ Goto(j, "list").pc = "list"
    BY <1>1, Labelled
  <2>2. /\ Changed(StartLoop(j)).pc = "mailbox" /\ Failed(StartLoop(j), "sharing").pc = "mailbox"
        /\ Changed(EndRound(j)).pc = "mailbox" /\ FailRound(j).pc = "mailbox"
        /\ Goto(Failed(j, "sharing"), "dts").pc = "dts" /\ Changed(Goto(j, "self")).pc = "self"
    BY <1>1, LabelledToo
  <2> QED
    BY <2>1, <2>2
<1>2. CASE Receive(w)
  <2>1. PICK u, want, managed, probed, dry :
             Become(w, Request(u, want, managed, probed, dry))
    BY <1>2 DEF Receive
  <2>2. job'[w].pc = "lock"
    <3> DEFINE k == Request(u, want, managed, probed, dry)
    <3>1. k.pc = "lock"
      BY DEF Request, IdleJob
    <3>2. Become(w, k)
      BY <2>1
    <3> HIDE DEF k
    <3> QED
      BY <3>1, <3>2, Becomes
  <2> QED
    BY <2>2 DEF MailLabels
<1>3. CASE Acquire(w)
  <2>1. job'[w] = [j EXCEPT !.pc = "mail", !.todo = j.managed]
    BY <1>3, Becomes DEF Acquire, j
  <2>2. job'[w].pc = "mail"
    BY <1>1, <2>1
  <2> QED
    BY <2>2 DEF MailLabels
<1>4. CASE Crash(w)
  BY <1>4, Becomes DEF Crash, Raises, IdleJob, MailLabels
<1>5. CASE SnapshotSenders(w)
  <2>1. job'[w] \in {[j EXCEPT !.pc = "dts", !.acls = senders], Goto(Failed(j, "sharing"), "dts"),
                     StartLoop(j)}
    BY <1>5, Becomes, Reads DEF SnapshotSenders, Locally, j
  <2>2. job'[w].pc \in {"dts", "mailbox"}
    BY <1>1, <1>0, <2>1
  <2> QED
    BY <1>5, <2>2 DEF SnapshotSenders, At, MailLabels
<1>6. CASE SnapshotDelegateTo(w)
  <2>1. job'[w] \in {[j EXCEPT !.pc = "from", !.dts = delegateTo],
                     Goto(Failed(j, "sharing"), "from")}
    BY <1>6, Reads DEF SnapshotDelegateTo, j
  <2>2. job'[w].pc = "from"
    BY <1>1, <2>1, LabelledToo
  <2> QED
    BY <1>6, <2>2 DEF SnapshotDelegateTo, At, MailLabels
<1>7. CASE ReadDelegateFrom(w)
  <2>1. job'[w] \in {StartLoop(j), Changed(StartLoop(j)), Goto(j, "fromSet"),
                     Failed(StartLoop(j), "sharing")}
    BY <1>7, Reads DEF ReadDelegateFrom, j
  <2>2. job'[w].pc \in {"mailbox", "fromSet"}
    BY <1>0, <2>1
  <2> QED
    BY <1>7, <2>2 DEF ReadDelegateFrom, At, MailLabels
<1>8. CASE WriteDelegateFrom(w)
  <2>1. job'[w] \in {Changed(StartLoop(j)), Failed(StartLoop(j), "sharing")}
    BY <1>8, Becomes DEF WriteDelegateFrom, Call, j
  <2>2. job'[w].pc = "mailbox"
    BY <1>1, <2>1, LabelledToo
  <2> QED
    BY <2>2 DEF MailLabels
<1>9. CASE SyncSenders(w)
  <2>1. PICK t \in job[w].todo :
          LET k == Entered(job[w], t) IN
          IF Wanted(k) = (k.user \in k.acls[t]) THEN Locally(w, k)
          ELSE Change(w, k, ReplaceSenders(t, NewSenders(k)), k)
    BY <1>9 DEF SyncSenders, Entered
  <2> DEFINE k == Entered(job[w], t)
  <2>2. k.pc = "probe" /\ "pc" \in DOMAIN k
    BY <1>1 DEF Entered, j
  <2>3. Locally(w, k) \/ Change(w, k, ReplaceSenders(t, NewSenders(k)), k)
    BY <2>1
  <2> HIDE DEF k
  <2>4. job'[w] \in {k, Changed(k), FailRound(k)}
    <3>1. CASE Locally(w, k)
      BY <3>1, Becomes DEF Locally
    <3>2. CASE Change(w, k, ReplaceSenders(t, NewSenders(k)), k)
      BY <3>2, Becomes DEF Change, Call, Locally
    <3> QED
      BY <2>3, <3>1, <3>2
  <2>5. job'[w].pc \in {"probe", "mailbox"}
    BY <2>2, <2>4, Labelled, LabelledToo
  <2> QED
    BY <2>5 DEF MailLabels
<1>10. CASE ProbeInbox(w)
  <2>1. \/ job'[w] = FailRound(j)
        \/ \E rights : job'[w] = Decide(j, rights)
    BY <1>10, Becomes, Reads DEF ProbeInbox, Raises, j
  <2>2. job'[w].pc \in {"mailbox", "self", "list"}
    BY <1>0, <2>1 DEF Decide
  <2> QED
    BY <2>2 DEF MailLabels
<1>11. CASE ListFolders(w)
  <2>1. job'[w] \in {[j EXCEPT !.pc = "walk", !.walk = folders[j.target]], FailRound(j)}
    BY <1>11, Reads DEF ListFolders, j
  <2>2. job'[w].pc \in {"walk", "mailbox"}
    BY <1>1, <2>1, LabelledToo
  <2> QED
    BY <2>2 DEF MailLabels
<1>12. CASE SetFolder(w)
  <2>1. PICK f \in job[w].walk :
          LET k == [job[w] EXCEPT !.walk = @ \ {f}] IN
          \/ Call(w, SetRights(k.target, f, k.user, Due(k)) /\ UNCHANGED mailDbVars,
                  Walked(k), FailRound(k))
          \/ Raises(w, "rc", Walked(k))
    BY <1>12 DEF SetFolder
  <2> DEFINE k == [job[w] EXCEPT !.walk = @ \ {f}]
  <2>2. k.pc = "walk" /\ "pc" \in DOMAIN k
    BY <1>1, <1>12 DEF SetFolder, At, j
  <2>3. job'[w] \in {Walked(k), FailRound(k)}
    BY <2>1, Becomes DEF Call, Raises
  <2> HIDE DEF k
  <2>4. job'[w].pc \in {"walk", "self", "mailbox"}
    BY <2>2, <2>3, LabelledToo DEF Walked
  <2> QED
    BY <2>4 DEF MailLabels
<1>13. CASE StartSelf(w)
  <2> DEFINE next == [Goto(j, "delegate") EXCEPT !.probed = @ \union {j.target}]
  <2>1. next.pc = "delegate" /\ "pc" \in DOMAIN next
    BY <1>1 DEF Goto
  <2>2. job'[w] \in {next, [next EXCEPT !.pc = "selfWalk", !.walk = folders[j.target]],
                     Failed(next, "sharing")}
    BY <1>13, Becomes, Reads DEF StartSelf, Locally, j
  <2> HIDE DEF next
  <2>3. job'[w].pc \in {"delegate", "selfWalk"}
    <3>1. Failed(next, "sharing").pc = "delegate"
      BY <2>1, Labelled
    <3> QED
      BY <2>1, <2>2, <3>1
  <2> QED
    BY <2>3 DEF MailLabels
<1>14. CASE ClearSelf(w)
  <2>1. PICK f \in job[w].walk :
          LET k == [job[w] EXCEPT !.walk = @ \ {f}]
              given_up == [Failed(k, "sharing") EXCEPT !.pc = "delegate", !.walk = {}]
          IN \/ Read(w, Cleared(k), given_up)
             \/ Read(w, Cleared([k EXCEPT !.found = TRUE]), given_up)
             \/ Call(w, SetRights(k.target, f, k.target, "none") /\ UNCHANGED mailDbVars,
                     Cleared([k EXCEPT !.found = TRUE]), given_up)
             \/ Raises(w, "rc", Cleared(k))
    BY <1>14 DEF ClearSelf
  <2> DEFINE k == [job[w] EXCEPT !.walk = @ \ {f}]
             k2 == [k EXCEPT !.found = TRUE]
             given_up == [Failed(k, "sharing") EXCEPT !.pc = "delegate", !.walk = {}]
  <2>2. k.pc = "selfWalk" /\ "pc" \in DOMAIN k /\ k2.pc = "selfWalk" /\ "pc" \in DOMAIN k2
    BY <1>1, <1>14 DEF ClearSelf, At, j
  <2>3. given_up.pc = "delegate"
    BY <2>2, Labelled
  <2>7. \/ Read(w, Cleared(k), given_up) \/ Read(w, Cleared(k2), given_up)
        \/ Call(w, SetRights(k.target, f, k.target, "none") /\ UNCHANGED mailDbVars,
                Cleared(k2), given_up)
        \/ Raises(w, "rc", Cleared(k))
    BY <2>1
  <2> HIDE DEF k, k2, given_up
  <2>4. ASSUME NEW i, i.pc = "selfWalk", "pc" \in DOMAIN i
        PROVE  Cleared(i).pc \in {"selfWalk", "delegate"}
    <3>1. Changed(Goto(i, "delegate")).pc = "delegate" /\ Goto(i, "delegate").pc = "delegate"
      BY <2>4, Labelled, LabelledToo
    <3> QED
      BY <2>4, <3>1 DEF Cleared
  <2>5. job'[w] \in {Cleared(k), Cleared(k2), given_up}
    BY <2>7, Becomes, Reads DEF Call, Raises
  <2>6. job'[w].pc \in {"selfWalk", "delegate"}
    BY <2>2, <2>3, <2>4, <2>5
  <2> QED
    BY <2>6 DEF MailLabels
<1>15. CASE SyncDelegateTo(w)
  <2>1. job'[w] \in {EndRound(j), Changed(EndRound(j)), FailRound(j)}
    BY <1>15, Becomes DEF SyncDelegateTo, Change, Call, Locally, j
  <2>2. job'[w].pc = "mailbox"
    BY <1>0, <2>1
  <2> QED
    BY <2>2 DEF MailLabels
<1>16. CASE Finish(w)
  <2>1. job'[w] = [IdleJob EXCEPT !.probed = j.probed, !.dry = j.dry]
    BY <1>16, Becomes DEF Finish, Locally, Raises, j
  <2>2. job'[w].pc = "idle"
    BY <2>1 DEF IdleJob
  <2> QED
    BY <2>2 DEF MailLabels
<1> QED
  BY <1>2, <1>3, <1>4, <1>5, <1>6, <1>7, <1>8, <1>9, <1>10, <1>11, <1>12, <1>13, <1>14,
     <1>15, <1>16 DEF Sharing

(* The steps on the account at hand *)
LEMMA MailMoves ==
    ASSUME IInv, NEW w \in Workers, MailDb(w)
    PROVE  \/ job'[w].pc = "mail"
           \/ /\ UNCHANGED live
              /\ job'[w].pc = "sieve"
              /\ \E t : job'[w].account \in UniqueAccount(job[w].user, t)
           \/ /\ job[w].pc \in MailLabels
              /\ job'[w].account = job[w].account
              /\ \/ job'[w].pc \in {"sieve", "sieveSet", "map"}
                 \/ /\ job'[w].pc = "mapBoxes" /\ UNCHANGED mapping
                    /\ job'[w].cols = mapping[job[w].account]
                 \/ /\ job[w].pc = "mapBoxes" /\ job'[w].pc = "mapSet"
                    /\ job'[w].fixes = FixesFor(job[w])
                 \/ /\ job[w].pc = "mapSet" /\ job'[w].pc = "mapSet"
                    /\ \A c \in Columns : job'[w].fixes[c] \in {None, job[w].fixes[c]}
<1> DEFINE j == job[w]
<1>1. j \in Job
  BY DEF IInv, TypeOK
<1>2. "pc" \in DOMAIN j /\ "account" \in DOMAIN j /\ "cols" \in DOMAIN j /\ "fixes" \in DOMAIN j
  BY <1>1 DEF Job
<1> HIDE DEF j
<1>3. /\ EndMail(j).pc = "mail" /\ EndMail(Failed(j, "map")).pc = "mail"
      /\ SieveFailed(j).pc = "map" /\ SieveFailed(j).account = j.account
      /\ \A label : Goto(j, label).pc = label /\ Goto(j, label).account = j.account
  <2>1. "pc" \in DOMAIN Failed(j, "sieve") /\ Failed(j, "sieve").account = j.account
    BY <1>2 DEF Failed
  <2>2. SieveFailed(j).pc = "map" /\ SieveFailed(j).account = j.account
    BY <1>2, <2>1 DEF SieveFailed, Goto
  <2>3. ASSUME NEW label
        PROVE  Goto(j, label).pc = label /\ Goto(j, label).account = j.account
    BY <1>2 DEF Goto
  <2> QED
    BY <1>2, <2>2, <2>3, Labelled, LabelledToo
<1>4. CASE FindAccount(w)
  <2>1. PICK t \in job[w].todo :
          LET next == [job[w] EXCEPT !.todo = @ \ {t}]
              found == UniqueAccount(job[w].user, t)
          IN \/ \E a \in found : Locally(w, [next EXCEPT !.pc = "sieve", !.account = a])
             \/ found = {} /\ Locally(w, next)
             \/ Raises(w, "rc", next)
             \/ Raises(w, "call", Failed(Failed(next, "sieve"), "map"))
    BY <1>4 DEF FindAccount
  <2> DEFINE next == [job[w] EXCEPT !.todo = @ \ {t}]
  <2>2. next.pc = "mail" /\ "pc" \in DOMAIN next /\ "account" \in DOMAIN next
    BY <1>2, <1>4 DEF FindAccount, At, j
  <2>3. \/ \E a \in UniqueAccount(job[w].user, t) :
              Locally(w, [next EXCEPT !.pc = "sieve", !.account = a])
        \/ job'[w] = next
        \/ job'[w] = Failed(Failed(next, "sieve"), "map")
    BY <2>1, Becomes DEF Locally, Raises
  <2> HIDE DEF next
  <2>4. CASE \E a \in UniqueAccount(job[w].user, t) :
              Locally(w, [next EXCEPT !.pc = "sieve", !.account = a])
    <3>1. PICK a \in UniqueAccount(job[w].user, t) :
              Locally(w, [next EXCEPT !.pc = "sieve", !.account = a])
      BY <2>4
    <3>2. job'[w] = [next EXCEPT !.pc = "sieve", !.account = a] /\ UNCHANGED live
      BY <3>1, Becomes DEF Locally, stores, mailDbVars
    <3>3. job'[w].pc = "sieve" /\ job'[w].account = a
      BY <2>2, <3>2
    <3> QED
      BY <3>2, <3>3
  <2>5. CASE job'[w] = next \/ job'[w] = Failed(Failed(next, "sieve"), "map")
    <3>1. "pc" \in DOMAIN Failed(next, "sieve") /\ Failed(next, "sieve").pc = "mail"
      BY <2>2, Labelled
    <3>2. Failed(Failed(next, "sieve"), "map").pc = "mail"
      BY <3>1, Labelled
    <3>3. job'[w].pc = "mail"
      BY <2>2, <2>5, <3>2
    <3> QED
      BY <3>3
  <2> QED
    BY <2>3, <2>4, <2>5
<1>5. CASE ReadSieve(w) \/ WriteSieve(w)
  <2>1. j.pc \in MailLabels
    BY <1>5 DEF ReadSieve, WriteSieve, At, MailLabels, j
  <2>2. job'[w] \in {Goto(j, "sieveSet"), Goto(j, "map"), SieveFailed(j)}
    BY <1>5, Becomes, Reads DEF ReadSieve, WriteSieve, Call, j
  <2>3. job'[w].account = j.account /\ job'[w].pc \in {"sieve", "sieveSet", "map"}
    BY <1>3, <2>2
  <2> QED
    BY <2>1, <2>3 DEF j
<1>6. CASE ReadMapping(w)
  <2> DEFINE k == [j EXCEPT !.pc = "mapBoxes", !.cols = mapping[j.account]]
  <2>1. j.pc \in MailLabels
    BY <1>6 DEF ReadMapping, At, MailLabels, j
  <2>2. Read(w, k, EndMail(Failed(j, "map"))) \/ Read(w, EndMail(j), EndMail(Failed(j, "map")))
    BY <1>6 DEF ReadMapping, j
  <2>3. k.pc = "mapBoxes" /\ k.account = j.account /\ k.cols = mapping[j.account]
    BY <1>2
  <2> HIDE DEF k
  <2>4. job'[w] \in {k, EndMail(j), EndMail(Failed(j, "map"))} /\ UNCHANGED mapping
    BY <2>2, Reads DEF stores, mailDbVars
  <2>5. CASE job'[w] = k
    BY <2>1, <2>3, <2>4, <2>5 DEF j
  <2>6. CASE job'[w] # k
    BY <1>3, <2>4, <2>6
  <2> QED
    BY <2>5, <2>6
<1>7. CASE ReadBoxes(w)
  <2> DEFINE k == [j EXCEPT !.pc = "mapSet", !.fixes = FixesFor(j)]
  <2>1. j.pc = "mapBoxes" /\ j.pc \in MailLabels
    BY <1>7 DEF ReadBoxes, At, MailLabels, j
  <2>2. \/ Read(w, k, EndMail(Failed(j, "map")))
        \/ Read(w, EndMail(j), EndMail(Failed(j, "map")))
        \/ Raises(w, "rc", EndMail(j))
    BY <1>7 DEF ReadBoxes, j
  <2>3. k.pc = "mapSet" /\ k.account = j.account /\ k.fixes = FixesFor(j)
    BY <1>2
  <2> HIDE DEF k
  <2>4. job'[w] \in {k, EndMail(j), EndMail(Failed(j, "map"))}
    BY <2>2, Becomes, Reads DEF Raises
  <2>5. CASE job'[w] = k
    BY <2>1, <2>3, <2>5 DEF j
  <2>6. CASE job'[w] # k
    BY <1>3, <2>4, <2>6
  <2> QED
    BY <2>5, <2>6
<1>8. CASE WriteMapping(w)
  <2>1. j.pc = "mapSet" /\ j.pc \in MailLabels
    BY <1>8 DEF WriteMapping, At, MailLabels, j
  <2>2. \/ \E c \in Columns : job'[w] = [j EXCEPT !.fixes[c] = None]
        \/ job'[w] \in {EndMail(j), EndMail(Failed(j, "map"))}
    BY <1>8, Becomes DEF WriteMapping, Call, Locally, j
  <2>3. CASE \E c \in Columns : job'[w] = [j EXCEPT !.fixes[c] = None]
    <3>1. PICK c \in Columns : job'[w] = [j EXCEPT !.fixes[c] = None]
      BY <2>3
    <3>2. job'[w].pc = j.pc /\ job'[w].account = j.account
      BY <1>2, <3>1
    <3>3. job'[w].fixes = [j.fixes EXCEPT ![c] = None]
      BY <1>2, <3>1
    <3>4. j.fixes \in [Columns -> Boxes \union {None}]
      BY <1>1 DEF Job
    <3>5. \A d \in Columns : job'[w].fixes[d] \in {None, j.fixes[d]}
      BY <3>3, <3>4
    <3> QED
      BY <2>1, <3>2, <3>5 DEF j
  <2>4. CASE job'[w] \in {EndMail(j), EndMail(Failed(j, "map"))}
    BY <1>3, <2>4
  <2> QED
    BY <2>2, <2>3, <2>4
<1> QED
  BY <1>4, <1>5, <1>6, <1>7, <1>8 DEF MailDb

LEMMA SoundNext ==
    ASSUME NEW j, NEW k, MailSound(j)', j.pc \in MailLabels, k.account = j.account,
           \/ k.pc \notin {"mapBoxes", "mapSet"}
           \/ k.pc = "mapBoxes"
                /\ \A c \in Columns : k.cols[c] # None => mapping'[j.account][c] # None
           \/ k.pc = "mapSet"
                /\ \A c \in Columns : k.fixes[c] # None =>
                      /\ BoxOf[k.fixes[c]] = j.account /\ BoxName[k.fixes[c]] = c
                      /\ mapping'[j.account][c] # None
    PROVE  MailSound(k)'
BY DEF MailSound

LEMMA MailInductive ==
    ASSUME MailInv, [Next]_vars
    PROVE  MailInv'
<1>1. IInv /\ IInv'
  BY Inductive DEF MailInv
<1>2. live' # live => UNCHANGED job /\ (Busy => "hand" \in disturbed')
  BY <1>1, MailDbSteps DEF AccountsByHand, Event, Disturb
<1>3. ASSUME NEW v \in Workers
      PROVE  MailSound(job[v])'
  <2>1. PICK j \in Job : j = job[v]
    BY <1>1 DEF IInv, TypeOK
  <2>2. JobSound(j) /\ MailSound(j) /\ MailDbTypeOK
    BY <1>1, <2>1 DEF MailInv, IInv, TypeOK
  <2>3. ASSUME j.pc \in MailLabels
        PROVE  MailSound(j)'
    <3>1. Busy
      BY <2>1, <2>3 DEF Busy, HoldsLock, MailLabels
    <3>2. live' = live \/ "hand" \in disturbed'
      BY <1>2, <3>1
    <3>3. /\ disturbed \subseteq disturbed'
          /\ \A a \in Accounts, c \in Columns : mapping[a][c] # None => mapping'[a][c] # None
      BY <1>1, MailDbSteps
    <3> QED
      BY <2>2, <3>2, <3>3, MailSoundKept
  <2>4. CASE job'[v].pc \notin MailLabels
    BY <2>4 DEF MailSound
  <2>5. CASE job'[v] = j
    BY <2>3, <2>4, <2>5
  <2>6. CASE job'[v].pc \in MailLabels /\ job'[v] # j
    <3>1. WorkerStep(v) /\ live' = live
      BY <1>1, <1>2, <2>1, <2>6, WhoMoved
    <3>2. MailDb(v)
      BY <1>1, <2>6, <3>1, NotAtMail DEF WorkerStep
    <3>3. CASE job'[v].pc = "sieve" /\ \E t : job'[v].account \in UniqueAccount(j.user, t)
      <4>1. PICK k : k = job'[v]
        OBVIOUS
      <4>2. UniqueAccount(AccountOf[k.account][1], AccountOf[k.account][2]) = {k.account}
        BY <2>2, <3>3, <4>1, OnlyAccount
      <4>3. (UniqueAccount(AccountOf[k.account][1], AccountOf[k.account][2]) = {k.account})'
        BY <3>1, <4>2 DEF UniqueAccount, AccountsFor
      <4>4. MailSound(k)'
        BY <3>3, <4>1, <4>3 DEF MailSound
      <4> QED
        BY <4>1, <4>4
    <3>4. CASE j.pc \in MailLabels /\ job'[v].account = j.account
      <4>1. PICK k : k = job'[v]
        OBVIOUS
      <4>2. MailSound(j)' /\ j.account \in Accounts
        BY <2>2, <2>3, <3>4 DEF JobSound
      <4>3. CASE k.pc \in {"sieve", "sieveSet", "map"}
        BY <3>4, <4>1, <4>2, <4>3, SoundNext
      <4>4. CASE k.pc = "mapBoxes" /\ UNCHANGED mapping /\ k.cols = mapping[j.account]
        <5>1. \A c \in Columns : k.cols[c] # None => mapping'[j.account][c] # None
          BY <4>4
        <5> QED
          BY <3>4, <4>1, <4>2, <4>4, <5>1, SoundNext
      <4>5. CASE j.pc = "mapBoxes" /\ k.pc = "mapSet" /\ k.fixes = FixesFor(j)
        <5>1. \A c \in Columns : j.cols[c] # None => mapping'[j.account][c] # None
          BY <4>2, <4>5 DEF MailSound, MailLabels
        <5>2. \A c \in Columns : k.fixes[c] # None =>
                 /\ BoxOf[k.fixes[c]] = j.account /\ BoxName[k.fixes[c]] = c
                 /\ mapping'[j.account][c] # None
          BY <2>2, <4>5, <5>1, FixesSound
        <5> QED
          BY <3>4, <4>1, <4>2, <4>5, <5>2, SoundNext
      <4>6. CASE /\ j.pc = "mapSet" /\ k.pc = "mapSet"
                 /\ \A c \in Columns : k.fixes[c] \in {None, j.fixes[c]}
        <5>1. \A c \in Columns : k.fixes[c] # None =>
                 /\ BoxOf[k.fixes[c]] = j.account /\ BoxName[k.fixes[c]] = c
                 /\ mapping'[j.account][c] # None
          BY <4>2, <4>6 DEF MailSound, MailLabels
        <5> QED
          BY <3>4, <4>1, <4>2, <4>6, <5>1, SoundNext
      <4> QED
        BY <1>1, <2>1, <2>6, <3>2, <3>3, <4>1, <4>3, <4>4, <4>5, <4>6, MailMoves
           DEF MailLabels
    <3> QED
      BY <1>1, <2>1, <2>6, <3>2, <3>3, <3>4, MailMoves DEF MailLabels
  <2> QED
    BY <2>4, <2>5, <2>6
<1> QED
  BY <1>1, <1>3 DEF MailInv

LEMMA MailInitially ==
    ASSUME Init
    PROVE  MailInv
BY Initially DEF Init, MailInv, MailSound, IdleJob, MailLabels

(* NextcloudMailDB repairs and never takes over: whatever fails, races or is  *)
(* changed by hand, what a request writes goes to an account of its user and  *)
(* of a target it manages; the account is the only one of its address; and a  *)
(* column it changes was set, and gets the account's folder of the local name. *)
THEOREM MailDbIsRepaired == Spec => MailDbRepairsOnly
<1>1. Init => MailInv
  BY MailInitially
<1>2. MailInv /\ [Next]_vars => MailInv'
  BY MailInductive
<1>3. ASSUME MailInv, [Next]_vars, NEW w \in Workers, NEW a \in Accounts, job'[w] # job[w],
             <<sieve[a], mapping[a]>>' # <<sieve[a], mapping[a]>>
      PROVE  /\ \E t \in job[w].managed : AccountOf[a] = <<job[w].user, t>>
             /\ Unspoilt({"hand"}) => UniqueAccount(AccountOf[a][1], AccountOf[a][2]) = {a}
             /\ \A c \in Columns : mapping'[a][c] # mapping[a][c] =>
                   mapping[a][c] # None /\ BoxName[mapping'[a][c]] = c /\ BoxOf[mapping'[a][c]] = a
  <2> DEFINE j == job[w]
  <2>1. IInv /\ JobSound(j) /\ MailSound(j) /\ MailDbTypeOK
    BY <1>3 DEF MailInv, IInv, TypeOK
  <2>2. WritesMailDb(w)
    <3>1. UNCHANGED stores \/ WritesMailDb(w) \/ WritesSharing(w)
      BY <1>3, <2>1, WhoMoved, Writes
    <3>2. UNCHANGED stores \/ WritesSharing(w) => UNCHANGED <<sieve, mapping>>
      BY DEF stores, mailDbVars, WritesSharing
    <3> QED
      BY <1>3, <3>1, <3>2
  <2> HIDE DEF j
  <2>3. CASE At(w, "sieveSet") /\ UpdateSieve(j.account)
    <3>1. j.pc \in MailLabels
      BY <2>3 DEF At, MailLabels, j
    <3>2. a = j.account /\ mapping' = mapping
      BY <1>3, <2>1, <2>3 DEF UpdateSieve, MailDbTypeOK
    <3> QED
      BY <2>1, <3>1, <3>2 DEF JobSound, MailSound, j
  <2>4. ASSUME At(w, "mapSet"), NEW d \in Columns, j.fixes[d] # None,
               UpdateMapping(j.account, d, j.fixes[d])
        PROVE  /\ \E t \in j.managed : AccountOf[a] = <<j.user, t>>
               /\ Unspoilt({"hand"}) => UniqueAccount(AccountOf[a][1], AccountOf[a][2]) = {a}
               /\ \A c \in Columns : mapping'[a][c] # mapping[a][c] =>
                     /\ mapping[a][c] # None
                     /\ BoxName[mapping'[a][c]] = c /\ BoxOf[mapping'[a][c]] = a
    <3>1. j.pc = "mapSet" /\ j.pc \in MailLabels
      BY <2>4 DEF At, MailLabels, j
    <3>2. a = j.account
      BY <1>3, <2>1, <2>4 DEF UpdateMapping, MailDbTypeOK
    <3>3. \A c \in Columns : mapping'[a][c] # mapping[a][c] => c = d /\ mapping'[a][c] = j.fixes[d]
      BY <2>1, <2>4, <3>2 DEF UpdateMapping, MailDbTypeOK
    <3> QED
      BY <2>1, <2>4, <3>1, <3>2, <3>3 DEF JobSound, MailSound
  <2> QED
    BY <2>2, <2>3, <2>4 DEF WritesMailDb, j
<1>4. MailInv /\ [Next]_vars =>
        [\A w \in Workers, a \in Accounts :
          job'[w] # job[w] /\ <<sieve[a], mapping[a]>>' # <<sieve[a], mapping[a]>> =>
             /\ \E t \in job[w].managed : AccountOf[a] = <<job[w].user, t>>
             /\ Unspoilt({"hand"}) => UniqueAccount(AccountOf[a][1], AccountOf[a][2]) = {a}
             /\ \A c \in Columns : mapping'[a][c] # mapping[a][c] =>
                   mapping[a][c] # None /\ BoxName[mapping'[a][c]] = c /\ BoxOf[mapping'[a][c]] = a]_vars
  BY <1>3
<1> QED
  BY <1>1, <1>2, <1>4, PTL DEF Spec, MailDbRepairsOnly

---------------------------------------------------------------------------
(* The snapshot of the sender_acls is still what Mailcow has, for the          *)
(* mailboxes that the loop has not come to.                                    *)
SnapLabels == {"dts", "from", "fromSet"}
LoopLabels == RoundLabels \union {"mailbox"}

SnapSound(j) ==
    /\ j.pc \in SnapLabels => j.acls = senders
    /\ j.pc \in LoopLabels => \A t \in j.todo : j.acls[t] = senders[t]

(* Nothing fails, no two requests overlap, and nobody edits a sender_acl while *)
(* a request runs.                                                             *)
Calm == "db" \in features /\ disturbed \subseteq {"quiet"}

Alone == \A v, w \in Workers : HoldsLock(v) /\ HoldsLock(w) => v = w

KInv == IInv /\ (Calm => Alone /\ \A w \in Workers : SnapSound(job[w]))

(* k has the snapshot and the loop of j. *)
Same(k, j) == DOMAIN k = DOMAIN j /\ k.acls = j.acls /\ k.todo = j.todo

LEMMA SameSteps ==
    ASSUME NEW j, {"pc", "acls", "todo"} \subseteq DOMAIN j
    PROVE  /\ \A label : Same(Goto(j, label), j)
           /\ \A step : Same(Failed(j, step), j)
           /\ Same(Changed(j), j) /\ Same(EndRound(j), j)
BY DEF Same, Goto, Failed, Changed, EndRound

LEMMA SameTrans ==
    ASSUME NEW i, NEW j, NEW k, Same(i, j), Same(j, k)
    PROVE  Same(i, k)
BY DEF Same

LEMMA SameSteps2 ==
    ASSUME NEW j, {"pc", "acls", "todo"} \subseteq DOMAIN j
    PROVE  /\ Same(FailRound(j), j) /\ Same(Changed(EndRound(j)), j)
           /\ \A label : Same(Changed(Goto(j, label)), j)
           /\ \A label, step : Same(Goto(Failed(j, step), label), j)
<1>1. ASSUME NEW k, Same(k, j)
      PROVE  {"pc", "acls", "todo"} \subseteq DOMAIN k
  BY <1>1 DEF Same
<1>2. Same(FailRound(j), j)
  <2>1. Same(Failed(j, "sharing"), j)
    BY SameSteps
  <2>2. Same(EndRound(Failed(j, "sharing")), Failed(j, "sharing"))
    BY <1>1, <2>1, SameSteps
  <2> QED
    BY <2>1, <2>2, SameTrans DEF FailRound
<1>3. Same(Changed(EndRound(j)), j)
  <2>1. Same(EndRound(j), j)
    BY SameSteps
  <2>2. Same(Changed(EndRound(j)), EndRound(j))
    BY <1>1, <2>1, SameSteps
  <2> QED
    BY <2>1, <2>2, SameTrans
<1>4. ASSUME NEW label
      PROVE  Same(Changed(Goto(j, label)), j)
  <2>1. Same(Goto(j, label), j)
    BY SameSteps
  <2>2. Same(Changed(Goto(j, label)), Goto(j, label))
    BY <1>1, <2>1, SameSteps
  <2> QED
    BY <2>1, <2>2, SameTrans
<1>5. ASSUME NEW label, NEW step
      PROVE  Same(Goto(Failed(j, step), label), j)
  <2>1. Same(Failed(j, step), j)
    BY SameSteps
  <2>2. Same(Goto(Failed(j, step), label), Failed(j, step))
    BY <1>1, <2>1, SameSteps
  <2> QED
    BY <2>1, <2>2, SameTrans
<1> QED
  BY <1>2, <1>3, <1>4, <1>5

(* After StartLoop the snapshot is the same, whatever else is noted. *)
LEMMA LoopStarts ==
    ASSUME NEW j, {"pc", "acls", "todo", "errors", "changed"} \subseteq DOMAIN j
    PROVE  /\ StartLoop(j).acls = j.acls /\ StartLoop(j).todo = Others(j)
           /\ Changed(StartLoop(j)).acls = j.acls /\ Changed(StartLoop(j)).todo = Others(j)
           /\ Failed(StartLoop(j), "sharing").acls = j.acls
           /\ Failed(StartLoop(j), "sharing").todo = Others(j)
BY DEF StartLoop, Changed, Failed

(* What a step of the sharing does to the snapshot and to the sender_acls *)
SnapMoves(w) ==
    \/ job'[w].pc \notin SnapLabels \union LoopLabels
    \/ /\ job[w].pc = "mail" /\ job'[w].pc = "dts"
       /\ job'[w].acls = senders /\ UNCHANGED senders
    \/ /\ job[w].pc \in SnapLabels /\ job'[w].acls = job[w].acls /\ UNCHANGED senders
       /\ job'[w].pc \in LoopLabels => job'[w].todo \subseteq Targets
    \/ /\ job[w].pc \in LoopLabels /\ job'[w].acls = job[w].acls
       /\ \/ job'[w].todo = job[w].todo /\ UNCHANGED senders
          \/ \E t \in job[w].todo :
                /\ job'[w].todo = job[w].todo \ {t}
                /\ \A s \in Targets : s # t => senders'[s] = senders[s]

LEMMA SharingSnaps ==
    ASSUME IInv, NEW w \in Workers, Sharing(w), Calm, Calm'
    PROVE  SnapMoves(w)
<1> DEFINE j == job[w]
<1>1. /\ j \in Job /\ JobSound(j)
      /\ {"pc", "acls", "todo", "errors", "changed"} \subseteq DOMAIN j
      /\ senders \in [Targets -> SUBSET Principals]
  BY DEF IInv, TypeOK, Job, SharingTypeOK
<1>2. ~Disturb("call")
  BY DEF Calm, Disturb
<1> HIDE DEF j
<1>3. /\ Same(Goto(j, "self"), j) /\ Same(Goto(j, "list"), j) /\ Same(Goto(j, "fromSet"), j)
      /\ Same(EndRound(j), j)
  BY <1>1, SameSteps
<1>4. /\ Same(FailRound(j), j) /\ Same(Changed(EndRound(j)), j)
      /\ Same(Changed(Goto(j, "self")), j) /\ Same(Goto(Failed(j, "sharing"), "from"), j)
  BY <1>1, SameSteps2
<1>5. ASSUME j.pc \in LoopLabels, NEW k, job'[w] = k, Same(k, j), UNCHANGED senders
      PROVE  SnapMoves(w)
  BY <1>5 DEF SnapMoves, Same, j
<1>6. ASSUME NEW k, Same(k, j)
      PROVE  {"pc", "acls", "todo"} \subseteq DOMAIN k
  BY <1>1, <1>6 DEF Same
<1>7. CASE SnapshotSenders(w)
  <2>1. Locally(w, [j EXCEPT !.pc = "dts", !.acls = senders])
    BY <1>2, <1>7 DEF SnapshotSenders, Read, Raises, Fault, Calm, j
  <2>2. job'[w] = [j EXCEPT !.pc = "dts", !.acls = senders] /\ UNCHANGED senders
    BY <2>1, Becomes DEF Locally, stores, sharingVars
  <2>3. job'[w].pc = "dts" /\ job'[w].acls = senders
    BY <1>1, <2>2
  <2> QED
    BY <1>7, <2>2, <2>3 DEF SnapMoves, SnapshotSenders, At
<1>8. CASE SnapshotDelegateTo(w)
  <2>1. /\ job'[w] \in {[j EXCEPT !.pc = "from", !.dts = delegateTo],
                        Goto(Failed(j, "sharing"), "from")}
        /\ UNCHANGED stores
    BY <1>8, Reads DEF SnapshotDelegateTo, j
  <2>2. [j EXCEPT !.pc = "from", !.dts = delegateTo].acls = j.acls
    BY <1>1
  <2>3. job'[w].acls = j.acls /\ UNCHANGED senders
    BY <1>4, <2>1, <2>2 DEF Same, stores, sharingVars
  <2>4. [j EXCEPT !.pc = "from", !.dts = delegateTo].pc = "from"
    BY <1>1
  <2>5. Goto(Failed(j, "sharing"), "from").pc = "from"
    BY <1>1, LabelledToo
  <2>6. job'[w].pc = "from"
    BY <2>1, <2>4, <2>5
  <2> QED
    BY <1>8, <2>3, <2>6
       DEF SnapMoves, SnapshotDelegateTo, At, SnapLabels, LoopLabels, RoundLabels, j
<1>9. CASE ReadDelegateFrom(w) \/ WriteDelegateFrom(w)
  <2>1. /\ job'[w] \in {StartLoop(j), Changed(StartLoop(j)), Goto(j, "fromSet"),
                        Failed(StartLoop(j), "sharing")}
        /\ UNCHANGED senders
    BY <1>9, Becomes, Reads DEF ReadDelegateFrom, WriteDelegateFrom, Call, SetDelegateFrom,
            stores, sharingVars, j
  <2>2. /\ StartLoop(j).acls = j.acls /\ StartLoop(j).todo = Others(j)
        /\ Changed(StartLoop(j)).acls = j.acls /\ Changed(StartLoop(j)).todo = Others(j)
        /\ Failed(StartLoop(j), "sharing").acls = j.acls
        /\ Failed(StartLoop(j), "sharing").todo = Others(j)
    BY <1>1, LoopStarts
  <2>3. Goto(j, "fromSet").acls = j.acls /\ Goto(j, "fromSet").pc = "fromSet"
    BY <1>1, <1>3, Labelled DEF Same
  <2>4. "fromSet" \notin LoopLabels /\ Others(j) \subseteq Targets
    BY DEF LoopLabels, RoundLabels, Others
  <2>5. job'[w].acls = j.acls /\ (job'[w].pc \in LoopLabels => job'[w].todo \subseteq Targets)
    BY <2>1, <2>2, <2>3, <2>4
  <2> QED
    BY <1>9, <2>1, <2>5
       DEF SnapMoves, ReadDelegateFrom, WriteDelegateFrom, At, SnapLabels, j
<1>10. CASE SyncSenders(w)
  <2>1. PICK t \in job[w].todo :
          LET k == Entered(job[w], t) IN
          IF Wanted(k) = (k.user \in k.acls[t]) THEN Locally(w, k)
          ELSE Change(w, k, ReplaceSenders(t, NewSenders(k)), k)
    BY <1>10 DEF SyncSenders, Entered
  <2> DEFINE k == Entered(job[w], t)
  <2>2. /\ k.acls = j.acls /\ k.todo = j.todo \ {t}
        /\ {"pc", "acls", "todo"} \subseteq DOMAIN k
    BY <1>1 DEF Entered, j
  <2>3. Locally(w, k) \/ Change(w, k, ReplaceSenders(t, NewSenders(k)), k)
    BY <2>1
  <2> HIDE DEF k
  <2>4. /\ job'[w] \in {k, Changed(k), FailRound(k)}
        /\ UNCHANGED senders \/ ReplaceSenders(t, NewSenders(k))
    BY <2>3, Becomes DEF Change, Call, Locally, stores, sharingVars
  <2>5. Same(Changed(k), k) /\ Same(FailRound(k), k)
    BY <2>2, SameSteps, SameSteps2
  <2>6. job'[w].acls = j.acls /\ job'[w].todo = j.todo \ {t}
    BY <2>2, <2>4, <2>5 DEF Same
  <2>7. \A s \in Targets : s # t => senders'[s] = senders[s]
    BY <1>1, <2>4 DEF ReplaceSenders
  <2>8. j.pc \in LoopLabels
    BY <1>10 DEF SyncSenders, At, LoopLabels, j
  <2> QED
    BY <2>1, <2>6, <2>7, <2>8 DEF SnapMoves, j
<1>11. CASE ProbeInbox(w)
  <2>1. /\ job'[w] = FailRound(j) \/ \E rights : job'[w] = Decide(j, rights)
        /\ UNCHANGED senders /\ j.pc \in LoopLabels
    BY <1>11, Becomes, Reads DEF ProbeInbox, Raises, At, LoopLabels, RoundLabels, stores,
            sharingVars, j
  <2>2. ASSUME NEW rights
        PROVE  Same(Decide(j, rights), j)
    BY <1>3, <1>4 DEF Decide
  <2> QED
    BY <1>4, <1>5, <2>1, <2>2
<1>12. CASE ListFolders(w)
  <2>1. /\ job'[w] \in {[j EXCEPT !.pc = "walk", !.walk = folders[j.target]], FailRound(j)}
        /\ UNCHANGED senders /\ j.pc \in LoopLabels
    BY <1>12, Reads DEF ListFolders, At, LoopLabels, RoundLabels, stores, sharingVars, j
  <2>2. Same([j EXCEPT !.pc = "walk", !.walk = folders[j.target]], j)
    BY <1>1 DEF Same
  <2> QED
    BY <1>4, <1>5, <2>1, <2>2
<1>13. CASE SetFolder(w)
  <2>1. PICK f \in job[w].walk :
          LET k == [job[w] EXCEPT !.walk = @ \ {f}] IN
          \/ Call(w, SetRights(k.target, f, k.user, Due(k)) /\ UNCHANGED mailDbVars,
                  Walked(k), FailRound(k))
          \/ Raises(w, "rc", Walked(k))
    BY <1>13 DEF SetFolder
  <2> DEFINE k == [job[w] EXCEPT !.walk = @ \ {f}]
  <2>2. Same(k, j)
    BY <1>1 DEF Same, j
  <2>3. /\ job'[w] \in {Walked(k), FailRound(k)}
        /\ UNCHANGED senders
    BY <2>1, Becomes DEF Call, Raises, SetRights, stores, sharingVars
  <2>4. j.pc \in LoopLabels
    BY <1>13 DEF SetFolder, At, LoopLabels, RoundLabels, j
  <2> HIDE DEF k
  <2>5. Same(Changed(Goto(k, "self")), k) /\ Same(FailRound(k), k)
    BY <1>6, <2>2, SameSteps2
  <2>6. Same(Walked(k), j) /\ Same(FailRound(k), j)
    BY <2>2, <2>5, SameTrans DEF Walked
  <2> QED
    BY <1>5, <2>3, <2>4, <2>6
<1>14. CASE StartSelf(w)
  <2> DEFINE next == [Goto(j, "delegate") EXCEPT !.probed = @ \union {j.target}]
             walking == [next EXCEPT !.pc = "selfWalk", !.walk = folders[j.target]]
  <2>1. /\ job'[w] \in {next, walking, Failed(next, "sharing")}
        /\ UNCHANGED senders
    BY <1>14, Becomes, Reads DEF StartSelf, Locally, stores, sharingVars, j
  <2>2. Same(Goto(j, "delegate"), j)
    BY <1>1, SameSteps
  <2>3. Same(next, j) /\ Same(walking, j)
    BY <1>1, <2>2 DEF Same
  <2>4. j.pc \in LoopLabels
    BY <1>14 DEF StartSelf, At, LoopLabels, RoundLabels, j
  <2> HIDE DEF next, walking
  <2>5. Same(Failed(next, "sharing"), next)
    BY <1>6, <2>3, SameSteps
  <2> QED
    BY <1>5, <2>1, <2>3, <2>4, <2>5, SameTrans
<1>15. CASE ClearSelf(w)
  <2>1. PICK f \in job[w].walk :
          LET k == [job[w] EXCEPT !.walk = @ \ {f}]
              given_up == [Failed(k, "sharing") EXCEPT !.pc = "delegate", !.walk = {}]
          IN \/ Read(w, Cleared(k), given_up)
             \/ Read(w, Cleared([k EXCEPT !.found = TRUE]), given_up)
             \/ Call(w, SetRights(k.target, f, k.target, "none") /\ UNCHANGED mailDbVars,
                     Cleared([k EXCEPT !.found = TRUE]), given_up)
             \/ Raises(w, "rc", Cleared(k))
    BY <1>15 DEF ClearSelf
  <2> DEFINE k == [job[w] EXCEPT !.walk = @ \ {f}]
             k2 == [k EXCEPT !.found = TRUE]
             given_up == [Failed(k, "sharing") EXCEPT !.pc = "delegate", !.walk = {}]
  <2>2. Same(k, j) /\ Same(k2, j)
    BY <1>1 DEF Same, j
  <2>3. Same(given_up, j)
    <3>1. Same(Failed(k, "sharing"), k)
      BY <1>6, <2>2, SameSteps
    <3>2. Same(Failed(k, "sharing"), j)
      BY <2>2, <3>1, SameTrans
    <3>3. {"pc", "acls", "todo"} \subseteq DOMAIN Failed(k, "sharing")
      BY <1>6, <3>2
    <3> QED
      BY <3>2, <3>3 DEF Same
  <2>4. \/ Read(w, Cleared(k), given_up) \/ Read(w, Cleared(k2), given_up)
        \/ Call(w, SetRights(k.target, f, k.target, "none") /\ UNCHANGED mailDbVars,
                Cleared(k2), given_up)
        \/ Raises(w, "rc", Cleared(k))
    BY <2>1
  <2>5. j.pc \in LoopLabels
    BY <1>15 DEF ClearSelf, At, LoopLabels, RoundLabels, j
  <2> HIDE DEF k, k2, given_up
  <2>6. job'[w] \in {Cleared(k), Cleared(k2), given_up} /\ UNCHANGED senders
    BY <2>4, Becomes, Reads DEF Call, Raises, SetRights, stores, sharingVars
  <2>7. ASSUME NEW i, Same(i, j)
        PROVE  Same(Cleared(i), j)
    <3>1. Same(Goto(i, "delegate"), i) /\ Same(Changed(Goto(i, "delegate")), i)
      BY <1>6, <2>7, SameSteps, SameSteps2
    <3> QED
      BY <2>7, <3>1, SameTrans DEF Cleared
  <2> QED
    BY <1>5, <2>2, <2>3, <2>5, <2>6, <2>7
<1>16. CASE SyncDelegateTo(w)
  <2>1. /\ job'[w] \in {EndRound(j), Changed(EndRound(j)), FailRound(j)}
        /\ UNCHANGED senders /\ j.pc \in LoopLabels
    BY <1>16, Becomes DEF SyncDelegateTo, Change, Call, Locally, PatchDelegateTo, At,
            LoopLabels, RoundLabels, stores, sharingVars, j
  <2> QED
    BY <1>3, <1>4, <1>5, <2>1
<1>17. CASE Finish(w)
  <2>1. job'[w] = [IdleJob EXCEPT !.probed = j.probed, !.dry = j.dry]
    BY <1>17, Becomes DEF Finish, Locally, Raises, j
  <2>2. job'[w].pc = "idle"
    BY <2>1 DEF IdleJob
  <2> QED
    BY <2>2 DEF SnapMoves, SnapLabels, LoopLabels, RoundLabels
<1> QED
  BY <1>7, <1>8, <1>9, <1>10, <1>11, <1>12, <1>13, <1>14, <1>15, <1>16, <1>17 DEF Sharing

LEMMA WorkerSnaps ==
    ASSUME IInv, NEW w \in Workers, WorkerStep(w), Calm, Calm'
    PROVE  SnapMoves(w)
<1>1. CASE Receive(w)
  <2>1. PICK u, want, managed, probed, dry :
             Become(w, Request(u, want, managed, probed, dry))
    BY <1>1 DEF Receive
  <2> DEFINE k == Request(u, want, managed, probed, dry)
  <2>2. k.pc = "lock" /\ Become(w, k)
    BY <2>1 DEF Request, IdleJob
  <2> HIDE DEF k
  <2>3. job'[w].pc = "lock"
    BY <2>2, Becomes
  <2> QED
    BY <2>3 DEF SnapMoves, SnapLabels, LoopLabels, RoundLabels
<1>2. CASE Acquire(w)
  <2>1. job'[w] = [job[w] EXCEPT !.pc = "mail", !.todo = job[w].managed]
    BY <1>2, Becomes DEF Acquire
  <2>2. job'[w].pc = "mail"
    BY <2>1 DEF IInv, TypeOK, Job
  <2> QED
    BY <2>2 DEF SnapMoves, SnapLabels, LoopLabels, RoundLabels
<1>3. CASE Crash(w)
  BY <1>3, Becomes DEF Crash, Raises, IdleJob, SnapMoves, SnapLabels, LoopLabels, RoundLabels
<1>4. CASE MailDb(w)
  <2>1. job'[w].pc \in MailLabels \union {"mail"}
    BY <1>4, MailMoves DEF MailLabels
  <2> QED
    BY <2>1 DEF SnapMoves, SnapLabels, LoopLabels, RoundLabels, MailLabels
<1> QED
  BY <1>1, <1>2, <1>3, <1>4, SharingSnaps DEF WorkerStep

(* The lock is taken in Acquire only, and everything else happens under it. *)
LEMMA HoldersKept ==
    ASSUME IInv, NEW w \in Workers, WorkerStep(w), ~Acquire(w), HoldsLock(w)'
    PROVE  HoldsLock(w)
<1>1. CASE Receive(w)
  <2>1. PICK u, want, managed, probed, dry :
             Become(w, Request(u, want, managed, probed, dry))
    BY <1>1 DEF Receive
  <2> DEFINE k == Request(u, want, managed, probed, dry)
  <2>2. k.pc = "lock" /\ Become(w, k)
    BY <2>1 DEF Request, IdleJob
  <2> HIDE DEF k
  <2>3. job'[w].pc = "lock"
    BY <2>2, Becomes
  <2> QED
    BY <2>3 DEF HoldsLock
<1>2. CASE Crash(w)
  BY <1>2, Becomes DEF Crash, Raises, IdleJob, HoldsLock
<1>3. CASE MailDb(w)
  BY <1>3 DEF MailDb, FindAccount, ReadSieve, WriteSieve, ReadMapping, ReadBoxes,
              WriteMapping, At, HoldsLock
<1>4. CASE Sharing(w)
  BY <1>4 DEF Sharing, SnapshotSenders, SnapshotDelegateTo, ReadDelegateFrom,
              WriteDelegateFrom, SyncSenders, ProbeInbox, ListFolders, SetFolder, StartSelf,
              ClearSelf, SyncDelegateTo, Finish, At, HoldsLock
<1> QED
  BY <1>1, <1>2, <1>3, <1>4 DEF WorkerStep

LEMMA FeaturesKept ==
    ASSUME [Next]_vars
    PROVE  features' = features
<1>1. ASSUME NEW w \in Workers, WorkerStep(w)
      PROVE  features' = features
  <2>1. CASE Receive(w) \/ Acquire(w) \/ Crash(w)
    BY <2>1 DEF Receive, Acquire, Crash, Raises, counters
  <2>2. CASE MailDb(w)
    BY <2>2 DEF MailDb, FindAccount, ReadSieve, WriteSieve, ReadMapping, ReadBoxes,
                WriteMapping, Read, Call, Locally, Raises, counters
  <2>3. CASE SnapshotSenders(w) \/ SnapshotDelegateTo(w) \/ ReadDelegateFrom(w)
             \/ WriteDelegateFrom(w) \/ SyncSenders(w) \/ ProbeInbox(w)
    BY <2>3 DEF SnapshotSenders, SnapshotDelegateTo, ReadDelegateFrom, WriteDelegateFrom,
                SyncSenders, ProbeInbox, Change, Read, Call, Locally, Raises, counters
  <2>4. CASE ListFolders(w) \/ SetFolder(w) \/ StartSelf(w) \/ ClearSelf(w)
             \/ SyncDelegateTo(w) \/ Finish(w)
    BY <2>4 DEF ListFolders, SetFolder, StartSelf, ClearSelf, SyncDelegateTo, Finish,
                Change, Read, Call, Locally, Raises, counters
  <2> QED
    BY <1>1, <2>1, <2>2, <2>3, <2>4 DEF WorkerStep, Sharing
<1>2. CASE Surroundings
  BY <1>2 DEF Surroundings, SendersByHand, DelegationByHand, AccountsByHand, FolderMade,
              BoxMade, Mapped, Event, counters
<1>3. CASE Rest \/ UNCHANGED vars
  BY <1>3 DEF Rest, vars, counters
<1> QED
  BY <1>1, <1>2, <1>3 DEF Next, WorkerStep

LEMMA CalmBefore ==
    ASSUME IInv, [Next]_vars, Calm'
    PROVE  Calm
BY FeaturesKept, MailDbSteps DEF Calm

LEMMA SnapInductive ==
    ASSUME KInv, [Next]_vars
    PROVE  KInv'
<1>1. IInv /\ IInv'
  BY Inductive DEF KInv
<1>2. ASSUME Calm'
      PROVE  Alone' /\ \A v \in Workers : SnapSound(job[v])'
  <2>1. Calm /\ Alone /\ \A v \in Workers : SnapSound(job[v])
    BY <1>1, <1>2, CalmBefore DEF KInv
  <2>2. job \in [Workers -> Job]
    BY <1>1 DEF IInv, TypeOK
  <2>3. ASSUME NEW w \in Workers, WorkerStep(w)
        PROVE  Alone' /\ \A v \in Workers : SnapSound(job[v])'
    <3>1. \A v \in Workers : v # w => job'[v] = job[v]
      BY <1>1, <2>3, OthersJobs
    <3>2. \A v \in Workers : v # w /\ HoldsLock(v)' => HoldsLock(v)
      BY <3>1 DEF HoldsLock
    <3>3. Alone'
      <4>1. CASE Acquire(w)
        <5>1. ~Busy
          BY <1>2, <4>1 DEF Acquire, Disturb, Calm
        <5> QED
          BY <3>2, <5>1 DEF Busy, Alone
      <4>2. CASE ~Acquire(w)
        <5>1. HoldsLock(w)' => HoldsLock(w)
          BY <1>1, <2>3, <4>2, HoldersKept
        <5> QED
          BY <2>1, <3>2, <5>1 DEF Alone
      <4> QED
        BY <4>1, <4>2
    <3>4. ASSUME NEW v \in Workers, v # w
          PROVE  SnapSound(job[v])'
      <4>1. PICK j : j = job[v]
        OBVIOUS
      <4>2. job'[v] = j /\ SnapSound(j)
        BY <2>1, <3>1, <3>4, <4>1
      <4>3. CASE HoldsLock(v)
        <5>1. ~HoldsLock(w)
          BY <2>1, <3>4, <4>3 DEF Alone
        <5>2. ~At(w, "mailbox")
          BY <5>1 DEF At, HoldsLock
        <5>3. UNCHANGED stores \/ WritesMailDb(w) \/ WritesSharing(w)
          BY <1>1, <2>3, Writes
        <5>4. senders' = senders
          BY <5>2, <5>3 DEF stores, sharingVars, WritesMailDb, WritesSharing, WritesSenders,
                  WritesAcl, WritesProfile, SetRights, SetDelegateFrom, PatchDelegateTo
        <5>5. SnapSound(j)'
          BY <4>2, <5>4 DEF SnapSound
        <5> QED
          BY <4>2, <5>5
      <4>4. CASE ~HoldsLock(v)
        BY <4>1, <4>2, <4>4 DEF HoldsLock, SnapSound, SnapLabels, LoopLabels, RoundLabels
      <4> QED
        BY <4>3, <4>4
    <3>5. SnapSound(job[w])'
      <4>1. PICK j \in Job : j = job[w]
        BY <2>2
      <4>2. PICK k : k = job'[w]
        OBVIOUS
      <4>3. SnapMoves(w) /\ SnapSound(j)
        BY <1>1, <1>2, <2>1, <2>3, <4>1, WorkerSnaps
      <4>4. j.todo \subseteq Targets
        BY DEF Job
      <4>5. CASE k.pc \notin SnapLabels \union LoopLabels
        BY <4>2, <4>5 DEF SnapSound
      <4>6. CASE j.pc = "mail" /\ k.pc = "dts" /\ k.acls = senders /\ UNCHANGED senders
        BY <4>2, <4>6 DEF SnapSound, LoopLabels, RoundLabels
      <4>7. CASE /\ j.pc \in SnapLabels /\ k.acls = j.acls /\ UNCHANGED senders
                 /\ k.pc \in LoopLabels => k.todo \subseteq Targets
        <5>1. k.acls = senders'
          BY <4>3, <4>7 DEF SnapSound
        <5> QED
          BY <4>2, <5>1 DEF SnapSound
      <4>8. CASE /\ j.pc \in LoopLabels /\ k.acls = j.acls
                 /\ \/ k.todo = j.todo /\ UNCHANGED senders
                    \/ \E t \in j.todo :
                          /\ k.todo = j.todo \ {t}
                          /\ \A s \in Targets : s # t => senders'[s] = senders[s]
        <5>1. \A t \in j.todo : j.acls[t] = senders[t]
          BY <4>3, <4>8 DEF SnapSound
        <5>2. \A t \in k.todo : k.acls[t] = senders'[t]
          BY <4>4, <4>8, <5>1
        <5>3. k.pc \notin SnapLabels
          <6>1. ~MailDb(w) /\ j.pc \notin {"mail", "dts", "from"}
            BY <4>1, <4>8 DEF LoopLabels, RoundLabels, MailDb, FindAccount, ReadSieve,
                    WriteSieve, ReadMapping, ReadBoxes, WriteMapping, At
          <6>2. k.pc \in {"dts", "from", "fromSet"} => j.pc \in {"mail", "dts", "from"}
            BY <1>1, <2>3, <4>1, <4>2, <6>1, NotAtMail DEF WorkerStep
          <6> QED
            BY <6>1, <6>2 DEF SnapLabels
        <5> QED
          BY <4>2, <5>2, <5>3 DEF SnapSound
      <4> QED
        BY <4>1, <4>2, <4>3, <4>5, <4>6, <4>7, <4>8 DEF SnapMoves
    <3> QED
      BY <3>3, <3>4, <3>5
  <2>4. ASSUME UNCHANGED job, senders' = senders \/ ~Busy
        PROVE  Alone' /\ \A v \in Workers : SnapSound(job[v])'
    <3>1. Alone'
      BY <2>1, <2>4 DEF Alone, HoldsLock
    <3>2. ASSUME NEW v \in Workers
          PROVE  SnapSound(job[v])'
      <4>1. CASE senders' = senders
        BY <2>1, <2>4, <4>1 DEF SnapSound
      <4>2. CASE ~Busy
        BY <2>4, <4>2 DEF Busy, HoldsLock, SnapSound, SnapLabels, LoopLabels, RoundLabels
      <4> QED
        BY <2>4, <4>1, <4>2
    <3> QED
      BY <3>1, <3>2
  <2>5. CASE Surroundings
    <3>1. UNCHANGED job
      BY <1>1, <2>5, SurroundingsKeep
    <3>2. senders' = senders \/ ~Busy
      <4>1. CASE SendersByHand
        BY <1>2, <4>1 DEF SendersByHand, Event, Disturb, Calm
      <4>2. CASE ~SendersByHand
        BY <2>5, <4>2 DEF Surroundings, DelegationByHand, AccountsByHand, FolderMade,
                          BoxMade, Mapped, sharingVars
      <4> QED
        BY <4>1, <4>2
    <3> QED
      BY <2>4, <3>1, <3>2
  <2>6. CASE Rest \/ UNCHANGED vars
    BY <2>4, <2>6 DEF Rest, vars, stores, sharingVars
  <2> QED
    BY <2>3, <2>5, <2>6 DEF Next, WorkerStep
<1> QED
  BY <1>1, <1>2 DEF KInv

(* "Other entries in those ACLs (other users, manual entries) are not          *)
(* touched", of sender_acl: with a database client, with no failure, and with  *)
(* nobody else at work while a request runs, the lists that a request writes   *)
(* back differ from what Mailcow has in the request's own user only.           *)
THEOREM OthersAreKept == Spec => OthersKept
<1>1. Init => KInv
  <2>1. ASSUME Init
        PROVE  Alone /\ \A w \in Workers : SnapSound(job[w])
    BY <2>1 DEF Init, Alone, HoldsLock, IdleJob, SnapSound, SnapLabels, LoopLabels, RoundLabels
  <2> QED
    BY <2>1, Initially DEF KInv
<1>2. KInv /\ [Next]_vars => KInv'
  BY SnapInductive
<1>3. ASSUME KInv, [Next]_vars, disturbed' \subseteq {"quiet"}, "db" \in features,
             NEW w \in Workers, job'[w] # job[w]
      PROVE  KeepsOthers(job[w].user)
  <2>1. IInv /\ SharingTypeOK /\ job[w] \in Job
    BY <1>3 DEF KInv, IInv, TypeOK
  <2>2. Calm
    BY <1>3, <2>1, FeaturesKept, CalmBefore DEF Calm
  <2>3. SnapSound(job[w])
    BY <1>3, <2>2 DEF KInv
  <2>4. UNCHANGED stores \/ WritesMailDb(w) \/ WritesSharing(w)
    BY <1>3, <2>1, WhoMoved, Writes
  <2>5. CASE WritesSenders(w)
    <3>1. PICK t \in job[w].todo : ReplaceSenders(t, NewSenders(Entered(job[w], t)))
      BY <2>5 DEF WritesSenders
    <3> DEFINE k == Entered(job[w], t)
    <3>2. k.target = t /\ k.user = job[w].user /\ k.acls = job[w].acls
      BY <2>1 DEF Entered, Job
    <3>3. job[w].acls[t] = senders[t]
      BY <2>3, <2>5 DEF WritesSenders, At, SnapSound, LoopLabels
    <3>4. ReplaceSenders(t, NewSenders(k))
      BY <3>1
    <3> HIDE DEF k
    <3>5. NewSenders(k) \ {job[w].user} = senders[t] \ {job[w].user}
      BY <3>2, <3>3 DEF NewSenders
    <3> QED
      BY <2>1, <3>4, <3>5 DEF ReplaceSenders, KeepsOthers, SharingTypeOK
  <2>6. CASE senders' = senders
    BY <2>6 DEF KeepsOthers
  <2> QED
    BY <2>4, <2>5, <2>6 DEF stores, sharingVars, WritesMailDb, WritesSharing, WritesAcl,
            WritesProfile, SetRights, SetDelegateFrom, PatchDelegateTo, FlushCache
<1>4. KInv /\ [Next]_vars =>
        [disturbed' \subseteq {"quiet"} /\ "db" \in features =>
          \A w \in Workers : job'[w] # job[w] => KeepsOthers(job[w].user)]_vars
  BY <1>3
<1> QED
  BY <1>1, <1>2, <1>4, PTL DEF Spec, OthersKept

=============================================================================
