--------------------------- MODULE TbSetup_proofs ---------------------------
(***************************************************************************)
(* Theorems about TbSetup, for every set of users, targets, devices and    *)
(* workers, and every kind of failure: although /my-accounts takes no lock *)
(* and a cleanup works from rows it read before, neither ever deletes what *)
(* belongs to somebody else.                                               *)
(***************************************************************************)
EXTENDS TbSetup, AppPasswords_proofs, TLAPS

MintLabels == {"list", "next", "drop", "post", "find", "put"}
EntryLabels == {"drop", "post", "find", "put", "revoke", "forget"}
IdLabels == {"drop", "put", "revoke", "forget"}
SweepLabels == {"rows", "revoke", "forget"}

(* What the locals of a request are worth at each of its steps *)
JobSound(j) ==
    /\ j.pc # "idle" => j.user \in Users
    /\ j.pc \in MintLabels => j.left \subseteq Targets
    /\ j.pc \in MintLabels \union EntryLabels => j.device \in Devices
    /\ j.pc \in EntryLabels => j.target \in Targets
    /\ j.pc \in IdLabels => Belongs(j.pwd, j.target, Name(j))
    /\ j.pc \in {"revoke", "forget"} => j.target \notin j.want
    /\ j.pc \in SweepLabels => \A s \in j.rows :
          /\ s.target \notin j.want
          /\ Belongs(s.pwd, s.target, TbMarker(j.user, s.target, s.device))

RowsSound ==
    \A u \in Users, t \in Targets, d \in Devices :
       tbRows[<<u, t, d>>] # None => Belongs(tbRows[<<u, t, d>>], t, TbMarker(u, t, d))

RowsTyped ==
    /\ tbRows \in [Key -> Nat \union {None}]
    /\ handed \in [Key -> Nat \union {None}]

IInv ==
    /\ TypeOK
    /\ IdsBelow
    /\ IdsUnique
    /\ RowsSound
    /\ \A w \in Workers : JobSound(tbJob[w])

---------------------------------------------------------------------------
(* What is left to show of a step of worker w that makes its job j.  A sound *)
(* job stays sound while the table changes, whoever changed it.              *)
LEMMA Step ==
    ASSUME IInv, NEW w \in Workers, NEW j \in TbJob, Become(w, j), JobSound(j),
           Shrinks \/ Grows, MailcowTypeOK', RowsTyped', RowsSound', served' \in Nat
    PROVE  IInv'
<1>1. MailcowTypeOK /\ IdsBelow /\ IdsUnique /\ tbJob \in [Workers -> TbJob]
  BY DEF IInv, TypeOK
<1>2. /\ tbJob' \in [Workers -> TbJob]
      /\ tbJob'[w] = j
      /\ \A v \in Workers \ {w} : tbJob'[v] = tbJob[v]
  BY <1>1 DEF Become
<1>3. ASSUME NEW k, JobSound(k)
      PROVE  JobSound(k)'
  BY <1>1, <1>3, BelongsStable DEF JobSound, Name
<1>4. ASSUME NEW v \in Workers
      PROVE  JobSound(tbJob[v])'
  <2>1. CASE v = w
    BY <1>2, <1>3, <2>1
  <2>2. CASE v # w
    <3>1. JobSound(tbJob[v])
      BY DEF IInv
    <3> QED
      BY <1>2, <1>3, <2>2, <3>1
  <2> QED
    BY <2>1, <2>2
<1>5. IdsBelow' /\ IdsUnique'
  BY <1>1, IdsStable
<1> QED
  BY <1>2, <1>4, <1>5 DEF IInv, TypeOK, RowsTyped

LEMMA RowsKept ==
    ASSUME IInv, Shrinks \/ Grows, UNCHANGED <<tbRows, handed>>
    PROVE  RowsTyped' /\ RowsSound'
<1>1. MailcowTypeOK /\ RowsTyped /\ RowsSound
  BY DEF IInv, TypeOK, RowsTyped
<1>2. RowsSound'
  BY <1>1, BelongsStable DEF RowsSound
<1> QED
  BY <1>1, <1>2 DEF RowsTyped

(* A step that changes Mailcow, or nothing, but not the tables *)
LEMMA MailcowStep ==
    ASSUME IInv, NEW w \in Workers, NEW j \in TbJob, Become(w, j), JobSound(j),
           Shrinks \/ Grows, MailcowTypeOK', UNCHANGED <<tbRows, handed>>, served' \in Nat
    PROVE  IInv'
BY RowsKept, Step

LEMMA LocalStep ==
    ASSUME IInv, NEW w \in Workers, NEW j \in TbJob, Become(w, j), JobSound(j),
           UNCHANGED <<mailcowVars, tbRows, handed>>, served' \in Nat
    PROVE  IInv'
<1>1. Shrinks /\ MailcowTypeOK'
  BY MailcowKept DEF IInv, TypeOK
<1> QED
  BY <1>1, MailcowStep

LEMMA IdleGood == IdleJob \in TbJob /\ JobSound(IdleJob)
<1>1. IdleJob \in TbJob
  BY DEF IdleJob, TbJob, Labels
<1>2. JobSound(IdleJob)
  BY DEF JobSound, IdleJob, MintLabels, EntryLabels, IdLabels, SweepLabels
<1> QED
  BY <1>1, <1>2

LEMMA BackGood ==
    ASSUME NEW j \in TbJob, JobSound(j), j.pc \in EntryLabels
    PROVE  Back(j) \in TbJob /\ JobSound(Back(j))
<1>1. CASE j.pc \in {"revoke", "forget"}
  <2> DEFINE k == [j EXCEPT !.pc = "rows", !.target = None, !.device = None, !.pwd = None]
  <2>1. k \in TbJob
    BY DEF TbJob, Labels
  <2>2. k.pc = "rows" /\ k.user = j.user /\ k.rows = j.rows /\ k.want = j.want
    BY DEF TbJob
  <2>3. Back(j) = k
    BY <1>1 DEF Back
  <2> HIDE DEF k
  <2>4. JobSound(k)
    BY <1>1, <2>2 DEF JobSound, MintLabels, EntryLabels, IdLabels, SweepLabels
  <2> QED
    BY <2>1, <2>3, <2>4
<1>2. CASE j.pc \notin {"revoke", "forget"}
  <2> DEFINE k == [j EXCEPT !.pc = "next", !.target = None, !.pwd = None, !.secret = None]
  <2>1. k \in TbJob
    BY DEF TbJob, Labels
  <2>2. k.pc = "next" /\ k.user = j.user /\ k.left = j.left /\ k.device = j.device
    BY DEF TbJob
  <2>3. Back(j) = k
    BY <1>2 DEF Back
  <2> HIDE DEF k
  <2>4. JobSound(k)
    BY <1>2, <2>2 DEF JobSound, MintLabels, EntryLabels, IdLabels, SweepLabels
  <2> QED
    BY <2>1, <2>3, <2>4
<1> QED
  BY <1>1, <1>2

LEMMA NameTyped ==
    ASSUME NEW u \in Users, NEW t \in Targets, NEW d \in Devices
    PROVE  TbMarker(u, t, d) \in Names
<1>1. TbMarker(u, t, d) \in TbNames
  BY DEF TbMarker, TbNames
<1> QED
  BY <1>1 DEF Names

(* What the steps on one entry have in common *)
LEMMA EntryJob ==
    ASSUME IInv, NEW w \in Workers, tbJob[w].pc \in EntryLabels
    PROVE  /\ tbJob[w] \in TbJob /\ JobSound(tbJob[w])
           /\ tbJob[w].user \in Users /\ tbJob[w].target \in Targets
           /\ tbJob[w].device \in Devices /\ Name(tbJob[w]) \in Names
           /\ Back(tbJob[w]) \in TbJob /\ JobSound(Back(tbJob[w]))
           /\ MailcowTypeOK /\ served \in Nat
<1>1. tbJob[w] \in TbJob /\ JobSound(tbJob[w]) /\ MailcowTypeOK /\ served \in Nat
  BY DEF IInv, TypeOK
<1>2. tbJob[w].user \in Users /\ tbJob[w].target \in Targets /\ tbJob[w].device \in Devices
  BY <1>1 DEF JobSound, EntryLabels
<1> QED
  BY <1>1, <1>2, BackGood, NameTyped DEF Name

---------------------------------------------------------------------------
(* GET /my-accounts *)
LEMMA MintKeeps ==
    ASSUME IInv, NEW w \in Workers, Mint(w)
    PROVE  IInv'
<1> DEFINE j == tbJob[w]
<1>1. j \in TbJob /\ JobSound(j) /\ MailcowTypeOK /\ served \in Nat
  BY DEF IInv, TypeOK
<1> HIDE DEF j
<1>2. CASE ReceiveMint(w)
  <2>1. PICK u \in Users, d \in Devices, claims \in SUBSET Targets :
          Become(w, [IdleJob EXCEPT !.pc = "list", !.user = u, !.device = d, !.want = claims])
    BY <1>2 DEF ReceiveMint
  <2> DEFINE k == [IdleJob EXCEPT !.pc = "list", !.user = u, !.device = d, !.want = claims]
  <2>2. k \in TbJob
    BY IdleGood DEF TbJob, Labels
  <2>3. k.pc = "list" /\ k.user = u /\ k.device = d /\ k.left = {}
    BY DEF IdleJob
  <2>4. Become(w, k)
    BY <2>1
  <2> HIDE DEF k
  <2>5. JobSound(k)
    BY <2>3 DEF JobSound, MintLabels, EntryLabels, IdLabels, SweepLabels
  <2> QED
    BY <1>1, <1>2, <2>2, <2>4, <2>5, LocalStep DEF ReceiveMint, Received
<1>3. CASE ListMailboxes(w)
  <2> DEFINE k == [j EXCEPT !.pc = "next", !.want = @ \intersect mailboxes,
                            !.left = j.want \intersect mailboxes]
  <2>1. k \in TbJob
    BY <1>1 DEF TbJob, Labels
  <2>2. /\ k.pc = "next" /\ k.user = j.user /\ k.device = j.device
        /\ k.left \subseteq Targets /\ j.pc = "list"
    BY <1>1, <1>3 DEF TbJob, ListMailboxes, At, j
  <2>3. Become(w, k) \/ Become(w, IdleJob)
    BY <1>3 DEF ListMailboxes, End, j
  <2> HIDE DEF k
  <2>4. JobSound(k)
    BY <1>1, <2>2 DEF JobSound, MintLabels, EntryLabels, IdLabels, SweepLabels
  <2> QED
    BY <1>1, <1>3, <2>1, <2>3, <2>4, IdleGood, LocalStep DEF ListMailboxes
<1>4. CASE ReadPrior(w)
  <2>1. PICK t \in j.left :
          LET prior == TbGet(<<j.user, t, j.device>>) IN
          Become(w, [j EXCEPT !.left = @ \ {t}, !.target = t, !.pwd = prior,
                              !.pc = IF prior = None THEN "post" ELSE "drop"])
    BY <1>4 DEF ReadPrior, j
  <2> DEFINE prior == TbGet(<<j.user, t, j.device>>)
             k == [j EXCEPT !.left = @ \ {t}, !.target = t, !.pwd = prior,
                            !.pc = IF prior = None THEN "post" ELSE "drop"]
  <2>2. j.pc = "next" /\ j.user \in Users /\ j.device \in Devices /\ j.left \subseteq Targets
    BY <1>1, <1>4 DEF ReadPrior, At, JobSound, MintLabels, j
  <2>3. t \in Targets /\ <<j.user, t, j.device>> \in Key
    BY <2>1, <2>2 DEF Key
  <2>4. prior \in Nat \union {None}
    BY <2>3 DEF TbGet, IInv, TypeOK
  <2>5. prior # None => Belongs(prior, t, TbMarker(j.user, t, j.device))
    BY <2>2, <2>3 DEF TbGet, IInv, RowsSound
  <2>6. Become(w, k)
    BY <2>1
  <2> HIDE DEF prior
  <2>7. k \in TbJob
    BY <1>1, <2>3, <2>4 DEF TbJob, Labels
  <2>8. /\ k.pc = (IF prior = None THEN "post" ELSE "drop")
        /\ k.user = j.user /\ k.device = j.device /\ k.target = t /\ k.pwd = prior
        /\ k.left \subseteq Targets
    BY <1>1, <2>2 DEF TbJob
  <2> HIDE DEF k
  <2>9. JobSound(k)
    BY <2>2, <2>3, <2>5, <2>8
       DEF JobSound, Name, MintLabels, EntryLabels, IdLabels, SweepLabels
  <2> QED
    BY <1>1, <1>4, <2>6, <2>7, <2>9, LocalStep DEF ReadPrior
<1>5. CASE DropPrior(w)
  <2>1. j.pc = "drop" /\ j.pc \in EntryLabels
    BY <1>5 DEF DropPrior, At, EntryLabels, j
  <2>2. /\ j.user \in Users /\ j.target \in Targets /\ j.device \in Devices
        /\ Back(j) \in TbJob /\ JobSound(Back(j))
    BY <2>1, EntryJob DEF j
  <2> DEFINE k == [j EXCEPT !.pc = "post", !.pwd = None]
  <2>3. k \in TbJob
    BY <1>1 DEF TbJob, Labels
  <2>4. /\ k.pc = "post" /\ k.user = j.user /\ k.device = j.device /\ k.target = j.target
        /\ k.left = j.left
    BY <1>1 DEF TbJob
  <2>5. Become(w, k) \/ Become(w, Back(j))
    BY <1>5 DEF DropPrior, j
  <2> HIDE DEF k
  <2>6. JobSound(k)
    BY <1>1, <2>1, <2>2, <2>4 DEF JobSound, MintLabels, EntryLabels, IdLabels, SweepLabels
  <2>7. Revoke(j.pwd) \/ UNCHANGED mailcowVars
    BY <1>5 DEF DropPrior, j
  <2>8. Shrinks /\ MailcowTypeOK'
    BY <1>1, <2>7, RevokeShrinks, MailcowKept
  <2> QED
    BY <1>1, <1>5, <2>2, <2>3, <2>5, <2>6, <2>8, MailcowStep DEF DropPrior
<1>6. CASE PostAppPasswd(w)
  <2>1. j.pc = "post" /\ j.pc \in EntryLabels
    BY <1>6 DEF PostAppPasswd, At, EntryLabels, j
  <2>2. /\ j.user \in Users /\ j.target \in Targets /\ j.device \in Devices
        /\ Name(j) \in Names /\ Back(j) \in TbJob /\ JobSound(Back(j))
    BY <2>1, EntryJob DEF j
  <2> DEFINE k == [j EXCEPT !.pc = "find", !.secret = nextPwd]
  <2>3. k \in TbJob
    BY <1>1 DEF TbJob, Labels, MailcowTypeOK
  <2>4. /\ k.pc = "find" /\ k.user = j.user /\ k.device = j.device /\ k.target = j.target
        /\ k.left = j.left
    BY <1>1 DEF TbJob
  <2>5. Become(w, k) \/ Become(w, Back(j))
    BY <1>6 DEF PostAppPasswd, j
  <2> HIDE DEF k
  <2>6. JobSound(k)
    BY <1>1, <2>1, <2>2, <2>4 DEF JobSound, MintLabels, EntryLabels, IdLabels, SweepLabels
  <2>7. Issue(j.target, Name(j)) \/ UNCHANGED mailcowVars
    BY <1>6 DEF PostAppPasswd, j
  <2>8. (Shrinks \/ Grows) /\ MailcowTypeOK'
    BY <1>1, <2>2, <2>7, IssueGrows, MailcowKept
  <2> QED
    BY <1>1, <1>6, <2>2, <2>3, <2>5, <2>6, <2>8, MailcowStep DEF PostAppPasswd
<1>7. CASE FindAppPasswd(w)
  <2>1. j.pc = "find" /\ j.pc \in EntryLabels
    BY <1>7 DEF FindAppPasswd, At, EntryLabels, j
  <2>2. /\ j.user \in Users /\ j.target \in Targets /\ j.device \in Devices
        /\ Back(j) \in TbJob /\ JobSound(Back(j))
    BY <2>1, EntryJob DEF j
  <2>3. \/ \E id \in FoundByName(j.target, Name(j)) :
              Become(w, [j EXCEPT !.pc = "put", !.pwd = id])
        \/ Become(w, Back(j))
    BY <1>7 DEF FindAppPasswd, j
  <2>4. ASSUME NEW id \in FoundByName(j.target, Name(j)),
               Become(w, [j EXCEPT !.pc = "put", !.pwd = id])
        PROVE  IInv'
    <3> DEFINE k == [j EXCEPT !.pc = "put", !.pwd = id]
    <3>1. Belongs(id, j.target, Name(j))
      BY <1>1, <2>4, MatchingBelongs DEF FoundByName, IInv
    <3>2. k \in TbJob
      BY <1>1, <3>1 DEF TbJob, Labels, Belongs
    <3>3. /\ k.pc = "put" /\ k.user = j.user /\ k.device = j.device /\ k.target = j.target
          /\ k.left = j.left /\ k.pwd = id
      BY <1>1 DEF TbJob
    <3>4. Become(w, k)
      BY <2>4
    <3> HIDE DEF k
    <3>5. JobSound(k)
      BY <1>1, <2>1, <2>2, <3>1, <3>3
         DEF JobSound, Name, MintLabels, EntryLabels, IdLabels, SweepLabels
    <3> QED
      BY <1>1, <1>7, <3>2, <3>4, <3>5, LocalStep DEF FindAppPasswd
  <2>5. CASE Become(w, Back(j))
    BY <1>1, <1>7, <2>2, <2>5, LocalStep DEF FindAppPasswd
  <2> QED
    BY <2>3, <2>4, <2>5
<1>8. CASE PutRow(w)
  <2>1. j.pc = "put" /\ j.pc \in EntryLabels
    BY <1>8 DEF PutRow, At, EntryLabels, j
  <2>2. /\ j.user \in Users /\ j.target \in Targets /\ j.device \in Devices
        /\ Back(j) \in TbJob /\ JobSound(Back(j))
    BY <2>1, EntryJob DEF j
  <2>3. Belongs(j.pwd, j.target, TbMarker(j.user, j.target, j.device))
    BY <1>1, <2>1 DEF JobSound, IdLabels, Name
  <2>4. Shrinks /\ MailcowTypeOK' /\ Become(w, Back(j)) /\ served' = served
    BY <1>1, <1>8, MailcowKept DEF PutRow, j
  <2>5. CASE UNCHANGED <<tbRows, handed>>
    BY <1>1, <2>2, <2>4, <2>5, MailcowStep
  <2>6. CASE /\ TbUpsert(RowKey(j), j.pwd)
             /\ handed' = [handed EXCEPT ![RowKey(j)] = j.secret]
    <3>1. j.pwd \in Nat /\ j.secret \in Nat \union {None} /\ RowKey(j) \in Key
      BY <1>1, <2>2, <2>3 DEF Belongs, TbJob, RowKey, Key
    <3>2. RowsTyped /\ RowsSound
      BY DEF IInv, TypeOK, RowsTyped
    <3>3. RowsTyped'
      BY <2>6, <3>1, <3>2 DEF RowsTyped, TbUpsert
    <3>4. ASSUME NEW u \in Users, NEW t \in Targets, NEW d \in Devices,
                 tbRows'[<<u, t, d>>] # None
          PROVE  Belongs(tbRows'[<<u, t, d>>], t, TbMarker(u, t, d))
      <4>1. <<u, t, d>> \in Key
        BY DEF Key
      <4>2. CASE <<u, t, d>> = RowKey(j)
        <5>1. u = j.user /\ t = j.target /\ d = j.device
          BY <4>2 DEF RowKey
        <5>2. tbRows'[<<u, t, d>>] = j.pwd
          BY <2>6, <3>1, <3>2, <4>1, <4>2 DEF TbUpsert, RowsTyped
        <5> QED
          BY <2>3, <5>1, <5>2
      <4>3. CASE <<u, t, d>> # RowKey(j)
        <5>1. tbRows'[<<u, t, d>>] = tbRows[<<u, t, d>>]
          BY <2>6, <3>2, <4>1, <4>3 DEF TbUpsert, RowsTyped
        <5> QED
          BY <3>2, <3>4, <5>1 DEF RowsSound
      <4> QED
        BY <4>2, <4>3
    <3>5. RowsSound'
      BY <1>1, <2>4, <3>4, BelongsStable DEF RowsSound
    <3> QED
      BY <1>1, <2>2, <2>4, <3>3, <3>5, Step
  <2> QED
    BY <1>8, <2>5, <2>6 DEF PutRow, j
<1>9. CASE Answer(w)
  BY <1>1, <1>9, IdleGood, LocalStep DEF Answer, End
<1> QED
  BY <1>2, <1>3, <1>4, <1>5, <1>6, <1>7, <1>8, <1>9 DEF Mint

---------------------------------------------------------------------------
(* _cleanup_tb_setup *)
LEMMA RowsToRevokeSound ==
    ASSUME IInv, NEW j \in TbJob, j.user \in Users, NEW s \in RowsToRevoke(j)
    PROVE  /\ s \in Snapshot /\ s.target \notin j.want
           /\ Belongs(s.pwd, s.target, TbMarker(j.user, s.target, s.device))
<1>1. PICK k \in Key : s = RowOf(k) /\ k[1] = j.user /\ k[2] \notin j.want /\ tbRows[k] # None
  BY DEF RowsToRevoke
<1>2. PICK u \in Users, t \in Targets, d \in Devices : k = <<u, t, d>>
  BY DEF Key
<1>3. s.target = t /\ s.device = d /\ s.pwd = tbRows[<<u, t, d>>] /\ u = j.user
  BY <1>1, <1>2 DEF RowOf
<1>4. Belongs(s.pwd, t, TbMarker(u, t, d))
  BY <1>1, <1>2, <1>3 DEF IInv, RowsSound
<1>5. s \in Snapshot
  BY <1>1, <1>2, <1>3, <1>4 DEF RowOf, Snapshot, Belongs
<1> QED
  BY <1>1, <1>2, <1>3, <1>4, <1>5

LEMMA CleanupKeeps ==
    ASSUME IInv, NEW w \in Workers, Cleanup(w)
    PROVE  IInv'
<1> DEFINE j == tbJob[w]
<1>1. j \in TbJob /\ JobSound(j) /\ MailcowTypeOK /\ served \in Nat
  BY DEF IInv, TypeOK
<1> HIDE DEF j
<1>2. CASE BeginCleanup(w)
  <2>1. PICK u \in Users, actionable \in SUBSET mailboxes :
          Become(w, [IdleJob EXCEPT !.pc = "read", !.user = u, !.want = actionable])
    BY <1>2 DEF BeginCleanup
  <2> DEFINE k == [IdleJob EXCEPT !.pc = "read", !.user = u, !.want = actionable]
  <2>2. k \in TbJob
    BY <1>1, IdleGood DEF TbJob, Labels, MailcowTypeOK
  <2>3. k.pc = "read" /\ k.user = u
    BY DEF IdleJob
  <2>4. Become(w, k)
    BY <2>1
  <2> HIDE DEF k
  <2>5. JobSound(k)
    BY <2>3 DEF JobSound, MintLabels, EntryLabels, IdLabels, SweepLabels
  <2> QED
    BY <1>1, <1>2, <2>2, <2>4, <2>5, LocalStep DEF BeginCleanup, Received
<1>3. CASE ReadRows(w)
  <2>1. j.pc = "read" /\ j.user \in Users
    BY <1>1, <1>3 DEF ReadRows, At, JobSound, j
  <2>2. \A s \in RowsToRevoke(j) :
          /\ s \in Snapshot /\ s.target \notin j.want
          /\ Belongs(s.pwd, s.target, TbMarker(j.user, s.target, s.device))
    BY <1>1, <2>1, RowsToRevokeSound
  <2> DEFINE k == [j EXCEPT !.pc = "rows", !.rows = RowsToRevoke(j)]
  <2>3. k \in TbJob
    BY <1>1, <2>2 DEF TbJob, Labels
  <2>4. k.pc = "rows" /\ k.user = j.user /\ k.want = j.want /\ k.rows = RowsToRevoke(j)
    BY <1>1 DEF TbJob
  <2>5. Become(w, k) \/ Become(w, IdleJob)
    BY <1>3 DEF ReadRows, End, j
  <2> HIDE DEF k
  <2>6. JobSound(k)
    BY <2>1, <2>2, <2>4 DEF JobSound, MintLabels, EntryLabels, IdLabels, SweepLabels
  <2> QED
    BY <1>1, <1>3, <2>3, <2>5, <2>6, IdleGood, LocalStep DEF ReadRows
<1>4. CASE StartRevoke(w)
  <2>1. PICK s \in j.rows :
          Become(w, [j EXCEPT !.pc = "revoke", !.rows = @ \ {s}, !.target = s.target,
                              !.device = s.device, !.pwd = s.pwd])
    BY <1>4 DEF StartRevoke, j
  <2> DEFINE k == [j EXCEPT !.pc = "revoke", !.rows = @ \ {s}, !.target = s.target,
                            !.device = s.device, !.pwd = s.pwd]
  <2>2. j.pc = "rows" /\ j.user \in Users
    BY <1>1, <1>4 DEF StartRevoke, At, JobSound, j
  <2>3. s \in Snapshot
    BY <1>1, <2>1 DEF TbJob
  <2>4. s.target \in Targets /\ s.device \in Devices /\ s.pwd \in Nat
    BY <2>3 DEF Snapshot
  <2>5. k \in TbJob
    BY <1>1, <2>4 DEF TbJob, Labels
  <2>6. /\ k.pc = "revoke" /\ k.user = j.user /\ k.want = j.want /\ k.rows = j.rows \ {s}
        /\ k.target = s.target /\ k.device = s.device /\ k.pwd = s.pwd
    BY <1>1 DEF TbJob
  <2>7. Become(w, k)
    BY <2>1
  <2> HIDE DEF k
  <2>8. \A r \in j.rows : /\ r.target \notin j.want
                          /\ Belongs(r.pwd, r.target, TbMarker(j.user, r.target, r.device))
    BY <1>1, <2>2 DEF JobSound, SweepLabels
  <2>9. JobSound(k)
    BY <2>1, <2>2, <2>4, <2>6, <2>8
       DEF JobSound, Name, MintLabels, EntryLabels, IdLabels, SweepLabels
  <2> QED
    BY <1>1, <1>4, <2>5, <2>7, <2>9, LocalStep DEF StartRevoke
<1>5. CASE DeleteAppPasswd(w)
  <2>1. j.pc = "revoke" /\ j.pc \in EntryLabels
    BY <1>5 DEF DeleteAppPasswd, At, EntryLabels, j
  <2>2. Back(j) \in TbJob /\ JobSound(Back(j))
    BY <2>1, EntryJob DEF j
  <2> DEFINE k == [j EXCEPT !.pc = "forget"]
  <2>3. k \in TbJob
    BY <1>1 DEF TbJob, Labels
  <2>4. /\ k.pc = "forget" /\ k.user = j.user /\ k.want = j.want /\ k.rows = j.rows
        /\ k.target = j.target /\ k.device = j.device /\ k.pwd = j.pwd
    BY <1>1 DEF TbJob
  <2>5. Become(w, k) \/ Become(w, Back(j))
    BY <1>5 DEF DeleteAppPasswd, j
  <2> HIDE DEF k
  <2>6. JobSound(k)
    BY <1>1, <2>1, <2>4 DEF JobSound, Name, MintLabels, EntryLabels, IdLabels, SweepLabels
  <2>7. Revoke(j.pwd) \/ UNCHANGED mailcowVars
    BY <1>5 DEF DeleteAppPasswd, j
  <2>8. Shrinks /\ MailcowTypeOK'
    BY <1>1, <2>7, RevokeShrinks, MailcowKept
  <2> QED
    BY <1>1, <1>5, <2>2, <2>3, <2>5, <2>6, <2>8, MailcowStep DEF DeleteAppPasswd
<1>6. CASE ForgetRow(w)
  <2>1. j.pc = "forget" /\ j.pc \in EntryLabels
    BY <1>6 DEF ForgetRow, At, EntryLabels, j
  <2>2. /\ Back(j) \in TbJob /\ JobSound(Back(j))
        /\ j.user \in Users /\ j.target \in Targets /\ j.device \in Devices
    BY <2>1, EntryJob DEF j
  <2>3. Shrinks /\ MailcowTypeOK' /\ Become(w, Back(j)) /\ served' = served
    BY <1>1, <1>6, MailcowKept DEF ForgetRow, j
  <2>4. CASE UNCHANGED tbRows
    BY <1>1, <1>6, <2>2, <2>3, <2>4, MailcowStep DEF ForgetRow
  <2>5. CASE TbDelete(RowKey(j))
    <3>1. RowsTyped /\ RowsSound /\ handed' = handed
      BY <1>6 DEF IInv, TypeOK, RowsTyped, ForgetRow
    <3>2. RowsTyped'
      BY <2>5, <3>1 DEF RowsTyped, TbDelete
    <3>3. ASSUME NEW k \in Key
          PROVE  tbRows'[k] \in {None, tbRows[k]}
      BY <2>5, <3>1 DEF TbDelete, RowsTyped
    <3>4. ASSUME NEW u \in Users, NEW t \in Targets, NEW d \in Devices,
                 tbRows'[<<u, t, d>>] # None
          PROVE  Belongs(tbRows'[<<u, t, d>>], t, TbMarker(u, t, d))
      <4>1. <<u, t, d>> \in Key
        BY DEF Key
      <4>2. tbRows'[<<u, t, d>>] = tbRows[<<u, t, d>>]
        BY <3>3, <3>4, <4>1
      <4> QED
        BY <3>1, <3>4, <4>2 DEF RowsSound
    <3>5. RowsSound'
      BY <1>1, <2>3, <3>4, BelongsStable DEF RowsSound
    <3> QED
      BY <1>1, <2>2, <2>3, <3>2, <3>5, Step
  <2> QED
    BY <1>6, <2>4, <2>5 DEF ForgetRow, j
<1>7. CASE EndCleanup(w)
  BY <1>1, <1>7, IdleGood, LocalStep DEF EndCleanup, End
<1> QED
  BY <1>2, <1>3, <1>4, <1>5, <1>6, <1>7 DEF Cleanup

(* What others do to the table of entries is what every call to it may do *)
LEMMA OthersMove ==
    ASSUME MailcowTypeOK, Others
    PROVE  (Shrinks \/ Grows) /\ MailcowTypeOK'
<1>1. CASE OthersAdd
  <2>0. PICK m \in Targets :
            \E name \in {Marker(u, m) : u \in Users} \union {ForeignName} : Issue(m, name)
    BY <1>1 DEF OthersAdd
  <2>1. PICK name \in {Marker(u, m) : u \in Users} \union {ForeignName} : Issue(m, name)
    BY <2>0
  <2>2. name \in Names
    BY DEF Marker, SyncNames, Names
  <2> QED
    BY <2>1, <2>2, IssueGrows
<1>2. CASE OthersDelete
  BY <1>2, RevokeShrinks DEF OthersDelete
<1> QED
  BY <1>1, <1>2 DEF Others

LEMMA Inductive ==
    ASSUME IInv, [Next]_vars
    PROVE  IInv'
<1>1. MailcowTypeOK /\ served \in Nat /\ IdsBelow /\ IdsUnique
  BY DEF IInv, TypeOK
<1>2. CASE \E w \in Workers : Mint(w) \/ Cleanup(w)
  BY <1>2, MintKeeps, CleanupKeeps
<1>3. CASE \E w \in Workers : Crash(w)
  BY <1>1, <1>3, IdleGood, LocalStep DEF Crash, End
<1>4. ASSUME Shrinks \/ Grows, MailcowTypeOK', UNCHANGED <<tbRows, handed, tbJob, served>>
      PROVE  IInv'
  <2>1. RowsTyped' /\ RowsSound'
    BY <1>4, RowsKept
  <2>2. IdsBelow' /\ IdsUnique'
    BY <1>1, <1>4, IdsStable
  <2>3. ASSUME NEW v \in Workers
        PROVE  JobSound(tbJob[v])'
    <3>1. ASSUME NEW k, JobSound(k)
          PROVE  JobSound(k)'
      BY <1>1, <1>4, <3>1, BelongsStable DEF JobSound, Name
    <3>2. JobSound(tbJob[v]) /\ tbJob'[v] = tbJob[v]
      BY <1>4 DEF IInv
    <3> QED
      BY <3>1, <3>2
  <2>4. TypeOK'
    BY <1>4, <2>1 DEF IInv, TypeOK, RowsTyped
  <2> QED
    BY <2>1, <2>2, <2>3, <2>4 DEF IInv
<1>5. CASE MailboxDropped
  BY <1>1, <1>4, <1>5, DropShrinks DEF MailboxDropped
<1>6. CASE UNCHANGED vars
  BY <1>1, <1>4, <1>6, MailcowKept DEF vars
<1>7. CASE Others
  BY <1>1, <1>4, <1>7, OthersMove DEF Others, OthersAdd, OthersDelete
<1> QED
  BY <1>2, <1>3, <1>5, <1>6, <1>7 DEF Next, Rest

LEMMA Initially ==
    ASSUME Init
    PROVE  IInv
<1>1. TypeOK
  BY IdleGood DEF Init, TypeOK, MailcowInit, MailcowTypeOK
<1>2. IdsBelow /\ IdsUnique
  BY DEF Init, MailcowInit, IdsBelow, IdsUnique
<1>3. RowsSound
  BY DEF Init, RowsSound, Key
<1>4. ASSUME NEW w \in Workers
      PROVE  JobSound(tbJob[w])
  BY IdleGood DEF Init
<1> QED
  BY <1>1, <1>2, <1>3, <1>4 DEF IInv

THEOREM TbInvariance == Spec => []IInv
<1>1. Init => IInv
  BY Initially
<1>2. IInv /\ [Next]_vars => IInv'
  BY Inductive
<1> QED
  BY <1>1, <1>2, PTL DEF Spec

(* The parts of the state keep their types, whatever fails. *)
THEOREM TbTypeCorrect == Spec => []TypeOK
<1>1. IInv => TypeOK
  BY DEF IInv
<1> QED
  BY <1>1, TbInvariance, PTL

(* Whatever fails, overlaps or repeats: a row of tb_setup_pwds names an entry *)
(* of its own user, target and device, or one that is gone.                   *)
THEOREM TbRecordedIdsAreOurs == Spec => []TbRecordedIsOurs
<1>1. IInv => TbRecordedIsOurs
  BY DEF IInv, RowsSound, TbRecordedIsOurs, TbMintedFor, Belongs
<1> QED
  BY <1>1, TbInvariance, PTL

---------------------------------------------------------------------------
LEMMA WhoMoved ==
    ASSUME IInv, [Next]_vars, NEW w \in Workers, tbJob'[w] # tbJob[w]
    PROVE  Mint(w) \/ Cleanup(w) \/ Crash(w)
<1>1. tbJob \in [Workers -> TbJob]
  BY DEF IInv, TypeOK
<1>2. CASE \E v \in Workers : Mint(v) \/ Cleanup(v) \/ Crash(v)
  <2>1. PICK v \in Workers : Mint(v) \/ Cleanup(v) \/ Crash(v)
    BY <1>2
  <2>2. \E j : Become(v, j)
    <3>1. CASE Mint(v)
      BY <3>1 DEF Mint, ReceiveMint, ListMailboxes, ReadPrior, DropPrior, PostAppPasswd,
                  FindAppPasswd, PutRow, Answer, End
    <3>2. CASE Cleanup(v) \/ Crash(v)
      BY <3>2 DEF Cleanup, Crash, BeginCleanup, ReadRows, StartRevoke, DeleteAppPasswd,
                  ForgetRow, EndCleanup, End
    <3> QED
      BY <2>1, <3>1, <3>2
  <2>3. v = w
    BY <1>1, <2>2 DEF Become
  <2> QED
    BY <2>1, <2>3
<1>3. CASE MailboxDropped \/ Others \/ UNCHANGED vars
  BY <1>3 DEF MailboxDropped, Others, OthersAdd, OthersDelete, vars
<1> QED
  BY <1>2, <1>3 DEF Next, Rest

(* An entry that goes in a step of a request was minted for the user of that   *)
(* request, for the device it mints for or for a target that the user lost:    *)
(* no app-password of anybody else, nor one that the sync or a person added to *)
(* the table meanwhile, though ids are all the request goes by.                *)
THEOREM TbSetupDeletesOnlyOwn == Spec => TbDeletesOnlyOwn
<1>1. ASSUME IInv, [Next]_vars, NEW p \in pwds \ pwds', NEW w \in Workers,
             tbJob'[w] # tbJob[w]
      PROVE  /\ p.name = TbMarker(tbJob[w].user, p.mailbox, tbJob[w].device)
             /\ Cleaning(w) => p.mailbox \notin tbJob[w].want
  <2>1. tbJob[w].pc \in {"drop", "revoke"} /\ Revoke(tbJob[w].pwd)
    <3>1. CASE Mint(w)
      BY <1>1, <3>1 DEF Mint, ReceiveMint, Received, ListMailboxes, ReadPrior, DropPrior,
              PostAppPasswd, Issue, FindAppPasswd, PutRow, Answer, mailcowVars, At
    <3>2. CASE Cleanup(w) \/ Crash(w)
      BY <1>1, <3>2 DEF Cleanup, Crash, BeginCleanup, Received, ReadRows, StartRevoke,
              DeleteAppPasswd, ForgetRow, EndCleanup, mailcowVars, At
    <3> QED
      BY <1>1, <3>1, <3>2, WhoMoved
  <2>2. JobSound(tbJob[w])
    BY <1>1 DEF IInv
  <2>3. Belongs(tbJob[w].pwd, tbJob[w].target, Name(tbJob[w]))
    BY <2>1, <2>2 DEF JobSound, IdLabels
  <2>4. p.id = tbJob[w].pwd
    BY <1>1, <2>1 DEF Revoke
  <2>5. p.mailbox = tbJob[w].target /\ p.name = Name(tbJob[w])
    BY <1>1, <2>3, <2>4 DEF Belongs
  <2>6. Cleaning(w) => tbJob[w].target \notin tbJob[w].want
    BY <2>1, <2>2 DEF Cleaning, JobSound
  <2> QED
    BY <2>5, <2>6 DEF Name
<1>2. IInv /\ [Next]_vars =>
        [\A p \in pwds \ pwds', w \in Workers :
          tbJob'[w] # tbJob[w] =>
             /\ p.name = TbMarker(tbJob[w].user, p.mailbox, tbJob[w].device)
             /\ Cleaning(w) => p.mailbox \notin tbJob[w].want]_vars
  BY <1>1
<1> QED
  BY <1>2, TbInvariance, PTL DEF Spec, TbDeletesOnlyOwn

---------------------------------------------------------------------------
(* What is listed as revoked stays revoked.  Ids are never used twice, so    *)
(* neither a mint of the same name nor another sweep can bring one back.     *)
LEMMA MailcowMoves ==
    ASSUME IInv, [Next]_vars
    PROVE  Shrinks \/ Grows
<1>1. MailcowTypeOK
  BY DEF IInv, TypeOK
<1>2. ASSUME NEW w \in Workers, PostAppPasswd(w)
      PROVE  Shrinks \/ Grows
  <2>1. tbJob[w].target \in Targets /\ Name(tbJob[w]) \in Names
    BY <1>2, EntryJob DEF PostAppPasswd, At, EntryLabels
  <2>2. Issue(tbJob[w].target, Name(tbJob[w])) \/ UNCHANGED mailcowVars
    BY <1>2 DEF PostAppPasswd
  <2> QED
    BY <1>1, <2>1, <2>2, IssueGrows, MailcowKept
<1>3. ASSUME NEW w \in Workers, DropPrior(w) \/ DeleteAppPasswd(w)
      PROVE  Shrinks
  BY <1>1, <1>3, RevokeShrinks, MailcowKept DEF DropPrior, DeleteAppPasswd
<1>4. ASSUME NEW w \in Workers,
             \/ ReceiveMint(w) \/ ListMailboxes(w) \/ ReadPrior(w) \/ FindAppPasswd(w)
             \/ PutRow(w) \/ Answer(w) \/ BeginCleanup(w) \/ ReadRows(w) \/ StartRevoke(w)
             \/ ForgetRow(w) \/ EndCleanup(w) \/ Crash(w)
      PROVE  UNCHANGED mailcowVars
  BY <1>4 DEF ReceiveMint, Received, ListMailboxes, ReadPrior, FindAppPasswd, PutRow,
              Answer, BeginCleanup, ReadRows, StartRevoke, ForgetRow, EndCleanup, Crash
<1>5. CASE \E w \in Workers : Mint(w) \/ Cleanup(w) \/ Crash(w)
  BY <1>1, <1>2, <1>3, <1>4, <1>5, MailcowKept DEF Mint, Cleanup
<1>6. CASE MailboxDropped
  BY <1>1, <1>6, DropShrinks DEF MailboxDropped
<1>7. CASE UNCHANGED vars
  BY <1>1, <1>7, MailcowKept DEF vars
<1>8. CASE Others
  BY <1>1, <1>8, OthersMove
<1> QED
  BY <1>5, <1>6, <1>7, <1>8 DEF Next, Rest

(* Only the revocation itself leads to the deletion of the row. *)
LEMMA ForgetComesFromRevoke ==
    ASSUME IInv, [Next]_vars, NEW w \in Workers, tbJob'[w] # tbJob[w],
           tbJob'[w].pc = "forget"
    PROVE  Revoke(tbJob[w].pwd) /\ tbJob'[w].pwd = tbJob[w].pwd
<1> DEFINE j == tbJob[w]
<1>1. j \in TbJob /\ tbJob \in [Workers -> TbJob]
  BY DEF IInv, TypeOK
<1>2. ASSUME NEW k, Become(w, k)
      PROVE  k.pc = "forget"
  BY <1>1, <1>2 DEF Become
<1>3. ASSUME NEW k, Become(w, k)
      PROVE  tbJob'[w] = k
  BY <1>1, <1>3 DEF Become
<1> HIDE DEF j
<1>4. Back(j).pc \in {"rows", "next"}
  BY <1>1 DEF Back, TbJob
<1>5. IdleJob.pc = "idle"
  BY DEF IdleJob
<1>6. ~Mint(w)
  <2>1. ~ReceiveMint(w)
    <3>1. ASSUME NEW u, NEW d, NEW claims
          PROVE  [IdleJob EXCEPT !.pc = "list", !.user = u, !.device = d,
                                 !.want = claims].pc = "list"
      BY DEF IdleJob
    <3> QED
      BY <1>2, <3>1 DEF ReceiveMint
  <2>2. ~ListMailboxes(w)
    <3>1. [j EXCEPT !.pc = "next", !.want = @ \intersect mailboxes,
                    !.left = j.want \intersect mailboxes].pc = "next"
      BY <1>1 DEF TbJob
    <3> QED
      BY <1>2, <1>5, <3>1 DEF ListMailboxes, End, j
  <2>3. ~ReadPrior(w)
    <3> SUFFICES ASSUME ReadPrior(w) PROVE FALSE
      OBVIOUS
    <3>1. PICK t : Become(w, [j EXCEPT !.left = @ \ {t}, !.target = t,
                        !.pwd = TbGet(<<j.user, t, j.device>>),
                        !.pc = IF TbGet(<<j.user, t, j.device>>) = None THEN "post" ELSE "drop"])
      BY DEF ReadPrior, j
    <3>2. [j EXCEPT !.left = @ \ {t}, !.target = t,
                        !.pwd = TbGet(<<j.user, t, j.device>>),
                        !.pc = IF TbGet(<<j.user, t, j.device>>) = None THEN "post" ELSE "drop"].pc
            \in {"post", "drop"}
      BY <1>1 DEF TbJob
    <3> QED
      BY <1>2, <3>1, <3>2
  <2>4. ~DropPrior(w) /\ ~PostAppPasswd(w)
    <3>1. [j EXCEPT !.pc = "post", !.pwd = None].pc = "post"
      BY <1>1 DEF TbJob
    <3>2. [j EXCEPT !.pc = "find", !.secret = nextPwd].pc = "find"
      BY <1>1 DEF TbJob
    <3> QED
      BY <1>2, <1>4, <3>1, <3>2 DEF DropPrior, PostAppPasswd, j
  <2>5. ~FindAppPasswd(w)
    <3>1. ASSUME NEW id
          PROVE  [j EXCEPT !.pc = "put", !.pwd = id].pc = "put"
      BY <1>1 DEF TbJob
    <3> QED
      BY <1>2, <1>4, <3>1 DEF FindAppPasswd, j
  <2>6. ~PutRow(w) /\ ~Answer(w)
    BY <1>2, <1>4, <1>5 DEF PutRow, Answer, End, j
  <2> QED
    BY <2>1, <2>2, <2>3, <2>4, <2>5, <2>6 DEF Mint
<1>7. ~BeginCleanup(w) /\ ~ReadRows(w) /\ ~StartRevoke(w)
  <2>1. ~BeginCleanup(w)
    <3>1. ASSUME NEW u, NEW actionable
          PROVE  [IdleJob EXCEPT !.pc = "read", !.user = u,
                                 !.want = actionable].pc = "read"
      BY DEF IdleJob
    <3> QED
      BY <1>2, <3>1 DEF BeginCleanup
  <2>2. [j EXCEPT !.pc = "rows", !.rows = RowsToRevoke(j)].pc = "rows"
    BY <1>1 DEF TbJob
  <2>3. ASSUME NEW s
        PROVE  [j EXCEPT !.pc = "revoke", !.rows = @ \ {s}, !.target = s.target,
                         !.device = s.device, !.pwd = s.pwd].pc = "revoke"
    BY <1>1 DEF TbJob
  <2> QED
    BY <1>2, <1>5, <2>1, <2>2, <2>3 DEF ReadRows, StartRevoke, End, j
<1>8. ~ForgetRow(w) /\ ~EndCleanup(w) /\ ~Crash(w)
  BY <1>2, <1>4, <1>5 DEF ForgetRow, EndCleanup, Crash, End, j
<1>9. DeleteAppPasswd(w)
  BY <1>6, <1>7, <1>8, WhoMoved DEF Cleanup
<1>10. /\ Revoke(j.pwd)
       /\ Become(w, [j EXCEPT !.pc = "forget"])
  BY <1>2, <1>4, <1>9 DEF DeleteAppPasswd, j
<1>11. [j EXCEPT !.pc = "forget"].pwd = j.pwd
  BY <1>1 DEF TbJob
<1> QED
  BY <1>3, <1>10, <1>11 DEF j

ForgetInv ==
    /\ IInv
    /\ \A w \in Workers : At(w, "forget") => \A p \in pwds : p.id # tbJob[w].pwd

LEMMA ForgetKeeps ==
    ASSUME ForgetInv, [Next]_vars
    PROVE  ForgetInv'
<1>1. IInv /\ IInv' /\ MailcowTypeOK
  BY Inductive DEF ForgetInv, IInv, TypeOK
<1>2. ASSUME NEW w \in Workers, tbJob'[w].pc = "forget", NEW p \in pwds'
      PROVE  p.id # tbJob'[w].pwd
  <2>1. CASE tbJob'[w] = tbJob[w]
    <3>1. \A q \in pwds : q.id # tbJob[w].pwd
      BY <1>2, <2>1 DEF ForgetInv, At
    <3>2. tbJob[w].pwd < nextPwd /\ tbJob[w].pwd \in Nat
      BY <1>1, <1>2, <2>1 DEF IInv, JobSound, IdLabels, Belongs
    <3>3. p \in pwds \/ p.id = nextPwd
      BY <1>1, <1>2, MailcowMoves DEF Shrinks, Grows
    <3> QED
      BY <1>1, <2>1, <3>1, <3>2, <3>3 DEF MailcowTypeOK
  <2>2. CASE tbJob'[w] # tbJob[w]
    BY <1>1, <1>2, <2>2, ForgetComesFromRevoke DEF Revoke
  <2> QED
    BY <2>1, <2>2
<1> QED
  BY <1>1, <1>2 DEF ForgetInv, At

(* A row of tb_setup_pwds is deleted only after the app-password that the      *)
(* sweep took from it is gone, in spite of every failure, of mints that take   *)
(* no lock and of sweeps in other processes.                                   *)
THEOREM TbForgottenAreRevoked == Spec => TbForgetsOnlyRevoked
<1>1. Init => ForgetInv
  BY Initially DEF Init, ForgetInv, IdleJob, At
<1>2. ForgetInv /\ [Next]_vars => ForgetInv'
  BY ForgetKeeps
<1>3. ASSUME ForgetInv, [Next]_vars, NEW k \in Key, NEW w \in Workers,
             tbRows[k] # None, tbRows'[k] = None, tbJob'[w] # tbJob[w], NEW p \in pwds'
      PROVE  p.id # tbJob[w].pwd
  <2>1. IInv /\ tbRows \in [Key -> Nat \union {None}] /\ tbRows' # tbRows
    BY <1>3 DEF ForgetInv, IInv, TypeOK
  <2>2. ~PutRow(w)
    <3> SUFFICES ASSUME PutRow(w) PROVE FALSE
      OBVIOUS
    <3>1. TbUpsert(RowKey(tbJob[w]), tbJob[w].pwd)
      BY <2>1 DEF PutRow
    <3>2. tbJob[w].pwd \in Nat
      BY <2>1 DEF PutRow, At, IInv, JobSound, IdLabels, Belongs
    <3>3. tbRows'[k] \in {tbRows[k], tbJob[w].pwd}
      BY <2>1, <3>1 DEF TbUpsert
    <3> QED
      BY <1>3, <3>2, <3>3, NoneAssumption
  <2>3. ForgetRow(w)
    <3>1. CASE Mint(w)
      BY <2>1, <2>2, <3>1 DEF Mint, ReceiveMint, Received, ListMailboxes, ReadPrior,
              DropPrior, PostAppPasswd, FindAppPasswd, Answer
    <3>2. CASE Cleanup(w) \/ Crash(w)
      BY <2>1, <3>2 DEF Cleanup, Crash, BeginCleanup, Received, ReadRows, StartRevoke,
              DeleteAppPasswd, EndCleanup
    <3> QED
      BY <1>3, <2>1, <3>1, <3>2, WhoMoved
  <2>4. At(w, "forget") /\ pwds' = pwds
    BY <2>3 DEF ForgetRow, mailcowVars
  <2> QED
    BY <1>3, <2>4 DEF ForgetInv
<1>4. ForgetInv /\ [Next]_vars =>
        [\A k \in Key, w \in Workers :
            tbRows[k] # None /\ tbRows'[k] = None /\ tbJob'[w] # tbJob[w] =>
               \A p \in pwds' : p.id # tbJob[w].pwd]_vars
  BY <1>3
<1> QED
  BY <1>1, <1>2, <1>4, PTL DEF Spec, TbForgetsOnlyRevoked

---------------------------------------------------------------------------
(* No two requests for one device of a user overlap, and no request of a user *)
(* overlaps with a cleanup of that user.  /my-accounts takes no lock, so this *)
(* is a condition on the requests there are and not a fact about the code.    *)
InTurn ==
    \A v, w \in Workers :
       /\ tbJob[v].pc # "idle" /\ tbJob[w].pc # "idle"
       /\ tbJob[v].user = tbJob[w].user
       /\ tbJob[v].device = tbJob[w].device \/ Cleaning(v) \/ Cleaning(w)
       => v = w

MintedLabels == {"find", "put"}

(* What a request knows of the table and of Mailcow when nothing disturbs it *)
SerialJob(j) ==
    /\ j.pc \in {"post", "forget"} => \A p \in pwds : p.name # Name(j)
    /\ j.pc = "find" => \A p \in pwds : p.name = Name(j) =>
                           p.id = j.secret /\ p.mailbox = j.target
    /\ j.pc = "put" => /\ j.pwd = j.secret
                       /\ \A p \in pwds : p.name = Name(j) => p.id = j.pwd
    /\ j.pc \in {"drop", "revoke"} => tbRows[RowKey(j)] = j.pwd
    /\ j.pc \in SweepLabels =>
          /\ \A s \in j.rows : tbRows[<<j.user, s.target, s.device>>] = s.pwd
          /\ \A t \in Targets \ j.want, d \in Devices :
                tbRows[<<j.user, t, d>>] # None =>
                   \/ \E s \in j.rows : s.target = t /\ s.device = d
                   \/ j.pc # "rows" /\ t = j.target /\ d = j.device
    /\ j.pc \in {"revoke", "forget"} =>
          \A s \in j.rows : ~(s.target = j.target /\ s.device = j.device)

(* A live entry is the one in the row, or has just been minted for that row *)
Tracked ==
    \A p \in pwds, u \in Users, t \in Targets, d \in Devices :
       p.name = TbMarker(u, t, d) =>
          \/ tbRows[<<u, t, d>>] = p.id
          \/ \E w \in Workers : /\ tbJob[w].pc \in MintedLabels
                                /\ tbJob[w].user = u /\ tbJob[w].target = t
                                /\ tbJob[w].device = d

SInv ==
    /\ IInv
    /\ Tracked
    /\ RowIsHanded
    /\ \A w \in Workers : SerialJob(tbJob[w])

(* What a step of worker w may change: its own row and its own marker *)
Confined(w) ==
    \/ pwds' \subseteq pwds /\ UNCHANGED tbRows
    \/ /\ tbJob[w].pc # "idle"
       /\ \A p \in pwds' \ pwds : p.name = Name(tbJob[w])
       /\ \A k \in Key : k # RowKey(tbJob[w]) => tbRows'[k] = tbRows[k]

(* Where requests take turns, such a step is nothing to the other requests. *)
LEMMA OthersSerial ==
    ASSUME InTurn, SInv, NEW w \in Workers, NEW v \in Workers, v # w, Confined(w)
    PROVE  SerialJob(tbJob[v]) => \A j : j = tbJob[v] => SerialJob(j)'
<1> SUFFICES ASSUME NEW j, j = tbJob[v], SerialJob(j)
             PROVE  SerialJob(j)'
  OBVIOUS
<1>1. j \in TbJob /\ JobSound(j)
  BY DEF SInv, IInv, TypeOK
<1>2. CASE pwds' \subseteq pwds /\ UNCHANGED tbRows
  BY <1>2 DEF SerialJob, Name, RowKey
<1>3. CASE j.pc \notin {"drop", "post", "find", "put"} \union SweepLabels
  BY <1>3 DEF SerialJob, SweepLabels
<1>4. ASSUME tbJob[w].pc # "idle",
             \A p \in pwds' \ pwds : p.name = Name(tbJob[w]),
             \A k \in Key : k # RowKey(tbJob[w]) => tbRows'[k] = tbRows[k],
             j.pc \in {"drop", "post", "find", "put"} \union SweepLabels
      PROVE  SerialJob(j)'
  <2>1. j.pc # "idle" /\ j.user \in Users
    BY <1>1, <1>4 DEF JobSound, SweepLabels
  <2>2. CASE j.pc \in {"drop", "post", "find", "put"}
    <3>1. j.device \in Devices /\ j.target \in Targets
      BY <1>1, <2>2 DEF JobSound, EntryLabels
    <3>2. ~(j.user = tbJob[w].user /\ j.device = tbJob[w].device)
      BY <1>4, <2>1 DEF InTurn
    <3>3. Name(j) # Name(tbJob[w]) /\ RowKey(j) # RowKey(tbJob[w])
      BY <3>2 DEF Name, TbMarker, RowKey
    <3>4. RowKey(j) \in Key
      BY <2>1, <3>1 DEF RowKey, Key
    <3>5. \A p \in pwds' : p.name = Name(j) => p \in pwds
      BY <1>4, <3>3
    <3>6. tbRows'[RowKey(j)] = tbRows[RowKey(j)]
      BY <1>4, <3>3, <3>4
    <3> QED
      BY <2>2, <3>5, <3>6 DEF SerialJob, SweepLabels, Name, RowKey
  <2>3. CASE j.pc \in SweepLabels
    <3>1. j.user # tbJob[w].user
      BY <1>4, <2>1, <2>3 DEF InTurn, Cleaning, SweepLabels
    <3>2. ASSUME NEW t \in Targets, NEW d \in Devices
          PROVE  tbRows'[<<j.user, t, d>>] = tbRows[<<j.user, t, d>>]
      <4>1. <<j.user, t, d>> \in Key /\ <<j.user, t, d>> # RowKey(tbJob[w])
        BY <2>1, <3>1 DEF Key, RowKey
      <4> QED
        BY <1>4, <4>1
    <3>3. \A p \in pwds' : p.name = Name(j) => p \in pwds
      BY <1>4, <3>1 DEF Name, TbMarker
    <3>4. \A s \in j.rows : s.target \in Targets /\ s.device \in Devices
      BY <1>1 DEF TbJob, Snapshot
    <3>5. j.pc \in {"revoke", "forget"} => j.target \in Targets /\ j.device \in Devices
      BY <1>1 DEF JobSound, EntryLabels
    <3>6. j.pc \notin {"drop", "post", "find", "put"}
      BY <2>3 DEF SweepLabels
    <3>7. SerialJob(j)
      OBVIOUS
    <3>8. \A s \in j.rows : tbRows'[<<j.user, s.target, s.device>>] = s.pwd
      BY <2>3, <3>2, <3>4, <3>7 DEF SerialJob
    <3>9. \A t \in Targets \ j.want, d \in Devices :
             tbRows'[<<j.user, t, d>>] # None =>
                \/ \E s \in j.rows : s.target = t /\ s.device = d
                \/ j.pc # "rows" /\ t = j.target /\ d = j.device
      BY <2>3, <3>2, <3>7 DEF SerialJob
    <3>10. j.pc = "revoke" => tbRows'[RowKey(j)] = j.pwd
      BY <3>2, <3>5, <3>7 DEF SerialJob, RowKey
    <3>11. j.pc = "forget" => \A p \in pwds' : p.name # Name(j)
      BY <3>3, <3>7 DEF SerialJob
    <3> QED
      BY <3>6, <3>7, <3>8, <3>9, <3>10, <3>11 DEF SerialJob, Name, RowKey
  <2> QED
    BY <1>4, <2>2, <2>3
<1> QED
  BY <1>2, <1>3, <1>4 DEF Confined

(* All that is left to show is what becomes of the worker's own request. *)
LEMMA SerialStep ==
    ASSUME InTurn, SInv, IInv', NEW w \in Workers, NEW j, Become(w, j), Confined(w),
           SerialJob(j)', Tracked', RowIsHanded'
    PROVE  SInv'
<1>1. /\ tbJob'[w] = j
      /\ \A v \in Workers : v # w => tbJob'[v] = tbJob[v]
  BY DEF SInv, IInv, TypeOK, Become
<1>2. ASSUME NEW v \in Workers
      PROVE  SerialJob(tbJob[v])'
  <2>1. CASE v = w
    BY <1>1, <2>1
  <2>2. CASE v # w
    <3>1. SerialJob(tbJob[v])
      BY DEF SInv
    <3>2. PICK k : k = tbJob[v]
      OBVIOUS
    <3>3. SerialJob(k)'
      BY <2>2, <3>1, <3>2, OthersSerial
    <3> QED
      BY <1>1, <2>2, <3>2, <3>3
  <2> QED
    BY <2>1, <2>2
<1> QED
  BY <1>2 DEF SInv

(* Unless the request has just minted one, every live entry of its device has *)
(* its row, and so has every one of its user if it is a cleanup.              *)
LEMMA HasRow ==
    ASSUME InTurn, SInv, NEW w \in Workers,
           tbJob[w].pc \notin MintedLabels \union {"idle"},
           NEW p \in pwds, NEW t \in Targets, NEW d \in Devices,
           d = tbJob[w].device \/ Cleaning(w), tbJob[w].user \in Users,
           p.name = TbMarker(tbJob[w].user, t, d)
    PROVE  tbRows[<<tbJob[w].user, t, d>>] = p.id
<1>1. ~\E v \in Workers : /\ tbJob[v].pc \in MintedLabels
                          /\ tbJob[v].user = tbJob[w].user /\ tbJob[v].target = t
                          /\ tbJob[v].device = d
  BY DEF InTurn, MintedLabels
<1> QED
  BY <1>1 DEF SInv, Tracked

(* The table keeps and Mailcow only loses entries: nothing gets out of track *)
(* but what the request had minted.                                          *)
LEMMA TrackedKept ==
    ASSUME SInv, NEW w \in Workers, NEW j, Become(w, j), pwds' \subseteq pwds,
           UNCHANGED tbRows,
           tbJob[w].pc \in MintedLabels =>
              \/ /\ j.pc \in MintedLabels
                 /\ j.user = tbJob[w].user /\ j.target = tbJob[w].target
                 /\ j.device = tbJob[w].device
              \/ \A p \in pwds' : p.name # Name(tbJob[w])
    PROVE  Tracked'
<1>1. /\ tbJob'[w] = j
      /\ \A v \in Workers : v # w => tbJob'[v] = tbJob[v]
  BY DEF SInv, IInv, TypeOK, Become
<1>2. ASSUME NEW p \in pwds', NEW u \in Users, NEW t \in Targets, NEW d \in Devices,
             p.name = TbMarker(u, t, d)
      PROVE  \/ tbRows'[<<u, t, d>>] = p.id
             \/ \E v \in Workers : /\ tbJob'[v].pc \in MintedLabels
                                   /\ tbJob'[v].user = u /\ tbJob'[v].target = t
                                   /\ tbJob'[v].device = d
  <2>1. CASE tbRows[<<u, t, d>>] = p.id
    BY <2>1
  <2>2. ASSUME NEW v \in Workers, tbJob[v].pc \in MintedLabels,
               tbJob[v].user = u, tbJob[v].target = t, tbJob[v].device = d
        PROVE  \E x \in Workers : /\ tbJob'[x].pc \in MintedLabels
                                  /\ tbJob'[x].user = u /\ tbJob'[x].target = t
                                  /\ tbJob'[x].device = d
    <3>1. CASE v # w
      BY <1>1, <2>2, <3>1
    <3>2. CASE v = w
      <4>1. p.name = Name(tbJob[w])
        BY <1>2, <2>2, <3>2 DEF Name
      <4> QED
        BY <1>1, <1>2, <2>2, <3>2, <4>1
    <3> QED
      BY <3>1, <3>2
  <2> QED
    BY <1>2, <2>1, <2>2 DEF SInv, Tracked
<1> QED
  BY <1>2 DEF Tracked

LEMMA HandedKept ==
    ASSUME SInv, UNCHANGED <<tbRows, handed>>
    PROVE  RowIsHanded'
BY DEF SInv, RowIsHanded

(* Requests at steps where nothing is known of them *)
LEMMA SerialFree ==
    ASSUME NEW j, j.pc \in {"idle", "list", "next", "read"}
    PROVE  SerialJob(j)'
BY DEF SerialJob, SweepLabels

LEMMA BackFree ==
    ASSUME NEW j \in TbJob, j.pc \in {"drop", "post", "find", "put"}
    PROVE  Back(j).pc = "next"
BY DEF Back, TbJob

(* A step that leaves the table alone and takes nothing into Mailcow *)
LEMMA QuietStep ==
    ASSUME InTurn, SInv, IInv', NEW w \in Workers, NEW j, Become(w, j),
           pwds' \subseteq pwds, UNCHANGED <<tbRows, handed>>, SerialJob(j)',
           tbJob[w].pc \in MintedLabels =>
              \/ /\ j.pc \in MintedLabels
                 /\ j.user = tbJob[w].user /\ j.target = tbJob[w].target
                 /\ j.device = tbJob[w].device
              \/ \A p \in pwds' : p.name # Name(tbJob[w])
    PROVE  SInv'
BY SerialStep, TrackedKept, HandedKept DEF Confined

(* GET /my-accounts, undisturbed *)
LEMMA MintSerial ==
    ASSUME Faults = {}, InTurn, SInv, IInv', NEW w \in Workers, Mint(w)
    PROVE  SInv'
<1>0. PICK j : j = tbJob[w]
  OBVIOUS
<1>1. /\ IInv /\ j \in TbJob /\ JobSound(j) /\ SerialJob(j) /\ MailcowTypeOK
      /\ tbRows \in [Key -> Nat \union {None}] /\ handed \in [Key -> Nat \union {None}]
  BY <1>0 DEF SInv, IInv, TypeOK
<1>2. Faults = {}
  OBVIOUS
<1>3. /\ IdleJob.pc = "idle"
      /\ j.pc \in {"drop", "post", "find", "put"} => Back(j).pc = "next"
  BY <1>1, BackFree DEF IdleJob
<1>4. /\ SerialJob(IdleJob)'
      /\ j.pc \in {"drop", "post", "find", "put"} => SerialJob(Back(j))'
  BY <1>3, SerialFree
<1>5. CASE ReceiveMint(w)
  <2>1. PICK u \in Users, d \in Devices, claims \in SUBSET Targets :
          Become(w, [IdleJob EXCEPT !.pc = "list", !.user = u, !.device = d, !.want = claims])
    BY <1>5 DEF ReceiveMint
  <2> DEFINE k == [IdleJob EXCEPT !.pc = "list", !.user = u, !.device = d, !.want = claims]
  <2>2. k.pc = "list" /\ Become(w, k)
    BY <2>1 DEF IdleJob
  <2> HIDE DEF k
  <2>3. SerialJob(k)'
    BY <2>2, SerialFree
  <2> QED
    BY <1>5, <2>2, <2>3, QuietStep DEF ReceiveMint, Received, At, MintedLabels, mailcowVars
<1>6. CASE ListMailboxes(w)
  <2>0. PICK k : k = [j EXCEPT !.pc = "next", !.want = @ \intersect mailboxes,
                                !.left = j.want \intersect mailboxes]
    OBVIOUS
  <2>1. k.pc = "next" /\ Become(w, k)
    BY <1>0, <1>1, <1>2, <1>6, <2>0 DEF ListMailboxes, TbJob
  <2>2. SerialJob(k)'
    BY <2>1, SerialFree
  <2> QED
    BY <1>6, <2>1, <2>2, QuietStep DEF ListMailboxes, At, MintedLabels, mailcowVars
<1>7. CASE ReadPrior(w)
  <2>1. PICK t \in j.left :
          Become(w, [j EXCEPT !.left = @ \ {t}, !.target = t,
                              !.pwd = TbGet(<<j.user, t, j.device>>),
                              !.pc = IF TbGet(<<j.user, t, j.device>>) = None
                                     THEN "post" ELSE "drop"])
    BY <1>0, <1>7 DEF ReadPrior
  <2>0. PICK prior, k : /\ prior = TbGet(<<j.user, t, j.device>>)
                        /\ k = [j EXCEPT !.left = @ \ {t}, !.target = t, !.pwd = prior,
                                         !.pc = IF prior = None THEN "post" ELSE "drop"]
    OBVIOUS
  <2>2. j.pc = "next" /\ UNCHANGED <<mailcowVars, tbRows, handed>>
    BY <1>0, <1>7 DEF ReadPrior, At
  <2>3. j.user \in Users /\ j.device \in Devices /\ t \in Targets
    BY <1>1, <2>1, <2>2 DEF JobSound, MintLabels
  <2>4. prior = tbRows[<<j.user, t, j.device>>]
    BY <2>0 DEF TbGet
  <2>5. Become(w, k)
    BY <2>0, <2>1
  <2>6. /\ k.pc = (IF prior = None THEN "post" ELSE "drop")
        /\ k.user = j.user /\ k.device = j.device /\ k.target = t /\ k.pwd = prior
    BY <1>1, <2>0 DEF TbJob
  <2>7. ASSUME k.pc = "post", NEW p \in pwds, p.name = Name(k)
        PROVE  FALSE
    <3>1. tbRows[<<j.user, t, j.device>>] = p.id
      BY <1>0, <2>2, <2>3, <2>6, <2>7, HasRow DEF Name, MintedLabels
    <3>2. p.id \in Nat
      BY <1>1, <2>7 DEF MailcowTypeOK, AppPassword
    <3> QED
      BY <2>4, <2>6, <2>7, <3>1, <3>2, NoneAssumption
  <2>8. tbRows[RowKey(k)] = k.pwd
    BY <2>4, <2>6 DEF RowKey
  <2>9. SerialJob(k)'
    BY <2>2, <2>6, <2>7, <2>8 DEF SerialJob, Name, SweepLabels, mailcowVars
  <2> QED
    BY <1>0, <2>2, <2>5, <2>9, QuietStep DEF MintedLabels, mailcowVars
<1>8. CASE DropPrior(w)
  <2> DEFINE k == [j EXCEPT !.pc = "post", !.pwd = None]
  <2>1. /\ j.pc = "drop" /\ Revoke(j.pwd) /\ Become(w, k) /\ UNCHANGED <<tbRows, handed>>
    BY <1>0, <1>2, <1>8 DEF DropPrior, At
  <2>2. j.user \in Users /\ j.device \in Devices /\ j.target \in Targets
    BY <1>1, <2>1 DEF JobSound, EntryLabels
  <2>3. /\ k.pc = "post"
        /\ k.user = j.user /\ k.device = j.device /\ k.target = j.target
    BY <1>1 DEF TbJob
  <2> HIDE DEF k
  <2>4. Name(k) = TbMarker(j.user, j.target, j.device)
    BY <2>3 DEF Name
  <2>5. ASSUME NEW p \in pwds', p.name = Name(k)
        PROVE  FALSE
    <3>1. p \in pwds /\ p.id # j.pwd
      BY <2>1, <2>5 DEF Revoke
    <3>2. tbRows[<<j.user, j.target, j.device>>] = p.id
      BY <1>0, <2>1, <2>2, <2>4, <2>5, <3>1, HasRow DEF MintedLabels
    <3>3. tbRows[<<j.user, j.target, j.device>>] = j.pwd
      BY <1>1, <2>1 DEF SerialJob, RowKey
    <3> QED
      BY <3>1, <3>2, <3>3
  <2>6. SerialJob(k)'
    BY <2>3, <2>4, <2>5 DEF SerialJob, Name, SweepLabels
  <2> QED
    BY <1>0, <2>1, <2>6, QuietStep DEF MintedLabels, Revoke
<1>9. CASE PostAppPasswd(w)
  <2>0. PICK k, e : /\ k = [j EXCEPT !.pc = "find", !.secret = nextPwd]
                    /\ e = [id |-> nextPwd, mailbox |-> j.target, name |-> Name(j)]
    OBVIOUS
  <2>1. j.pc = "post" /\ UNCHANGED <<tbRows, handed>>
    BY <1>0, <1>9 DEF PostAppPasswd, At
  <2>2. CASE Become(w, Back(j)) /\ UNCHANGED mailcowVars
    BY <1>0, <1>4, <2>1, <2>2, QuietStep DEF MintedLabels, mailcowVars
  <2>3. CASE Become(w, k) /\ Issue(j.target, Name(j))
    <3>1. j.user \in Users /\ j.device \in Devices /\ j.target \in Targets
      BY <1>1, <2>1 DEF JobSound, EntryLabels
    <3>2. /\ k.pc = "find" /\ k.secret = nextPwd
          /\ k.user = j.user /\ k.device = j.device /\ k.target = j.target
      BY <1>1, <2>0 DEF TbJob
    <3>3. pwds' = pwds \union {e} /\ Become(w, k)
      BY <2>0, <2>3 DEF Issue
    <3>4. e.id = nextPwd /\ e.mailbox = j.target /\ e.name = Name(j)
      BY <2>0
    <3>5. tbJob'[w] = k
      BY <1>1, <3>3 DEF Become, IInv, TypeOK
    <3>6. Name(k) = Name(j)
      BY <3>2 DEF Name
    <3>7. \A p \in pwds : p.name # Name(j)
      BY <1>1, <2>1 DEF SerialJob
    <3>8. SerialJob(k)'
      BY <3>2, <3>3, <3>4, <3>6, <3>7 DEF SerialJob, Name, SweepLabels
    <3>9. ASSUME NEW p \in pwds', NEW u \in Users, NEW t \in Targets, NEW d \in Devices,
                 p.name = TbMarker(u, t, d)
          PROVE  \/ tbRows'[<<u, t, d>>] = p.id
                 \/ \E v \in Workers : /\ tbJob'[v].pc \in MintedLabels
                                       /\ tbJob'[v].user = u /\ tbJob'[v].target = t
                                       /\ tbJob'[v].device = d
      <4>1. CASE p \in pwds
        <5>1. ASSUME NEW v \in Workers, tbJob[v].pc \in MintedLabels
              PROVE  tbJob'[v] = tbJob[v]
          <6>1. v # w
            BY <1>0, <2>1, <5>1 DEF MintedLabels
          <6> QED
            BY <1>1, <3>3, <6>1 DEF Become, IInv, TypeOK
        <5> QED
          BY <2>1, <3>9, <4>1, <5>1 DEF SInv, Tracked
      <4>2. CASE p = e
        <5>1. u = j.user /\ t = j.target /\ d = j.device
          BY <3>4, <3>9, <4>2 DEF Name, TbMarker
        <5> QED
          BY <3>2, <3>5, <5>1 DEF MintedLabels
      <4> QED
        BY <3>3, <4>1, <4>2
    <3>10. Tracked'
      BY <3>9 DEF Tracked
    <3>11. Confined(w)
      BY <1>0, <2>1, <3>3, <3>4 DEF Confined
    <3> QED
      BY <2>1, <3>3, <3>8, <3>10, <3>11, HandedKept, SerialStep
  <2> QED
    BY <1>0, <1>2, <1>9, <2>0, <2>2, <2>3 DEF PostAppPasswd
<1>10. CASE FindAppPasswd(w)
  <2>1. j.pc = "find" /\ UNCHANGED <<mailcowVars, tbRows, handed>>
    BY <1>0, <1>10 DEF FindAppPasswd, At
  <2>2. \A p \in pwds : p.name = Name(j) => p.id = j.secret /\ p.mailbox = j.target
    BY <1>1, <2>1 DEF SerialJob
  <2>3. CASE Become(w, Back(j)) /\ FoundByName(j.target, Name(j)) = {}
    <3>1. \A p \in pwds' : p.name # Name(j)
      BY <2>1, <2>2, <2>3 DEF FoundByName, Matching, mailcowVars
    <3> QED
      BY <1>0, <1>4, <2>1, <2>3, <3>1, QuietStep DEF mailcowVars
  <2>4. ASSUME NEW id \in FoundByName(j.target, Name(j)),
               Become(w, [j EXCEPT !.pc = "put", !.pwd = id])
        PROVE  SInv'
    <3> DEFINE k == [j EXCEPT !.pc = "put", !.pwd = id]
    <3>1. id = j.secret
      BY <2>2 DEF FoundByName, Matching
    <3>2. /\ k.pc = "put" /\ k.pwd = id /\ k.secret = j.secret
          /\ k.user = j.user /\ k.device = j.device /\ k.target = j.target
      BY <1>1 DEF TbJob
    <3>3. Become(w, k)
      BY <2>4
    <3> HIDE DEF k
    <3>4. Name(k) = Name(j)
      BY <3>2 DEF Name
    <3>5. SerialJob(k)'
      BY <2>1, <2>2, <3>1, <3>2, <3>4 DEF SerialJob, Name, SweepLabels, mailcowVars
    <3> QED
      BY <1>0, <2>1, <3>2, <3>3, <3>5, QuietStep DEF MintedLabels, mailcowVars
  <2> QED
    BY <1>0, <1>2, <1>10, <2>3, <2>4 DEF FindAppPasswd
<1>11. CASE PutRow(w)
  <2>1. /\ j.pc = "put" /\ Become(w, Back(j)) /\ UNCHANGED mailcowVars
        /\ TbUpsert(RowKey(j), j.pwd)
        /\ handed' = [handed EXCEPT ![RowKey(j)] = j.secret]
    BY <1>0, <1>2, <1>11 DEF PutRow, At
  <2>2. j.user \in Users /\ j.device \in Devices /\ j.target \in Targets
    BY <1>1, <2>1 DEF JobSound, EntryLabels
  <2>3. RowKey(j) = <<j.user, j.target, j.device>> /\ RowKey(j) \in Key
    BY <2>2 DEF RowKey, Key
  <2>4. j.pwd = j.secret /\ \A p \in pwds : p.name = Name(j) => p.id = j.pwd
    BY <1>1, <2>1 DEF SerialJob
  <2>5. ASSUME NEW m \in Key
        PROVE  /\ m = RowKey(j) => tbRows'[m] = j.pwd /\ handed'[m] = j.pwd
               /\ m # RowKey(j) => tbRows'[m] = tbRows[m] /\ handed'[m] = handed[m]
    BY <1>1, <2>1, <2>4 DEF TbUpsert
  <2>6. RowIsHanded'
    BY <1>1, <2>5 DEF RowIsHanded, SInv
  <2>7. ASSUME NEW p \in pwds', NEW u \in Users, NEW t \in Targets, NEW d \in Devices,
               p.name = TbMarker(u, t, d)
        PROVE  \/ tbRows'[<<u, t, d>>] = p.id
               \/ \E v \in Workers : /\ tbJob'[v].pc \in MintedLabels
                                     /\ tbJob'[v].user = u /\ tbJob'[v].target = t
                                     /\ tbJob'[v].device = d
    <3>1. <<u, t, d>> \in Key /\ p \in pwds
      BY <2>1, <2>7 DEF Key, mailcowVars
    <3>2. CASE <<u, t, d>> = RowKey(j)
      <4>1. u = j.user /\ t = j.target /\ d = j.device
        BY <2>3, <3>2
      <4> QED
        BY <2>4, <2>5, <2>7, <3>1, <3>2, <4>1 DEF Name
    <3>3. CASE <<u, t, d>> # RowKey(j)
      <4>1. ASSUME NEW v \in Workers, tbJob[v].user = u, tbJob[v].target = t,
                   tbJob[v].device = d
            PROVE  tbJob'[v] = tbJob[v]
        <5>1. v # w
          BY <1>0, <2>3, <3>3, <4>1
        <5> QED
          BY <1>1, <2>1, <5>1 DEF Become, IInv, TypeOK
      <4> QED
        BY <2>5, <2>7, <3>1, <3>3, <4>1 DEF SInv, Tracked
    <3> QED
      BY <3>2, <3>3
  <2>8. Tracked'
    BY <2>7 DEF Tracked
  <2>9. Confined(w)
    BY <1>0, <2>1, <2>5 DEF Confined, mailcowVars
  <2> QED
    BY <1>4, <2>1, <2>6, <2>8, <2>9, SerialStep
<1>12. CASE Answer(w)
  BY <1>4, <1>12, QuietStep DEF Answer, End, At, MintedLabels, mailcowVars
<1> QED
  BY <1>5, <1>6, <1>7, <1>8, <1>9, <1>10, <1>11, <1>12 DEF Mint

(* _cleanup_tb_setup, undisturbed *)
LEMMA CleanupSerial ==
    ASSUME Faults = {}, InTurn, SInv, IInv', NEW w \in Workers, Cleanup(w)
    PROVE  SInv'
<1>0. PICK j : j = tbJob[w]
  OBVIOUS
<1>1. /\ IInv /\ j \in TbJob /\ JobSound(j) /\ SerialJob(j) /\ MailcowTypeOK
      /\ tbRows \in [Key -> Nat \union {None}] /\ handed \in [Key -> Nat \union {None}]
  BY <1>0 DEF SInv, IInv, TypeOK
<1>2. Faults = {}
  OBVIOUS
<1>3. IdleJob.pc = "idle" /\ SerialJob(IdleJob)'
  BY SerialFree DEF IdleJob
<1>4. CASE BeginCleanup(w)
  <2>0. PICK k, u, actionable :
           /\ k = [IdleJob EXCEPT !.pc = "read", !.user = u, !.want = actionable]
           /\ Become(w, k)
    BY <1>4 DEF BeginCleanup
  <2>1. k.pc = "read"
    BY <2>0 DEF IdleJob
  <2>2. SerialJob(k)'
    BY <2>1, SerialFree
  <2> QED
    BY <1>4, <2>0, <2>2, QuietStep DEF BeginCleanup, Received, At, MintedLabels, mailcowVars
<1>5. CASE ReadRows(w)
  <2>0. PICK k : k = [j EXCEPT !.pc = "rows", !.rows = RowsToRevoke(j)]
    OBVIOUS
  <2>1. /\ j.pc = "read" /\ Become(w, k) /\ UNCHANGED <<mailcowVars, tbRows, handed>>
    BY <1>0, <1>2, <1>5, <2>0 DEF ReadRows, At
  <2>2. k.pc = "rows" /\ k.user = j.user /\ k.want = j.want /\ k.rows = RowsToRevoke(j)
    BY <1>1, <2>0 DEF TbJob
  <2>3. j.user \in Users
    BY <1>1, <2>1 DEF JobSound
  <2>4. ASSUME NEW s \in k.rows
        PROVE  tbRows[<<k.user, s.target, s.device>>] = s.pwd
    <3>1. PICK m \in Key : s = RowOf(m) /\ m[1] = j.user
      BY <2>2 DEF RowsToRevoke
    <3>2. PICK u \in Users, t \in Targets, d \in Devices : m = <<u, t, d>>
      BY DEF Key
    <3>3. s.target = t /\ s.device = d /\ s.pwd = tbRows[<<u, t, d>>] /\ u = j.user
      BY <3>1, <3>2 DEF RowOf
    <3> QED
      BY <2>2, <3>3
  <2>5. ASSUME NEW t \in Targets \ k.want, NEW d \in Devices,
               tbRows[<<k.user, t, d>>] # None
        PROVE  \E s \in k.rows : s.target = t /\ s.device = d
    <3>1. PICK m : m = <<j.user, t, d>>
      OBVIOUS
    <3>2. m \in Key /\ m[1] = j.user /\ m[2] = t /\ m[3] = d
      BY <2>3, <3>1 DEF Key
    <3>3. RowOf(m) \in k.rows
      BY <2>2, <2>5, <3>1, <3>2 DEF RowsToRevoke
    <3>4. RowOf(m).target = t /\ RowOf(m).device = d
      BY <3>2 DEF RowOf
    <3> QED
      BY <3>3, <3>4
  <2>6. SerialJob(k)'
    BY <2>1, <2>2, <2>4, <2>5 DEF SerialJob, SweepLabels
  <2> QED
    BY <1>0, <2>1, <2>6, QuietStep DEF MintedLabels, mailcowVars
<1>6. CASE StartRevoke(w)
  <2>0. PICK s \in j.rows :
          Become(w, [j EXCEPT !.pc = "revoke", !.rows = @ \ {s}, !.target = s.target,
                              !.device = s.device, !.pwd = s.pwd])
    BY <1>0, <1>6 DEF StartRevoke
  <2>1. PICK k : k = [j EXCEPT !.pc = "revoke", !.rows = @ \ {s}, !.target = s.target,
                               !.device = s.device, !.pwd = s.pwd]
    OBVIOUS
  <2>2. j.pc = "rows" /\ Become(w, k) /\ UNCHANGED <<mailcowVars, tbRows, handed>>
    BY <1>0, <1>6, <2>0, <2>1 DEF StartRevoke, At
  <2>3. /\ k.pc = "revoke" /\ k.user = j.user /\ k.want = j.want /\ k.rows = j.rows \ {s}
        /\ k.target = s.target /\ k.device = s.device /\ k.pwd = s.pwd
    BY <1>1, <2>1 DEF TbJob
  <2>4. /\ \A r \in j.rows : tbRows[<<j.user, r.target, r.device>>] = r.pwd
        /\ \A t \in Targets \ j.want, d \in Devices :
              tbRows[<<j.user, t, d>>] # None => \E r \in j.rows : r.target = t /\ r.device = d
    BY <1>1, <2>2 DEF SerialJob, SweepLabels
  <2>5. ASSUME NEW r \in k.rows, r.target = k.target, r.device = k.device
        PROVE  FALSE
    <3>1. r \in Snapshot /\ s \in Snapshot /\ r # s
      BY <1>1, <2>0, <2>3 DEF TbJob
    <3>2. r.target = s.target /\ r.device = s.device /\ r \in j.rows
      BY <2>3, <2>5
    <3>3. /\ tbRows[<<j.user, r.target, r.device>>] = r.pwd
          /\ tbRows[<<j.user, s.target, s.device>>] = s.pwd
      BY <2>4, <3>2
    <3>4. r.pwd = s.pwd
      BY <3>2, <3>3
    <3> QED
      BY <3>1, <3>2, <3>4 DEF Snapshot
  <2>6. ASSUME NEW t \in Targets \ k.want, NEW d \in Devices, tbRows[<<k.user, t, d>>] # None
        PROVE  \/ \E r \in k.rows : r.target = t /\ r.device = d
               \/ t = k.target /\ d = k.device
    BY <2>3, <2>4, <2>6
  <2>7. tbRows[RowKey(k)] = k.pwd /\ RowKey(k)' = RowKey(k)
    BY <2>0, <2>3, <2>4 DEF RowKey
  <2>8. SerialJob(k)'
    BY <2>2, <2>3, <2>4, <2>5, <2>6, <2>7 DEF SerialJob, SweepLabels
  <2> QED
    BY <1>0, <2>2, <2>8, QuietStep DEF MintedLabels, mailcowVars
<1>7. CASE DeleteAppPasswd(w)
  <2>0. PICK k : k = [j EXCEPT !.pc = "forget"]
    OBVIOUS
  <2>1. /\ j.pc = "revoke" /\ Revoke(j.pwd) /\ Become(w, k) /\ UNCHANGED <<tbRows, handed>>
    BY <1>0, <1>2, <1>7, <2>0 DEF DeleteAppPasswd, At
  <2>2. /\ k.pc = "forget" /\ k.user = j.user /\ k.want = j.want /\ k.rows = j.rows
        /\ k.target = j.target /\ k.device = j.device
    BY <1>1, <2>0 DEF TbJob
  <2>3. j.user \in Users /\ j.device \in Devices /\ j.target \in Targets
    BY <1>1, <2>1 DEF JobSound, EntryLabels, MintLabels
  <2>4. ASSUME NEW p \in pwds', p.name = TbMarker(j.user, j.target, j.device)
        PROVE  FALSE
    <3>1. p \in pwds /\ p.id # j.pwd
      BY <2>1, <2>4 DEF Revoke
    <3>2. tbRows[<<j.user, j.target, j.device>>] = p.id
      BY <1>0, <2>1, <2>3, <2>4, <3>1, HasRow DEF MintedLabels, Cleaning
    <3>3. tbRows[<<j.user, j.target, j.device>>] = j.pwd
      BY <1>1, <2>1 DEF SerialJob, RowKey
    <3> QED
      BY <3>1, <3>2, <3>3
  <2>5. SerialJob(k)'
    BY <1>1, <2>1, <2>2, <2>4 DEF SerialJob, SweepLabels, Name
  <2> QED
    BY <1>0, <2>1, <2>5, QuietStep DEF MintedLabels, Revoke
<1>8. CASE ForgetRow(w)
  <2>0. PICK k : k = Back(j)
    OBVIOUS
  <2>1. /\ j.pc = "forget" /\ Become(w, k) /\ TbDelete(RowKey(j))
        /\ UNCHANGED <<mailcowVars, handed>>
    BY <1>0, <1>2, <1>8, <2>0 DEF ForgetRow, At
  <2>2. k.pc = "rows" /\ k.user = j.user /\ k.want = j.want /\ k.rows = j.rows
    BY <1>1, <2>0, <2>1 DEF TbJob, Back
  <2>3. j.user \in Users /\ j.device \in Devices /\ j.target \in Targets
    BY <1>1, <2>1 DEF JobSound, EntryLabels, MintLabels
  <2>4. RowKey(j) = <<j.user, j.target, j.device>> /\ RowKey(j) \in Key
    BY <2>3 DEF RowKey, Key
  <2>5. ASSUME NEW m \in Key
        PROVE  /\ m = RowKey(j) => tbRows'[m] = None
               /\ m # RowKey(j) => tbRows'[m] = tbRows[m]
    BY <1>1, <2>1 DEF TbDelete
  <2>6. RowIsHanded'
    BY <2>1, <2>5 DEF RowIsHanded, SInv
  <2>7. ASSUME NEW p \in pwds', NEW u \in Users, NEW t \in Targets, NEW d \in Devices,
               p.name = TbMarker(u, t, d)
        PROVE  \/ tbRows'[<<u, t, d>>] = p.id
               \/ \E v \in Workers : /\ tbJob'[v].pc \in MintedLabels
                                     /\ tbJob'[v].user = u /\ tbJob'[v].target = t
                                     /\ tbJob'[v].device = d
    <3>1. <<u, t, d>> \in Key /\ p \in pwds
      BY <2>1, <2>7 DEF Key, mailcowVars
    <3>2. ASSUME NEW v \in Workers, tbJob[v].pc \in MintedLabels
          PROVE  tbJob'[v] = tbJob[v]
      <4>1. v # w
        BY <1>0, <2>1, <3>2 DEF MintedLabels
      <4> QED
        BY <1>1, <2>1, <4>1 DEF Become, IInv, TypeOK
    <3>3. <<u, t, d>> # RowKey(j)
      <4> SUFFICES ASSUME <<u, t, d>> = RowKey(j) PROVE FALSE
        OBVIOUS
      <4>1. p.name = Name(j)
        BY <2>4, <2>7 DEF Name
      <4> QED
        BY <1>1, <2>1, <3>1, <4>1 DEF SerialJob
    <3> QED
      BY <2>5, <2>7, <3>1, <3>2, <3>3 DEF SInv, Tracked
  <2>8. Tracked'
    BY <2>7 DEF Tracked
  <2>9. /\ \A s \in j.rows : tbRows[<<j.user, s.target, s.device>>] = s.pwd
        /\ \A s \in j.rows : ~(s.target = j.target /\ s.device = j.device)
        /\ \A t \in Targets \ j.want, d \in Devices :
              tbRows[<<j.user, t, d>>] # None =>
                 \/ \E s \in j.rows : s.target = t /\ s.device = d
                 \/ t = j.target /\ d = j.device
    BY <1>1, <2>1 DEF SerialJob, SweepLabels
  <2>10. ASSUME NEW s \in k.rows
         PROVE  tbRows'[<<k.user, s.target, s.device>>] = s.pwd
    <3>1. s \in Snapshot /\ s \in j.rows
      BY <1>1, <2>2 DEF TbJob
    <3>2. <<j.user, s.target, s.device>> \in Key
      BY <2>3, <3>1 DEF Key, Snapshot
    <3>3. <<j.user, s.target, s.device>> # RowKey(j)
      BY <2>4, <2>9, <3>1
    <3> QED
      BY <2>2, <2>5, <2>9, <3>1, <3>2, <3>3
  <2>11. ASSUME NEW t \in Targets \ k.want, NEW d \in Devices,
                tbRows'[<<k.user, t, d>>] # None
         PROVE  \E s \in k.rows : s.target = t /\ s.device = d
    <3>1. <<j.user, t, d>> \in Key
      BY <2>3 DEF Key
    <3>2. <<j.user, t, d>> # RowKey(j) /\ tbRows[<<j.user, t, d>>] # None
      BY <2>2, <2>5, <2>11, <3>1
    <3>3. ~(t = j.target /\ d = j.device)
      BY <2>4, <3>2
    <3> QED
      BY <2>2, <2>9, <3>2, <3>3
  <2>12. SerialJob(k)'
    BY <2>2, <2>10, <2>11 DEF SerialJob, SweepLabels
  <2>13. Confined(w)
    BY <1>0, <2>1, <2>5 DEF Confined, mailcowVars
  <2> QED
    BY <2>1, <2>6, <2>8, <2>12, <2>13, SerialStep
<1>9. CASE EndCleanup(w)
  BY <1>3, <1>9, QuietStep DEF EndCleanup, End, At, MintedLabels, mailcowVars
<1> QED
  BY <1>4, <1>5, <1>6, <1>7, <1>8, <1>9 DEF Cleanup

LEMMA SerialKeeps ==
    ASSUME Faults = {}, InTurn, SInv, [Next]_vars
    PROVE  SInv'
<1>1. IInv' /\ IInv
  BY Inductive DEF SInv
<1>2. ASSUME NEW w \in Workers
      PROVE  ~Crash(w)
  BY DEF Crash
<1>3. CASE \E w \in Workers : Mint(w) \/ Cleanup(w)
  BY <1>1, <1>3, MintSerial, CleanupSerial
<1>4. ASSUME \A p \in pwds' : \A u, t, d : p.name = TbMarker(u, t, d) => p \in pwds,
             UNCHANGED <<tbRows, handed, tbJob>>
      PROVE  SInv'
  <2>1. Tracked' /\ RowIsHanded'
    BY <1>4 DEF SInv, Tracked, RowIsHanded
  <2>2. ASSUME NEW w \in Workers
        PROVE  SerialJob(tbJob[w])'
    <3>1. PICK j : j = tbJob[w] /\ j = tbJob'[w]
      BY <1>4
    <3>2. SerialJob(j)
      BY <3>1 DEF SInv
    <3>3. SerialJob(j)'
      BY <1>4, <3>2 DEF SerialJob, Name, RowKey
    <3> QED
      BY <3>1, <3>3
  <2> QED
    BY <1>1, <2>1, <2>2 DEF SInv
<1>5. CASE MailboxDropped
  BY <1>4, <1>5 DEF MailboxDropped, DropMailbox
<1>6. CASE UNCHANGED vars
  BY <1>4, <1>6 DEF vars, mailcowVars
<1>7. CASE Others
  <2>1. CASE OthersAdd
    <3>0. PICK m \in Targets :
              \E name \in {Marker(u, m) : u \in Users} \union {ForeignName} : Issue(m, name)
      BY <2>1 DEF OthersAdd
    <3>1. PICK name \in {Marker(u, m) : u \in Users} \union {ForeignName} : Issue(m, name)
      BY <3>0
    <3>2. \A u, t, d : name # TbMarker(u, t, d)
      BY DEF Marker, TbMarker, ForeignName
    <3>3. \A p \in pwds' : p \in pwds \/ p.name = name
      BY <3>1 DEF Issue
    <3> QED
      BY <1>4, <2>1, <3>2, <3>3 DEF OthersAdd
  <2>2. CASE OthersDelete
    BY <1>4, <2>2 DEF OthersDelete, Revoke
  <2> QED
    BY <1>7, <2>1, <2>2 DEF Others
<1> QED
  BY <1>2, <1>3, <1>5, <1>6, <1>7 DEF Next, Rest

LEMMA SerialInitially ==
    ASSUME Init
    PROVE  SInv
<1>1. IInv
  BY Initially
<1>2. Tracked /\ RowIsHanded
  BY DEF Init, MailcowInit, Tracked, RowIsHanded
<1>3. ASSUME NEW w \in Workers
      PROVE  SerialJob(tbJob[w])
  BY DEF Init, IdleJob, SerialJob, SweepLabels
<1> QED
  BY <1>1, <1>2, <1>3 DEF SInv

(* "No sprawl": a mint replaces the credential it issued before.  Without     *)
(* failures, and with requests for one device in turn, no live tb-setup entry *)
(* is left without its row, for any number of workers, users, targets and     *)
(* devices and whatever becomes of the mailboxes meanwhile.                   *)
THEOREM TbDoesNotSprawl ==
    ASSUME Faults = {}
    PROVE  Spec /\ []InTurn => []NoSprawl
<1>1. Init => SInv
  BY SerialInitially
<1>2. InTurn /\ SInv /\ [Next]_vars => SInv'
  BY SerialKeeps
<1>3. SInv => NoSprawl
  BY DEF SInv, Tracked, NoSprawl, Quiet, At, MintedLabels
<1> QED
  BY <1>1, <1>2, <1>3, PTL DEF Spec

(* Under the same circumstances the row of a device is for the credential it  *)
(* was given last: a later sweep revokes what the device logs in with.        *)
THEOREM TbRowsAreHanded ==
    ASSUME Faults = {}
    PROVE  Spec /\ []InTurn => []RowIsHanded
<1>1. Init => SInv
  BY SerialInitially
<1>2. InTurn /\ SInv /\ [Next]_vars => SInv'
  BY SerialKeeps
<1>3. SInv => RowIsHanded
  BY DEF SInv
<1> QED
  BY <1>1, <1>2, <1>3, PTL DEF Spec

(* "... within one sweep": when a cleanup is through, no tb-setup credential  *)
(* of that user is alive for a target that the sweep did not find actionable. *)
THEOREM TbSweepRevokes ==
    ASSUME Faults = {}
    PROVE  Spec /\ []InTurn => SweepRevokes
<1>1. Init => SInv
  BY SerialInitially
<1>2. InTurn /\ SInv /\ [Next]_vars => SInv'
  BY SerialKeeps
<1>3. ASSUME InTurn, SInv, [Next]_vars, NEW w \in Workers, At(w, "rows"), tbJob'[w] = IdleJob,
             NEW p \in pwds, NEW t \in Targets \ tbJob[w].want, NEW d \in Devices
      PROVE  p.name # TbMarker(tbJob[w].user, t, d)
  <2>0. PICK j : j = tbJob[w]
    OBVIOUS
  <2>1. IInv /\ j \in TbJob /\ JobSound(j) /\ SerialJob(j) /\ j.pc = "rows" /\ MailcowTypeOK
    BY <1>3, <2>0 DEF SInv, IInv, TypeOK, At
  <2>2. tbJob'[w] # tbJob[w]
    BY <1>3, <2>0, <2>1 DEF IdleJob
  <2>3. EndCleanup(w)
    <3>1. ~Mint(w)
      BY <2>0, <2>1 DEF Mint, ReceiveMint, ListMailboxes, ReadPrior, DropPrior,
              PostAppPasswd, FindAppPasswd, PutRow, Answer, At
    <3>2. \/ StartRevoke(w) \/ EndCleanup(w)
      BY <1>3, <2>0, <2>1, <2>2, <3>1, WhoMoved
         DEF Cleanup, BeginCleanup, ReadRows, DeleteAppPasswd, ForgetRow, Crash,
             At
    <3>3. ~StartRevoke(w)
      <4> SUFFICES ASSUME StartRevoke(w) PROVE FALSE
        OBVIOUS
      <4>1. PICK s \in j.rows :
              Become(w, [j EXCEPT !.pc = "revoke", !.rows = @ \ {s}, !.target = s.target,
                                  !.device = s.device, !.pwd = s.pwd])
        BY <2>0 DEF StartRevoke
      <4>2. [j EXCEPT !.pc = "revoke", !.rows = @ \ {s}, !.target = s.target,
                      !.device = s.device, !.pwd = s.pwd].pc = "revoke"
        BY <2>1 DEF TbJob
      <4>3. tbJob'[w].pc = "revoke"
        BY <2>1, <4>1, <4>2 DEF Become, IInv, TypeOK
      <4> QED
        BY <1>3, <4>3 DEF IdleJob
    <3> QED
      BY <3>2, <3>3
  <2>4. j.rows = {} /\ j.user \in Users
    BY <2>0, <2>1, <2>3 DEF EndCleanup, JobSound
  <2>5. tbRows[<<j.user, t, d>>] = None
    BY <1>3, <2>0, <2>1, <2>4 DEF SerialJob, SweepLabels
  <2> SUFFICES ASSUME p.name = TbMarker(j.user, t, d) PROVE FALSE
    BY <2>0
  <2>6. tbRows[<<j.user, t, d>>] = p.id
    BY <1>3, <2>0, <2>1, <2>4, HasRow DEF MintedLabels, Cleaning
  <2>7. p.id \in Nat
    BY <2>1 DEF MailcowTypeOK, AppPassword
  <2> QED
    BY <2>5, <2>6, <2>7, NoneAssumption
<1>4. InTurn /\ SInv /\ [Next]_vars =>
        [\A w \in Workers :
            At(w, "rows") /\ tbJob'[w] = IdleJob =>
               \A p \in pwds, t \in Targets \ tbJob[w].want, d \in Devices :
                  p.name # TbMarker(tbJob[w].user, t, d)]_vars
  BY <1>3
<1> QED
  BY <1>1, <1>2, <1>4, PTL DEF Spec, SweepRevokes

=============================================================================
