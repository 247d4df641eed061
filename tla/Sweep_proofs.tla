--------------------------- MODULE Sweep_proofs ---------------------------
(***************************************************************************)
(* Theorems about Sweep, for every finite set of users, every size of the  *)
(* pages, every number of sweeps at a time, and every failure and event.   *)
(***************************************************************************)
EXTENDS Sweep, SequenceTheorems, FiniteSetTheorems, TLAPS

---------------------------------------------------------------------------
(* Authentik's list and its pages *)
LEMMA RangeMembers ==
    ASSUME NEW S, NEW s \in Seq(S)
    PROVE  /\ Range(s) \subseteq S
           /\ \A x : x \in Range(s) <=> \E i \in 1..Len(s) : s[i] = x
<1>1. DOMAIN s = 1..Len(s) /\ \A i \in 1..Len(s) : s[i] \in S
  BY LenProperties, ElementOfSeq
<1> QED
  BY <1>1 DEF Range

(* Someone joins: who was at a place is there still, or further behind. *)
StillAhead(s, t) == \A n \in 1..Len(s) : \E m \in 1..Len(t) : n <= m /\ t[m] = s[n]

LEMMA Joining ==
    ASSUME NEW S, NEW s \in Seq(S), NEW i, i \in 1..Len(s) + 1, NEW e \in S,
           NEW t, t = InsertAt(s, i, e)
    PROVE  t \in Seq(S) /\ StillAhead(s, t)
<1>0. Len(s) \in Nat /\ \A n \in 1..Len(s) : s[n] \in S
  BY LenProperties, ElementOfSeq
<1> DEFINE a == SubSeq(s, 1, i - 1)
           b == SubSeq(s, i, Len(s))
<1>1. /\ a \in Seq(S) /\ Len(a) = i - 1
      /\ \A n \in 1..i - 1 : a[n] = s[n]
  <2>1. \A n \in 1..i - 1 : s[n] \in S
    BY <1>0
  <2>2. /\ a \in Seq(S)
        /\ Len(a) = (IF 1 <= i - 1 THEN i - 1 - 1 + 1 ELSE 0)
        /\ \A n \in 1..i - 1 - 1 + 1 : a[n] = s[1 + n - 1]
    BY <1>0, <2>1, SubSeqProperties
  <2> QED
    BY <1>0, <2>2
<1>2. /\ b \in Seq(S) /\ Len(b) = Len(s) - i + 1
      /\ \A n \in 1..Len(s) - i + 1 : b[n] = s[i + n - 1]
  <2>1. \A n \in i..Len(s) : s[n] \in S
    BY <1>0
  <2>2. /\ b \in Seq(S)
        /\ Len(b) = (IF i <= Len(s) THEN Len(s) - i + 1 ELSE 0)
        /\ \A n \in 1..Len(s) - i + 1 : b[n] = s[i + n - 1]
    BY <1>0, <2>1, SubSeqProperties
  <2> QED
    BY <1>0, <2>2
<1>3. t = a \o <<e>> \o b
  BY DEF InsertAt
<1> HIDE DEF a, b
<1>4. <<e>> \in Seq(S) /\ Len(<<e>>) = 1
  OBVIOUS
<1> DEFINE c == a \o <<e>>
<1>5. /\ c \in Seq(S) /\ Len(c) = i
      /\ \A n \in 1..i - 1 : c[n] = s[n]
  BY <1>0, <1>1, <1>4, ConcatProperties
<1>6. t = c \o b
  BY <1>3
<1> HIDE DEF c
<1>7. /\ t \in Seq(S) /\ Len(t) = Len(s) + 1
      /\ \A n \in 1..Len(s) + 1 : t[n] = IF n <= i THEN c[n] ELSE b[n - i]
  <2>1. /\ c \o b \in Seq(S) /\ Len(c \o b) = Len(c) + Len(b)
        /\ \A n \in 1..Len(c) + Len(b) : (c \o b)[n] = IF n <= Len(c) THEN c[n] ELSE b[n - Len(c)]
    BY <1>2, <1>5, ConcatProperties
  <2> QED
    BY <1>0, <1>2, <1>5, <1>6, <2>1
<1>8. ASSUME NEW n \in 1..Len(s)
      PROVE  \E m \in 1..Len(t) : n <= m /\ t[m] = s[n]
  <2>1. CASE n < i
    BY <1>0, <1>5, <1>7, <2>1
  <2>2. CASE n >= i
    <3>1. n + 1 \in 1..Len(t) /\ n <= n + 1 /\ n + 1 - i \in 1..Len(s) - i + 1
      BY <1>0, <1>7, <2>2
    <3>2. t[n + 1] = b[n + 1 - i]
      BY <1>0, <1>7, <2>2, <3>1
    <3>3. b[n + 1 - i] = s[i + (n + 1 - i) - 1] /\ i + (n + 1 - i) - 1 = n
      BY <1>0, <1>2, <3>1
    <3> QED
      BY <3>1, <3>2, <3>3
  <2> QED
    BY <1>0, <2>1, <2>2
<1> QED
  BY <1>7, <1>8 DEF StillAhead

LEMMA Leaving ==
    ASSUME NEW S, NEW s \in Seq(S), NEW i \in 1..Len(s)
    PROVE  RemoveAt(s, i) \in Seq(S)
<1>0. Len(s) \in Nat /\ \A n \in 1..Len(s) : s[n] \in S
  BY LenProperties, ElementOfSeq
<1>1. \A n \in 1..i - 1 : s[n] \in S
  BY <1>0
<1>2. \A n \in i + 1..Len(s) : s[n] \in S
  BY <1>0
<1>3. SubSeq(s, 1, i - 1) \in Seq(S) /\ SubSeq(s, i + 1, Len(s)) \in Seq(S)
  BY <1>0, <1>1, <1>2, SubSeqProperties
<1> QED
  BY <1>3, ConcatProperties DEF RemoveAt

LEMMA FirstDirectory == Init => directory \in Seq(Users)
<1> SUFFICES ASSUME Init PROVE directory \in Seq(Users)
  OBVIOUS
<1>1. PICK some \in SUBSET Users : directory \in [1..Cardinality(some) -> some]
  BY DEF Init, SetToAllKPermutations, SetToSeqs
<1>2. Cardinality(some) \in Nat
  BY SweepAssumption, FS_Subset, FS_CardinalityType
<1>3. directory \in [1..Cardinality(some) -> Users]
  BY <1>1
<1> QED
  BY <1>2, <1>3

(* The page that begins where the last one ended *)
LEMMA PageBounds ==
    ASSUME NEW page \in Nat \ {0}
    PROVE  /\ FirstOf(page) \in Nat \ {0}
           /\ page * PageSize \in Nat
           /\ FirstOf(page) <= page * PageSize
           /\ FirstOf(page + 1) = page * PageSize + 1
           /\ FirstOf(1) = 1
<1>1. PageSize \in Nat \ {0}
  BY SweepAssumption
<1>2. page * PageSize = (page - 1) * PageSize + PageSize
  BY <1>1
<1>3. (page - 1) * PageSize \in Nat
  BY <1>1
<1>4. page + 1 - 1 = page /\ 1 - 1 = 0 /\ 0 * PageSize = 0
  BY <1>1
<1> QED
  BY <1>1, <1>2, <1>3, <1>4 DEF FirstOf

LEMMA Smaller ==
    ASSUME NEW a \in Nat, NEW b \in Nat, NEW m, m = Min({a, b})
    PROVE  m \in Nat /\ m <= a /\ m <= b /\ (m = a \/ m = b)
<1>1. \E x \in {a, b} : \A y \in {a, b} : x =< y
  BY Z3
<1>2. m \in {a, b} /\ \A y \in {a, b} : m =< y
  BY <1>1 DEF Min
<1> QED
  BY <1>2

(* The payloads of a page are those of the users at its places. *)
OnPage(i, page) == FirstOf(page) <= i /\ i <= page * PageSize

LEMMA PayloadTyped ==
    ASSUME claims \in [Users -> SUBSET Targets], NEW u \in Users
    PROVE  PayloadOf(u) \in Payload /\ PayloadOf(u).user = u
BY SweepAssumption DEF PayloadOf, Payload

LEMMA PageRead ==
    ASSUME directory \in Seq(Users), claims \in [Users -> SUBSET Targets],
           NEW page \in Nat \ {0}, NEW ps, ps = PayloadsOn(page)
    PROVE  /\ ps \in Seq(Payload)
           /\ \A p \in Range(ps) :
                 \E i \in 1..Len(directory) : OnPage(i, page) /\ p = PayloadOf(directory[i])
           /\ \A i \in 1..Len(directory) :
                 OnPage(i, page) => PayloadOf(directory[i]) \in Range(ps)
<1>0. Len(directory) \in Nat /\ \A n \in 1..Len(directory) : directory[n] \in Users
  BY LenProperties, ElementOfSeq
<1>1. PICK f, last, m : f = FirstOf(page) /\ last = page * PageSize
                        /\ m = Min({page * PageSize, Len(directory)})
  OBVIOUS
<1>2. f \in Nat \ {0} /\ last \in Nat
  BY <1>1, PageBounds
<1>3. m \in Nat /\ m <= last /\ m <= Len(directory) /\ (m = last \/ m = Len(directory))
  BY <1>0, <1>1, <1>2, Smaller
<1>4. PICK us : us = SubSeq(directory, f, m)
  OBVIOUS
<1>5. us = UsersOn(page)
  BY <1>1, <1>4 DEF UsersOn
<1>6. /\ us \in Seq(Users) /\ Len(us) = (IF f <= m THEN m - f + 1 ELSE 0)
      /\ \A i \in 1..m - f + 1 : us[i] = directory[f + i - 1]
  <2>1. \A i \in f..m : directory[i] \in Users
    BY <1>0, <1>2, <1>3
  <2> QED
    BY <1>2, <1>3, <1>4, <2>1, SubSeqProperties
<1>7. DOMAIN us = 1..Len(us) /\ Len(us) \in Nat /\ \A i \in 1..Len(us) : us[i] \in Users
  BY <1>6, LenProperties, ElementOfSeq
<1>8. ps = [i \in 1..Len(us) |-> PayloadOf(us[i])]
  BY <1>5, <1>7 DEF PayloadsOn
<1>9. ps \in [1..Len(us) -> Payload]
  BY <1>7, <1>8, PayloadTyped
<1>10. ps \in Seq(Payload)
  BY <1>7, <1>9
<1>11. ASSUME NEW p \in Range(ps)
       PROVE  \E i \in 1..Len(directory) : OnPage(i, page) /\ p = PayloadOf(directory[i])
  <2>1. PICK n \in 1..Len(us) : p = PayloadOf(us[n])
    BY <1>8, <1>11 DEF Range
  <2>2. f <= m /\ n \in 1..m - f + 1
    BY <1>2, <1>3, <1>6, <2>1
  <2>3. us[n] = directory[f + n - 1]
    BY <1>6, <2>2
  <2>4. f + n - 1 \in 1..Len(directory) /\ f <= f + n - 1 /\ f + n - 1 <= last
    BY <1>0, <1>2, <1>3, <2>2
  <2> QED
    BY <1>1, <2>1, <2>3, <2>4 DEF OnPage
<1>12. ASSUME NEW i \in 1..Len(directory), OnPage(i, page)
       PROVE  PayloadOf(directory[i]) \in Range(ps)
  <2>1. f <= i /\ i <= last
    BY <1>1, <1>12 DEF OnPage
  <2>2. f <= m /\ i - f + 1 \in 1..m - f + 1 /\ i - f + 1 \in 1..Len(us)
    BY <1>0, <1>2, <1>3, <1>6, <2>1
  <2>3. us[i - f + 1] = directory[f + (i - f + 1) - 1] /\ f + (i - f + 1) - 1 = i
    BY <1>0, <1>2, <1>6, <2>2
  <2> QED
    BY <1>8, <2>2, <2>3 DEF Range
<1> QED
  BY <1>10, <1>11, <1>12

---------------------------------------------------------------------------
(* Types *)
SweepState == [pc       : {"idle", "fetch", "known", "users", "gc"},
               page     : Nat \ {0},
               payloads : Seq(Payload),
               orphans  : SUBSET Users]

TypeInv == TypeOK /\ sweep \in [Workers -> SweepState]

LEMMA NextSweep ==
    ASSUME sweep \in [Workers -> SweepState], NEW w \in Workers, NEW s \in SweepState,
           Become(w, s)
    PROVE  /\ sweep' \in [Workers -> SweepState]
           /\ sweep'[w] = s
           /\ \A x \in Workers : x # w => sweep'[x] = sweep[x]
BY DEF Become

LEMMA IdleState == Idle \in SweepState
BY EmptySeq DEF Idle, SweepState

LEMMA MembersTyped == TypeInv => Members \subseteq Users
BY RangeMembers DEF TypeInv, TypeOK, Members

LEMMA ReconcileTyped ==
    ASSUME TypeInv, NEW u \in Users, NEW want \in SUBSET Targets, NEW p \in Processes,
           NEW self, Reconcile(u, want, p, self)
    PROVE  /\ held' \in [Users -> SUBSET Targets]
           /\ minted' \in [Users -> SUBSET Targets]
           /\ known' \subseteq Users
           /\ cached' \in [Processes -> [fresh : BOOLEAN, users : SUBSET Users]]
           /\ since' \in [Workers -> Since]
           /\ happened' \in Nat
<1>1. /\ held \in [Users -> SUBSET Targets] /\ minted \in [Users -> SUBSET Targets]
      /\ known \subseteq Users /\ happened \in Nat /\ ncUsers \subseteq Users
      /\ cached \in [Processes -> [fresh : BOOLEAN, users : SUBSET Users]]
      /\ since \in [Workers -> Since]
  BY DEF TypeInv, TypeOK
<1>2. ASSUME NEW others, Disturbed(others)
      PROVE  since' \in [Workers -> Since]
  BY <1>1, <1>2 DEF Disturbed, Since
<1>3. /\ Cleaned(u, want) \subseteq Targets
      /\ \A list : Settled(u, want, list) \subseteq Targets
  BY <1>1 DEF Settled, Cleaned
<1>4. ASSUME NEW list, Reconciled(u, want, list)
      PROVE  /\ held' \in [Users -> SUBSET Targets] /\ minted' \in [Users -> SUBSET Targets]
             /\ known' \subseteq Users
  BY <1>1, <1>3, <1>4 DEF Reconciled
<1>5. ASSUME NEW list, Failed(u, want, list)
      PROVE  /\ held' \in [Users -> SUBSET Targets] /\ minted' \in [Users -> SUBSET Targets]
             /\ known' \subseteq Users
  <2>1. PICK some \in SUBSET (held[u] \union Settled(u, want, list)) :
           held' = [held EXCEPT ![u] = some]
    BY <1>5 DEF Failed
  <2>2. PICK left \in SUBSET minted[u] : minted' = [minted EXCEPT ![u] = left]
    BY <1>5 DEF Failed
  <2>3. known' \subseteq Users
    BY <1>1, <1>5 DEF Failed
  <2> QED
    BY <1>1, <1>3, <2>1, <2>2, <2>3
<1>6. AsksList(u, want, p) => cached' \in [Processes -> [fresh : BOOLEAN, users : SUBSET Users]]
  BY <1>1 DEF AsksList, Listing, Fresh
<1>7. ASSUME NEW list, ListFails(u, want, p, list)
      PROVE  cached' \in [Processes -> [fresh : BOOLEAN, users : SUBSET Users]]
  <2>1. cached' = cached \/ cached' = [cached EXCEPT ![p] = Fresh({})]
    BY <1>7 DEF ListFails
  <2>2. PICK none : none = Fresh({})
    OBVIOUS
  <2>3. none \in [fresh : BOOLEAN, users : SUBSET Users]
    BY <2>2 DEF Fresh
  <2> QED
    BY <1>1, <2>1, <2>2, <2>3
<1>8. Counted => happened' \in Nat
  BY <1>1 DEF Counted
<1>9. CASE /\ Reconciled(u, want, Listing(p)) /\ AsksList(u, want, p)
           /\ Disturbed(Workers \ self) /\ UNCHANGED happened
  BY <1>1, <1>2, <1>4, <1>6, <1>9
<1>10. CASE /\ \E list \in {{}, ncUsers} :
                  Reconciled(u, want, list) /\ ListFails(u, want, p, list)
            /\ Disturbed(Workers) /\ Counted
  BY <1>2, <1>4, <1>7, <1>8, <1>10
<1>11. CASE FailsOnTheWay(u, want, p) /\ Disturbed(Workers) /\ Counted
  <2>1. cached' \in [Processes -> [fresh : BOOLEAN, users : SUBSET Users]]
    BY <1>1, <1>6, <1>7, <1>11 DEF FailsOnTheWay
  <2>2. \E list : Failed(u, want, list)
    BY <1>11 DEF FailsOnTheWay
  <2> QED
    BY <1>2, <1>5, <1>8, <1>11, <2>1, <2>2
<1> QED
  BY <1>9, <1>10, <1>11 DEF Reconcile

---------------------------------------------------------------------------
(* What each step makes of the sweep it is a step of: s before, k after *)
Took(w, k) == /\ k \in SweepState
              /\ sweep' \in [Workers -> SweepState]
              /\ \A x \in Workers : x # w => sweep'[x] = sweep[x]

LEMMA Takes ==
    ASSUME TypeInv, NEW w \in Workers, NEW k, k = sweep'[w], NEW e \in SweepState,
           Become(w, e)
    PROVE  Took(w, k) /\ k = e
BY NextSweep DEF TypeInv, Took

Reads(s, k) ==
    /\ s.pc = "fetch"
    /\ s.page = 1 \/ FirstOf(s.page) <= Len(directory)
    /\ k.payloads = s.payloads \o PayloadsOn(s.page)
    /\ \/ k.pc = "known" /\ Len(directory) <= s.page * PageSize
       \/ k.pc = "fetch" /\ k.page = s.page + 1

Collects(s, k, w) ==
    \E u \in s.orphans :
       k.orphans = s.orphans \ {u} /\ Reconcile(u, {Own[u]}, ProcessOf[w], {w})

(* The ghost of a sweep that begins *)
Begun(w) == [stayed |-> Members, left |-> FALSE, calm |-> TRUE,
             unlisted |-> ncUsers \ Listing(ProcessOf[w])]

Quietly == UNCHANGED <<authentikVars, serviceVars, since>>

Shape(w, s, k) ==
    /\ StartSweep(w) =>
          /\ Took(w, k) /\ k.pc = "fetch" /\ k.page = 1 /\ k.payloads = <<>>
          /\ since' = [since EXCEPT ![w] = Begun(w)]
          /\ UNCHANGED <<authentikVars, serviceVars>>
    /\ FetchPage(w) => Took(w, k) /\ Reads(s, k) /\ Quietly
    /\ FetchFails(w) \/ EndSweep(w) \/ CrashSweep(w) =>
          Took(w, k) /\ k = Idle /\ Quietly
    /\ ReadKnown(w) =>
          /\ Took(w, k) /\ s.pc = "known" /\ k.pc = "users"
          /\ k.payloads = s.payloads /\ k.orphans = known \ Fetched(w)
          /\ Quietly
    /\ SweepUser(w) =>
          /\ Took(w, k) /\ s.pc = "users" /\ k.pc = "users"
          /\ s.payloads # <<>> /\ k.payloads = Tail(s.payloads)
          /\ k.orphans = s.orphans /\ UNCHANGED authentikVars
          /\ Reconcile(Head(s.payloads).user, Head(s.payloads).want, ProcessOf[w], {w})
    /\ EndUsers(w) =>
          /\ Took(w, k) /\ s.pc = "users" /\ k.pc = "gc" /\ s.payloads = <<>>
          /\ k.payloads = s.payloads /\ k.orphans = s.orphans /\ Quietly
    /\ Collect(w) =>
          /\ Took(w, k) /\ s.pc = "gc" /\ k.pc = "gc" /\ k.payloads = s.payloads
          /\ Collects(s, k, w) /\ UNCHANGED authentikVars

LEMMA SweepShape ==
    ASSUME TypeInv, NEW w \in Workers, NEW s, NEW k, s = sweep[w], k = sweep'[w]
    PROVE  Shape(w, s, k)
<1>1. s \in SweepState /\ directory \in Seq(Users) /\ claims \in [Users -> SUBSET Targets]
      /\ known \subseteq Users
  BY DEF TypeInv, TypeOK
<1>2. ASSUME StartSweep(w)
      PROVE  /\ Took(w, k) /\ k.pc = "fetch" /\ k.page = 1 /\ k.payloads = <<>>
             /\ since' = [since EXCEPT ![w] = Begun(w)]
             /\ UNCHANGED <<authentikVars, serviceVars>>
  <2>1. PICK e : e = [Idle EXCEPT !.pc = "fetch"]
    OBVIOUS
  <2>2. e \in SweepState /\ e.pc = "fetch" /\ e.page = 1 /\ e.payloads = <<>>
    <3>1. PICK i : i = Idle
      OBVIOUS
    <3>2. i \in SweepState /\ i.page = 1 /\ i.payloads = <<>>
      BY <3>1, IdleState DEF Idle
    <3>3. e = [i EXCEPT !.pc = "fetch"]
      BY <2>1, <3>1
    <3> QED
      BY <3>2, <3>3 DEF SweepState
  <2>3. Become(w, e)
    BY <1>2, <2>1 DEF StartSweep
  <2>4. Took(w, k) /\ k = e
    BY <2>2, <2>3, Takes
  <2> QED
    BY <1>2, <2>2, <2>4 DEF StartSweep, Begun
<1>3. ASSUME FetchPage(w)
      PROVE  Took(w, k) /\ Reads(s, k) /\ Quietly
  <2>1. PICK e : e = [s EXCEPT !.payloads = Gathered(@, s.page),
                               !.pc = IF IsLast(s.page) THEN "known" ELSE "fetch",
                               !.page = IF IsLast(s.page) THEN 1 ELSE @ + 1]
    OBVIOUS
  <2>2. s.page \in Nat \ {0} /\ s.payloads \in Seq(Payload)
    BY <1>1 DEF SweepState
  <2>3. Gathered(s.payloads, s.page) \in Seq(Payload)
    <3>1. PICK ps : ps = PayloadsOn(s.page)
      OBVIOUS
    <3>2. ps \in Seq(Payload)
      BY <1>1, <2>2, <3>1, PageRead
    <3> QED
      BY <2>2, <3>1, <3>2, ConcatProperties DEF Gathered
  <2>4. e \in SweepState
    <3>1. PICK g, l, n : /\ g = Gathered(s.payloads, s.page)
                         /\ l = (IF IsLast(s.page) THEN "known" ELSE "fetch")
                         /\ n = (IF IsLast(s.page) THEN 1 ELSE s.page + 1)
      OBVIOUS
    <3>2. g \in Seq(Payload) /\ l \in {"known", "fetch"} /\ n \in Nat \ {0}
      BY <2>2, <2>3, <3>1
    <3>3. e = [[[s EXCEPT !.payloads = g] EXCEPT !.pc = l] EXCEPT !.page = n]
      BY <2>1, <3>1
    <3> QED
      BY <1>1, <3>2, <3>3 DEF SweepState
  <2>5. Become(w, e) /\ s.pc = "fetch" /\ (s.page = 1 \/ FirstOf(s.page) <= Len(directory))
    BY <1>3, <2>1 DEF FetchPage, At
  <2>6. Took(w, k) /\ k = e
    BY <2>4, <2>5, Takes
  <2>7. k.payloads = s.payloads \o PayloadsOn(s.page)
    BY <1>1, <2>1, <2>6 DEF SweepState, Gathered
  <2>8. \/ k.pc = "known" /\ Len(directory) <= s.page * PageSize
        \/ k.pc = "fetch" /\ k.page = s.page + 1
    BY <1>1, <2>1, <2>6 DEF SweepState, IsLast
  <2> QED
    BY <1>3, <2>5, <2>6, <2>7, <2>8 DEF FetchPage, Reads, Quietly
<1>4. ASSUME FetchFails(w) \/ EndSweep(w) \/ CrashSweep(w)
      PROVE  Took(w, k) /\ k = Idle /\ Quietly
  <2>1. Become(w, Idle) /\ Quietly
    BY <1>4 DEF FetchFails, EndSweep, CrashSweep, Quietly
  <2> QED
    BY <2>1, IdleState, Takes
<1>5. ASSUME ReadKnown(w)
      PROVE  /\ Took(w, k) /\ s.pc = "known" /\ k.pc = "users"
             /\ k.payloads = s.payloads /\ k.orphans = known \ Fetched(w)
             /\ Quietly
  <2>1. PICK e : e = [s EXCEPT !.pc = "users", !.orphans = OrphansOf(w)]
    OBVIOUS
  <2>2. e \in SweepState /\ e.pc = "users" /\ e.payloads = s.payloads
        /\ e.orphans = known \ Fetched(w)
    BY <1>1, <2>1 DEF SweepState, OrphansOf
  <2>3. Become(w, e) /\ s.pc = "known" /\ Quietly
    BY <1>5, <2>1 DEF ReadKnown, At, Quietly
  <2> QED
    BY <2>2, <2>3, Takes
<1>6. ASSUME SweepUser(w)
      PROVE  /\ Took(w, k) /\ s.pc = "users" /\ k.pc = "users"
             /\ s.payloads # <<>> /\ k.payloads = Tail(s.payloads)
             /\ k.orphans = s.orphans /\ UNCHANGED authentikVars
             /\ Reconcile(Head(s.payloads).user, Head(s.payloads).want, ProcessOf[w], {w})
  <2>1. PICK e : e = [s EXCEPT !.payloads = Tail(@)]
    OBVIOUS
  <2>2. /\ Become(w, e) /\ s.pc = "users" /\ s.payloads # <<>> /\ UNCHANGED authentikVars
        /\ Reconcile(Head(s.payloads).user, Head(s.payloads).want, ProcessOf[w], {w})
    BY <1>6, <2>1 DEF SweepUser, At
  <2>3. Tail(s.payloads) \in Seq(Payload)
    BY <1>1, <2>2, HeadTailProperties DEF SweepState
  <2>4. e \in SweepState /\ e.pc = s.pc /\ e.payloads = Tail(s.payloads)
        /\ e.orphans = s.orphans
    BY <1>1, <2>1, <2>3 DEF SweepState
  <2> QED
    BY <2>2, <2>4, Takes
<1>7. ASSUME EndUsers(w)
      PROVE  /\ Took(w, k) /\ s.pc = "users" /\ k.pc = "gc" /\ s.payloads = <<>>
             /\ k.payloads = s.payloads /\ k.orphans = s.orphans /\ Quietly
  <2>1. PICK e : e = [s EXCEPT !.pc = "gc"]
    OBVIOUS
  <2>2. e \in SweepState /\ e.pc = "gc" /\ e.payloads = s.payloads /\ e.orphans = s.orphans
    BY <1>1, <2>1 DEF SweepState
  <2>3. Become(w, e) /\ s.pc = "users" /\ s.payloads = <<>> /\ Quietly
    BY <1>7, <2>1 DEF EndUsers, At, Quietly
  <2> QED
    BY <2>2, <2>3, Takes
<1>8. ASSUME Collect(w)
      PROVE  /\ Took(w, k) /\ s.pc = "gc" /\ k.pc = "gc" /\ k.payloads = s.payloads
             /\ Collects(s, k, w) /\ UNCHANGED authentikVars
  <2>1. PICK u \in s.orphans : /\ Reconcile(u, {Own[u]}, ProcessOf[w], {w})
                               /\ Become(w, [s EXCEPT !.orphans = @ \ {u}])
    BY <1>8 DEF Collect
  <2>2. PICK e : e = [s EXCEPT !.orphans = @ \ {u}]
    OBVIOUS
  <2>3. e \in SweepState /\ e.pc = s.pc /\ e.payloads = s.payloads
        /\ e.orphans = s.orphans \ {u}
    BY <1>1, <2>2 DEF SweepState
  <2>4. Took(w, k) /\ k = e
    BY <2>1, <2>2, <2>3, Takes
  <2>5. s.pc = "gc" /\ UNCHANGED authentikVars
    BY <1>8 DEF Collect, At
  <2> QED
    BY <2>1, <2>3, <2>4, <2>5 DEF Collects
<1> QED
  BY <1>2, <1>3, <1>4, <1>5, <1>6, <1>7, <1>8 DEF Shape

(* What a reconcile_user leaves of the ghosts: an undisturbed sweep is one *)
(* whose own reconcile it was, and that one came to its end.               *)
LEMMA ReconcileShape ==
    ASSUME TypeInv, NEW u, NEW want, NEW p, NEW self, Reconcile(u, want, p, self)
    PROVE  \A x \in Workers :
              /\ since'[x].stayed = since[x].stayed
              /\ since'[x].left = since[x].left
              /\ since'[x].unlisted = since[x].unlisted
              /\ since'[x].calm => /\ since[x].calm /\ x \in self
                                   /\ Reconciled(u, want, Listing(p)) /\ AsksList(u, want, p)
<1>1. since \in [Workers -> Since]
  BY DEF TypeInv, TypeOK
<1>2. ASSUME NEW others, Disturbed(others), NEW x \in Workers
      PROVE  /\ since'[x].stayed = since[x].stayed
             /\ since'[x].left = since[x].left
             /\ since'[x].unlisted = since[x].unlisted
             /\ since'[x].calm => since[x].calm /\ x \notin others
  <2>1. since'[x] = IF x \in others THEN [since[x] EXCEPT !.calm = FALSE] ELSE since[x]
    BY <1>2 DEF Disturbed
  <2> QED
    BY <1>1, <2>1 DEF Since
<1>3. CASE /\ Reconciled(u, want, Listing(p)) /\ AsksList(u, want, p)
           /\ Disturbed(Workers \ self)
  BY <1>2, <1>3
<1>4. CASE Disturbed(Workers)
  BY <1>2, <1>4
<1> QED
  BY <1>3, <1>4 DEF Reconcile

(* An event: whoever left did not stay, and no sweep is undisturbed. *)
LEMMA EventShape ==
    ASSUME TypeInv, directory' \in Seq(Users), NEW kind, Event(kind)
    PROVE  /\ UNCHANGED <<held, known, cached, sweep>>
           /\ since' \in [Workers -> Since]
           /\ happened' \in Nat
           /\ \A x \in Workers :
                 /\ since'[x].stayed \subseteq since[x].stayed
                 /\ ~since'[x].left => ~since[x].left /\ kind # "leave"
                 /\ ~since'[x].calm
<1>1. /\ since \in [Workers -> Since]
      /\ happened \in Nat
  BY DEF TypeInv, TypeOK
<1>2. PICK there : there = Range(directory')
  OBVIOUS
<1>3. since' = [x \in Workers |-> [stayed |-> since[x].stayed \intersect there,
                                   left   |-> since[x].left \/ kind = "leave",
                                   calm   |-> FALSE,
                                   unlisted |-> since[x].unlisted]]
  BY <1>2 DEF Event
<1>4. UNCHANGED <<held, known, cached, sweep>> /\ happened' = happened + 1
  BY DEF Event, Counted
<1>5. ASSUME NEW x \in Workers
      PROVE  /\ since'[x] \in Since
             /\ since'[x].stayed \subseteq since[x].stayed
             /\ ~since'[x].left => ~since[x].left /\ kind # "leave"
             /\ ~since'[x].calm
  <2>1. PICK l : l = (since[x].left \/ kind = "leave")
    OBVIOUS
  <2>2. l \in BOOLEAN
    BY <2>1
  <2>3. since'[x] = [stayed |-> since[x].stayed \intersect there, left |-> l,
                     calm |-> FALSE, unlisted |-> since[x].unlisted]
    BY <1>3, <2>1
  <2>4. since[x].stayed \subseteq Users /\ since[x].unlisted \subseteq Users
    BY <1>1 DEF Since
  <2>5. /\ since'[x].stayed = since[x].stayed \intersect there
        /\ since'[x].left = l /\ since'[x].calm = FALSE
    BY <2>3
  <2>6. ~l => ~since[x].left /\ kind # "leave"
    BY <2>1
  <2>7. since'[x] \in Since
    BY <2>2, <2>3, <2>4 DEF Since
  <2> QED
    BY <2>5, <2>6, <2>7
<1>6. since' \in [Workers -> Since]
  BY <1>3, <1>5
<1> QED
  BY <1>1, <1>4, <1>5, <1>6

(* The events, and what they are about *)
Happens == Join \/ Leave \/ Entitle \/ LogIn \/ Mint

LEMMA EventTyped ==
    ASSUME TypeInv, Happens
    PROVE  /\ directory' \in Seq(Users)
           /\ claims' \in [Users -> SUBSET Targets]
           /\ ncUsers' \subseteq Users
           /\ minted' \in [Users -> SUBSET Targets]
           /\ inbox' \subseteq Payload
           /\ \E kind : Event(kind) /\ (kind # "leave" => StillAhead(directory, directory'))
<1>1. /\ directory \in Seq(Users) /\ claims \in [Users -> SUBSET Targets]
      /\ ncUsers \subseteq Users /\ minted \in [Users -> SUBSET Targets]
      /\ inbox \subseteq Payload
  BY DEF TypeInv, TypeOK
<1>2. Len(directory) \in Nat /\ DOMAIN directory = 1..Len(directory)
  BY <1>1, LenProperties
<1>3. directory' = directory => StillAhead(directory, directory')
  BY <1>2 DEF StillAhead
<1>4. CASE Join
  <2>1. PICK u \in Users, i \in 1..Len(directory) + 1 : directory' = InsertAt(directory, i, u)
    BY <1>4 DEF Join
  <2>2. PICK d, e : d = directory /\ e = directory'
    OBVIOUS
  <2>3. d \in Seq(Users) /\ i \in 1..Len(d) + 1 /\ e = InsertAt(d, i, u) /\ u \in Users
    BY <1>1, <2>1, <2>2
  <2>4. e \in Seq(Users) /\ StillAhead(d, e)
    BY ONLY <2>3, Joining
  <2>5. UNCHANGED <<claims, ncUsers, minted, inbox>> /\ Event("join")
    BY <1>4 DEF Join
  <2> QED
    BY <1>1, <2>2, <2>4, <2>5
<1>5. CASE Leave
  <2>1. PICK i \in 1..Len(directory) : directory' = RemoveAt(directory, i)
    BY <1>2, <1>5 DEF Leave
  <2>2. directory' \in Seq(Users)
    BY <1>1, <2>1, Leaving
  <2>3. UNCHANGED <<claims, ncUsers, minted, inbox>> /\ Event("leave")
    BY <1>5 DEF Leave
  <2> QED
    BY <1>1, <2>2, <2>3
<1>6. CASE Entitle
  <2>1. PICK u \in Members, c \in SUBSET Shared :
           /\ claims' = [claims EXCEPT ![u] = c]
           /\ inbox' = inbox \union {[user |-> u, want |-> {Own[u]} \union c]}
    BY <1>6 DEF Entitle
  <2>2. u \in Users /\ Own[u] \in Targets /\ c \subseteq Targets
    BY <2>1, MembersTyped, SweepAssumption
  <2>3. inbox' \subseteq Payload /\ claims' \in [Users -> SUBSET Targets]
    BY <1>1, <2>1, <2>2 DEF Payload
  <2>4. UNCHANGED <<directory, ncUsers, minted>> /\ Event("claims")
    BY <1>6 DEF Entitle
  <2> QED
    BY <1>1, <1>3, <2>3, <2>4
<1>7. CASE LogIn
  <2>1. UNCHANGED <<directory, claims, minted, inbox>> /\ Event("login")
    BY <1>7 DEF LogIn
  <2>2. ncUsers' \subseteq Users
    BY <1>1, <1>7 DEF LogIn
  <2> QED
    BY <1>1, <1>3, <2>1, <2>2
<1>8. CASE Mint
  <2>1. PICK u \in Members, got \in SUBSET Targets :
           minted' = [minted EXCEPT ![u] = @ \union got]
    BY <1>8 DEF Mint
  <2>2. minted' \in [Users -> SUBSET Targets]
    BY <1>1, <2>1, MembersTyped
  <2>3. UNCHANGED <<authentikVars, inbox>> /\ Event("mint")
    BY <1>8 DEF Mint
  <2> QED
    BY <1>1, <1>3, <2>2, <2>3 DEF authentikVars
<1> QED
  BY <1>4, <1>5, <1>6, <1>7, <1>8 DEF Happens

(* The three places that reconcile: the payload is one of Authentik's kind *)
LEMMA Payloads ==
    ASSUME NEW s \in SweepState
    PROVE  /\ s.payloads # <<>> => /\ Head(s.payloads) \in Payload
                                   /\ Tail(s.payloads) \in Seq(Payload)
           /\ \A p \in Payload : p.user \in Users /\ p.want \in SUBSET Targets
           /\ \A u \in s.orphans : u \in Users /\ {Own[u]} \in SUBSET Targets
<1>1. s.payloads \in Seq(Payload) /\ s.orphans \subseteq Users
  BY DEF SweepState
<1>2. ASSUME s.payloads # <<>>
      PROVE  Head(s.payloads) \in Payload /\ Tail(s.payloads) \in Seq(Payload)
  <2>1. PICK ps : ps = s.payloads
    OBVIOUS
  <2> QED
    BY <1>1, <1>2, <2>1, HeadTailProperties
<1>3. \A p \in Payload : p.user \in Users /\ p.want \in SUBSET Targets
  BY DEF Payload
<1>4. \A u \in s.orphans : u \in Users /\ {Own[u]} \in SUBSET Targets
  BY <1>1, SweepAssumption
<1> QED
  BY <1>2, <1>3, <1>4

LEMMA TypeStep == TypeInv /\ [Next]_vars => TypeInv'
<1> SUFFICES ASSUME TypeInv, [Next]_vars PROVE TypeInv'
  OBVIOUS
<1> DEFINE C == [Processes -> [fresh : BOOLEAN, users : SUBSET Users]]
           A == /\ directory' \in Seq(Users) /\ claims' \in [Users -> SUBSET Targets]
                /\ ncUsers' \subseteq Users
           R == /\ held' \in [Users -> SUBSET Targets] /\ minted' \in [Users -> SUBSET Targets]
                /\ known' \subseteq Users /\ cached' \in C
                /\ since' \in [Workers -> Since] /\ happened' \in Nat
           W == sweep' \in [Workers -> SweepState]
           B == inbox' \subseteq Payload
<1>0. ASSUME A, R, W, B PROVE TypeInv'
  <2>1. \A w \in Workers :
           /\ sweep'[w].pc \in {"idle", "fetch", "known", "users", "gc"}
           /\ sweep'[w].page \in Nat \ {0}
           /\ sweep'[w].payloads \in Seq(Payload)
           /\ sweep'[w].orphans \subseteq Users
    <3> SUFFICES ASSUME NEW w \in Workers
                 PROVE  /\ sweep'[w].pc \in {"idle", "fetch", "known", "users", "gc"}
                        /\ sweep'[w].page \in Nat \ {0}
                        /\ sweep'[w].payloads \in Seq(Payload)
                        /\ sweep'[w].orphans \subseteq Users
      OBVIOUS
    <3>1. PICK k : k = sweep'[w]
      OBVIOUS
    <3>2. k \in SweepState
      BY <1>0, <3>1
    <3> QED
      BY <3>1, <3>2 DEF SweepState
  <2> QED
    BY <1>0, <2>1 DEF TypeInv, TypeOK
<1>1. /\ directory \in Seq(Users) /\ claims \in [Users -> SUBSET Targets]
      /\ ncUsers \subseteq Users /\ held \in [Users -> SUBSET Targets]
      /\ minted \in [Users -> SUBSET Targets] /\ known \subseteq Users /\ cached \in C
      /\ since \in [Workers -> Since] /\ happened \in Nat
      /\ sweep \in [Workers -> SweepState] /\ inbox \subseteq Payload
  BY DEF TypeInv, TypeOK
<1> HIDE DEF A, R, W, B, C
<1>2. UNCHANGED authentikVars => A
  BY <1>1 DEF A, authentikVars
<1>3. UNCHANGED <<serviceVars, since>> /\ happened' \in Nat => R
  BY <1>1 DEF R, serviceVars
<1>4. \A u \in Users, want \in SUBSET Targets, p \in Processes, self \in SUBSET Workers :
         Reconcile(u, want, p, self) => R
  BY ReconcileTyped DEF R, C
<1>5. UNCHANGED inbox => B
  BY <1>1 DEF B
<1>6. ASSUME NEW w \in Workers, StartSweep(w) \/ Step(w) \/ CrashSweep(w)
      PROVE  TypeInv'
  <2>0. ProcessOf[w] \in Processes
    BY SweepAssumption
  <2>1. PICK s, k : s = sweep[w] /\ k = sweep'[w]
    OBVIOUS
  <2>2. s \in SweepState /\ Shape(w, s, k)
    BY <1>1, <2>1, SweepShape
  <2>3. CASE StartSweep(w)
    <3>1. Took(w, k) /\ UNCHANGED authentikVars /\ UNCHANGED serviceVars
          /\ since' = [since EXCEPT ![w] = Begun(w)]
      BY <2>2, <2>3 DEF Shape
    <3>2. since' \in [Workers -> Since]
      BY <1>1, <3>1, MembersTyped DEF Begun, Since
    <3>3. UNCHANGED <<inbox, happened>>
      BY <2>3 DEF StartSweep
    <3> QED
      BY <1>0, <1>1, <1>2, <1>5, <3>1, <3>2, <3>3 DEF R, W, Took, serviceVars
  <2>4. CASE FetchPage(w) \/ ReadKnown(w) \/ EndUsers(w) \/ FetchFails(w)
             \/ EndSweep(w) \/ CrashSweep(w)
    <3>1. Took(w, k) /\ Quietly
      BY <2>2, <2>4 DEF Shape
    <3>2. UNCHANGED inbox
      BY <2>4 DEF FetchPage, ReadKnown, EndUsers, FetchFails, EndSweep, CrashSweep
    <3>3. happened' \in Nat
      BY <1>1, <2>4
         DEF FetchPage, ReadKnown, EndUsers, FetchFails, EndSweep, CrashSweep, Counted
    <3> QED
      BY <1>0, <1>2, <1>3, <1>5, <3>1, <3>2, <3>3 DEF W, Took, Quietly
  <2>5. CASE SweepUser(w)
    <3>1. /\ Took(w, k) /\ s.payloads # <<>> /\ UNCHANGED authentikVars
          /\ Reconcile(Head(s.payloads).user, Head(s.payloads).want, ProcessOf[w], {w})
      BY <2>2, <2>5 DEF Shape
    <3>2. UNCHANGED inbox
      BY <2>5 DEF SweepUser
    <3>3. Head(s.payloads).user \in Users /\ Head(s.payloads).want \in SUBSET Targets
      BY <2>2, <3>1, Payloads
    <3> QED
      BY <1>0, <1>2, <1>4, <1>5, <2>0, <3>1, <3>2, <3>3 DEF W, Took
  <2>6. CASE Collect(w)
    <3>1. Took(w, k) /\ Collects(s, k, w) /\ UNCHANGED authentikVars
      BY <2>2, <2>6 DEF Shape
    <3>2. UNCHANGED inbox
      BY <2>6 DEF Collect
    <3>3. PICK u \in s.orphans : Reconcile(u, {Own[u]}, ProcessOf[w], {w})
      BY <3>1 DEF Collects
    <3>4. u \in Users /\ {Own[u]} \in SUBSET Targets
      BY <2>2, <3>3, Payloads
    <3> QED
      BY <1>0, <1>2, <1>4, <1>5, <2>0, <3>1, <3>2, <3>3, <3>4 DEF W, Took
  <2> QED
    BY <1>6, <2>3, <2>4, <2>5, <2>6 DEF Step
<1>7. CASE Webhook
  <2>1. PICK p \in inbox, q \in Processes : Reconcile(p.user, p.want, q, {}) /\ inbox' = inbox \ {p}
    BY <1>7 DEF Webhook
  <2>2. UNCHANGED <<authentikVars, sweep>>
    BY <1>7 DEF Webhook
  <2>3. p.user \in Users /\ p.want \in SUBSET Targets
    BY <1>1, <2>1 DEF Payload
  <2> QED
    BY <1>0, <1>1, <1>2, <1>4, <2>1, <2>2, <2>3 DEF W, B
<1>8. CASE Happens
  <2>1. PICK kind : Event(kind)
    BY <1>8, EventTyped
  <2>2. directory' \in Seq(Users)
    BY <1>8, EventTyped
  <2>3. UNCHANGED <<held, known, cached, sweep>> /\ since' \in [Workers -> Since] /\ happened' \in Nat
    BY <2>1, <2>2, EventShape
  <2>4. A /\ B /\ minted' \in [Users -> SUBSET Targets]
    BY <1>8, EventTyped DEF A, B
  <2> QED
    BY <1>0, <1>1, <2>3, <2>4 DEF R, W
<1>9. CASE UNCHANGED vars
  BY <1>0, <1>1, <1>2, <1>3, <1>5, <1>9 DEF vars, W
<1>10. ASSUME NEW p \in Processes, Expire(p) PROVE TypeInv'
  <2>1. cached' = [cached EXCEPT ![p] = Uncached]
        /\ UNCHANGED <<authentikVars, held, minted, known, inbox, sweep, since, happened>>
    BY <1>10 DEF Expire
  <2>2. cached' \in C
    BY <1>1, <2>1 DEF C, Uncached
  <2> QED
    BY <1>0, <1>1, <1>2, <1>5, <2>1, <2>2 DEF R, W
<1> QED
  BY <1>6, <1>7, <1>8, <1>9, <1>10 DEF Next, Happens

---------------------------------------------------------------------------
(* What a sweep has read *)
Read(s) == {p.user : p \in Range(s.payloads)}

LEMMA ConcatRange ==
    ASSUME NEW a \in Seq(Payload), NEW b \in Seq(Payload), NEW c, c = a \o b
    PROVE  Range(c) = Range(a) \union Range(b)
<1>1. /\ Len(a) \in Nat /\ Len(b) \in Nat
      /\ DOMAIN a = 1..Len(a) /\ DOMAIN b = 1..Len(b)
  BY LenProperties
<1>2. /\ c \in Seq(Payload) /\ Len(c) = Len(a) + Len(b)
      /\ \A i \in 1..Len(a) + Len(b) : c[i] = IF i <= Len(a) THEN a[i] ELSE b[i - Len(a)]
  BY ConcatProperties
<1>3. DOMAIN c = 1..Len(a) + Len(b)
  BY <1>2, LenProperties
<1>4. ASSUME NEW x \in Range(c) PROVE x \in Range(a) \union Range(b)
  <2>1. PICK i \in 1..Len(a) + Len(b) : x = c[i]
    BY <1>3, <1>4 DEF Range
  <2>2. CASE i <= Len(a)
    BY <1>1, <1>2, <2>1, <2>2 DEF Range
  <2>3. CASE i > Len(a)
    <3>1. i - Len(a) \in 1..Len(b) /\ x = b[i - Len(a)]
      BY <1>1, <1>2, <2>1, <2>3
    <3> QED
      BY <1>1, <3>1 DEF Range
  <2> QED
    BY <1>1, <2>1, <2>2, <2>3
<1>5. ASSUME NEW x \in Range(a) PROVE x \in Range(c)
  <2>1. PICK i \in 1..Len(a) : x = a[i]
    BY <1>1, <1>5 DEF Range
  <2>2. i \in 1..Len(a) + Len(b) /\ x = c[i]
    BY <1>1, <1>2, <2>1
  <2> QED
    BY <1>3, <2>2 DEF Range
<1>6. ASSUME NEW x \in Range(b) PROVE x \in Range(c)
  <2>1. PICK i \in 1..Len(b) : x = b[i]
    BY <1>1, <1>6 DEF Range
  <2>2. i + Len(a) \in 1..Len(a) + Len(b) /\ x = c[i + Len(a)]
    <3>1. i + Len(a) \in 1..Len(a) + Len(b) /\ ~(i + Len(a) <= Len(a)) /\ i + Len(a) - Len(a) = i
      BY <1>1
    <3> QED
      BY <1>2, <2>1, <3>1
  <2> QED
    BY <1>3, <2>2 DEF Range
<1> QED
  BY <1>4, <1>5, <1>6

LEMMA TailRange ==
    ASSUME NEW a \in Seq(Payload), a # <<>>
    PROVE  Range(a) = {Head(a)} \union Range(Tail(a))
<1>1. /\ Len(a) \in Nat \ {0} /\ DOMAIN a = 1..Len(a) /\ Head(a) = a[1]
  BY LenProperties, EmptySeq
<1>2. /\ Tail(a) \in Seq(Payload) /\ Len(Tail(a)) = Len(a) - 1
      /\ \A i \in 1..Len(Tail(a)) : Tail(a)[i] = a[i + 1]
  BY HeadTailProperties
<1>3. PICK b : b = Tail(a)
  OBVIOUS
<1>4. b \in Seq(Payload) /\ Len(b) = Len(a) - 1 /\ \A i \in 1..Len(a) - 1 : b[i] = a[i + 1]
  BY <1>2, <1>3
<1>5. DOMAIN b = 1..Len(a) - 1
  BY <1>4, LenProperties
<1>6. ASSUME NEW x \in Range(a) PROVE x = a[1] \/ x \in Range(b)
  <2>1. PICK i \in 1..Len(a) : x = a[i]
    BY <1>1, <1>6 DEF Range
  <2>2. CASE i # 1
    <3>1. i - 1 \in 1..Len(a) - 1 /\ i - 1 + 1 = i
      BY <1>1, <2>2
    <3>2. x = b[i - 1]
      BY <1>4, <2>1, <3>1
    <3> QED
      BY <1>5, <3>1, <3>2 DEF Range
  <2> QED
    BY <2>1, <2>2
<1>7. ASSUME NEW x \in Range(b) PROVE x \in Range(a)
  <2>1. PICK i \in 1..Len(a) - 1 : x = b[i]
    BY <1>5, <1>7 DEF Range
  <2>2. i + 1 \in 1..Len(a) /\ x = a[i + 1]
    BY <1>1, <1>4, <2>1
  <2> QED
    BY <1>1, <2>2 DEF Range
<1>8. a[1] \in Range(a)
  BY <1>1 DEF Range
<1> QED
  BY <1>1, <1>3, <1>6, <1>7, <1>8

(* Reading a page adds the users at its places to those read before. *)
LEMMA PageAdds ==
    ASSUME TypeInv, NEW s \in SweepState, NEW k \in SweepState, Reads(s, k)
    PROVE  /\ \A p \in Range(k.payloads) :
                 \/ p \in Range(s.payloads)
                 \/ \E i \in 1..Len(directory) : p = PayloadOf(directory[i])
           /\ Read(s) \subseteq Read(k)
           /\ \A i \in 1..Len(directory) : OnPage(i, s.page) => directory[i] \in Read(k)
<1>1. /\ directory \in Seq(Users) /\ claims \in [Users -> SUBSET Targets]
      /\ s.page \in Nat \ {0} /\ s.payloads \in Seq(Payload)
  BY DEF TypeInv, TypeOK, SweepState
<1>2. PICK ps, old, new : ps = PayloadsOn(s.page) /\ old = s.payloads /\ new = k.payloads
  OBVIOUS
<1>3. /\ ps \in Seq(Payload)
      /\ \A p \in Range(ps) :
            \E i \in 1..Len(directory) : OnPage(i, s.page) /\ p = PayloadOf(directory[i])
      /\ \A i \in 1..Len(directory) :
            OnPage(i, s.page) => PayloadOf(directory[i]) \in Range(ps)
  BY <1>1, <1>2, PageRead
<1>4. new = old \o ps
  BY <1>2 DEF Reads
<1>5. Range(new) = Range(old) \union Range(ps)
  BY <1>1, <1>2, <1>3, <1>4, ConcatRange
<1>6. \A p \in Range(k.payloads) :
         \/ p \in Range(s.payloads)
         \/ \E i \in 1..Len(directory) : p = PayloadOf(directory[i])
  BY <1>2, <1>3, <1>5
<1>7. Read(s) \subseteq Read(k)
  BY <1>2, <1>5 DEF Read
<1>8. ASSUME NEW i \in 1..Len(directory), OnPage(i, s.page) PROVE directory[i] \in Read(k)
  <2>1. PayloadOf(directory[i]) \in Range(k.payloads)
    BY <1>2, <1>3, <1>5, <1>8
  <2>2. PayloadOf(directory[i]).user = directory[i]
    BY DEF PayloadOf
  <2> QED
    BY <2>1, <2>2 DEF Read
<1> QED
  BY <1>6, <1>7, <1>8

---------------------------------------------------------------------------
(* Nobody who stayed is collected.  While nobody leaves, a user can only move *)
(* to a later place of the list, so that who was read or is ahead of the page *)
(* that comes next remains so; and sync_users_seen is read after the pages,   *)
(* so that whoever first became known meanwhile is judged by a list that has  *)
(* the user, if the user was in it when the sweep began.                      *)
Ahead(u, page) == \E i \in 1..Len(directory) : FirstOf(page) <= i /\ directory[i] = u

Spared(s, g) ==
    ~g.left =>
       /\ s.pc = "fetch" => \A u \in g.stayed : u \in Read(s) \/ Ahead(u, s.page)
       /\ s.pc = "known" => g.stayed \subseteq Read(s)
       /\ s.pc \in {"users", "gc"} => s.orphans \intersect g.stayed = {}

CollectInv == TypeInv /\ \A w \in Workers : Spared(sweep[w], since[w])

(* A sweep that did not move: the list may have grown, who stayed is fewer. *)
LEMMA SparedStays ==
    ASSUME TypeInv, NEW s \in SweepState, NEW g, NEW h, Spared(s, g),
           h.stayed \subseteq g.stayed,
           ~h.left => ~g.left /\ StillAhead(directory, directory'),
           directory' \in Seq(Users)
    PROVE  Spared(s, h)'
<1> SUFFICES ASSUME ~h.left PROVE Spared(s, h)'
  BY DEF Spared
<1>1. directory \in Seq(Users)
  BY DEF TypeInv, TypeOK
<1>2. Len(directory) \in Nat /\ Len(directory') \in Nat
  BY <1>1, LenProperties
<1>3. FirstOf(s.page) \in Nat
  BY PageBounds DEF SweepState
<1>4. ASSUME NEW u, Ahead(u, s.page) PROVE Ahead(u, s.page)'
  <2>1. PICK i \in 1..Len(directory) : FirstOf(s.page) <= i /\ directory[i] = u
    BY <1>4 DEF Ahead
  <2>2. PICK m \in 1..Len(directory') : i <= m /\ directory'[m] = directory[i]
    BY <2>1 DEF StillAhead
  <2>3. FirstOf(s.page) <= m /\ directory'[m] = u
    BY <1>2, <1>3, <2>1, <2>2
  <2> QED
    BY <2>2, <2>3 DEF Ahead, FirstOf
<1>5. s.pc = "fetch" => \A u \in h.stayed : u \in Read(s) \/ Ahead(u, s.page)'
  BY <1>4 DEF Spared
<1>6. /\ s.pc = "known" => h.stayed \subseteq Read(s)
      /\ s.pc \in {"users", "gc"} => s.orphans \intersect h.stayed = {}
  BY DEF Spared
<1> QED
  BY <1>5, <1>6 DEF Spared, Read

LEMMA SparedReads ==
    ASSUME TypeInv, NEW s \in SweepState, NEW k \in SweepState, NEW g, Spared(s, g),
           Reads(s, k), UNCHANGED authentikVars
    PROVE  Spared(k, g)'
<1>0. \A u : Ahead(u, k.page)' <=> Ahead(u, k.page)
  BY DEF Ahead, FirstOf, authentikVars
<1> SUFFICES ASSUME ~g.left
             PROVE  /\ k.pc = "fetch" => \A u \in g.stayed : u \in Read(k) \/ Ahead(u, k.page)
                    /\ k.pc = "known" => g.stayed \subseteq Read(k)
                    /\ k.pc \notin {"users", "gc"}
  <2>1. k.pc \in {"fetch", "known"}
    BY DEF Reads
  <2> QED
    BY <1>0, <2>1 DEF Spared, Read
<1>1. Len(directory) \in Nat
  BY LenProperties DEF TypeInv, TypeOK
<1>2. s.page \in Nat \ {0}
  BY DEF SweepState
<1>3. FirstOf(s.page) \in Nat /\ s.page * PageSize \in Nat
      /\ FirstOf(s.page + 1) = s.page * PageSize + 1
  BY <1>2, PageBounds
<1>4. \A u \in g.stayed : u \in Read(s) \/ Ahead(u, s.page)
  BY DEF Spared, Reads
<1>5. ASSUME NEW u \in g.stayed, u \notin Read(k)
      PROVE  \E i \in 1..Len(directory) : s.page * PageSize < i /\ directory[i] = u
  <2>1. u \notin Read(s)
    BY <1>5, PageAdds
  <2>2. PICK i \in 1..Len(directory) : FirstOf(s.page) <= i /\ directory[i] = u
    BY <1>4, <2>1 DEF Ahead
  <2>3. ~OnPage(i, s.page)
    BY <1>5, <2>2, PageAdds
  <2>4. s.page * PageSize < i
    BY <1>1, <1>3, <2>2, <2>3 DEF OnPage
  <2> QED
    BY <2>2, <2>4
<1>6. CASE k.pc = "known" /\ Len(directory) <= s.page * PageSize
  <2>1. \A u \in g.stayed : u \in Read(k)
    BY <1>1, <1>3, <1>5, <1>6
  <2> QED
    BY <1>6, <2>1
<1>7. CASE k.pc = "fetch" /\ k.page = s.page + 1
  <2>1. ASSUME NEW u \in g.stayed, u \notin Read(k) PROVE Ahead(u, k.page)
    <3>1. PICK i \in 1..Len(directory) : s.page * PageSize < i /\ directory[i] = u
      BY <1>5, <2>1
    <3>2. FirstOf(k.page) <= i
      BY <1>1, <1>3, <1>7, <3>1
    <3> QED
      BY <3>1, <3>2 DEF Ahead
  <2> QED
    BY <1>7, <2>1
<1> QED
  BY <1>6, <1>7 DEF Reads

LEMMA CollectStep == CollectInv /\ [Next]_vars => CollectInv'
<1> SUFFICES ASSUME CollectInv, [Next]_vars PROVE CollectInv'
  OBVIOUS
<1>0. TypeInv
  BY DEF CollectInv
<1>1. TypeInv'
  BY <1>0, TypeStep
<1> SUFFICES ASSUME NEW x \in Workers,
                    NEW s, NEW k, NEW g, NEW h,
                    s = sweep[x], k = sweep'[x], g = since[x], h = since'[x]
             PROVE  Spared(k, h)'
  BY <1>1 DEF CollectInv, Spared, Read, Ahead, FirstOf
<1>2. Spared(s, g)
  BY DEF CollectInv
<1>3. /\ s \in SweepState /\ k \in SweepState
      /\ directory \in Seq(Users) /\ directory' \in Seq(Users)
      /\ since \in [Workers -> Since]
  BY <1>0, <1>1 DEF TypeInv, TypeOK
<1>4. directory' = directory => StillAhead(directory, directory')
  <2>1. Len(directory) \in Nat
    BY <1>3, LenProperties
  <2> QED
    BY <2>1 DEF StillAhead
<1>5. ASSUME k = s, h.stayed \subseteq g.stayed,
             ~h.left => ~g.left /\ StillAhead(directory, directory')
      PROVE  Spared(k, h)'
  <2>1. Spared(s, h)'
    BY <1>0, <1>2, <1>3, <1>5, SparedStays
  <2> QED
    BY <1>5, <2>1 DEF Spared, Read
<1>6. ASSUME k = s, h.stayed = g.stayed, h.left = g.left, UNCHANGED authentikVars
      PROVE  Spared(k, h)'
  BY <1>4, <1>5, <1>6 DEF authentikVars
<1>7. ASSUME NEW w \in Workers, StartSweep(w) \/ Step(w) \/ CrashSweep(w)
      PROVE  Spared(k, h)'
  <2>1. PICK e, f : e = sweep[w] /\ f = sweep'[w]
    OBVIOUS
  <2>0. Shape(w, e, f)
    BY <1>0, <2>1, SweepShape
  <2>2. Took(w, f) /\ UNCHANGED authentikVars
    BY <1>7, <2>0 DEF Shape, Step, Quietly
  <2>3. StartSweep(w) \/ (h.stayed = g.stayed /\ h.left = g.left)
    <3>1. CASE SweepUser(w)
      <4>1. Reconcile(Head(e.payloads).user, Head(e.payloads).want, ProcessOf[w], {w})
        BY <2>0, <3>1 DEF Shape
      <4> QED
        BY <1>0, <4>1, ReconcileShape
    <3>2. CASE Collect(w)
      <4>1. Collects(e, f, w)
        BY <2>0, <3>2 DEF Shape
      <4> QED
        BY <1>0, <4>1, ReconcileShape DEF Collects
    <3>3. CASE Quietly
      BY <3>3 DEF Quietly
    <3>4. StartSweep(w) \/ SweepUser(w) \/ Collect(w) \/ Quietly
      BY <1>7, <2>0 DEF Shape, Step
    <3> QED
      BY <3>1, <3>2, <3>3, <3>4
  <2>4. CASE x # w
    <3>1. StartSweep(w) => h = g
      <4>1. StartSweep(w) => since' = [since EXCEPT ![w] = Begun(w)]
        BY DEF StartSweep, Begun
      <4> QED
        BY <1>3, <2>4, <4>1
    <3>2. k = s
      BY <2>2, <2>4 DEF Took
    <3> QED
      BY <1>6, <2>2, <2>3, <3>1, <3>2
  <2>5. CASE x = w
    <3>0. e = s /\ f = k
      BY <2>1, <2>5
    <3>9. Shape(w, s, k)
      BY <2>0, <3>0
    <3>1. CASE StartSweep(w)
      <4>1. k.pc = "fetch" /\ k.page = 1
        BY <3>9, <3>1 DEF Shape
      <4>2. h = Begun(w)
        <5>1. since' = [since EXCEPT ![w] = Begun(w)]
          BY <3>1 DEF StartSweep, Begun
        <5> QED
          BY <1>3, <2>5, <5>1
      <4>3. \A u \in Members : Ahead(u, 1)'
        <5>1. FirstOf(1) = 1 /\ Len(directory) \in Nat
          BY <1>3, PageBounds, LenProperties
        <5>2. \A u \in Members : Ahead(u, 1)
          BY <1>3, <5>1, RangeMembers DEF Ahead, Members
        <5> QED
          BY <2>2, <5>2 DEF Ahead, FirstOf, authentikVars
      <4> QED
        BY <4>1, <4>2, <4>3 DEF Spared, Begun
    <3>2. CASE FetchPage(w)
      <4>1. Reads(s, k) /\ Quietly
        BY <3>9, <3>2 DEF Shape
      <4>2. Spared(k, g)'
        BY <1>0, <1>2, <1>3, <2>2, <4>1, SparedReads
      <4> QED
        BY <4>1, <4>2 DEF Quietly
    <3>3. CASE FetchFails(w) \/ EndSweep(w) \/ CrashSweep(w)
      <4>1. k = Idle
        BY <3>9, <3>3 DEF Shape
      <4> QED
        BY <4>1 DEF Spared, Idle
    <3>4. CASE ReadKnown(w)
      <4>1. /\ s.pc = "known" /\ k.pc = "users" /\ k.orphans = known \ Fetched(w)
            /\ Quietly
        BY <3>9, <3>4 DEF Shape
      <4>2. Fetched(w) = Read(s)
        BY <2>1, <3>0 DEF Fetched, Read
      <4> QED
        BY <1>2, <4>1, <4>2 DEF Spared, Quietly
    <3>5. CASE SweepUser(w) \/ EndUsers(w) \/ Collect(w)
      <4>1. s.pc \in {"users", "gc"} /\ k.pc \in {"users", "gc"}
        BY <3>9, <3>5 DEF Shape
      <4>2. k.orphans \subseteq s.orphans
        BY <3>9, <3>5 DEF Shape, Collects
      <4>3. ~StartSweep(w)
        BY <2>1, <3>0, <4>1 DEF StartSweep, At
      <4> QED
        BY <1>2, <2>3, <4>1, <4>2, <4>3 DEF Spared
    <3> QED
      BY <1>7, <3>1, <3>2, <3>3, <3>4, <3>5 DEF Step
  <2> QED
    BY <2>4, <2>5
<1>8. CASE Webhook
  <2>1. PICK p \in inbox, q \in Processes : Reconcile(p.user, p.want, q, {})
    BY <1>8 DEF Webhook
  <2>2. UNCHANGED <<authentikVars, sweep>>
    BY <1>8 DEF Webhook
  <2>3. h.stayed = g.stayed /\ h.left = g.left
    BY <1>0, <2>1, ReconcileShape
  <2> QED
    BY <1>6, <2>2, <2>3
<1>9. CASE Happens
  <2>1. PICK kind : Event(kind) /\ (kind # "leave" => StillAhead(directory, directory'))
    BY <1>0, <1>9, EventTyped
  <2>2. sweep' = sweep /\ h.stayed \subseteq g.stayed /\ (~h.left => ~g.left /\ kind # "leave")
    BY <1>0, <1>3, <2>1, EventShape
  <2> QED
    BY <1>5, <2>1, <2>2
<1>10. CASE UNCHANGED vars
  <2>1. k = s /\ h = g /\ UNCHANGED authentikVars
    BY <1>10 DEF vars, authentikVars
  <2> QED
    BY <1>6, <2>1
<1>11. ASSUME NEW p \in Processes, Expire(p) PROVE Spared(k, h)'
  <2>1. k = s /\ h = g /\ UNCHANGED authentikVars
    BY <1>11 DEF Expire
  <2> QED
    BY <1>6, <2>1
<1> QED
  BY <1>7, <1>8, <1>9, <1>10, <1>11 DEF Next, Happens

LEMMA SweepInitially ==
    Init => /\ TypeInv
            /\ \A w \in Workers : sweep[w] = Idle /\ ~since[w].calm
<1> SUFFICES ASSUME Init
             PROVE  TypeInv /\ \A w \in Workers : sweep[w] = Idle /\ ~since[w].calm
  OBVIOUS
<1>1. directory \in Seq(Users)
  BY FirstDirectory
<1>2. claims \in [Users -> SUBSET Targets]
  BY SweepAssumption DEF Init
<1>3. sweep \in [Workers -> SweepState]
  BY IdleState DEF Init
<1>4. \A w \in Workers : sweep[w] = Idle /\ ~since[w].calm
  BY DEF Init
<1>5. \A w \in Workers :
         /\ sweep[w].pc \in {"idle", "fetch", "known", "users", "gc"}
         /\ sweep[w].page \in Nat \ {0}
         /\ sweep[w].payloads \in Seq(Payload)
         /\ sweep[w].orphans \subseteq Users
  BY <1>4, IdleState DEF SweepState
<1>6. /\ held \in [Users -> SUBSET Targets] /\ minted \in [Users -> SUBSET Targets]
      /\ known \subseteq Users /\ inbox \subseteq Payload /\ ncUsers \subseteq Users
      /\ cached \in [Processes -> [fresh : BOOLEAN, users : SUBSET Users]]
      /\ since \in [Workers -> Since]
      /\ happened \in Nat
  BY DEF Init, Since, Uncached
<1> QED
  BY <1>1, <1>2, <1>3, <1>4, <1>5, <1>6 DEF TypeInv, TypeOK

(* Every value is one the code can have there: a page is never numbered 0,   *)
(* and a sweep, a webhook and the rows are about users and their targets.    *)
THEOREM SweepTypeCorrect == Spec => []TypeOK
<1>1. TypeInv => TypeOK
  BY DEF TypeInv
<1> QED
  BY <1>1, SweepInitially, TypeStep, PTL DEF Spec

(* Garbage collection takes nobody who was in Authentik's list all the time   *)
(* since the sweep began, unless somebody left the list while it was read:    *)
(* whatever is joined, reconciled or fails meanwhile, and whoever else sweeps. *)
THEOREM OnlyVanishedAreCollected == Spec => CollectsOnlyVanished
<1>1. Init => CollectInv
  BY SweepInitially DEF CollectInv, Spared, Idle
<1>2. CollectInv =>
         [\A w \in Workers : ~since[w].left => Collected(w) \intersect since[w].stayed = {}]_vars
  <2>1. ASSUME CollectInv, NEW w \in Workers, ~since[w].left
        PROVE  Collected(w) \intersect since[w].stayed = {}
    BY <2>1 DEF CollectInv, Spared, Collected, At
  <2> QED
    BY <2>1
<1> QED
  BY <1>1, <1>2, CollectStep, PTL DEF Spec, CollectsOnlyVanished

---------------------------------------------------------------------------
(* A sweep that nothing disturbs.  Its payloads are what Authentik grants, it *)
(* has read everybody before the page that comes next, and after the pages    *)
(* every member is either still to come or settled, and everybody of          *)
(* sync_users_seen who is no member is still to be collected, or was.  Who is *)
(* settled has no row but what is granted, and all of it unless the user is   *)
(* in `un', those whom the list that was kept at the beginning lacked.        *)
SettledFor(u, want, un) ==
    /\ held[u] \subseteq want \intersect Mailboxes
    /\ u \in ncUsers \ un => held[u] = want \intersect Mailboxes
    /\ minted[u] \subseteq want
Settles(u, un) == SettledFor(u, PayloadOf(u).want, un)
Bare(u) == Rows(u) \subseteq {Own[u]}

Undisturbed(s, un) ==
    /\ \A p \in Range(s.payloads) : p.user \in Members /\ p = PayloadOf(p.user)
    /\ s.pc = "fetch" =>
          \A i \in 1..Len(directory) : i < FirstOf(s.page) => directory[i] \in Read(s)
    /\ s.pc = "known" => Members \subseteq Read(s)
    /\ s.pc = "users" =>
          /\ \A u \in Members : u \in Read(s) \/ Settles(u, un)
          /\ known \ Members \subseteq s.orphans
    /\ s.pc = "gc" =>
          /\ \A u \in Members : Settles(u, un)
          /\ \A u \in known \ Members : u \in s.orphans \/ Bare(u)
    /\ s.pc \in {"users", "gc"} => s.orphans \intersect Members = {}

(* The list that p goes by has everybody of Nextcloud but those in `un' *)
Lists(p, un) == ncUsers \subseteq Listing(p) \union un

ConvergeInv ==
    /\ TypeInv
    /\ \A w \in Workers :
          since[w].calm => /\ Undisturbed(sweep[w], since[w].unlisted)
                           /\ Lists(ProcessOf[w], since[w].unlisted)

LEMMA UndisturbedStays ==
    ASSUME NEW s, NEW un, Undisturbed(s, un),
           UNCHANGED <<authentikVars, held, minted, known>>
    PROVE  Undisturbed(s, un)'
BY DEF Undisturbed, authentikVars, Members, Read, Settles, SettledFor, Bare, Rows,
       PayloadOf, FirstOf

(* Keeping the list that was answered, or reading a new one later *)
LEMMA ListsStill ==
    ASSUME TypeInv, NEW p \in Processes, NEW un, Lists(p, un), ncUsers' = ncUsers,
           \/ UNCHANGED cached
           \/ \E u, want : AsksList(u, want, p)
           \/ \E q \in Processes : Expire(q)
    PROVE  Lists(p, un)'
<1>1. cached \in [Processes -> [fresh : BOOLEAN, users : SUBSET Users]]
  BY DEF TypeInv, TypeOK
<1>2. cached'[p] = cached[p] => Lists(p, un)'
  BY DEF Lists, Listing
<1>3. CASE \E u, want : AsksList(u, want, p)
  <2>1. cached'[p] = cached[p] \/ cached'[p] = Fresh(Listing(p))
    BY <1>1, <1>3 DEF AsksList
  <2>2. CASE cached'[p] = Fresh(Listing(p))
    <3>1. PICK l : l = Listing(p)
      OBVIOUS
    <3>2. cached'[p].fresh /\ cached'[p].users = l
      BY <2>2, <3>1 DEF Fresh
    <3>3. Listing(p)' = l
      BY <3>2 DEF Listing
    <3> QED
      BY <3>1, <3>3 DEF Lists
  <2> QED
    BY <1>2, <2>1, <2>2
<1>4. ASSUME NEW q \in Processes, Expire(q) PROVE Lists(p, un)'
  <2>1. cached' = [cached EXCEPT ![q] = Uncached]
    BY <1>4 DEF Expire
  <2>2. cached'[p] = cached[p] \/ cached'[p] = Uncached
    BY <1>1, <2>1
  <2>3. cached'[p] = Uncached => Listing(p)' = ncUsers'
    BY DEF Listing, Uncached
  <2> QED
    BY <1>2, <2>2, <2>3 DEF Lists
<1> QED
  BY <1>2, <1>3, <1>4

(* What reconcile_user does to one user *)
LEMMA Settling ==
    ASSUME TypeInv, NEW u \in Users, NEW want \in SUBSET Targets, NEW p, NEW un,
           Lists(p, un), Reconciled(u, want, Listing(p)), UNCHANGED authentikVars
    PROVE  /\ SettledFor(u, want, un)'
           /\ want \subseteq {Own[u]} => Bare(u)'
           /\ \A v \in Users : v # u => /\ \A x : SettledFor(v, x, un) => SettledFor(v, x, un)'
                                        /\ Bare(v) => Bare(v)'
           /\ known' = known \union {u}
<1>1. held \in [Users -> SUBSET Targets] /\ minted \in [Users -> SUBSET Targets]
  BY DEF TypeInv, TypeOK
<1>2. /\ held' = [held EXCEPT ![u] = Settled(u, want, Listing(p))]
      /\ minted' = [minted EXCEPT ![u] = Cleaned(u, want)]
      /\ known' = known \union {u}
  BY DEF Reconciled
<1>3. held'[u] = Settled(u, want, Listing(p)) /\ minted'[u] = Cleaned(u, want)
  BY <1>1, <1>2
<1>4. ASSUME NEW v \in Users, v # u PROVE held'[v] = held[v] /\ minted'[v] = minted[v]
  BY <1>1, <1>2, <1>4
<1>5. ncUsers' = ncUsers
  BY DEF authentikVars
<1>6. /\ Cleaned(u, want) \subseteq want
      /\ Settled(u, want, Listing(p)) \subseteq want \intersect Mailboxes
      /\ u \in Listing(p) => Settled(u, want, Listing(p)) = want \intersect Mailboxes
  BY DEF Cleaned, Settled
<1>7. u \in ncUsers \ un => u \in Listing(p)
  BY DEF Lists
<1>8. SettledFor(u, want, un)'
  BY <1>3, <1>5, <1>6, <1>7 DEF SettledFor
<1>9. want \subseteq {Own[u]} => Bare(u)'
  BY <1>3, <1>6 DEF Bare, Rows
<1>10. ASSUME NEW v \in Users, v # u
       PROVE  /\ \A x : SettledFor(v, x, un) => SettledFor(v, x, un)'
              /\ Bare(v) => Bare(v)'
  BY <1>4, <1>5, <1>10 DEF SettledFor, Bare, Rows
<1> QED
  BY <1>2, <1>8, <1>9, <1>10

LEMMA UndisturbedReads ==
    ASSUME TypeInv, NEW s \in SweepState, NEW k \in SweepState, NEW un,
           Undisturbed(s, un), Reads(s, k)
    PROVE  Undisturbed(k, un)
<1>1. directory \in Seq(Users)
  BY DEF TypeInv, TypeOK
<1>2. Len(directory) \in Nat
  BY <1>1, LenProperties
<1>3. s.page \in Nat \ {0}
  BY DEF SweepState
<1>4. FirstOf(s.page) \in Nat /\ s.page * PageSize \in Nat
      /\ FirstOf(s.page + 1) = s.page * PageSize + 1
  BY <1>3, PageBounds
<1>5. ASSUME NEW p \in Range(k.payloads)
      PROVE  p.user \in Members /\ p = PayloadOf(p.user)
  <2>1. CASE p \in Range(s.payloads)
    BY <2>1 DEF Undisturbed
  <2>2. CASE \E i \in 1..Len(directory) : p = PayloadOf(directory[i])
    <3>1. PICK i \in 1..Len(directory) : p = PayloadOf(directory[i])
      BY <2>2
    <3>2. directory[i] \in Members
      BY <1>1, RangeMembers DEF Members
    <3>3. p.user = directory[i]
      BY <3>1 DEF PayloadOf
    <3> QED
      BY <3>1, <3>2, <3>3
  <2> QED
    BY <1>5, <2>1, <2>2, PageAdds
<1>6. ASSUME NEW i \in 1..Len(directory), i <= s.page * PageSize
      PROVE  directory[i] \in Read(k)
  <2>1. CASE i < FirstOf(s.page)
    <3>1. directory[i] \in Read(s)
      BY <2>1 DEF Undisturbed, Reads
    <3> QED
      BY <3>1, PageAdds
  <2>2. CASE FirstOf(s.page) <= i
    <3>1. OnPage(i, s.page)
      BY <1>6, <2>2 DEF OnPage
    <3> QED
      BY <3>1, PageAdds
  <2> QED
    BY <1>2, <1>4, <2>1, <2>2
<1>7. CASE k.pc = "known" /\ Len(directory) <= s.page * PageSize
  <2>1. \A i \in 1..Len(directory) : directory[i] \in Read(k)
    BY <1>2, <1>4, <1>6, <1>7
  <2>2. Members \subseteq Read(k)
    BY <1>1, <2>1, RangeMembers DEF Members
  <2> QED
    BY <1>5, <1>7, <2>2 DEF Undisturbed
<1>8. CASE k.pc = "fetch" /\ k.page = s.page + 1
  <2>1. \A i \in 1..Len(directory) : i < FirstOf(k.page) => directory[i] \in Read(k)
    BY <1>2, <1>4, <1>6, <1>8
  <2> QED
    BY <1>5, <1>8, <2>1 DEF Undisturbed
<1> QED
  BY <1>7, <1>8 DEF Reads

(* The next member is reconciled: settled, if not still to come. *)
LEMMA UndisturbedSweeps ==
    ASSUME TypeInv, NEW s \in SweepState, NEW k \in SweepState, NEW un, Undisturbed(s, un),
           s.pc = "users", k.pc = "users", s.payloads # <<>>, k.payloads = Tail(s.payloads),
           k.orphans = s.orphans, UNCHANGED authentikVars,
           NEW proc, Lists(proc, un),
           Reconciled(Head(s.payloads).user, Head(s.payloads).want, Listing(proc))
    PROVE  Undisturbed(k, un)'
<1>0. PICK p, u : p = Head(s.payloads) /\ u = p.user
  OBVIOUS
<1>1. Range(s.payloads) = {p} \union Range(k.payloads)
  BY <1>0, TailRange DEF SweepState
<1>2. u \in Members /\ p = PayloadOf(u) /\ p \in Payload
  BY <1>0, <1>1, Payloads DEF Undisturbed
<1>3. u \in Users /\ p.want \in SUBSET Targets /\ Reconciled(u, p.want, Listing(proc))
  BY <1>0, <1>2, Payloads
<1>4. Members \subseteq Users
  BY MembersTyped
<1>5. /\ SettledFor(u, p.want, un)' /\ known' = known \union {u}
      /\ \A v \in Users : v # u => \A x : SettledFor(v, x, un) => SettledFor(v, x, un)'
  BY <1>3, Settling
<1>6. Read(s) = {u} \union Read(k)
  BY <1>0, <1>1 DEF Read
<1>7. Members' = Members /\ \A v : PayloadOf(v)' = PayloadOf(v)
  BY DEF Members, PayloadOf, authentikVars
<1>8. ASSUME NEW v \in Members PROVE v \in Read(k) \/ Settles(v, un)'
  <2>1. CASE v = u
    <3>1. SettledFor(v, PayloadOf(v).want, un)'
      BY <1>2, <1>5, <1>7, <2>1
    <3> QED
      BY <3>1 DEF Settles
  <2>2. CASE v # u /\ v \notin Read(k)
    <3>1. SettledFor(v, PayloadOf(v).want, un)
      BY <1>6, <2>2 DEF Undisturbed, Settles
    <3>2. SettledFor(v, PayloadOf(v).want, un)'
      BY <1>4, <1>5, <1>7, <2>2, <3>1
    <3> QED
      BY <3>2 DEF Settles
  <2> QED
    BY <2>1, <2>2
<1>9. /\ known' \ Members' \subseteq k.orphans
      /\ k.orphans \intersect Members' = {}
  BY <1>2, <1>5, <1>7 DEF Undisturbed
<1>10. \A q \in Range(k.payloads) : q.user \in Members' /\ q = PayloadOf(q.user)'
  BY <1>1, <1>7 DEF Undisturbed
<1> QED
  BY <1>7, <1>8, <1>9, <1>10 DEF Undisturbed, Read

(* The next orphan is reconciled with the own address alone. *)
LEMMA UndisturbedCollects ==
    ASSUME TypeInv, NEW s \in SweepState, NEW k \in SweepState, NEW un, Undisturbed(s, un),
           s.pc = "gc", k.pc = "gc", k.payloads = s.payloads, UNCHANGED authentikVars,
           NEW u \in s.orphans, k.orphans = s.orphans \ {u},
           NEW proc, Lists(proc, un), Reconciled(u, {Own[u]}, Listing(proc))
    PROVE  Undisturbed(k, un)'
<1>1. u \in Users /\ {Own[u]} \in SUBSET Targets
  BY Payloads
<1>2. /\ Bare(u)' /\ known' = known \union {u}
      /\ \A v \in Users : v # u => /\ \A x : SettledFor(v, x, un) => SettledFor(v, x, un)'
                                   /\ Bare(v) => Bare(v)'
  BY <1>1, Settling
<1>3. Members \subseteq Users /\ known \subseteq Users
  BY MembersTyped DEF TypeInv, TypeOK
<1>4. Members' = Members /\ \A v : PayloadOf(v)' = PayloadOf(v)
  BY DEF Members, PayloadOf, authentikVars
<1>5. u \notin Members
  BY DEF Undisturbed
<1>6. ASSUME NEW v \in Members PROVE Settles(v, un)'
  <2>1. SettledFor(v, PayloadOf(v).want, un)
    BY DEF Undisturbed, Settles
  <2>2. SettledFor(v, PayloadOf(v).want, un)'
    BY <1>2, <1>3, <1>4, <1>5, <2>1
  <2> QED
    BY <2>2 DEF Settles
<1>7. ASSUME NEW v \in known' \ Members' PROVE v \in k.orphans \/ Bare(v)'
  <2>1. CASE v = u
    BY <1>2, <2>1
  <2>2. CASE v # u
    <3>1. v \in known \ Members
      BY <1>2, <1>4, <1>7, <2>2
    <3>2. v \in s.orphans \/ Bare(v)
      BY <3>1 DEF Undisturbed
    <3> QED
      BY <1>2, <1>3, <2>2, <3>1, <3>2
  <2> QED
    BY <2>1, <2>2
<1>8. k.orphans \intersect Members' = {}
  BY <1>4 DEF Undisturbed
<1>9. \A q \in Range(k.payloads) : q.user \in Members' /\ q = PayloadOf(q.user)'
  BY <1>4 DEF Undisturbed
<1> QED
  BY <1>4, <1>6, <1>7, <1>8, <1>9 DEF Undisturbed

LEMMA ConvergeStep == ConvergeInv /\ [Next]_vars => ConvergeInv'
<1> SUFFICES ASSUME ConvergeInv, [Next]_vars PROVE ConvergeInv'
  OBVIOUS
<1>0. TypeInv
  BY DEF ConvergeInv
<1>1. TypeInv'
  BY <1>0, TypeStep
<1> SUFFICES ASSUME NEW x \in Workers,
                    NEW s, NEW k, NEW un,
                    s = sweep[x], k = sweep'[x], un = since'[x].unlisted, since'[x].calm
             PROVE  Undisturbed(k, un)' /\ Lists(ProcessOf[x], un)'
  BY <1>1 DEF ConvergeInv, Undisturbed, Members, Read, Settles, SettledFor, Bare,
              Rows, PayloadOf, FirstOf, Lists, Listing
<1>2. /\ s \in SweepState /\ k \in SweepState
      /\ since \in [Workers -> Since]
      /\ ProcessOf[x] \in Processes
  BY <1>0, <1>1, SweepAssumption DEF TypeInv, TypeOK
<1>3. since[x].calm /\ un = since[x].unlisted => Undisturbed(s, un) /\ Lists(ProcessOf[x], un)
  BY DEF ConvergeInv
<1>4. ASSUME k = s, since'[x] = since[x], UNCHANGED <<authentikVars, held, minted, known>>,
             UNCHANGED cached \/ \E q \in Processes : Expire(q)
      PROVE  Undisturbed(k, un)' /\ Lists(ProcessOf[x], un)'
  <2>1. Undisturbed(s, un) /\ Lists(ProcessOf[x], un)
    BY <1>3, <1>4
  <2>2. ncUsers' = ncUsers
    BY <1>4 DEF authentikVars
  <2>3. Lists(ProcessOf[x], un)'
    BY <1>0, <1>2, <1>4, <2>1, <2>2, ListsStill
  <2> QED
    BY <1>4, <2>1, <2>3, UndisturbedStays
<1>5. ASSUME NEW w \in Workers, StartSweep(w) \/ Step(w) \/ CrashSweep(w)
      PROVE  Undisturbed(k, un)' /\ Lists(ProcessOf[x], un)'
  <2>1. PICK e, f : e = sweep[w] /\ f = sweep'[w]
    OBVIOUS
  <2>2. Shape(w, e, f)
    BY <1>0, <2>1, SweepShape
  <2>3. Took(w, f) /\ UNCHANGED authentikVars
    BY <1>5, <2>2 DEF Shape, Step, Quietly
  <2>4. CASE x # w
    <3>0. k = s
      BY <2>3, <2>4 DEF Took
    <3>1. CASE SweepUser(w)
      <4>1. Reconcile(Head(e.payloads).user, Head(e.payloads).want, ProcessOf[w], {w})
        BY <2>2, <3>1 DEF Shape
      <4> QED
        BY <1>0, <2>4, <4>1, ReconcileShape
    <3>2. CASE Collect(w)
      <4>1. PICK u \in e.orphans : Reconcile(u, {Own[u]}, ProcessOf[w], {w})
        BY <2>2, <3>2 DEF Shape, Collects
      <4> QED
        BY <1>0, <2>4, <4>1, ReconcileShape
    <3>3. CASE Quietly
      BY <1>4, <3>0, <3>3 DEF Quietly, serviceVars
    <3>4. CASE StartSweep(w)
      <4>1. since' = [since EXCEPT ![w] = Begun(w)]
            /\ UNCHANGED <<authentikVars, serviceVars>>
        BY <3>4 DEF StartSweep, Begun
      <4>2. since'[x] = since[x]
        BY <1>2, <2>4, <4>1
      <4> QED
        BY <1>4, <3>0, <4>1, <4>2 DEF serviceVars
    <3> QED
      BY <1>5, <2>2, <3>1, <3>2, <3>3, <3>4 DEF Shape, Step
  <2>5. CASE x = w
    <3>0. e = s /\ f = k
      BY <2>1, <2>5
    <3>1. Shape(w, s, k)
      BY <2>2, <3>0
    <3>9. ncUsers' = ncUsers
      BY <2>3 DEF authentikVars
    <3>10. ASSUME Quietly
           PROVE  /\ Undisturbed(s, un) /\ Lists(ProcessOf[x], un)'
                  /\ UNCHANGED <<authentikVars, held, minted, known>>
      <4>1. UNCHANGED <<authentikVars, held, minted, known, cached, since>>
        BY <3>10 DEF Quietly, serviceVars
      <4>2. Undisturbed(s, un) /\ Lists(ProcessOf[x], un)
        BY <1>3, <4>1
      <4> QED
        BY <1>0, <1>2, <3>9, <4>1, <4>2, ListsStill
    <3>11. ASSUME NEW u, NEW want, Reconcile(u, want, ProcessOf[w], {w})
           PROVE  /\ Undisturbed(s, un) /\ Lists(ProcessOf[w], un)
                  /\ Reconciled(u, want, Listing(ProcessOf[w]))
                  /\ Lists(ProcessOf[x], un)'
      <4>1. /\ since[x].calm /\ un = since[x].unlisted
            /\ Reconciled(u, want, Listing(ProcessOf[w])) /\ AsksList(u, want, ProcessOf[w])
        BY <1>0, <3>11, ReconcileShape
      <4>2. Undisturbed(s, un) /\ Lists(ProcessOf[w], un)
        BY <1>3, <2>5, <4>1
      <4> QED
        BY <1>0, <1>2, <2>5, <3>9, <4>1, <4>2, ListsStill
    <3>2. CASE StartSweep(w)
      <4>1. k.pc = "fetch" /\ k.page = 1 /\ k.payloads = <<>>
        BY <3>1, <3>2 DEF Shape
      <4>2. Range(k.payloads) = {}
        BY <4>1 DEF Range
      <4>3. Len(directory') \in Nat /\ FirstOf(1)' = 1
        <5>1. directory' \in Seq(Users)
          BY <1>1 DEF TypeInv, TypeOK
        <5>2. FirstOf(1)' = FirstOf(1)
          BY DEF FirstOf
        <5> QED
          BY <5>1, <5>2, LenProperties, PageBounds
      <4>4. \A i \in 1..Len(directory') : ~(i < FirstOf(k.page)')
        BY <4>1, <4>3
      <4>5. Lists(ProcessOf[x], un)'
        <5>1. since' = [since EXCEPT ![w] = Begun(w)] /\ UNCHANGED serviceVars
          BY <3>1, <3>2 DEF Shape
        <5>2. un = ncUsers \ Listing(ProcessOf[x])
          BY <1>2, <2>5, <5>1 DEF Begun
        <5>3. Listing(ProcessOf[x])' = Listing(ProcessOf[x])
          BY <3>9, <5>1 DEF Listing, serviceVars
        <5> QED
          BY <3>9, <5>2, <5>3 DEF Lists
      <4> QED
        BY <4>1, <4>2, <4>4, <4>5 DEF Undisturbed
    <3>3. CASE FetchPage(w)
      <4>1. Reads(s, k) /\ Quietly
        BY <3>1, <3>3 DEF Shape
      <4>2. Undisturbed(k, un)
        BY <1>0, <1>2, <3>10, <4>1, UndisturbedReads
      <4> QED
        BY <3>10, <4>1, <4>2, UndisturbedStays
    <3>4. CASE FetchFails(w) \/ EndSweep(w) \/ CrashSweep(w)
      <4>1. k = Idle /\ Quietly
        BY <3>1, <3>4 DEF Shape
      <4>2. k.pc = "idle" /\ Range(k.payloads) = {}
        BY <4>1 DEF Idle, Range
      <4> QED
        BY <3>10, <4>1, <4>2 DEF Undisturbed
    <3>5. CASE ReadKnown(w)
      <4>1. /\ s.pc = "known" /\ k.pc = "users" /\ k.payloads = s.payloads
            /\ k.orphans = known \ Fetched(w) /\ Quietly
        BY <3>1, <3>5 DEF Shape
      <4>2. Fetched(w) = Read(s) /\ Read(k) = Read(s)
        BY <2>1, <3>0, <4>1 DEF Fetched, Read
      <4>3. Undisturbed(s, un)
        BY <3>10, <4>1
      <4>4. Members \subseteq Read(k)
        BY <4>1, <4>2, <4>3 DEF Undisturbed
      <4>5. known \ Members \subseteq k.orphans /\ k.orphans \intersect Members = {}
        <5>1. Read(s) \subseteq Members
          BY <4>3 DEF Undisturbed, Read
        <5> QED
          BY <4>1, <4>2, <4>4, <5>1
      <4>6. Undisturbed(k, un)
        BY <4>1, <4>3, <4>4, <4>5 DEF Undisturbed
      <4> QED
        BY <3>10, <4>1, <4>6, UndisturbedStays
    <3>6. CASE SweepUser(w)
      <4>1. /\ s.pc = "users" /\ k.pc = "users" /\ s.payloads # <<>>
            /\ k.payloads = Tail(s.payloads) /\ k.orphans = s.orphans
            /\ Reconcile(Head(s.payloads).user, Head(s.payloads).want, ProcessOf[w], {w})
        BY <3>1, <3>6 DEF Shape
      <4> QED
        BY <1>0, <1>2, <2>3, <3>11, <4>1, UndisturbedSweeps
    <3>7. CASE EndUsers(w)
      <4>1. /\ s.pc = "users" /\ k.pc = "gc" /\ s.payloads = <<>>
            /\ k.payloads = s.payloads /\ k.orphans = s.orphans /\ Quietly
        BY <3>1, <3>7 DEF Shape
      <4>2. Undisturbed(s, un)
        BY <3>10, <4>1
      <4>3. Read(s) = {}
        BY <4>1 DEF Read, Range
      <4>4. Undisturbed(k, un)
        BY <4>1, <4>2, <4>3 DEF Undisturbed
      <4> QED
        BY <3>10, <4>1, <4>4, UndisturbedStays
    <3>8. CASE Collect(w)
      <4>1. /\ s.pc = "gc" /\ k.pc = "gc" /\ k.payloads = s.payloads /\ Collects(s, k, w)
        BY <3>1, <3>8 DEF Shape
      <4>2. PICK u \in s.orphans :
               k.orphans = s.orphans \ {u} /\ Reconcile(u, {Own[u]}, ProcessOf[w], {w})
        BY <4>1 DEF Collects
      <4> QED
        BY <1>0, <1>2, <2>3, <3>11, <4>1, <4>2, UndisturbedCollects
    <3> QED
      BY <1>5, <3>2, <3>3, <3>4, <3>5, <3>6, <3>7, <3>8 DEF Step
  <2> QED
    BY <2>4, <2>5
<1>6. CASE Webhook
  <2>1. PICK p \in inbox, q \in Processes : Reconcile(p.user, p.want, q, {})
    BY <1>6 DEF Webhook
  <2> QED
    BY <1>0, <2>1, ReconcileShape
<1>7. CASE Happens
  <2>1. PICK kind : Event(kind)
    BY <1>0, <1>7, EventTyped
  <2>2. directory' \in Seq(Users)
    BY <1>1 DEF TypeInv, TypeOK
  <2> QED
    BY <1>0, <2>1, <2>2, EventShape
<1>8. CASE UNCHANGED vars
  <2>1. /\ k = s /\ since'[x] = since[x] /\ UNCHANGED cached
        /\ UNCHANGED <<authentikVars, held, minted, known>>
    BY <1>8 DEF vars, authentikVars, serviceVars
  <2> QED
    BY <1>4, <2>1
<1>9. ASSUME NEW q \in Processes, Expire(q)
      PROVE  Undisturbed(k, un)' /\ Lists(ProcessOf[x], un)'
  <2>1. /\ k = s /\ since'[x] = since[x]
        /\ UNCHANGED <<authentikVars, held, minted, known>>
    BY <1>9 DEF Expire, authentikVars
  <2> QED
    BY <1>4, <1>9, <2>1
<1> QED
  BY <1>5, <1>6, <1>7, <1>8, <1>9 DEF Next, Happens

(* A sweep that nothing disturbed -- no event, no failure, no webhook and no  *)
(* other sweep's reconcile -- ends with the rows Authentik and Mailcow say:   *)
(* a member has no others, in Nextcloud or in Thunderbird, and has them all   *)
(* if Nextcloud knows the user and a list the process still kept at the       *)
(* beginning did not lack him; everybody else in sync_users_seen has none but *)
(* for the own mailbox -- whatever the rows were when it began, however       *)
(* Authentik's list is cut into pages and whenever Nextcloud's is read anew.  *)
THEOREM UndisturbedConverges == Spec => SweepConverges
<1>1. Init => ConvergeInv
  BY SweepInitially DEF ConvergeInv
<1>2. ConvergeInv =>
         [\A w \in Workers :
             Ends(w) /\ since[w].calm =>
                \A u \in Users :
                   IF u \in Members
                   THEN /\ held[u] \subseteq PayloadOf(u).want \intersect Mailboxes
                        /\ u \in ncUsers \ since[w].unlisted
                              => held[u] = PayloadOf(u).want \intersect Mailboxes
                        /\ minted[u] \subseteq PayloadOf(u).want
                   ELSE u \in known => Rows(u) \subseteq {Own[u]}]_vars
  <2>1. ASSUME ConvergeInv, NEW w \in Workers, Ends(w), since[w].calm, NEW u \in Users
        PROVE  IF u \in Members
               THEN /\ held[u] \subseteq PayloadOf(u).want \intersect Mailboxes
                    /\ u \in ncUsers \ since[w].unlisted
                          => held[u] = PayloadOf(u).want \intersect Mailboxes
                    /\ minted[u] \subseteq PayloadOf(u).want
               ELSE u \in known => Rows(u) \subseteq {Own[u]}
    <3>1. /\ Undisturbed(sweep[w], since[w].unlisted)
          /\ sweep[w].pc = "gc" /\ sweep[w].orphans = {}
      BY <2>1 DEF ConvergeInv, Ends, At
    <3>2. u \in Members => Settles(u, since[w].unlisted)
      BY <3>1 DEF Undisturbed
    <3>3. u \in known \ Members => Bare(u)
      BY <3>1 DEF Undisturbed
    <3> QED
      BY <3>2, <3>3 DEF Settles, SettledFor, Bare
  <2> QED
    BY <2>1
<1> QED
  BY <1>1, <1>2, ConvergeStep, PTL DEF Spec, SweepConverges

=============================================================================
