------------------------- MODULE PerKeyLock_proofs -------------------------
(***************************************************************************)
(* Theorems about PerKeyLock, for every set of keys, threads and locks.    *)
(***************************************************************************)
EXTENDS PerKeyLock, TLAPS

(* The pool's lock is held exactly while its dictionary is looked at. *)
PoolGuarded == \A t \in Threads : pc[t] \in {"get", "make", "leave"} <=> poolLock = t

(* What each thread's locals are worth at each of its steps *)
LocalsSound ==
    \A t \in Threads :
       /\ pc[t] # "out" => key[t] \in Keys
       /\ pc[t] = "make" => pool[key[t]] = None
       /\ pc[t] \in {"leave", "wait", "in"} =>
             lock[t] \in Locks /\ lock[t] = pool[key[t]]
       /\ pc[t] = "in" => holder[lock[t]] = t

(* No lock serves two keys, and a lock that is held serves one. *)
PoolSound ==
    /\ \A k, m \in Keys : pool[k] # None /\ pool[k] = pool[m] => k = m
    /\ \A l \in Locks : holder[l] # None => \E k \in Keys : pool[k] = l

LInv == TypeOK /\ PoolGuarded /\ LocalsSound /\ PoolSound

LEMMA LockInit == Init => LInv
BY PerKeyLockAssumption
   DEF Init, LInv, TypeOK, Labels, PoolGuarded, LocalsSound, PoolSound

LEMMA LockNext == LInv /\ [Next]_vars => LInv'
<1> SUFFICES ASSUME LInv, [Next]_vars
             PROVE  LInv'
  OBVIOUS
<1> USE DEF LInv, TypeOK, Labels, PoolGuarded, LocalsSound, PoolSound, Move
<1>1. ASSUME NEW t \in Threads, Call(t)
      PROVE  LInv'
  BY <1>1 DEF Call
<1>2. ASSUME NEW t \in Threads, EnterPool(t)
      PROVE  LInv'
  BY <1>2, PerKeyLockAssumption DEF EnterPool
<1>3. ASSUME NEW t \in Threads, Get(t)
      PROVE  LInv'
  BY <1>3, PerKeyLockAssumption DEF Get
<1>4. ASSUME NEW t \in Threads, Make(t)
      PROVE  LInv'
  BY <1>4, PerKeyLockAssumption DEF Make, Unmade
<1>5. ASSUME NEW t \in Threads, LeavePool(t)
      PROVE  LInv'
  BY <1>5, PerKeyLockAssumption DEF LeavePool
<1>6. ASSUME NEW t \in Threads, Acquire(t)
      PROVE  LInv'
  BY <1>6, PerKeyLockAssumption DEF Acquire
<1>7. ASSUME NEW t \in Threads, Release(t)
      PROVE  LInv'
  BY <1>7, PerKeyLockAssumption DEF Release
<1>8. CASE UNCHANGED vars
  BY <1>8 DEF vars
<1> QED
  BY <1>1, <1>2, <1>3, <1>4, <1>5, <1>6, <1>7, <1>8 DEF Next, GetIn

THEOREM LockInductive == Spec => []LInv
BY LockInit, LockNext, PTL DEF Spec

(* The pool, the locks and the locals of _lock_for and per_key_lock keep    *)
(* their types in every interleaving of the threads.                         *)
THEOREM LockTypeCorrect == Spec => []TypeOK
<1>1. LInv => TypeOK
  BY DEF LInv
<1> QED
  BY <1>1, LockInductive, PTL

---------------------------------------------------------------------------
(* Who is in which block changes only in Acquire and Release. *)
Insides == [t \in Threads |-> InsideOf(t)]

LEMMA InsideInit == Init => Mutex!Init
BY DEF Init, Mutex!Init, InsideOf

LEMMA InsideNext == LInv /\ [Next]_vars => [Mutex!Next]_Insides
<1> SUFFICES ASSUME LInv, [Next]_vars
             PROVE  Mutex!Next \/ UNCHANGED Insides
  BY DEF Insides
<1>1. ASSUME NEW t \in Threads,
             Call(t) \/ EnterPool(t) \/ Get(t) \/ Make(t) \/ LeavePool(t)
      PROVE  UNCHANGED Insides
  <2>1. \A s \in Threads : InsideOf(s)' = InsideOf(s)
    BY <1>1 DEF Call, EnterPool, Get, Make, LeavePool, Move, InsideOf, LInv, TypeOK
  <2> QED
    BY <2>1 DEF Insides
<1>2. ASSUME NEW t \in Threads, Acquire(t)
      PROVE  key[t] \in Keys /\ Mutex!Enter(t, key[t])
  <2>1. /\ key[t] \in Keys /\ lock[t] \in Locks /\ lock[t] = pool[key[t]]
        /\ holder[lock[t]] = None
        /\ pc[t] = "wait" /\ pc' = [pc EXCEPT ![t] = "in"] /\ key' = key
    BY <1>2 DEF Acquire, Move, LInv, TypeOK, LocalsSound
  <2>2. \A s \in Threads : InsideOf(s) # key[t]
    BY <2>1, PerKeyLockAssumption DEF InsideOf, LInv, TypeOK, LocalsSound
  <2>3. \A s \in Threads : InsideOf(s)' = IF s = t THEN key[t] ELSE InsideOf(s)
    BY <2>1 DEF InsideOf, LInv, TypeOK
  <2>4. InsideOf(t) = None
    BY <2>1 DEF InsideOf
  <2> QED
    BY <2>1, <2>2, <2>3, <2>4 DEF Mutex!Enter
<1>3. ASSUME NEW t \in Threads, Release(t)
      PROVE  Mutex!Leave(t)
  <2>1. /\ key[t] \in Keys /\ pc[t] = "in"
        /\ pc' = [pc EXCEPT ![t] = "out"] /\ key' = [key EXCEPT ![t] = None]
    BY <1>3 DEF Release, Move, LInv, LocalsSound
  <2>2. InsideOf(t) # None
    BY <2>1, PerKeyLockAssumption DEF InsideOf
  <2>3. \A s \in Threads : InsideOf(s)' = IF s = t THEN None ELSE InsideOf(s)
    BY <2>1 DEF InsideOf, LInv, TypeOK
  <2> QED
    BY <2>2, <2>3 DEF Mutex!Leave
<1>4. CASE UNCHANGED vars
  BY <1>4 DEF vars, Insides, InsideOf
<1> QED
  BY <1>1, <1>2, <1>3, <1>4 DEF Next, GetIn, Mutex!Next

(* The pool of lazily made locks implements one mutex per key. *)
THEOREM LockImplementsMutex == Spec => ImplementsMutex
BY InsideInit, InsideNext, LockInductive, PTL DEF Spec, ImplementsMutex, Mutex!Spec, Insides

=============================================================================
