---------------------------- MODULE PerKeyLock ----------------------------
(***************************************************************************)
(* app/locks.py inside one process: a pool of locks, one per key, made on  *)
(* demand under the pool's own lock and never removed.  A lock is a        *)
(* threading.Lock, which does not know its owner.                          *)
(*                                                                         *)
(* reconcile_user, the only caller, never calls per_key_lock inside its    *)
(* `with' block, so a thread has at most one key at a time.                *)
(***************************************************************************)
CONSTANTS Keys,     \* user addresses
          Threads,
          Locks,    \* the Lock objects that may be made
          None

ASSUME PerKeyLockAssumption ==
    /\ None \notin Threads
    /\ None \notin Locks
    /\ None \notin Keys

VARIABLES pool,      \* _pool: the lock of each key, or None
          poolLock,  \* the thread that holds _pool_lock, or None
          holder,    \* the thread each lock is locked by, or None
          pc, key, lock   \* each thread's position and locals

vars == <<pool, poolLock, holder, pc, key, lock>>

Labels == {"out", "enter", "get", "make", "leave", "wait", "in"}

TypeOK ==
    /\ pool \in [Keys -> Locks \union {None}]
    /\ poolLock \in Threads \union {None}
    /\ holder \in [Locks -> Threads \union {None}]
    /\ pc \in [Threads -> Labels]
    /\ key \in [Threads -> Keys \union {None}]
    /\ lock \in [Threads -> Locks \union {None}]

Init ==
    /\ pool = [k \in Keys |-> None]
    /\ poolLock = None
    /\ holder = [l \in Locks |-> None]
    /\ pc = [t \in Threads |-> "out"]
    /\ key = [t \in Threads |-> None]
    /\ lock = [t \in Threads |-> None]

Move(t, from, to) == pc[t] = from /\ pc' = [pc EXCEPT ![t] = to]

(* A lock object that is in no dictionary and in no local *)
Unmade == {l \in Locks : /\ \A k \in Keys : pool[k] # l
                         /\ \A t \in Threads : lock[t] # l}

Call(t) ==
    /\ Move(t, "out", "enter")
    /\ \E k \in Keys : key' = [key EXCEPT ![t] = k]
    /\ UNCHANGED <<pool, poolLock, holder, lock>>

(* Mutant of EnterPool: _lock_for without `with _pool_lock' *)
EnterPoolUnlocked(t) ==
    /\ Move(t, "enter", "get")
    /\ UNCHANGED <<pool, poolLock, holder, key, lock>>

EnterPool(t) ==
    /\ Move(t, "enter", "get")
    /\ poolLock = None
    /\ poolLock' = t
    /\ UNCHANGED <<pool, holder, key, lock>>

Get(t) ==
    /\ Move(t, "get", IF pool[key[t]] = None THEN "make" ELSE "leave")
    /\ lock' = [lock EXCEPT ![t] = pool[key[t]]]
    /\ UNCHANGED <<pool, poolLock, holder, key>>

(* Mutant of Make: the wrong local goes into the dictionary *)
MakeMisplaced(t) ==
    /\ Move(t, "make", "leave")
    /\ \E l \in Unmade : lock' = [lock EXCEPT ![t] = l]
    /\ pool' = [pool EXCEPT ![key[t]] = key[t]]
    /\ UNCHANGED <<poolLock, holder, key>>

Make(t) ==
    /\ Move(t, "make", "leave")
    /\ \E l \in Unmade : /\ lock' = [lock EXCEPT ![t] = l]
                         /\ pool' = [pool EXCEPT ![key[t]] = l]
    /\ UNCHANGED <<poolLock, holder, key>>

(* Mutant of LeavePool: the key's lock is taken before the pool's is released *)
LeavePoolHolding(t) ==
    /\ Move(t, "leave", "wait")
    /\ holder[lock[t]] = None
    /\ poolLock' = None
    /\ UNCHANGED <<pool, holder, key, lock>>

LeavePool(t) ==
    /\ Move(t, "leave", "wait")
    /\ poolLock' = None
    /\ UNCHANGED <<pool, holder, key, lock>>

Acquire(t) ==
    /\ Move(t, "wait", "in")
    /\ holder[lock[t]] = None
    /\ holder' = [holder EXCEPT ![lock[t]] = t]
    /\ UNCHANGED <<pool, poolLock, key, lock>>

(* The end of the `with' block, also when an exception leaves it *)
Release(t) ==
    /\ Move(t, "in", "out")
    /\ holder' = [holder EXCEPT ![lock[t]] = None]
    /\ key' = [key EXCEPT ![t] = None]
    /\ lock' = [lock EXCEPT ![t] = None]
    /\ UNCHANGED <<pool, poolLock>>

(* What a thread does by itself to get into its block *)
GetIn(t) == EnterPool(t) \/ Get(t) \/ Make(t) \/ LeavePool(t) \/ Acquire(t)

Next == \E t \in Threads : Call(t) \/ GetIn(t) \/ Release(t)

Spec == Init /\ [][Next]_vars

(* Python schedules every thread.  The pool's lock is held for three short    *)
(* steps and released again and again, so who waits for it gets it; a key's   *)
(* lock is only got if it stays free.  Nobody has to call, and nobody has to  *)
(* leave the block: a reconcile may take minutes.                             *)
FairSpec ==
    /\ Spec
    /\ \A t \in Threads :
          /\ WF_vars(Get(t) \/ Make(t) \/ LeavePool(t))
          /\ SF_vars(EnterPool(t))
          /\ WF_vars(Acquire(t))

---------------------------------------------------------------------------
(* The key whose block a thread is in, as its caller sees it *)
InsideOf(t) == IF pc[t] = "in" THEN key[t] ELSE None

Mutex == INSTANCE KeyedMutex WITH inside <- [t \in Threads |-> InsideOf(t)]

(* "two concurrent webhooks for the same user serialize", inside one process: *)
(* the pool with its lazily made locks is a mutex for each key.  Its steps    *)
(* are an entry where nobody else is inside, an exit, or invisible.           *)
ImplementsMutex == Mutex!Spec

(* "Different users do not block each other": a thread that asks for a key     *)
(* gets in, or the very key it wants is held, even if the holders of all       *)
(* other keys stay inside for ever.                                            *)
OthersDoNotBlock ==
    \A t \in Threads, k \in Keys :
       (pc[t] = "enter" /\ key[t] = k) ~>
          (pc[t] = "in" \/ \E s \in Threads \ {t} : key[s] = k /\ pc[s] = "in")

=============================================================================
