---------------------------- MODULE KeyedMutex ----------------------------
(***************************************************************************)
(* What per_key_lock of app/locks.py promises its callers inside one       *)
(* process: a thread enters its block while no other is in one of the same *)
(* key, whatever happens under other keys.                                 *)
(***************************************************************************)
CONSTANTS Keys, Threads, None

VARIABLE inside  \* the key whose `with' block each thread is in, or None

Init == inside = [t \in Threads |-> None]

Enter(t, k) ==
    /\ inside[t] = None
    /\ \A s \in Threads : inside[s] # k
    /\ inside' = [inside EXCEPT ![t] = k]

Leave(t) ==
    /\ inside[t] # None
    /\ inside' = [inside EXCEPT ![t] = None]

Next == \E t \in Threads : Leave(t) \/ \E k \in Keys : Enter(t, k)

Spec == Init /\ [][Next]_inside

=============================================================================
