------------------------ MODULE GroupClosure_proofs ------------------------
(***************************************************************************)
(* The walk of with_ancestors is exact for every set of groups, every      *)
(* parent relation and every index.                                        *)
(***************************************************************************)
EXTENDS GroupClosure, TLAPS

(* What was found so far, expanded or still to be *)
Found == seen \union (Stacked \intersect index)

(* Nothing found is outside the closure, and what is not yet found will be *)
(* reached from the stack.                                                 *)
CInv ==
    /\ TypeOK
    /\ seen \subseteq index
    /\ direct \intersect index \subseteq Found
    /\ \A g \in seen : parents[g] \intersect index \subseteq Found
    /\ \A S \in SUBSET index : Inherits(S) => Found \subseteq S
    /\ payload # None => Stacked = {} /\ payload = Aggregated

LEMMA CountTyped ==
    ASSUME NEW keys, NEW g
    PROVE  Count(keys, g) \in Nat /\ (Count(keys, g) > 0 <=> g \in keys)
BY DEF Count

LEMMA ClosureInit == Init => CInv
<1> SUFFICES ASSUME Init PROVE CInv
  OBVIOUS
<1>1. \A g \in Pks : stack[g] \in Nat /\ (stack[g] > 0 <=> g \in direct)
  BY CountTyped DEF Init
<1>2. Stacked = direct
  BY <1>1 DEF Init, Stacked
<1>3. TypeOK
  <2>1. stack = [g \in Pks |-> Count(direct, g)]
    BY DEF Init
  <2>2. stack \in [Pks -> Nat]
    BY <1>1, <2>1
  <2> QED
    BY <2>2 DEF Init, TypeOK
<1> QED
  BY <1>2, <1>3 DEF Init, CInv, Found, Inherits

LEMMA ClosureNext == CInv /\ [Next]_vars => CInv'
<1> SUFFICES ASSUME CInv, [Next]_vars
             PROVE  CInv'
  OBVIOUS
<1>1. TypeOK
  BY DEF CInv
<1>2. ASSUME NEW g \in Pks, Skip(g)
      PROVE  CInv'
  <2>1. /\ UNCHANGED <<input, seen, payload>>
        /\ g \in seen \/ g \notin index
        /\ stack' = [stack EXCEPT ![g] = stack[g] - 1]
        /\ stack[g] > 0
    BY <1>2 DEF Skip, Popped
  <2>2. stack' \in [Pks -> Nat]
    BY <1>1, <2>1 DEF TypeOK
  <2>3. \A h \in Pks \ {g} : stack'[h] = stack[h]
    BY <1>1, <2>1 DEF TypeOK
  <2>4. Found' = Found
    BY <2>1, <2>3 DEF Found, Stacked, input
  <2>5. TypeOK'
    BY <1>1, <2>1, <2>2 DEF TypeOK, input
  <2>6. payload' = None
    BY <2>1 DEF CInv, Stacked
  <2> QED
    BY <2>1, <2>4, <2>5, <2>6 DEF CInv, Inherits, input
<1>3. ASSUME NEW g \in Pks, Expand(g)
      PROVE  CInv'
  <2>1. /\ UNCHANGED <<input, payload>>
        /\ g \in index \ seen
        /\ stack[g] > 0
        /\ seen' = seen \union {g}
        /\ \A h \in Pks \ {g} : stack'[h] = stack[h] + Count(parents[g], h)
        /\ stack'[g] = stack[g] - 1 + Count(parents[g], g)
    BY <1>1, <1>3 DEF Expand, Popped, TypeOK
  <2>2. stack' \in [Pks -> Nat]
    <3>1. \A h \in Pks : stack'[h] = Popped(g)[h] + Count(parents[g], h)
      BY <1>3 DEF Expand
    <3>2. \A h \in Pks : Popped(g)[h] \in Nat
      BY <1>1, <2>1 DEF Popped, TypeOK
    <3>3. stack' = [h \in Pks |-> Popped(g)[h] + Count(parents[g], h)]
      BY <1>3 DEF Expand
    <3> QED
      BY <3>1, <3>2, <3>3, CountTyped
  <2>3. \A h \in Pks \ {g} : stack'[h] > 0 <=> (stack[h] > 0 \/ h \in parents[g])
    BY <1>1, <2>1, CountTyped DEF TypeOK
  <2>4. Found' = Found \union (parents[g] \intersect index)
    BY <1>1, <2>1, <2>3 DEF Found, Stacked, TypeOK, input
  <2>5. TypeOK'
    BY <1>1, <2>1, <2>2 DEF TypeOK, input
  <2>6. seen' \subseteq index' /\ (direct \intersect index \subseteq Found)'
    BY <2>1, <2>4 DEF CInv, input
  <2>7. (\A h \in seen : parents[h] \intersect index \subseteq Found)'
    BY <2>1, <2>4 DEF CInv, input
  <2>8. ASSUME NEW S \in SUBSET index, Inherits(S)
        PROVE  Found' \subseteq S
    <3>1. Found \subseteq S
      BY <2>8 DEF CInv
    <3>2. g \in S
      BY <2>1, <3>1 DEF Found, Stacked
    <3> QED
      BY <2>4, <2>8, <3>1, <3>2 DEF Inherits
  <2>9. payload' = None
    BY <2>1 DEF CInv, Stacked
  <2> QED
    BY <2>1, <2>5, <2>6, <2>7, <2>8, <2>9 DEF CInv, Inherits, input
<1>4. CASE Finish
  <2>1. /\ UNCHANGED <<input, stack, seen>>
        /\ Stacked = {}
        /\ payload' = Aggregated
    BY <1>4 DEF Finish
  <2>2. Aggregated \in SUBSET Targets
    BY <1>1 DEF TypeOK, Aggregated, SharedBy
  <2>3. TypeOK'
    BY <1>1, <2>1, <2>2 DEF TypeOK, input
  <2>4. Aggregated' = Aggregated /\ Stacked' = Stacked /\ Found' = Found
    BY <2>1 DEF Aggregated, SharedBy, Stacked, Found, input
  <2> QED
    BY <2>1, <2>3, <2>4 DEF CInv, Inherits, input
<1>5. CASE UNCHANGED vars
  BY <1>5 DEF vars, input, CInv, TypeOK, Found, Stacked, Inherits, Aggregated, SharedBy
<1> QED
  BY <1>2, <1>3, <1>4, <1>5 DEF Next

THEOREM ClosureInductive == Spec => []CInv
BY ClosureInit, ClosureNext, PTL DEF Spec

(* The walk keeps its types: only keys of the directory's groups are stacked. *)
THEOREM ClosureTypeCorrect == Spec => []TypeOK
<1>1. CInv => TypeOK
  BY DEF CInv
<1> QED
  BY <1>1, ClosureInductive, PTL

(* For every directory: when the stack is empty, exactly the direct groups of *)
(* the index and their ancestors in the index have been seen.                 *)
THEOREM ClosureIsExact == Spec => []ClosureExact
<1>1. CInv => ClosureExact
  BY DEF CInv, ClosureExact, Found, Inherits
<1> QED
  BY <1>1, ClosureInductive, PTL

(* The payload is the one the docstring defines, without a stack: the union    *)
(* over the user, the direct groups, and the groups that every set closed      *)
(* under inheritance must hold.                                                *)
THEOREM PayloadIsExact == Spec => []PayloadExact
<1>1. ASSUME CInv, payload # None
      PROVE  payload = {m \in Targets \ {email} :
                          \/ m \in own
                          \/ \E g \in direct : m \in shared[g]
                          \/ \A S \in SUBSET index :
                                Inherits(S) => \E g \in S : m \in shared[g]}
  <2>1. Found = seen /\ seen \in SUBSET index /\ Inherits(seen)
    BY <1>1 DEF CInv, Found, Inherits
  <2>2. \A S \in SUBSET index : Inherits(S) => seen \subseteq S
    BY <1>1, <2>1 DEF CInv
  <2>3. ASSUME NEW m \in Targets
        PROVE  (\E g \in seen : m \in shared[g]) <=>
               \A S \in SUBSET index : Inherits(S) => \E g \in S : m \in shared[g]
    BY <2>1, <2>2
  <2>4. payload \subseteq Targets \ {email}
    BY <1>1 DEF CInv, TypeOK, Aggregated, SharedBy
  <2>5. ASSUME NEW m \in Targets \ {email}
        PROVE  m \in payload <=>
                 (\/ m \in own
                  \/ \E g \in direct : m \in shared[g]
                  \/ \E g \in seen : m \in shared[g])
    BY <1>1 DEF CInv, Aggregated, SharedBy
  <2> QED
    BY <2>3, <2>4, <2>5
<1>2. CInv => PayloadExact
  BY <1>1 DEF PayloadExact
<1> QED
  BY <1>2, ClosureInductive, PTL

=============================================================================
