---------------------------- MODULE GroupClosure ----------------------------
(***************************************************************************)
(* What app/authentik.py makes of one user: list_users_for_sync joins the  *)
(* shared_mailboxes of the user's groups, of all their ancestors and of    *)
(* the user's own attributes.  with_ancestors walks the parent relation    *)
(* with an explicit stack; the walk is the state machine of this module.   *)
(*                                                                         *)
(* The directory is arbitrary: parent loops, parents the index does not    *)
(* know (not visible to the service account, or missed while the pages     *)
(* moved), and an index that is empty because the permission is missing.   *)
(***************************************************************************)
EXTENDS Naturals

CONSTANTS Pks,      \* primary keys of groups
          Targets,  \* mailbox addresses
          None      \* no payload yet

VARIABLES parents,  \* the parents of each group
          shared,   \* attributes.shared_mailboxes of each group
          index,    \* the groups that group_index returned
          direct,   \* direct_pks: the groups embedded in the user
          own,      \* the user's own attributes.shared_mailboxes
          email,    \* the user's address, which may be a mailbox, too
          stack,    \* how often each key lies on the stack
          seen,     \* keys that were expanded
          payload   \* shared_mailboxes of the payload, or None before the end

input == <<parents, shared, index, direct, own, email>>
vars == <<input, stack, seen, payload>>

Count(keys, g) == IF g \in keys THEN 1 ELSE 0

TypeOK ==
    /\ parents \in [Pks -> SUBSET Pks]
    /\ shared \in [Pks -> SUBSET Targets]
    /\ index \subseteq Pks
    /\ direct \subseteq Pks
    /\ own \subseteq Targets
    /\ email \in Targets
    /\ stack \in [Pks -> Nat]
    /\ seen \subseteq Pks
    /\ payload \in (SUBSET Targets) \union {None}

Init ==
    /\ parents \in [Pks -> SUBSET Pks]
    /\ shared \in [Pks -> SUBSET Targets]
    /\ index \in SUBSET Pks
    /\ direct \in SUBSET Pks
    /\ own \in SUBSET Targets
    /\ email \in Targets
    /\ stack = [g \in Pks |-> Count(direct, g)]
    /\ seen = {}
    /\ payload = None

---------------------------------------------------------------------------
Stacked == {g \in Pks : stack[g] > 0}

Popped(g) == [stack EXCEPT ![g] = @ - 1]

(* Mutant of Skip: pops without asking whether the stack is empty *)
SkipUnstacked(g) ==
    /\ g \in seen \/ g \notin index
    /\ stack' = Popped(g)
    /\ UNCHANGED <<input, seen, payload>>

(* A key that was expanded before, or that the index does not have *)
Skip(g) ==
    /\ stack[g] > 0
    /\ g \in seen \/ g \notin index
    /\ stack' = Popped(g)
    /\ UNCHANGED <<input, seen, payload>>

(* Mutant of Expand: the parents of a group are pushed again and again *)
ExpandUnmarked(g) ==
    /\ stack[g] > 0
    /\ g \in index \ seen
    /\ stack' = [h \in Pks |-> IF h \in parents[g] THEN 1 ELSE Popped(g)[h]]
    /\ UNCHANGED <<input, seen, payload>>

(* Mutant of Expand: the parents are marked, but not pushed *)
ExpandParentsOnly(g) ==
    /\ stack[g] > 0
    /\ g \in index \ seen
    /\ seen' = seen \union {g} \union (parents[g] \intersect index)
    /\ stack' = Popped(g)
    /\ UNCHANGED <<input, payload>>

Expand(g) ==
    /\ stack[g] > 0
    /\ g \in index \ seen
    /\ seen' = seen \union {g}
    /\ stack' = [h \in Pks |-> Popped(g)[h] + Count(parents[g], h)]
    /\ UNCHANGED <<input, payload>>

SharedBy(groups) == UNION {shared[g] : g \in groups}

(* Mutant of Aggregated: only what the index knows counts *)
AggregatedIndexed == (SharedBy(seen) \union own) \ {email}

(* The union: direct groups as embedded, ancestors from the index, the user *)
Aggregated == (SharedBy(direct) \union SharedBy(seen) \union own) \ {email}

Finish ==
    /\ Stacked = {}
    /\ payload = None
    /\ payload' = Aggregated
    /\ UNCHANGED <<input, stack, seen>>

Next == (\E g \in Pks : Skip(g) \/ Expand(g)) \/ Finish

(* The loop runs until it ends *)
Spec == Init /\ [][Next]_vars
FairSpec == Spec /\ WF_vars(Next)

---------------------------------------------------------------------------
(* A set of known groups that holds the direct ones and, with a group, its *)
(* known parents                                                           *)
Inherits(S) ==
    /\ direct \intersect index \subseteq S
    /\ \A g \in S : parents[g] \intersect index \subseteq S

(* When the stack is empty, the groups seen are the transitive closure over   *)
(* the parent relation, cycles or not: they hold the direct groups and all    *)
(* their known ancestors, and no group that is neither.                       *)
ClosureExact ==
    Stacked = {} =>
       /\ Inherits(seen)
       /\ \A S \in SUBSET index : Inherits(S) => seen \subseteq S

(* The payload is the union that its docstring promises, over the groups the    *)
(* user is in or inherits from: an address is in it iff the user's attributes   *)
(* or a direct group share it, or no set closed under inheritance can avoid a   *)
(* group that does.  So a missing permission or a group missed on the way       *)
(* "degrades to fewer mailboxes instead of none", and an ancestor counts even   *)
(* when the walk meets it twice.                                                *)
PayloadExact ==
    payload # None =>
       payload = {m \in Targets \ {email} :
                    \/ m \in own
                    \/ \E g \in direct : m \in shared[g]
                    \/ \A S \in SUBSET index :
                          Inherits(S) => \E g \in S : m \in shared[g]}

(* "A mis-configured loop in Authentik cannot hang the sweep." *)
WalkEnds == <>[](Stacked = {})

=============================================================================
