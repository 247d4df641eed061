------------------------ MODULE AppPasswords_proofs ------------------------
(***************************************************************************)
(* What every call to Mailcow preserves: the facts that the proofs about   *)
(* the two life cycles, ReconcileTargets and TbSetup, have in common.      *)
(***************************************************************************)
EXTENDS AppPasswords, TLAPS

(* The app-password table shrinks, or grows by an entry with the next id. *)
Shrinks == pwds' \subseteq pwds /\ nextPwd' = nextPwd
Grows == \E e \in AppPassword : /\ e.id = nextPwd
                                /\ pwds' = pwds \union {e}
                                /\ nextPwd' = nextPwd + 1

IdsBelow == \A p \in pwds : p.id < nextPwd
IdsUnique == \A p, q \in pwds : p.id = q.id => p = q

(* id was issued, and if Mailcow still has it, it was for m under that name *)
Belongs(id, m, name) ==
    /\ id \in Nat
    /\ id < nextPwd
    /\ \A p \in pwds : p.id = id => p.mailbox = m /\ p.name = name

(* What is known of an id that was issued before survives every such change. *)
LEMMA BelongsStable ==
    ASSUME MailcowTypeOK, Shrinks \/ Grows,
           NEW id, NEW m, NEW name, Belongs(id, m, name)
    PROVE  Belongs(id, m, name)'
BY DEF MailcowTypeOK, Shrinks, Grows, Belongs, AppPassword

(* An auto-increment column never gives an id to two entries. *)
LEMMA IdsStable ==
    ASSUME MailcowTypeOK, IdsBelow, IdsUnique, Shrinks \/ Grows
    PROVE  IdsBelow' /\ IdsUnique'
BY DEF MailcowTypeOK, Shrinks, Grows, IdsBelow, IdsUnique, AppPassword

(* An entry found by its name belongs to that name. *)
LEMMA MatchingBelongs ==
    ASSUME MailcowTypeOK, IdsBelow, IdsUnique, NEW m, NEW name, NEW id \in Matching(m, name)
    PROVE  Belongs(id, m, name)
BY DEF MailcowTypeOK, IdsBelow, IdsUnique, Matching, Belongs, AppPassword

LEMMA IssueGrows ==
    ASSUME MailcowTypeOK, NEW m \in Targets, NEW name \in Names, Issue(m, name)
    PROVE  Grows /\ MailcowTypeOK'
<1> DEFINE e == [id |-> nextPwd, mailbox |-> m, name |-> name]
<1>1. e \in AppPassword /\ e.id = nextPwd
  BY DEF MailcowTypeOK, AppPassword
<1>2. pwds' = pwds \union {e} /\ nextPwd' = nextPwd + 1 /\ mailboxes' = mailboxes
  BY DEF Issue
<1> HIDE DEF e
<1>3. Grows
  BY <1>1, <1>2 DEF Grows
<1> QED
  BY <1>1, <1>2, <1>3 DEF MailcowTypeOK

LEMMA RevokeShrinks ==
    ASSUME MailcowTypeOK, NEW id, Revoke(id)
    PROVE  Shrinks /\ MailcowTypeOK'
BY DEF MailcowTypeOK, Revoke, Shrinks

LEMMA DropShrinks ==
    ASSUME MailcowTypeOK, NEW m, DropMailbox(m)
    PROVE  Shrinks /\ MailcowTypeOK'
BY DEF MailcowTypeOK, DropMailbox, Shrinks

LEMMA MailcowKept ==
    ASSUME MailcowTypeOK, UNCHANGED mailcowVars
    PROVE  Shrinks /\ MailcowTypeOK'
BY DEF MailcowTypeOK, Shrinks, mailcowVars

=============================================================================
