--------------------------- MODULE MCProvisioning ---------------------------
(* Constants and initial states for the model-checking runs of Provisioning *)
EXTENDS Provisioning, TLC

CONSTANTS w1, w2, p1, alice, bob, sales, inbox, archive, acc1, acc2,
          sent, trash, sent1, sent2, trash1, gmail

OneProcess == w1 :> p1 @@ w2 :> p1
LoneWorker == w1 :> p1

(* bob has two accounts for sales, or one; all folders belong to the first *)
MCAccountOf == acc1 :> <<bob, sales>> @@ acc2 :> <<bob, sales>>
MCBoxOf == [b \in Boxes |-> acc1]
MCBoxName == sent1 :> sent @@ sent2 :> sent @@ trash1 :> trash @@ gmail :> gmail

(* Nothing is set up yet; or alice has some of the rights on sales, in some   *)
(* of the stores, and perhaps an owner's entry on her own mailbox; bob is in  *)
(* the sender_acl of sales throughout                                         *)
Found(rights, own, has, delegates) ==
    /\ folders = [t \in Targets |-> has]
    /\ acl = [t \in Targets |-> [f \in Folders |-> [p \in Principals |->
                CASE t = sales /\ p = alice -> rights
                  [] t = alice /\ p = alice /\ f = inbox -> own
                  [] OTHER -> "none"]]]
    /\ delegateTo = [t \in Targets |-> IF t = sales THEN delegates ELSE {}]

(* The Nextcloud mail database and the sharing have no state in common, so   *)
(* one of them starts from a single state while the other varies.            *)
SharingAtRest ==
    /\ senders = Nobody
    /\ delegateFrom = [u \in Users |-> {}]
    /\ othersFolders = [u \in Users |-> {}]
    /\ Found("none", "none", {inbox}, {})

MailDbAtRest ==
    /\ live = {}
    /\ sieve = [a \in Accounts |-> "unset"]
    /\ boxes = {}
    /\ mapping = [a \in Accounts |-> NoBox]

SomeSharing ==
    /\ senders = [t \in Targets |-> IF t = sales THEN {bob} ELSE {}]
    /\ delegateFrom = [u \in Users |-> {}]
    /\ othersFolders = [u \in Users |-> IF u = alice THEN {sales} ELSE {}]
    /\ \/ Found("none", "none", {inbox}, {})
       \/ Found("part", "part", Folders, {alice})
       \/ Found("full", "none", Folders, {})

(* An account whose sent folder points past the local one and whose trash is  *)
(* not set; a second account and a second local folder may come               *)
SomeMailDb ==
    /\ live = {acc1}
    /\ sieve = [a \in Accounts |-> "other"]
    /\ boxes = {gmail, sent1, trash1}
    /\ mapping = [a \in Accounts |-> [c \in Columns |-> IF c = sent THEN gmail ELSE None]]

MCInit ==
    /\ features \in Deployments
    /\ stale = {}
    /\ IF "maildb" \in features THEN SharingAtRest /\ SomeMailDb
                                ELSE SomeSharing /\ MailDbAtRest
    /\ Init

(* the threads of one process are alike *)
Symmetry == Permutations(Workers)

MCSpec == MCInit /\ [][Next]_vars

=============================================================================
