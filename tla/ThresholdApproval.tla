--------------------------- MODULE ThresholdApproval ---------------------------
(***************************************************************************)
(* What multi-party governance promises, whoever implements it: an item    *)
(* takes effect at most once, only on the approvals of a threshold of the  *)
(* parties that are members at that moment, and never after it was         *)
(* dropped; and who the members are, and how many must agree, changes only *)
(* by an item that took effect.                                            *)
(*                                                                         *)
(* TrustMeshLedger implements it with proposals and organizations,         *)
(* SafeMultisig with transaction hashes and owners.                        *)
(***************************************************************************)
EXTENDS Naturals, FiniteSets

CONSTANTS Party, Item

VARIABLES
  members,    \* the parties whose approval counts now
  threshold,
  approvals,  \* per item the parties that ever approved it
  done,       \* the items that took effect
  dropped     \* the items that no longer can

vars == <<members, threshold, approvals, done, dropped>>

Init ==
  /\ members \subseteq Party
  /\ threshold \in 1 .. Cardinality(members)
  /\ approvals = [i \in Item |-> {}]
  /\ done = {}
  /\ dropped = {}

Open(i) == i \notin done \cup dropped

Approve ==
  /\ UNCHANGED <<members, threshold, done, dropped>>
  /\ \E i \in Item : \E p \in members \ approvals[i] :
       approvals' = [approvals EXCEPT ![i] = @ \cup {p}]

\* A member that executes an item may approve it by doing so.  What takes effect
\* may supersede other items and reconfigure the membership.
Execute(i) ==
  /\ Open(i)
  /\ done' = done \cup {i}
  /\ dropped \subseteq dropped' /\ dropped' \subseteq Item \ done'
  /\ \E e \in {{}} \cup {{p} : p \in members} :
       /\ Cardinality((approvals[i] \cup e) \cap members) >= threshold
       /\ approvals' = [approvals EXCEPT ![i] = @ \cup e]
  /\ members' \subseteq Party
  /\ threshold' \in 1 .. Cardinality(members')

Drop(i) ==
  /\ Open(i)
  /\ dropped' = dropped \cup {i}
  /\ UNCHANGED <<members, threshold, approvals, done>>

\* The inequalities follow from the actions; they spare TLC the search for an item.
Next ==
  \/ Approve
  \/ done' # done /\ \E i \in Item : Execute(i)
  \/ dropped' # dropped /\ \E i \in Item : Drop(i)

Spec == Init /\ [][Next]_vars
=============================================================================
