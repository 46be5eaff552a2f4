----------------------------- MODULE SafeMultisig -----------------------------
(***************************************************************************)
(* The Safe that owns the EVM contracts: its owners as the linked list of  *)
(* OwnerManager.sol, the hashes they approved, and the nonce that orders   *)
(* transactions (Safe.sol).                                                *)
(*                                                                         *)
(* A contract call that reverts changes nothing and is no step; what makes *)
(* it revert is the guard of its operator.  Addresses are numbers, as they *)
(* are in the code: 0 is the null address and 1 the sentinel of the list.  *)
(***************************************************************************)
EXTENDS Integers, Sequences, FiniteSets

CONSTANTS
  Account,        \* the addresses that can own, sign and send
  SafeAddress,
  SafeOwners,     \* a sequence: the owners the Safe was set up with
  SafeThreshold,
  Call,           \* the transactions that anybody proposes to the Safe
  MaxNonce,       \* bound on executed transactions
  MaxApprovals    \* bound on the confirmations of one hash

Null == 0
Sentinel == 1
Nonce == 0 .. (MaxNonce - 1)

\* encodeTransactionData hashes the call together with the nonce: the pair.
HashOf(c, n) == <<c, n>>
TxHash == Call \X Nonce

ASSUME SafeAssumption ==
  /\ Account \subseteq Nat \ {Null, Sentinel}
  /\ SafeAddress \in Nat \ {Null, Sentinel}
  /\ SafeAddress \notin Account
  /\ MaxNonce \in Nat
  /\ SafeOwners \in Seq(Account)
  /\ \A i, j \in DOMAIN SafeOwners : i # j => SafeOwners[i] # SafeOwners[j]
  /\ SafeThreshold \in 1 .. Len(SafeOwners)

\* Of other addresses than these, none is in the list or has a successor in it.
ASSUME OwnerCallAssumption ==
  LET Address == Account \cup {Null, Sentinel, SafeAddress}
  IN  \A c \in Call :
        /\ c # [call |-> "none"]
        /\ c.call = "addOwnerWithThreshold" => c.owner \in Address /\ c.threshold \in Nat
        /\ c.call = "removeOwner" =>
             c.prev \in Account \cup {Sentinel} /\ c.threshold \in Nat
        /\ c.call = "swapOwner" => c.prev \in Account \cup {Sentinel} /\ c.new \in Address
        /\ c.call = "changeThreshold" => c.threshold \in Nat

VARIABLES
  owners,      \* per owner the next one; 0 for everybody else
  ownerCount,
  threshold,
  nonce,
  approved,    \* per hash who confirmed it: approvedHashes, a signature handed
               \* out, or by sending the execution
  executed     \* history: per nonce the call executed

ownerVars == <<owners, ownerCount, threshold>>
safeVars == <<ownerVars, nonce, approved, executed>>

NotYet == [call |-> "none"]

\* setupOwners: the sentinel points to the first owner, the last one back to it.
LinkedList(list) ==
  [a \in Account \cup {Sentinel} |->
     IF a = Sentinel THEN list[1]
     ELSE IF \E i \in DOMAIN list : list[i] = a
     THEN LET i == CHOOSE i \in DOMAIN list : list[i] = a
          IN  IF i = Len(list) THEN Sentinel ELSE list[i + 1]
     ELSE Null]

SafeInit ==
  /\ owners = LinkedList(SafeOwners)
  /\ ownerCount = Len(SafeOwners)
  /\ threshold = SafeThreshold
  /\ nonce = 0
  /\ approved = [h \in TxHash |-> {}]
  /\ executed = [n \in Nonce |-> NotYet]

IsOwner(a) == a \in Account /\ owners[a] # Null
Owners == {a \in Account : IsOwner(a)}

-----------------------------------------------------------------------------
\* OwnerManager.sol: calls that the Safe makes to itself.

CanBecomeOwner(a) == a \notin {Null, Sentinel, SafeAddress} /\ owners[a] = Null
IsSuccessor(prev, a) == a \notin {Null, Sentinel} /\ owners[prev] = a

ValidThreshold(t, count) == t <= count /\ t >= 1

\* The other calls change the threshold only when theirs differs.
SetThreshold(t, count) ==
  /\ t # threshold => ValidThreshold(t, count)
  /\ threshold' = t

AddOwnerWithThreshold(a, t) ==
  /\ CanBecomeOwner(a)
  /\ owners' = [owners EXCEPT ![a] = owners[Sentinel], ![Sentinel] = a]
  /\ ownerCount' = ownerCount + 1
  /\ SetThreshold(t, ownerCount + 1)

\* Faulty: the removed owner keeps its link.
RemoveOwnerKeepingLink(prev, a, t) ==
  /\ ownerCount - 1 >= t
  /\ IsSuccessor(prev, a)
  /\ owners' = [owners EXCEPT ![prev] = owners[a]]
  /\ ownerCount' = ownerCount - 1
  /\ SetThreshold(t, ownerCount - 1)

RemoveOwner(prev, a, t) ==
  /\ ownerCount - 1 >= t
  /\ IsSuccessor(prev, a)
  /\ owners' = [owners EXCEPT ![prev] = owners[a], ![a] = Null]
  /\ ownerCount' = ownerCount - 1
  /\ SetThreshold(t, ownerCount - 1)

SwapOwner(prev, old, new) ==
  /\ CanBecomeOwner(new)
  /\ IsSuccessor(prev, old)
  /\ owners' = [owners EXCEPT ![new] = owners[old], ![prev] = new, ![old] = Null]
  /\ UNCHANGED <<ownerCount, threshold>>

ChangeThreshold(t) ==
  /\ ValidThreshold(t, ownerCount)
  /\ threshold' = t
  /\ UNCHANGED <<owners, ownerCount>>

OwnerCall(c) ==
  \/ c.call = "addOwnerWithThreshold" /\ AddOwnerWithThreshold(c.owner, c.threshold)
  \/ c.call = "removeOwner" /\ RemoveOwner(c.prev, c.owner, c.threshold)
  \/ c.call = "swapOwner" /\ SwapOwner(c.prev, c.old, c.new)
  \/ c.call = "changeThreshold" /\ ChangeThreshold(c.threshold)

-----------------------------------------------------------------------------
\* Safe.sol

\* approveHash: never taken back, whatever becomes of the nonce or the owner.
ApproveHash(a, hash) ==
  /\ IsOwner(a)
  /\ Cardinality(approved[hash]) < MaxApprovals
  /\ approved' = [approved EXCEPT ![hash] = @ \cup {a}]
  /\ UNCHANGED <<ownerVars, nonce, executed>>

\* Faulty: an approval of the call counts, whatever the nonce it was given for.
ApprovedCall(a, hash, sender) ==
  \/ sender = a
  \/ \E n \in Nonce : a \in approved[<<hash[1], n>>]

\* The sender's own confirmation need not be on record.
Confirmed(a, hash, sender) == sender = a \/ a \in approved[hash]

\* checkNSignatures: as many as the threshold are looked at, in ascending order of
\* their addresses, and each must be a current owner's.
SignaturesAreValid(signers, hash, sender) ==
  /\ Len(signers) >= threshold
  /\ \A i \in 1 .. threshold :
       /\ IsOwner(signers[i])
       /\ Confirmed(signers[i], hash, sender)
       /\ i > 1 => signers[i] > signers[i - 1]

\* execTransaction without the call it makes: hash and nonce are those of now.
ConsumeNonce(c, signers, sender) ==
  /\ nonce < MaxNonce
  /\ SignaturesAreValid(signers, HashOf(c, nonce), sender)
  /\ nonce' = nonce + 1
  /\ executed' = [executed EXCEPT ![nonce] = c]
  /\ approved' = [approved EXCEPT ![HashOf(c, nonce)] = @ \cup ({sender} \cap Owners)]

-----------------------------------------------------------------------------
\* The list of owners walked as getOwners does, from the sentinel on.
Walk[i \in Nat] == IF i = 0 THEN owners[Sentinel] ELSE owners[Walk[i - 1]]

\* After any sequence of additions, removals and swaps the list is one cycle
\* through the sentinel that passes every owner once, ownerCount counts it, and
\* the threshold can be reached.  checkNSignatures looks at the links,
\* changeThreshold at the count, getOwners at the walk: the three agree.
OwnersWellFormed ==
  /\ ownerCount = Cardinality(Owners)
  /\ threshold \in 1 .. ownerCount
  /\ {Walk[i] : i \in 0 .. (ownerCount - 1)} = Owners
  /\ Walk[ownerCount] = Sentinel

-----------------------------------------------------------------------------
\* As an implementation of ThresholdApproval: the items are transaction hashes,
\* and those of a nonce that another transaction consumed are dropped.

Done == {h \in TxHash : executed[h[2]] = h[1]}
Superseded == {h \in TxHash : h[2] < nonce} \ Done

Abstract ==
  INSTANCE ThresholdApproval WITH
    Party <- Account, Item <- TxHash,
    members <- Owners,
    approvals <- approved,
    done <- Done,
    dropped <- Superseded

\* The header of safe.service.ts: a key "can never execute one alone".  A
\* transaction executes at most once, on the confirmations of a threshold of those
\* who own the Safe at that moment, for the very nonce it executes with; one that
\* lost its nonce to another never does; and only an executed transaction changes
\* the owners or their threshold.
ImplementsThresholdApproval == Abstract!Spec
=============================================================================
