------------------------------ MODULE EvmProofs ------------------------------
(***************************************************************************)
(* What the EVM fallback promises, for every number of owners, calls,      *)
(* nonces, requests, guardians and recoveries.                             *)
(*                                                                         *)
(* Everything about the Safe rests on the shape of its list of owners: one *)
(* ring through the sentinel.  It takes a witness to say so, the owners in *)
(* the order of the list; each call to OwnerManager yields the next one.   *)
(***************************************************************************)
EXTENDS EvmRecovery, FiniteSetTheorems, NaturalsInduction, TLAPS

\* The owners in the order of the list, from the sentinel on.
Ring(list, n) ==
  /\ n \in Nat \ {0}
  /\ list \in [0 .. n -> Account \cup {Sentinel}]
  /\ list[0] = Sentinel
  /\ \A i, j \in 0 .. n : list[i] = list[j] => i = j
  /\ \A i \in 0 .. (n - 1) : owners[list[i]] = list[i + 1]
  /\ owners[list[n]] = Sentinel
  /\ \A a \in Account : owners[a] # Null => \E i \in 1 .. n : list[i] = a

OwnersTyped == owners \in [Account \cup {Sentinel} -> Account \cup {Sentinel, Null}]

OwnersInv ==
  /\ OwnersTyped
  /\ threshold \in 1 .. ownerCount
  /\ \E list : Ring(list, ownerCount)

-----------------------------------------------------------------------------
\* The list of owners.

\* A set of natural numbers has a least one.
LEMMA Least ==
  ASSUME NEW S, S \subseteq Nat, S # {}
  PROVE  \E m \in S : \A n \in S : m <= n
<1>1. PICK m \in S : \A n \in S : <<n, m>> \notin OpToRel(<, Nat)
  BY WFMin, NatLessThanWellFounded
<1>2. \A n \in S : ~(n < m)
  BY <1>1 DEF OpToRel
<1>3. QED
  BY <1>2

LEMMA Addresses ==
  /\ Null \notin Account
  /\ Sentinel \notin Account
  /\ Null # Sentinel
  /\ SafeAddress \notin Account
  BY SafeAssumption DEF Null, Sentinel

\* Where the list passes is where the owners are.
LEMMA RingFacts ==
  ASSUME OwnersTyped, NEW n, NEW list, Ring(list, n)
  PROVE  /\ \A i \in 1 .. n : list[i] \in Account /\ IsOwner(list[i])
         /\ \A a \in Account : IsOwner(a) <=> \E i \in 1 .. n : list[i] = a
         /\ \A a \in Account \cup {Sentinel} :
              owners[a] # Null => \E i \in 0 .. n : list[i] = a
         /\ \A a \in Account \cup {Sentinel} :
              owners[a] # Null => owners[a] \in Account \cup {Sentinel}
<1>1. n \in Nat \ {0}
  BY DEF Ring
<1>2. \A i \in 1 .. n : list[i] \in Account
  BY <1>1 DEF Ring
<1>3. \A i \in 0 .. n : owners[list[i]] # Null
  <2>1. SUFFICES ASSUME NEW i \in 0 .. n
                 PROVE  owners[list[i]] # Null
    OBVIOUS
  <2>2. CASE i = n
    BY <2>2, Addresses DEF Ring
  <2>3. CASE i # n
    <3>1. i \in 0 .. (n - 1) /\ i + 1 \in 0 .. n
      BY <1>1, <2>3
    <3>2. owners[list[i]] \in Account \cup {Sentinel}
      BY <3>1 DEF Ring
    <3>3. QED
      BY <3>2, Addresses
  <2>4. QED
    BY <2>2, <2>3
<1>4. \A i \in 1 .. n : IsOwner(list[i])
  <2>1. \A i \in 1 .. n : i \in 0 .. n
    OBVIOUS
  <2>2. QED
    BY <1>2, <1>3, <2>1 DEF IsOwner
<1>5. \A a \in Account : IsOwner(a) <=> \E i \in 1 .. n : list[i] = a
  BY <1>4 DEF Ring, IsOwner
<1>6. \A a \in Account \cup {Sentinel} : owners[a] # Null => \E i \in 0 .. n : list[i] = a
  <2>1. \A i \in 1 .. n : i \in 0 .. n
    OBVIOUS
  <2>2. 0 \in 0 .. n
    BY <1>1
  <2>3. QED
    BY <2>1, <2>2 DEF Ring
<1>7. QED
  BY <1>2, <1>4, <1>5, <1>6 DEF OwnersTyped

LEMMA OwnersCounted ==
  ASSUME OwnersTyped, NEW n, NEW list, Ring(list, n)
  PROVE  IsFiniteSet(Owners) /\ Cardinality(Owners) = n
<1> DEFINE f == [i \in 1 .. n |-> list[i]]
<1>1. n \in Nat
  BY DEF Ring
<1>2. f \in [1 .. n -> Owners]
  BY RingFacts DEF Owners
<1>3. \A i, j \in 1 .. n : f[i] = f[j] => i = j
  BY <1>1 DEF Ring
<1>4. \A a \in Owners : \E i \in 1 .. n : f[i] = a
  BY RingFacts DEF Owners
<1> HIDE DEF f
<1>5. f \in Bijection(1 .. n, Owners)
  BY <1>2, <1>3, <1>4 DEF Bijection, Injection, Surjection, IsInjective
<1>6. ExistsBijection(1 .. n, Owners)
  BY <1>5 DEF ExistsBijection
<1>7. QED
  BY <1>1, <1>6, FS_CountingElements, FS_NatBijection

\* What each call to OwnerManager makes of the ring.  A new owner comes first.
LEMMA RingGrows ==
  ASSUME OwnersTyped, NEW n, NEW list, Ring(list, n), NEW a \in Account, owners[a] = Null,
         owners' = [owners EXCEPT ![a] = owners[Sentinel], ![Sentinel] = a]
  PROVE  OwnersTyped' /\ \E more : Ring(more, n + 1)'
<1> DEFINE more == [i \in 0 .. (n + 1) |-> IF i = 0 THEN Sentinel
                                           ELSE IF i = 1 THEN a ELSE list[i - 1]]
<1>1. /\ n \in Nat \ {0}
      /\ list \in [0 .. n -> Account \cup {Sentinel}]
      /\ list[0] = Sentinel
      /\ \A i, j \in 0 .. n : list[i] = list[j] => i = j
      /\ \A i \in 0 .. (n - 1) : owners[list[i]] = list[i + 1]
      /\ owners[list[n]] = Sentinel
      /\ \A b \in Account : owners[b] # Null => \E i \in 1 .. n : list[i] = b
  BY DEF Ring
<1>2. /\ \A i \in 1 .. n : list[i] \in Account /\ owners[list[i]] # Null
      /\ a # Sentinel
      /\ \A i \in 0 .. n : list[i] # a
  <2>1. \A i \in 1 .. n : list[i] \in Account /\ owners[list[i]] # Null
    BY RingFacts DEF IsOwner
  <2>2. a # Sentinel
    BY Addresses
  <2>3. \A i \in 0 .. n : i = 0 \/ i \in 1 .. n
    BY <1>1
  <2>4. QED
    BY <1>1, <2>1, <2>2, <2>3
<1>3. owners[Sentinel] = list[1] /\ list[1] \in Account
  BY <1>1, <1>2
<1>4. /\ owners'[a] = list[1]
      /\ owners'[Sentinel] = a
      /\ \A b \in (Account \cup {Sentinel}) \ {a, Sentinel} : owners'[b] = owners[b]
      /\ OwnersTyped'
  BY <1>2, <1>3 DEF OwnersTyped
<1>5. /\ more \in [0 .. (n + 1) -> Account \cup {Sentinel}]
      /\ more[0] = Sentinel
      /\ more[1] = a
      /\ \A i \in 1 .. n : more[i + 1] = list[i]
  <2>1. \A i \in 0 .. (n + 1) : i = 0 \/ i = 1 \/ i - 1 \in 1 .. n
    BY <1>1
  <2>2. \A i \in 1 .. n : i + 1 \in 0 .. (n + 1) /\ i + 1 # 0 /\ i + 1 # 1 /\ (i + 1) - 1 = i
    BY <1>1
  <2>3. 0 \in 0 .. (n + 1) /\ 1 \in 0 .. (n + 1) /\ 1 # 0
    BY <1>1
  <2>4. QED
    BY <1>2, <2>1, <2>2, <2>3
<1> HIDE DEF more
<1>6. \A k \in 0 .. (n + 1) : k = 0 \/ k = 1 \/ \E i \in 1 .. n : k = i + 1
  <2>1. \A k \in 0 .. (n + 1) : k = 0 \/ k = 1 \/ (k - 1 \in 1 .. n /\ k = (k - 1) + 1)
    BY <1>1
  <2>2. QED
    BY <2>1
<1>7. \A i, j \in 0 .. (n + 1) : more[i] = more[j] => i = j
  <2>1. \A i, j \in 1 .. n : more[i + 1] = more[j + 1] => i = j
    <3>1. \A i \in 1 .. n : i \in 0 .. n
      OBVIOUS
    <3>2. QED
      BY <1>1, <1>5, <3>1
  <2>2. \A i \in 1 .. n : more[i + 1] # Sentinel /\ more[i + 1] # a
    BY <1>2, <1>5, Addresses
  <2>3. QED
    BY <1>2, <1>5, <1>6, <2>1, <2>2
<1>8. \A k \in 0 .. n : owners'[more[k]] = more[k + 1]
  <2>1. \A i \in 1 .. (n - 1) : owners'[more[i + 1]] = more[(i + 1) + 1]
    <3>1. SUFFICES ASSUME NEW i \in 1 .. (n - 1)
                   PROVE  owners'[more[i + 1]] = more[(i + 1) + 1]
      OBVIOUS
    <3>2. i \in 1 .. n /\ i + 1 \in 1 .. n /\ i \in 0 .. (n - 1) /\ i \in 0 .. n
      BY <1>1
    <3>3. list[i] \in Account /\ list[i] # a /\ list[i] # Sentinel
      BY <1>2, <3>2, Addresses
    <3>4. owners'[list[i]] = owners[list[i]]
      BY <1>4, <3>3
    <3>5. owners[list[i]] = list[i + 1]
      BY <1>1, <3>2
    <3>6. more[i + 1] = list[i] /\ more[(i + 1) + 1] = list[i + 1]
      BY <1>5, <3>2
    <3>7. QED
      BY <3>4, <3>5, <3>6
  <2>2. owners'[more[0]] = more[0 + 1]
    BY <1>4, <1>5
  <2>3. owners'[more[1]] = more[1 + 1]
    <3>1. 1 \in 1 .. n
      BY <1>1
    <3>2. QED
      BY <1>4, <1>5, <3>1
  <2>4. \A k \in 0 .. n : k = 0 \/ k = 1 \/ (k - 1 \in 1 .. (n - 1) /\ k = (k - 1) + 1)
    BY <1>1
  <2>5. QED
    BY <2>1, <2>2, <2>3, <2>4
<1>9. owners'[more[n + 1]] = Sentinel
  <2>1. n \in 1 .. n /\ n \in 0 .. n
    BY <1>1
  <2>2. list[n] \in Account /\ list[n] # a /\ list[n] # Sentinel
    BY <1>2, <2>1, Addresses
  <2>3. owners'[list[n]] = owners[list[n]]
    BY <1>4, <2>2
  <2>4. more[n + 1] = list[n]
    BY <1>5, <2>1
  <2>5. QED
    BY <1>1, <2>3, <2>4
<1>10. \A b \in Account : owners'[b] # Null => \E i \in 1 .. (n + 1) : more[i] = b
  <2>1. SUFFICES ASSUME NEW b \in Account, owners'[b] # Null
                 PROVE  \E i \in 1 .. (n + 1) : more[i] = b
    OBVIOUS
  <2>2. CASE b = a
    <3>1. 1 \in 1 .. (n + 1)
      BY <1>1
    <3>2. QED
      BY <1>5, <2>2, <3>1
  <2>3. CASE b # a
    <3>1. owners[b] # Null
      BY <1>4, <2>1, <2>3, Addresses
    <3>2. PICK i \in 1 .. n : list[i] = b
      BY <1>1, <3>1
    <3>3. i + 1 \in 1 .. (n + 1)
      BY <1>1
    <3>4. QED
      BY <1>5, <3>2, <3>3
  <2>4. QED
    BY <2>2, <2>3
<1>11. Ring(more, n + 1)'
  <2>1. n + 1 \in Nat \ {0} /\ (n + 1) - 1 = n
    BY <1>1
  <2>2. \A k \in 0 .. ((n + 1) - 1) : owners'[more[k]] = more[k + 1]
    BY <1>8, <2>1
  <2>3. QED
    BY <1>5, <1>7, <1>9, <1>10, <2>1, <2>2 DEF Ring
<1>12. QED
  BY <1>4, <1>11

\* The owner whose successor another is stands before it in the list.
LEMMA RingPredecessor ==
  ASSUME OwnersTyped, NEW n, NEW list, Ring(list, n), NEW prev \in Account \cup {Sentinel},
         NEW a, a # Null, a # Sentinel, owners[prev] = a
  PROVE  \E k \in 1 .. n : list[k] = a /\ list[k - 1] = prev
<1>1. /\ n \in Nat \ {0}
      /\ \A i \in 0 .. (n - 1) : owners[list[i]] = list[i + 1]
      /\ owners[list[n]] = Sentinel
  BY DEF Ring
<1>2. PICK i \in 0 .. n : list[i] = prev
  BY RingFacts
<1>3. i # n
  BY <1>1, <1>2
<1>4. i \in 0 .. (n - 1) /\ i + 1 \in 1 .. n /\ (i + 1) - 1 = i
  BY <1>1, <1>3
<1>5. list[i + 1] = a
  BY <1>1, <1>2, <1>4
<1>6. QED
  BY <1>2, <1>4, <1>5

LEMMA RingShrinks ==
  ASSUME OwnersTyped, NEW n, NEW list, Ring(list, n), n > 1,
         NEW prev \in Account \cup {Sentinel},
         NEW a, a # Null, a # Sentinel, owners[prev] = a,
         owners' = [owners EXCEPT ![prev] = owners[a], ![a] = Null]
  PROVE  OwnersTyped' /\ \E rest : Ring(rest, n - 1)'
<1>1. /\ n \in Nat \ {0}
      /\ list \in [0 .. n -> Account \cup {Sentinel}]
      /\ list[0] = Sentinel
      /\ \A i, j \in 0 .. n : list[i] = list[j] => i = j
      /\ \A i \in 0 .. (n - 1) : owners[list[i]] = list[i + 1]
      /\ owners[list[n]] = Sentinel
      /\ \A b \in Account : owners[b] # Null => \E i \in 1 .. n : list[i] = b
  BY DEF Ring
<1>2. PICK k \in 1 .. n : list[k] = a /\ list[k - 1] = prev
  BY RingPredecessor
<1>3. k \in 0 .. n /\ k - 1 \in 0 .. n /\ k # k - 1
  BY <1>1
<1>4. a # prev
  BY <1>1, <1>2, <1>3
<1>5. a \in Account /\ owners[a] \in Account \cup {Sentinel}
  <2>1. a \in Account /\ owners[a] # Null
    BY <1>2, RingFacts DEF IsOwner
  <2>2. QED
    BY <2>1, RingFacts
<1>6. /\ owners'[prev] = owners[a]
      /\ owners'[a] = Null
      /\ \A b \in (Account \cup {Sentinel}) \ {a, prev} : owners'[b] = owners[b]
      /\ OwnersTyped'
  BY <1>4, <1>5 DEF OwnersTyped
<1> DEFINE rest == [i \in 0 .. (n - 1) |-> IF i < k THEN list[i] ELSE list[i + 1]]
<1>7. /\ rest \in [0 .. (n - 1) -> Account \cup {Sentinel}]
      /\ rest[0] = Sentinel
      /\ \A i \in 0 .. (k - 1) : rest[i] = list[i]
      /\ \A i \in k .. (n - 1) : rest[i] = list[i + 1]
  <2>1. \A i \in 0 .. (n - 1) : i \in 0 .. n /\ i + 1 \in 0 .. n
    BY <1>1
  <2>2. \A i \in 0 .. (k - 1) : i \in 0 .. (n - 1) /\ i < k
    BY <1>1
  <2>3. \A i \in k .. (n - 1) : i \in 0 .. (n - 1) /\ ~(i < k)
    BY <1>1
  <2>4. 0 \in 0 .. (k - 1)
    BY <1>1
  <2>5. QED
    BY <1>1, <2>1, <2>2, <2>3, <2>4
<1> HIDE DEF rest
\* A place of the new list is one of the old list, other than that of a.
<1> DEFINE old(i) == IF i < k THEN i ELSE i + 1
<1>8. \A i \in 0 .. (n - 1) : old(i) \in 0 .. n /\ old(i) # k /\ rest[i] = list[old(i)]
  <2>1. SUFFICES ASSUME NEW i \in 0 .. (n - 1)
                 PROVE  old(i) \in 0 .. n /\ old(i) # k /\ rest[i] = list[old(i)]
    OBVIOUS
  <2>2. i < k => i \in 0 .. (k - 1)
    BY <1>1
  <2>3. ~(i < k) => i \in k .. (n - 1)
    BY <1>1
  <2>4. old(i) \in 0 .. n /\ old(i) # k
    BY <1>1
  <2>5. QED
    BY <1>7, <2>2, <2>3, <2>4
<1>9. \A i, j \in 0 .. (n - 1) : rest[i] = rest[j] => i = j
  <2>1. SUFFICES ASSUME NEW i \in 0 .. (n - 1), NEW j \in 0 .. (n - 1), rest[i] = rest[j]
                 PROVE  i = j
    OBVIOUS
  <2>2. old(i) = old(j)
    BY <1>1, <1>8, <2>1
  <2>3. QED
    BY <1>1, <2>2
<1>10. \A i \in 0 .. n : i # k /\ i # k - 1 => owners'[list[i]] = owners[list[i]]
  <2>1. SUFFICES ASSUME NEW i \in 0 .. n, i # k, i # k - 1
                 PROVE  owners'[list[i]] = owners[list[i]]
    OBVIOUS
  <2>2. list[i] # a /\ list[i] # prev /\ list[i] \in Account \cup {Sentinel}
    BY <1>1, <1>2, <1>3, <2>1
  <2>3. QED
    BY <1>6, <2>2
<1>11. \A i \in 0 .. (n - 2) : owners'[rest[i]] = rest[i + 1]
  <2>1. SUFFICES ASSUME NEW i \in 0 .. (n - 2)
                 PROVE  owners'[rest[i]] = rest[i + 1]
    OBVIOUS
  <2>2. i \in 0 .. (n - 1) /\ i + 1 \in 0 .. (n - 1)
    BY <1>1
  <2>3. rest[i] = list[old(i)] /\ rest[i + 1] = list[old(i + 1)]
    BY <1>8, <2>2
  <2>4. CASE i = k - 1
    <3>1. old(i) = k - 1 /\ old(i + 1) = k + 1 /\ k \in 0 .. (n - 1)
      BY <1>1, <2>4
    <3>2. owners[list[k]] = list[k + 1]
      BY <1>1, <3>1
    <3>3. QED
      BY <1>2, <1>6, <2>3, <3>1, <3>2
  <2>5. CASE i # k - 1
    <3>1. /\ old(i) # k
          /\ old(i) # k - 1
          /\ old(i) \in 0 .. n
          /\ old(i) \in 0 .. (n - 1)
          /\ old(i + 1) = old(i) + 1
      BY <1>1, <2>5
    <3>2. owners'[list[old(i)]] = owners[list[old(i)]]
      BY <1>10, <3>1
    <3>3. owners[list[old(i)]] = list[old(i) + 1]
      BY <1>1, <3>1
    <3>4. QED
      BY <2>3, <3>1, <3>2, <3>3
  <2>6. QED
    BY <2>4, <2>5
<1>12. owners'[rest[n - 1]] = Sentinel
  <2>1. n - 1 \in 0 .. (n - 1)
    BY <1>1
  <2>2. rest[n - 1] = list[old(n - 1)]
    BY <1>8, <2>1
  <2>3. CASE k = n
    <3>1. old(n - 1) = k - 1
      BY <1>1, <2>3
    <3>2. QED
      BY <1>1, <1>2, <1>6, <2>2, <2>3, <3>1
  <2>4. CASE k # n
    <3>1. old(n - 1) = n /\ n # k /\ n # k - 1 /\ n \in 0 .. n
      BY <1>1, <2>4
    <3>2. owners'[list[n]] = owners[list[n]]
      BY <1>10, <3>1
    <3>3. QED
      BY <1>1, <2>2, <3>1, <3>2
  <2>5. QED
    BY <2>3, <2>4
<1>13. \A b \in Account : owners'[b] # Null => \E i \in 1 .. (n - 1) : rest[i] = b
  <2>1. SUFFICES ASSUME NEW b \in Account, owners'[b] # Null
                 PROVE  \E i \in 1 .. (n - 1) : rest[i] = b
    OBVIOUS
  <2>2. b # a /\ owners[b] # Null
    <3>1. b # a
      BY <1>6, <2>1
    <3>2. CASE b = prev
      BY <3>1, <3>2
    <3>3. CASE b # prev
      BY <1>6, <2>1, <3>1, <3>3
    <3>4. QED
      BY <3>1, <3>2, <3>3
  <2>3. PICK j \in 1 .. n : list[j] = b
    BY <1>1, <2>2
  <2>4. j # k
    BY <1>2, <2>2, <2>3
  <2>5. PICK i \in 1 .. (n - 1) : old(i) = j
    <3>1. CASE j < k
      <4>1. j \in 1 .. (n - 1) /\ old(j) = j
        BY <1>1, <3>1
      <4>2. QED
        BY <4>1
    <3>2. CASE ~(j < k)
      <4>1. j - 1 \in 1 .. (n - 1) /\ old(j - 1) = j
        BY <1>1, <2>4, <3>2
      <4>2. QED
        BY <4>1
    <3>3. QED
      BY <3>1, <3>2
  <2>6. i \in 0 .. (n - 1)
    OBVIOUS
  <2>7. rest[i] = b
    BY <1>8, <2>3, <2>5, <2>6
  <2>8. QED
    BY <2>7
<1>14. Ring(rest, n - 1)'
  <2>1. n - 1 \in Nat \ {0} /\ (n - 1) - 1 = n - 2
    BY <1>1
  <2>2. \A i \in 0 .. ((n - 1) - 1) : owners'[rest[i]] = rest[i + 1]
    BY <1>11, <2>1
  <2>3. QED
    BY <1>7, <1>9, <1>12, <1>13, <2>1, <2>2 DEF Ring
<1>15. QED
  BY <1>6, <1>14

LEMMA RingSwaps ==
  ASSUME OwnersTyped, NEW n, NEW list, Ring(list, n),
         NEW prev \in Account \cup {Sentinel},
         NEW a, a # Null, a # Sentinel, owners[prev] = a,
         NEW new \in Account, owners[new] = Null,
         owners' = [owners EXCEPT ![new] = owners[a], ![prev] = new, ![a] = Null]
  PROVE  OwnersTyped' /\ \E next : Ring(next, n)'
<1>1. /\ n \in Nat \ {0}
      /\ list \in [0 .. n -> Account \cup {Sentinel}]
      /\ list[0] = Sentinel
      /\ \A i, j \in 0 .. n : list[i] = list[j] => i = j
      /\ \A i \in 0 .. (n - 1) : owners[list[i]] = list[i + 1]
      /\ owners[list[n]] = Sentinel
      /\ \A b \in Account : owners[b] # Null => \E i \in 1 .. n : list[i] = b
  BY DEF Ring
<1>2. PICK k \in 1 .. n : list[k] = a /\ list[k - 1] = prev
  BY RingPredecessor
<1>3. k \in 0 .. n /\ k - 1 \in 0 .. n /\ k # k - 1
  BY <1>1
<1>4. a # prev
  BY <1>1, <1>2, <1>3
<1>5. a \in Account /\ owners[a] # Null /\ owners[a] \in Account \cup {Sentinel}
  <2>1. a \in Account /\ owners[a] # Null
    BY <1>2, RingFacts DEF IsOwner
  <2>2. QED
    BY <2>1, RingFacts
<1>6. new # a /\ new # prev /\ new # Sentinel /\ \A i \in 0 .. n : list[i] # new
  <2>1. new # a /\ new # prev /\ new # Sentinel
    BY <1>5, Addresses
  <2>2. \A i \in 1 .. n : list[i] # new
    BY RingFacts DEF IsOwner
  <2>3. \A i \in 0 .. n : i = 0 \/ i \in 1 .. n
    BY <1>1
  <2>4. QED
    BY <1>1, <2>1, <2>2, <2>3
<1>7. /\ owners'[prev] = new
      /\ owners'[new] = owners[a]
      /\ owners'[a] = Null
      /\ \A b \in (Account \cup {Sentinel}) \ {a, prev, new} : owners'[b] = owners[b]
      /\ OwnersTyped'
  BY <1>4, <1>5, <1>6 DEF OwnersTyped
<1> DEFINE next == [list EXCEPT ![k] = new]
<1>8. /\ next \in [0 .. n -> Account \cup {Sentinel}]
      /\ next[k] = new
      /\ \A i \in 0 .. n : i # k => next[i] = list[i]
  BY <1>1, <1>3
<1> HIDE DEF next
<1>9. \A i, j \in 0 .. n : next[i] = next[j] => i = j
  BY <1>1, <1>6, <1>8
<1>10. next[0] = Sentinel
  <2>1. 0 \in 0 .. n /\ 0 # k
    BY <1>1
  <2>2. QED
    BY <1>1, <1>8, <2>1
<1>11. \A i \in 0 .. n : i # k /\ i # k - 1 =>
         owners'[next[i]] = owners[list[i]] /\ next[i] = list[i]
  <2>1. SUFFICES ASSUME NEW i \in 0 .. n, i # k, i # k - 1
                 PROVE  owners'[next[i]] = owners[list[i]] /\ next[i] = list[i]
    OBVIOUS
  <2>2. /\ list[i] # a
        /\ list[i] # prev
        /\ list[i] # new
        /\ list[i] \in Account \cup {Sentinel}
    BY <1>1, <1>2, <1>3, <1>6, <2>1
  <2>3. QED
    BY <1>7, <1>8, <2>1, <2>2
<1>12. next[k - 1] = prev
  BY <1>2, <1>3, <1>8
<1>13. \A i \in 0 .. (n - 1) : owners'[next[i]] = next[i + 1]
  <2>1. SUFFICES ASSUME NEW i \in 0 .. (n - 1)
                 PROVE  owners'[next[i]] = next[i + 1]
    OBVIOUS
  <2>2. i \in 0 .. n /\ i + 1 \in 0 .. n /\ owners[list[i]] = list[i + 1]
    BY <1>1
  <2>3. CASE i = k - 1
    <3>1. i + 1 = k
      BY <2>3
    <3>2. QED
      BY <1>7, <1>8, <1>12, <2>3, <3>1
  <2>4. CASE i = k
    <3>1. next[i + 1] = list[i + 1]
      <4>1. i + 1 # k
        BY <2>4
      <4>2. QED
        BY <1>8, <2>2, <4>1
    <3>2. QED
      BY <1>2, <1>7, <1>8, <2>2, <2>4, <3>1
  <2>5. CASE i # k /\ i # k - 1
    <3>1. i + 1 # k
      BY <2>5
    <3>2. next[i + 1] = list[i + 1]
      BY <1>8, <2>2, <3>1
    <3>3. owners'[next[i]] = owners[list[i]]
      BY <1>11, <2>2, <2>5
    <3>4. QED
      BY <2>2, <3>2, <3>3
  <2>6. QED
    BY <2>3, <2>4, <2>5
<1>14. owners'[next[n]] = Sentinel
  <2>1. n \in 0 .. n /\ n # k - 1
    BY <1>1
  <2>2. CASE n = k
    BY <1>1, <1>2, <1>7, <1>8, <2>2
  <2>3. CASE n # k
    BY <1>1, <1>11, <2>1, <2>3
  <2>4. QED
    BY <2>2, <2>3
<1>15. \A b \in Account : owners'[b] # Null => \E i \in 1 .. n : next[i] = b
  <2>1. SUFFICES ASSUME NEW b \in Account, owners'[b] # Null
                 PROVE  \E i \in 1 .. n : next[i] = b
    OBVIOUS
  <2>2. b # a
    BY <1>7, <2>1
  <2>3. CASE b = new
    BY <1>8, <2>3
  <2>4. CASE b # new
    <3>1. owners[b] # Null
      <4>1. CASE b = prev
        BY <4>1
      <4>2. CASE b # prev
        BY <1>7, <2>1, <2>2, <2>4, <4>2
      <4>3. QED
        BY <4>1, <4>2
    <3>2. PICK i \in 1 .. n : list[i] = b
      BY <1>1, <3>1
    <3>3. i # k /\ i \in 0 .. n
      BY <1>2, <2>2, <3>2
    <3>4. QED
      BY <1>8, <3>2, <3>3
  <2>5. QED
    BY <2>3, <2>4
<1>16. Ring(next, n)'
  BY <1>1, <1>8, <1>9, <1>10, <1>13, <1>14, <1>15 DEF Ring
<1>17. QED
  BY <1>7, <1>16

LEMMA InitOwners == SafeInit => OwnersInv
<1> SUFFICES ASSUME SafeInit
             PROVE  OwnersInv
  OBVIOUS
<1> DEFINE n == Len(SafeOwners)
           list == [i \in 0 .. n |-> IF i = 0 THEN Sentinel ELSE SafeOwners[i]]
<1>1. /\ n \in Nat
      /\ DOMAIN SafeOwners = 1 .. n
      /\ \A i \in 1 .. n : SafeOwners[i] \in Account
      /\ \A i, j \in 1 .. n : i # j => SafeOwners[i] # SafeOwners[j]
      /\ SafeThreshold \in 1 .. n
      /\ n \in Nat \ {0}
  BY SafeAssumption
<1>2. /\ owners = LinkedList(SafeOwners)
      /\ ownerCount = n
      /\ threshold = SafeThreshold
  BY DEF SafeInit
<1> HIDE DEF n
<1>3. owners[Sentinel] = SafeOwners[1]
  BY <1>2 DEF LinkedList
<1>4. ASSUME NEW i \in 1 .. n
      PROVE  owners[SafeOwners[i]] = IF i = n THEN Sentinel ELSE SafeOwners[i + 1]
  <2> DEFINE a == SafeOwners[i]
             j == CHOOSE j \in DOMAIN SafeOwners : SafeOwners[j] = a
  <2>1. a \in Account /\ a # Sentinel /\ \E m \in DOMAIN SafeOwners : SafeOwners[m] = a
    BY <1>1, Addresses
  <2>2. j = i
    BY <1>1, <2>1
  <2>3. owners[a] = IF j = Len(SafeOwners) THEN Sentinel ELSE SafeOwners[j + 1]
    BY <1>2, <2>1 DEF LinkedList
  <2> HIDE DEF j
  <2>4. QED
    BY <2>2, <2>3 DEF n
<1>5. ASSUME NEW a \in Account, \A i \in 1 .. n : SafeOwners[i] # a
      PROVE  owners[a] = Null
  <2>1. a # Sentinel /\ ~\E m \in DOMAIN SafeOwners : SafeOwners[m] = a
    BY <1>1, <1>5, Addresses
  <2>2. QED
    BY <1>2, <2>1 DEF LinkedList
<1>6. \A i \in 1 .. n : owners[SafeOwners[i]] \in Account \cup {Sentinel}
  <2>1. SUFFICES ASSUME NEW i \in 1 .. n
                 PROVE  owners[SafeOwners[i]] \in Account \cup {Sentinel}
    OBVIOUS
  <2>2. i # n => i + 1 \in 1 .. n
    BY <1>1
  <2>3. QED
    BY <1>1, <1>4, <2>2
<1>7. OwnersTyped
  <2>1. 1 \in 1 .. n
    BY <1>1
  <2>2. \A a \in Account : owners[a] \in Account \cup {Sentinel, Null}
    BY <1>5, <1>6
  <2>3. owners[Sentinel] \in Account
    BY <1>1, <1>3, <2>1
  <2>4. \E g : owners = [a \in Account \cup {Sentinel} |-> g[a]]
    <3>1. owners = [a \in Account \cup {Sentinel} |-> owners[a]]
      BY <1>2 DEF LinkedList
    <3>2. QED
      BY <3>1
  <2>5. QED
    BY <2>2, <2>3, <2>4 DEF OwnersTyped
<1>8. /\ list \in [0 .. n -> Account \cup {Sentinel}]
      /\ list[0] = Sentinel
      /\ \A i \in 1 .. n : list[i] = SafeOwners[i] /\ list[i] # Sentinel
  <2>1. \A i \in 0 .. n : i = 0 \/ i \in 1 .. n
    BY <1>1
  <2>2. \A i \in 1 .. n : i \in 0 .. n /\ i # 0
    BY <1>1
  <2>3. 0 \in 0 .. n
    BY <1>1
  <2>4. QED
    BY <1>1, <2>1, <2>2, <2>3, Addresses
<1> HIDE DEF list
<1>9. Ring(list, n)
  <2>1. \A i, j \in 0 .. n : list[i] = list[j] => i = j
    <3>1. \A i \in 0 .. n : i = 0 \/ i \in 1 .. n
      BY <1>1
    <3>2. QED
      BY <1>1, <1>8, <3>1
  <2>2. \A i \in 0 .. (n - 1) : owners[list[i]] = list[i + 1]
    <3>1. SUFFICES ASSUME NEW i \in 0 .. (n - 1)
                   PROVE  owners[list[i]] = list[i + 1]
      OBVIOUS
    <3>2. i + 1 \in 1 .. n
      BY <1>1
    <3>3. CASE i = 0
      BY <1>3, <1>8, <3>2, <3>3
    <3>4. CASE i # 0
      <4>1. i \in 1 .. n /\ i # n
        BY <1>1, <3>4
      <4>2. QED
        BY <1>4, <1>8, <3>2, <4>1
    <3>5. QED
      BY <3>3, <3>4
  <2>3. owners[list[n]] = Sentinel
    <3>1. n \in 1 .. n
      BY <1>1
    <3>2. QED
      BY <1>4, <1>8, <3>1
  <2>4. \A a \in Account : owners[a] # Null => \E i \in 1 .. n : list[i] = a
    BY <1>5, <1>8
  <2>5. QED
    BY <1>1, <1>8, <2>1, <2>2, <2>3, <2>4 DEF Ring
<1>10. QED
  BY <1>1, <1>2, <1>7, <1>9 DEF OwnersInv

LEMMA OwnerCallKeeps ==
  ASSUME OwnersInv, NEW c \in Call, OwnerCall(c)
  PROVE  OwnersInv'
<1>1. PICK list : Ring(list, ownerCount)
  BY DEF OwnersInv
<1>2. /\ OwnersTyped
      /\ threshold \in 1 .. ownerCount
      /\ ownerCount \in Nat \ {0}
  BY <1>1 DEF OwnersInv, Ring
<1>3. CASE c.call = "addOwnerWithThreshold" /\ AddOwnerWithThreshold(c.owner, c.threshold)
  <2>1. c.owner \in Account /\ owners[c.owner] = Null /\ c.threshold \in Nat
    BY <1>3, OwnerCallAssumption DEF AddOwnerWithThreshold, CanBecomeOwner
  <2>2. /\ owners' = [owners EXCEPT ![c.owner] = owners[Sentinel], ![Sentinel] = c.owner]
        /\ ownerCount' = ownerCount + 1
        /\ threshold' \in 1 .. ownerCount'
    BY <1>2, <1>3, <2>1 DEF AddOwnerWithThreshold, SetThreshold, ValidThreshold
  <2>3. PICK n : n = ownerCount + 1
    OBVIOUS
  <2>4. OwnersTyped' /\ \E more : Ring(more, n)'
    BY <1>1, <1>2, <2>1, <2>2, <2>3, RingGrows
  <2>5. ownerCount' = n
    BY <2>2, <2>3
  <2>6. QED
    BY <2>2, <2>4, <2>5 DEF OwnersInv
<1>4. CASE c.call = "removeOwner" /\ RemoveOwner(c.prev, c.owner, c.threshold)
  <2>1. /\ c.prev \in Account \cup {Sentinel}
        /\ c.threshold \in Nat
        /\ c.owner # Null
        /\ c.owner # Sentinel
        /\ owners[c.prev] = c.owner
    BY <1>4, OwnerCallAssumption DEF RemoveOwner, IsSuccessor
  <2>2. /\ owners' = [owners EXCEPT ![c.prev] = owners[c.owner], ![c.owner] = Null]
        /\ ownerCount' = ownerCount - 1
        /\ threshold' \in 1 .. ownerCount'
        /\ ownerCount > 1
    BY <1>2, <1>4, <2>1 DEF RemoveOwner, SetThreshold, ValidThreshold
  <2>3. PICK n : n = ownerCount - 1
    OBVIOUS
  <2>4. OwnersTyped' /\ \E rest : Ring(rest, n)'
    BY <1>1, <1>2, <2>1, <2>2, <2>3, RingShrinks
  <2>5. ownerCount' = n
    BY <2>2, <2>3
  <2>6. QED
    BY <2>2, <2>4, <2>5 DEF OwnersInv
<1>5. CASE c.call = "swapOwner" /\ SwapOwner(c.prev, c.old, c.new)
  <2>1. /\ c.prev \in Account \cup {Sentinel}
        /\ c.new \in Account
        /\ owners[c.new] = Null
        /\ c.old # Null
        /\ c.old # Sentinel
        /\ owners[c.prev] = c.old
    BY <1>5, OwnerCallAssumption DEF SwapOwner, IsSuccessor, CanBecomeOwner
  <2>2. /\ owners' = [owners EXCEPT ![c.new] = owners[c.old], ![c.prev] = c.new,
                                    ![c.old] = Null]
        /\ UNCHANGED <<ownerCount, threshold>>
    BY <1>5 DEF SwapOwner
  <2>3. PICK n : n = ownerCount
    OBVIOUS
  <2>4. OwnersTyped' /\ \E next : Ring(next, n)'
    BY <1>1, <1>2, <2>1, <2>2, <2>3, RingSwaps
  <2>5. ownerCount' = n
    BY <2>2, <2>3
  <2>6. QED
    BY <1>2, <2>2, <2>4, <2>5 DEF OwnersInv
<1>6. CASE c.call = "changeThreshold" /\ ChangeThreshold(c.threshold)
  <2>1. c.threshold \in Nat
    BY <1>6, OwnerCallAssumption
  <2>2. threshold' \in 1 .. ownerCount /\ UNCHANGED <<owners, ownerCount>>
    BY <1>2, <1>6, <2>1 DEF ChangeThreshold, ValidThreshold
  <2>3. OwnersTyped' /\ \E next : Ring(next, ownerCount)'
    BY <1>1, <1>2, <2>2 DEF OwnersTyped, Ring
  <2>4. QED
    BY <2>2, <2>3 DEF OwnersInv
<1>7. QED
  BY <1>3, <1>4, <1>5, <1>6 DEF OwnerCall

\* Counting round in a circle of m places.
LEMMA Modulo ==
  ASSUME NEW m \in Nat \ {0}, NEW i \in Nat
  PROVE  /\ i % m \in 0 .. (m - 1)
         /\ \E q \in Int : i = m * q + (i % m)
<1>1. i % m \in 0 .. (m - 1)
  OBVIOUS
<1>2. i \div m \in Int /\ i = m * (i \div m) + (i % m)
  OBVIOUS
<1>3. QED
  BY <1>1, <1>2

LEMMA NextInCircle ==
  ASSUME NEW m \in Nat \ {0}, NEW i \in Nat
  PROVE  /\ i % m \in 0 .. (m - 1)
         /\ (i + 1) % m = IF i % m = m - 1 THEN 0 ELSE (i % m) + 1
<1> DEFINE r == i % m
           s == (i + 1) % m
<1>1. PICK q \in Int : i = m * q + r
  BY Modulo
<1>2. PICK p \in Int : i + 1 = m * p + s
  <2>1. i + 1 \in Nat
    OBVIOUS
  <2>2. QED
    BY <2>1, Modulo
<1>3. r \in 0 .. (m - 1) /\ s \in 0 .. (m - 1)
  BY Modulo
<1> HIDE DEF r, s
<1>4. \A d \in Int : m * d < m /\ 0 - m < m * d => d = 0
  <2>1. SUFFICES ASSUME NEW d \in Int, m * d < m, 0 - m < m * d
                 PROVE  d = 0
    OBVIOUS
  <2>2. ~(d >= 1)
    BY <2>1
  <2>3. ~(d <= 0 - 1)
    BY <2>1
  <2>4. QED
    BY <2>2, <2>3
<1>5. m * (p - q) = r + 1 - s
  BY <1>1, <1>2, <1>3
<1>6. CASE r = m - 1
  <2>1. m * (p - q - 1) = 0 - s
    BY <1>3, <1>5, <1>6
  <2>2. 0 - m < 0 - s /\ 0 - s < m
    BY <1>3
  <2>3. p - q - 1 = 0
    BY <1>4, <2>1, <2>2
  <2>4. s = 0
    BY <1>3, <2>1, <2>3
  <2>5. QED
    BY <1>3, <1>6, <2>4 DEF r, s
<1>7. CASE r # m - 1
  <2>1. 0 - m < r + 1 - s /\ r + 1 - s < m
    BY <1>3, <1>7
  <2>2. p - q = 0
    BY <1>4, <1>5, <2>1
  <2>3. s = r + 1
    BY <1>3, <1>5, <2>2
  <2>4. QED
    BY <1>3, <1>7, <2>3 DEF r, s
<1>8. QED
  BY <1>6, <1>7

\* Walk is a recursive function.  That there is one is shown by the list walked round
\* and round; that it is the list, by a least place where it is not.
LEMMA WalkIsTheList ==
  ASSUME OwnersTyped, NEW n, NEW list, Ring(list, n)
  PROVE  /\ \A i \in 0 .. (n - 1) : Walk[i] = list[i + 1]
         /\ Walk[n] = Sentinel
<1> DEFINE Steps(f) == f = [i \in Nat |-> IF i = 0 THEN owners[Sentinel] ELSE owners[f[i - 1]]]
           round == [i \in Nat |-> list[(i + 1) % (n + 1)]]
           next(i) == IF i = n THEN 0 ELSE i + 1
<1>1. /\ n \in Nat \ {0}
      /\ list[0] = Sentinel
      /\ \A i \in 0 .. (n - 1) : owners[list[i]] = list[i + 1]
      /\ owners[list[n]] = Sentinel
  BY DEF Ring
<1>2. \A i \in 0 .. n : owners[list[i]] = list[next(i)]
  BY <1>1
<1>3. Steps(round)
  <2>1. ASSUME NEW i \in Nat
        PROVE  round[i] = IF i = 0 THEN owners[Sentinel] ELSE owners[round[i - 1]]
    <3>1. CASE i = 0
      <4>1. (0 + 1) % (n + 1) = 1 /\ 0 \in 0 .. (n - 1)
        BY <1>1
      <4>2. QED
        BY <1>1, <3>1, <4>1
    <3>2. CASE i # 0
      <4>1. i - 1 \in Nat /\ (i - 1) + 1 = i
        BY <3>2
      <4>2. i % (n + 1) \in 0 .. n /\ (i + 1) % (n + 1) = next(i % (n + 1))
        <5>1. n + 1 \in Nat \ {0} /\ (n + 1) - 1 = n
          BY <1>1
        <5>2. QED
          BY <5>1, NextInCircle
      <4>3. round[i - 1] = list[i % (n + 1)]
        BY <4>1
      <4>4. QED
        BY <1>2, <3>2, <4>2, <4>3
    <3>3. QED
      BY <3>1, <3>2
  <2>2. QED
    BY <2>1
<1> HIDE DEF round
<1>4. Steps(Walk)
  BY <1>3 DEF Walk
<1>5. Walk[0] = owners[Sentinel] /\ \A i \in Nat \ {0} : Walk[i] = owners[Walk[i - 1]]
  BY <1>4
<1> DEFINE wrong == {i \in 0 .. (n - 1) : Walk[i] # list[i + 1]}
<1>6. wrong = {}
  <2>1. SUFFICES ASSUME wrong # {}
                 PROVE  FALSE
    OBVIOUS
  <2>2. wrong \subseteq Nat
    BY <1>1
  <2>3. PICK m \in wrong : \A i \in wrong : m <= i
    BY <2>1, <2>2, Least
  <2>4. CASE m = 0
    <3>1. 0 \in 0 .. (n - 1) /\ owners[list[0]] = list[0 + 1]
      BY <1>1
    <3>2. QED
      BY <1>1, <1>5, <2>3, <2>4, <3>1
  <2>5. CASE m # 0
    <3>1. /\ m - 1 \in 0 .. (n - 1)
          /\ m \in 0 .. (n - 1)
          /\ m \in Nat \ {0}
          /\ ~(m <= m - 1)
          /\ (m - 1) + 1 = m
      BY <1>1, <2>3, <2>5
    <3>2. Walk[m - 1] = list[m]
      BY <2>3, <3>1
    <3>3. QED
      BY <1>1, <1>5, <2>3, <3>1, <3>2
  <2>6. QED
    BY <2>4, <2>5
<1>7. Walk[n] = Sentinel
  <2>1. n - 1 \in 0 .. (n - 1) /\ (n - 1) + 1 = n
    BY <1>1
  <2>2. Walk[n - 1] = list[n]
    BY <1>6, <2>1
  <2>3. QED
    BY <1>1, <1>5, <2>2
<1>8. QED
  BY <1>6, <1>7

LEMMA OwnersStandWell == OwnersInv => OwnersWellFormed
<1> SUFFICES ASSUME OwnersInv
             PROVE  OwnersWellFormed
  OBVIOUS
<1>1. PICK list : Ring(list, ownerCount)
  BY DEF OwnersInv
<1>2. OwnersTyped /\ threshold \in 1 .. ownerCount /\ ownerCount \in Nat \ {0}
  BY <1>1 DEF OwnersInv, Ring
<1>3. ownerCount = Cardinality(Owners)
  BY <1>1, <1>2, OwnersCounted
<1>4. /\ \A i \in 0 .. (ownerCount - 1) : Walk[i] = list[i + 1]
      /\ Walk[ownerCount] = Sentinel
  BY <1>1, <1>2, WalkIsTheList
<1>5. {Walk[i] : i \in 0 .. (ownerCount - 1)} = Owners
  <2>1. ASSUME NEW i \in 0 .. (ownerCount - 1)
        PROVE  Walk[i] \in Owners
    <3>1. i + 1 \in 1 .. ownerCount
      BY <1>2
    <3>2. QED
      BY <1>1, <1>2, <1>4, <3>1, RingFacts DEF Owners
  <2>2. ASSUME NEW a \in Owners
        PROVE  \E i \in 0 .. (ownerCount - 1) : Walk[i] = a
    <3>1. PICK k \in 1 .. ownerCount : list[k] = a
      BY <1>1, <1>2, RingFacts DEF Owners
    <3>2. k - 1 \in 0 .. (ownerCount - 1) /\ (k - 1) + 1 = k
      BY <1>2
    <3>3. Walk[k - 1] = a
      BY <1>4, <3>1, <3>2
    <3>4. QED
      BY <3>2, <3>3
  <2>3. QED
    BY <2>1, <2>2
<1>6. QED
  BY <1>2, <1>3, <1>4, <1>5 DEF OwnersWellFormed
-----------------------------------------------------------------------------
\* What the Safe knows besides: a nonce is used up when a call executed with it.
SafeTyped ==
  /\ nonce \in 0 .. MaxNonce
  /\ approved \in [TxHash -> SUBSET Account]
  /\ executed \in [Nonce -> Call \cup {NotYet}]
  /\ \A n \in Nonce : n < nonce <=> executed[n] # NotYet

SafeInv == OwnersInv /\ SafeTyped

\* A request has a call that the routes encode, and once it read one, a nonce.
RequestsTyped ==
  requests \in
    [Request -> {Idle} \cup [at : {"asked"}, call : RouteCall]
                       \cup [at    : {"first", "second", "execute", "mined", "propose"},
                             call  : RouteCall,
                             nonce : Nonce]]

\* What a step of the backend does on the chain.
ChainStep ==
  \/ UNCHANGED evmVars
  \/ \E a \in Account, h \in TxHash : ApproveHash(a, h) /\ UNCHANGED registryVars
  \/ \E c \in Call : \E signers, sender : ExecTransaction(c, signers, sender)
  \/ \E k \in RoleKey : RenounceRole(k)
  \/ NextBlock

LEMMA RoutesAreCalls == RouteCall \subseteq Call
  BY BackendAssumption DEF Grants, Revocations, Mints, Transfers, CredentialRevocations

LEMMA RequestFacts ==
  ASSUME RequestsTyped, NEW r \in Request, requests[r] # Idle
  PROVE  /\ requests[r].call \in Call
         /\ requests[r].call \in RouteCall
         /\ requests[r].at # "asked" => /\ requests[r].nonce \in Nonce
                                        /\ HashFor(r) \in TxHash
<1>1. requests[r].call \in RouteCall
  BY DEF RequestsTyped
<1>2. requests[r].at # "asked" => requests[r].nonce \in Nonce
  BY DEF RequestsTyped
<1>3. QED
  BY <1>1, <1>2, RoutesAreCalls DEF HashFor, HashOf, TxHash

LEMMA BackendSteps ==
  ASSUME RequestsTyped, BackendNext
  PROVE  ChainStep
<1>1. ASSUME NEW r \in Request, NEW who \in Account, NEW c \in RouteCall, Ask(r, who, c)
      PROVE  ChainStep
  BY <1>1 DEF Ask, ChainStep
<1>2. ASSUME NEW r \in Request, ReadNonce(r)
      PROVE  ChainStep
  BY <1>2 DEF ReadNonce, ChainStep
<1>3. ASSUME NEW r \in Request, Confirm(r)
      PROVE  ChainStep
  <2>1. HashFor(r) \in TxHash
    BY <1>3, RequestFacts DEF Confirm, IsAt
  <2>2. \E a \in Account : ApproveHash(a, HashFor(r)) /\ UNCHANGED registryVars
    <3>1. CASE ApproveHash(OwnerKeys[1], HashFor(r))
      <4>1. OwnerKeys[1] \in Account
        BY <3>1 DEF ApproveHash, IsOwner
      <4>2. QED
        BY <1>3, <3>1, <4>1 DEF Confirm
    <3>2. CASE ApproveHash(OwnerKeys[2], HashFor(r))
      <4>1. OwnerKeys[2] \in Account
        BY <3>2 DEF ApproveHash, IsOwner
      <4>2. QED
        BY <1>3, <3>2, <4>1 DEF Confirm
    <3>3. QED
      BY <1>3, <3>1, <3>2 DEF Confirm
  <2>3. PICK h \in TxHash : h = HashFor(r)
    BY <2>1
  <2>4. QED
    BY <2>2, <2>3 DEF ChainStep
<1>4. ASSUME NEW r \in Request, ExecuteLocal(r)
      PROVE  ChainStep
  <2>1. requests[r].call \in Call
    BY <1>4, RequestFacts DEF ExecuteLocal, IsAt
  <2>2. QED
    BY <1>4, <2>1 DEF ExecuteLocal, ChainStep
<1>5. ASSUME NEW r \in Request, AnswerLocal(r)
      PROVE  ChainStep
  BY <1>5 DEF AnswerLocal, ChainStep
<1>6. ASSUME NEW r \in Request, ProposeHosted(r)
      PROVE  ChainStep
  BY <1>6 DEF ProposeHosted, ChainStep
<1>7. ASSUME NEW r \in Request, Fail(r)
      PROVE  ChainStep
  BY <1>7 DEF Fail, ChainStep
<1>8. ASSUME NEW a \in Account, NEW c \in Call, OwnerProposes(a, c)
      PROVE  ChainStep
  BY <1>8 DEF OwnerProposes, ChainStep
<1>9. ASSUME NEW a \in Account, NEW h \in TxHash, OwnerConfirms(a, h)
      PROVE  ChainStep
  BY <1>9 DEF OwnerConfirms, ChainStep
<1>10. ASSUME NEW c \in Call, NEW sender \in Executor, AnyoneExecutes(c, sender)
       PROVE  ChainStep
  BY <1>10 DEF AnyoneExecutes, ChainStep
<1>11. ASSUME NEW k \in RoleKey, RenounceRole(k)
       PROVE  ChainStep
  BY <1>11 DEF ChainStep
<1>12. CASE NextBlock
  BY <1>12 DEF ChainStep
<1>13. QED
  BY <1>1, <1>2, <1>3, <1>4, <1>5, <1>6, <1>7, <1>8, <1>9, <1>10, <1>11, <1>12
     DEF BackendNext

LEMMA BackendKeepsRequests ==
  ASSUME RequestsTyped, [BackendNext]_allVars
  PROVE  RequestsTyped'
<1>1. ASSUME NEW r \in Request, NEW who \in Account, NEW c \in RouteCall, Ask(r, who, c)
      PROVE  RequestsTyped'
  BY <1>1 DEF Ask, RequestsTyped
<1>2. ASSUME NEW r \in Request, ReadNonce(r)
      PROVE  RequestsTyped'
  <2>1. requests[r].call \in RouteCall
    BY <1>2, RequestFacts DEF ReadNonce, IsAt
  <2>2. QED
    BY <1>2, <2>1 DEF ReadNonce, RequestsTyped
<1>3. ASSUME NEW r \in Request, NEW step \in {"second", "execute", "mined"},
             IsAt(r, "first") \/ IsAt(r, "second") \/ IsAt(r, "execute"), MoveTo(r, step)
      PROVE  RequestsTyped'
  BY <1>3 DEF IsAt, MoveTo, RequestsTyped
<1>4. ASSUME NEW r \in Request, Return(r)
      PROVE  RequestsTyped'
  BY <1>4 DEF Return, RequestsTyped
<1>5. CASE UNCHANGED requests
  BY <1>5 DEF RequestsTyped
<1>6. CASE BackendNext
  <2>1. ASSUME NEW r \in Request, Confirm(r)
        PROVE  RequestsTyped'
    BY <1>3, <2>1 DEF Confirm
  <2>2. ASSUME NEW r \in Request, ExecuteLocal(r)
        PROVE  RequestsTyped'
    BY <1>3, <2>2 DEF ExecuteLocal
  <2>3. ASSUME NEW r \in Request, AnswerLocal(r) \/ ProposeHosted(r) \/ Fail(r)
        PROVE  RequestsTyped'
    BY <1>4, <2>3 DEF AnswerLocal, ProposeHosted, Fail
  <2>4. ASSUME NEW a \in Account, NEW c \in Call, OwnerProposes(a, c)
        PROVE  RequestsTyped'
    BY <1>5, <2>4 DEF OwnerProposes
  <2>5. ASSUME NEW a \in Account, NEW h \in TxHash, OwnerConfirms(a, h)
        PROVE  RequestsTyped'
    BY <1>5, <2>5 DEF OwnerConfirms, backendVars
  <2>6. ASSUME NEW c \in Call, NEW sender \in Executor, AnyoneExecutes(c, sender)
        PROVE  RequestsTyped'
    BY <1>5, <2>6 DEF AnyoneExecutes, backendVars
  <2>7. CASE UNCHANGED backendVars
    BY <1>5, <2>7 DEF backendVars
  <2>8. QED
    BY <1>1, <1>2, <1>6, <2>1, <2>2, <2>3, <2>4, <2>5, <2>6, <2>7 DEF BackendNext
<1>7. QED
  BY <1>5, <1>6 DEF allVars, backendVars

LEMMA ApprovalKeepsSafe ==
  ASSUME SafeInv, NEW a \in Account, NEW h \in TxHash, ApproveHash(a, h)
  PROVE  SafeInv'
<1>1. OwnersInv'
  BY DEF SafeInv, ApproveHash, ownerVars, OwnersInv, OwnersTyped, Ring
<1>2. SafeTyped'
  BY DEF SafeInv, SafeTyped, ApproveHash
<1>3. QED
  BY <1>1, <1>2 DEF SafeInv

LEMMA ConsumptionFacts ==
  ASSUME SafeInv, NEW c \in Call, NEW signers, NEW sender, ConsumeNonce(c, signers, sender)
  PROVE  /\ nonce \in Nonce
         /\ HashOf(c, nonce) \in TxHash
         /\ executed[nonce] = NotYet
         /\ c # NotYet
         /\ SafeTyped'
<1>1. nonce \in Nonce
  BY SafeAssumption DEF SafeInv, SafeTyped, ConsumeNonce, Nonce
<1>2. HashOf(c, nonce) \in TxHash
  BY <1>1 DEF HashOf, TxHash
<1>3. executed[nonce] = NotYet
  BY <1>1, SafeAssumption DEF SafeInv, SafeTyped
<1>4. c # NotYet
  BY OwnerCallAssumption DEF NotYet
<1>5. SafeTyped'
  <2>1. nonce' = nonce + 1 /\ executed' = [executed EXCEPT ![nonce] = c]
    BY DEF ConsumeNonce
  <2>2. nonce' \in 0 .. MaxNonce
    BY <1>1, <2>1, SafeAssumption DEF Nonce
  <2>3. approved' \in [TxHash -> SUBSET Account]
    BY DEF SafeInv, SafeTyped, ConsumeNonce, Owners
  <2>4. executed' \in [Nonce -> Call \cup {NotYet}]
    BY <2>1 DEF SafeInv, SafeTyped
  <2>5. ASSUME NEW n \in Nonce
        PROVE  n < nonce + 1 <=> executed'[n] # NotYet
    <3>1. CASE n = nonce
      BY <1>1, <1>4, <2>1, <3>1, SafeAssumption DEF SafeInv, SafeTyped, Nonce
    <3>2. CASE n # nonce
      <4>1. executed'[n] = executed[n]
        BY <2>1, <3>2 DEF SafeInv, SafeTyped
      <4>2. n < nonce + 1 <=> n < nonce
        BY <1>1, <3>2, SafeAssumption DEF Nonce
      <4>3. QED
        BY <4>1, <4>2 DEF SafeInv, SafeTyped
    <3>3. QED
      BY <3>1, <3>2
  <2>6. QED
    BY <2>1, <2>2, <2>3, <2>4, <2>5 DEF SafeTyped
<1>6. QED
  BY <1>1, <1>2, <1>3, <1>4, <1>5

LEMMA ExecutionKeepsSafe ==
  ASSUME SafeInv, NEW c \in Call, NEW signers, NEW sender, ExecTransaction(c, signers, sender)
  PROVE  SafeInv'
<1>1. SafeTyped'
  BY ConsumptionFacts DEF ExecTransaction
<1>2. OwnersInv'
  <2>1. CASE OwnerCall(c)
    BY <2>1, OwnerCallKeeps DEF SafeInv
  <2>2. CASE UNCHANGED ownerVars
    BY <2>2 DEF SafeInv, ownerVars, OwnersInv, OwnersTyped, Ring
  <2>3. QED
    BY <2>1, <2>2 DEF ExecTransaction
<1>3. QED
  BY <1>1, <1>2 DEF SafeInv

LEMMA ChainKeepsSafe ==
  ASSUME SafeInv, ChainStep
  PROVE  SafeInv'
<1>1. CASE UNCHANGED safeVars
  BY <1>1 DEF SafeInv, SafeTyped, safeVars, ownerVars, OwnersInv, OwnersTyped, Ring
<1>2. CASE UNCHANGED evmVars
  BY <1>1, <1>2 DEF evmVars
<1>3. ASSUME NEW k \in RoleKey, RenounceRole(k)
      PROVE  SafeInv'
  BY <1>1, <1>3 DEF RenounceRole
<1>4. CASE NextBlock
  BY <1>1, <1>4 DEF NextBlock
<1>5. QED
  BY <1>2, <1>3, <1>4, ApprovalKeepsSafe, ExecutionKeepsSafe DEF ChainStep

LEMMA InitSafe ==
  ASSUME SafeInit
  PROVE  SafeInv
<1>1. OwnersInv
  BY InitOwners
<1>2. SafeTyped
  BY SafeAssumption DEF SafeInit, SafeTyped, Nonce
<1>3. QED
  BY <1>1, <1>2 DEF SafeInv

\* The Safe's state is as its contracts need it, whatever requests, owners and
\* senders do (OwnerManager.sol, Safe.sol): the owners stand in one ring, the
\* threshold is within their number, and what was executed fills the nonces used up.
THEOREM SafeStands == BackendSpec => [](SafeInv /\ RequestsTyped)
<1>1. BackendInit => SafeInv /\ RequestsTyped
  BY InitSafe DEF BackendInit, RequestsTyped
<1>2. SafeInv /\ RequestsTyped /\ [BackendNext]_allVars => (SafeInv /\ RequestsTyped)'
  <2>1. SUFFICES ASSUME SafeInv, RequestsTyped, [BackendNext]_allVars
                 PROVE  (SafeInv /\ RequestsTyped)'
    OBVIOUS
  <2>2. ChainStep
    BY <2>1, BackendSteps DEF ChainStep, allVars
  <2>3. QED
    BY <2>1, <2>2, ChainKeepsSafe, BackendKeepsRequests
<1>3. QED
  BY <1>1, <1>2, PTL DEF BackendSpec

\* Links, count and walk agree after any sequence of executed additions, removals
\* and swaps of owners (OwnerManager.sol).
THEOREM OwnersStand == BackendSpec => []OwnersWellFormed
<1>1. SafeInv => OwnersWellFormed
  BY OwnersStandWell DEF SafeInv
<1>2. QED
  BY <1>1, SafeStands, PTL

-----------------------------------------------------------------------------
\* The Safe as threshold approval.

\* The instance's copy of Cardinality is Cardinality.
LEMMA SafeCardinality == \A S : Abstract!Cardinality(S) = Cardinality(S)
  BY DEF Abstract!Cardinality, Cardinality

LEMMA OwnersAreFinite ==
  ASSUME OwnersInv
  PROVE  /\ Owners \subseteq Account
         /\ IsFiniteSet(Owners)
         /\ Cardinality(Owners) = ownerCount
         /\ threshold \in 1 .. Cardinality(Owners)
<1>1. PICK n, list : n = ownerCount /\ Ring(list, n)
  BY DEF OwnersInv
<1>2. IsFiniteSet(Owners) /\ Cardinality(Owners) = n
  BY <1>1, OwnersCounted DEF OwnersInv
<1>3. QED
  BY <1>1, <1>2 DEF OwnersInv, Owners

\* Ascending signers are different ones.
LEMMA AscendingDiffer ==
  ASSUME NEW t \in Nat, NEW signers, \A i \in 1 .. t : signers[i] \in Nat,
         \A i \in 1 .. t : i > 1 => signers[i] > signers[i - 1],
         NEW i \in 1 .. t, NEW j \in 1 .. t, signers[i] = signers[j]
  PROVE  i = j
<1>1. \A a, b \in 1 .. t : a < b => signers[a] < signers[b]
  <2> SUFFICES ASSUME NEW a \in 1 .. t
               PROVE  \A b \in 1 .. t : a < b => signers[a] < signers[b]
    OBVIOUS
  <2> DEFINE wrong == {b \in 1 .. t : a < b /\ ~(signers[a] < signers[b])}
  <2>1. SUFFICES ASSUME wrong # {}
                 PROVE  FALSE
    OBVIOUS
  <2>2. PICK m \in wrong : \A b \in wrong : m <= b
    <3>1. wrong \subseteq Nat
      BY <2>1
    <3>2. QED
      BY <2>1, <3>1, Least
  <2>3. m \in 1 .. t /\ a < m /\ ~(signers[a] < signers[m])
    BY <2>1, <2>2
  <2>4. m - 1 \in 1 .. t /\ signers[m] > signers[m - 1]
    BY <2>3
  <2>5. CASE m - 1 = a
    BY <2>3, <2>4, <2>5
  <2>6. CASE m - 1 # a
    <3>1. a < m - 1
      BY <2>3, <2>6
    <3>2. m - 1 \notin wrong
      BY <2>2, <2>3
    <3>3. signers[a] < signers[m - 1]
      BY <2>1, <2>4, <3>1, <3>2
    <3>4. signers[a] \in Nat /\ signers[m - 1] \in Nat /\ signers[m] \in Nat
      BY <2>3, <2>4
    <3>5. QED
      BY <2>3, <2>4, <3>3, <3>4
  <2>7. QED
    BY <2>5, <2>6
<1>2. QED
  BY <1>1

\* What checkNSignatures accepts is a threshold of the owners.
LEMMA ThresholdSigned ==
  ASSUME SafeInv, NEW h \in TxHash, NEW signers, NEW sender,
         SignaturesAreValid(signers, h, sender)
  PROVE  Cardinality((approved[h] \cup ({sender} \cap Owners)) \cap Owners) >= threshold
<1> DEFINE signed == (approved[h] \cup ({sender} \cap Owners)) \cap Owners
           f == [i \in 1 .. threshold |-> signers[i]]
<1>1. threshold \in Nat
  BY OwnersAreFinite DEF SafeInv
<1>2. \A i \in 1 .. threshold : signers[i] \in signed
  BY DEF SignaturesAreValid, Confirmed, IsOwner, Owners
<1>3. \A i \in 1 .. threshold : signers[i] \in Nat
  BY SafeAssumption DEF SignaturesAreValid, IsOwner
<1>4. \A i \in 1 .. threshold : i > 1 => signers[i] > signers[i - 1]
  BY DEF SignaturesAreValid
<1>5. \A i, j \in 1 .. threshold : signers[i] = signers[j] => i = j
  BY <1>1, <1>3, <1>4, AscendingDiffer
<1>6. IsFiniteSet(signed)
  <2>1. signed \subseteq Owners
    OBVIOUS
  <2>2. QED
    BY <2>1, OwnersAreFinite, FS_Subset DEF SafeInv
<1> HIDE DEF signed
<1>7. f \in Injection(1 .. threshold, signed)
  BY <1>2, <1>5 DEF Injection, IsInjective
<1>8. IsFiniteSet(1 .. threshold) /\ Cardinality(1 .. threshold) = threshold
  BY <1>1, FS_Interval
<1>9. Cardinality(1 .. threshold) <= Cardinality(signed)
  BY <1>6, <1>7, FS_Injection DEF ExistsInjection
<1>10. Cardinality(signed) \in Nat
  BY <1>6, FS_CardinalityType
<1>11. QED
  BY <1>1, <1>8, <1>9, <1>10 DEF signed

LEMMA ApprovalApproves ==
  ASSUME SafeInv, NEW a \in Account, NEW h \in TxHash, ApproveHash(a, h)
  PROVE  [Abstract!Next]_(Abstract!vars)
<1>1. /\ UNCHANGED <<ownerVars, nonce, executed>>
      /\ approved' = [approved EXCEPT ![h] = @ \cup {a}]
      /\ a \in Owners
  BY DEF ApproveHash, Owners, IsOwner
<1>2. /\ Owners' = Owners
      /\ threshold' = threshold
      /\ Done' = Done
      /\ Superseded' = Superseded
  BY <1>1 DEF Owners, IsOwner, Done, Superseded, ownerVars
<1>3. CASE a \in approved[h]
  <2>1. approved' = approved
    BY <1>1, <1>3 DEF SafeInv, SafeTyped
  <2>2. QED
    BY <1>2, <2>1 DEF Abstract!vars
<1>4. CASE a \notin approved[h]
  BY <1>1, <1>2, <1>4 DEF Abstract!Next, Abstract!Approve
<1>5. QED
  BY <1>3, <1>4

LEMMA ExecutionExecutes ==
  ASSUME SafeInv, OwnersWellFormed', NEW c \in Call, NEW signers, NEW sender,
         ExecTransaction(c, signers, sender)
  PROVE  Abstract!Next
<1>1. ConsumeNonce(c, signers, sender)
  BY DEF ExecTransaction
<1>2. PICK h \in TxHash : h = HashOf(c, nonce)
  BY <1>1, ConsumptionFacts
<1>3. /\ h = <<c, nonce>>
      /\ nonce \in Nonce
      /\ executed[nonce] = NotYet
      /\ c # NotYet
  BY <1>1, <1>2, ConsumptionFacts DEF HashOf
<1>4. /\ nonce' = nonce + 1
      /\ executed' = [executed EXCEPT ![nonce] = c]
      /\ approved' = [approved EXCEPT ![h] = @ \cup ({sender} \cap Owners)]
  BY <1>1, <1>2 DEF ConsumeNonce
<1>5. h \notin Done /\ h \notin Superseded
  BY <1>3, SafeAssumption DEF Done, Superseded, Nonce
<1>6. ASSUME NEW g \in TxHash
      PROVE  g \in Done' <=> g \in Done \/ g = h
  <2>1. PICK d \in Call, n \in Nonce : g = <<d, n>>
    BY DEF TxHash
  <2>2. g \in Done' <=> executed'[n] = d
    BY <2>1 DEF Done
  <2>3. g \in Done <=> executed[n] = d
    BY <2>1 DEF Done
  <2>4. CASE n = nonce
    <3>1. executed'[n] = c
      BY <1>3, <1>4, <2>4 DEF SafeInv, SafeTyped
    <3>2. d # NotYet
      BY OwnerCallAssumption DEF NotYet
    <3>3. g \notin Done
      BY <1>3, <2>3, <2>4, <3>2
    <3>4. QED
      BY <1>3, <2>1, <2>2, <2>4, <3>1, <3>3
  <2>5. CASE n # nonce
    <3>1. executed'[n] = executed[n]
      BY <1>3, <1>4, <2>5 DEF SafeInv, SafeTyped
    <3>2. g # h
      BY <1>3, <2>1, <2>5
    <3>3. QED
      BY <2>2, <2>3, <3>1, <3>2
  <2>6. QED
    BY <2>4, <2>5
<1>7. Done' = Done \cup {h}
  <2>1. Done \subseteq TxHash /\ Done' \subseteq TxHash
    BY DEF Done
  <2>2. QED
    BY <1>6, <2>1
<1>8. Superseded \subseteq Superseded' /\ Superseded' \subseteq TxHash \ Done'
  <2>1. ASSUME NEW g \in Superseded
        PROVE  g \in Superseded'
    <3>1. PICK d \in Call, n \in Nonce : g = <<d, n>>
      BY DEF Superseded, TxHash
    <3>2. g \in TxHash /\ g \notin Done /\ n < nonce
      BY <3>1 DEF Superseded
    <3>3. g # h /\ n < nonce + 1
      BY <1>3, <3>1, <3>2, SafeAssumption DEF Nonce
    <3>4. g \notin Done'
      BY <1>7, <3>2, <3>3
    <3>5. QED
      BY <1>4, <3>1, <3>2, <3>3, <3>4 DEF Superseded
  <2>2. QED
    BY <2>1 DEF Superseded
<1>9. \E e \in {{}} \cup {{p} : p \in Owners} :
        /\ Cardinality((approved[h] \cup e) \cap Owners) >= threshold
        /\ approved' = [approved EXCEPT ![h] = @ \cup e]
  <2>1. {sender} \cap Owners \in {{}} \cup {{p} : p \in Owners}
    OBVIOUS
  <2>2. SignaturesAreValid(signers, h, sender)
    BY <1>1, <1>2 DEF ConsumeNonce
  <2>3. Cardinality((approved[h] \cup ({sender} \cap Owners)) \cap Owners) >= threshold
    BY <2>2, ThresholdSigned
  <2>4. QED
    BY <1>4, <2>1, <2>3
<1>10. Owners' \subseteq Account /\ threshold' \in 1 .. Cardinality(Owners')
  BY DEF OwnersWellFormed, Owners
<1>11. Abstract!Execute(h)
  BY <1>5, <1>7, <1>8, <1>9, <1>10, SafeCardinality DEF Abstract!Execute, Abstract!Open
<1>12. Done' # Done
  BY <1>5, <1>7
<1>13. QED
  BY <1>11, <1>12 DEF Abstract!Next

LEMMA ChainImplements ==
  ASSUME SafeInv, OwnersWellFormed', ChainStep
  PROVE  [Abstract!Next]_(Abstract!vars)
<1>1. CASE UNCHANGED safeVars
  BY <1>1 DEF Abstract!vars, safeVars, ownerVars, Owners, IsOwner, Done, Superseded
<1>2. CASE UNCHANGED evmVars
  BY <1>1, <1>2 DEF evmVars
<1>3. ASSUME NEW k \in RoleKey, RenounceRole(k)
      PROVE  UNCHANGED safeVars
  BY <1>3 DEF RenounceRole
<1>4. CASE NextBlock
  BY <1>1, <1>4 DEF NextBlock
<1>5. QED
  BY <1>1, <1>2, <1>3, <1>4, ApprovalApproves, ExecutionExecutes DEF ChainStep

LEMMA InitApproves == SafeInit => Abstract!Init
<1> SUFFICES ASSUME SafeInit
             PROVE  Abstract!Init
  OBVIOUS
<1>1. Done = {} /\ Superseded = {}
  BY SafeAssumption, OwnerCallAssumption DEF SafeInit, Done, Superseded, TxHash, NotYet, Nonce
<1>2. Owners \subseteq Account /\ threshold \in 1 .. Cardinality(Owners)
  BY InitOwners, OwnersAreFinite
<1>3. QED
  BY <1>1, <1>2, SafeCardinality DEF SafeInit, Abstract!Init

\* A key "can never execute one alone" (header of safe.service.ts).  The Safe is
\* threshold approval by its owners, although requests read the nonce early, owners
\* and backend confirm and execute side by side, and transactions change who the
\* owners are: one executes at most once, for the nonce it was confirmed with, on
\* the confirmations of a threshold of those who own the Safe at that moment.
THEOREM SafeImplementsThresholdApproval == BackendSpec => ImplementsThresholdApproval
<1>1. BackendInit => Abstract!Init
  BY InitApproves DEF BackendInit
<1>2. /\ SafeInv /\ RequestsTyped
      /\ OwnersWellFormed'
      /\ [BackendNext]_allVars
      => [Abstract!Next]_(Abstract!vars)
  <2>1. RequestsTyped /\ [BackendNext]_allVars => ChainStep
    BY BackendSteps DEF ChainStep, allVars
  <2>2. QED
    BY <2>1, ChainImplements
<1>3. QED
  BY <1>1, <1>2, SafeStands, OwnersStand, PTL
     DEF BackendSpec, ImplementsThresholdApproval, Abstract!Spec

-----------------------------------------------------------------------------
\* Roles, against the transactions that were executed about them.

\* A role is held, until when and whether its status is revoked, as the last
\* transactions about it left it.  Of a role that nobody holds the status is open:
\* its revocation sets it, whatever was executed about it before.
RoleFollows(k) ==
  /\ GrantedUntil(k) \in Nat
  /\ k \in granted <=> GrantedUntil(k) > 0 /\ k \notin renounced
  /\ GrantedUntil(k) > 0 => roleExpiry[k] = GrantedUntil(k)
  /\ k \in granted => (k \in revoked <=> Suspended(k))

RolesInv ==
  /\ now \in Nat \ {0}
  /\ roleExpiry \in [RoleKey -> Nat]
  /\ \A k \in RoleKey : RoleFollows(k)

LEMMA LatestIsNew ==
  ASSUME NEW n \in Nat, NEW N, N \subseteq 0 .. (n - 1)
  PROVE  Latest(N \cup {n}) = {n}
<1>1. \A m \in N : m <= n /\ ~(n <= m)
  OBVIOUS
<1>2. n <= n
  OBVIOUS
<1>3. \A p \in N \cup {n} : (\A m \in N \cup {n} : m <= p) <=> p = n
  BY <1>1, <1>2
<1>4. QED
  BY <1>3 DEF Latest

\* A transaction appends itself to the history, and nothing else changes there.
LEMMA HistoryGrows ==
  ASSUME SafeInv, NEW c \in Call, NEW signers, NEW sender, ConsumeNonce(c, signers, sender)
  PROVE  /\ nonce \in Nat
         /\ nonce' = nonce + 1
         /\ executed'[nonce] = c
         /\ \A m \in 0 .. (nonce - 1) : executed'[m] = executed[m]
         /\ \A m : m \in 0 .. (nonce' - 1) <=> m \in 0 .. (nonce - 1) \/ m = nonce
<1>1. nonce \in Nonce /\ nonce \in Nat
  BY ConsumptionFacts, SafeAssumption DEF Nonce
<1>2. nonce' = nonce + 1 /\ executed' = [executed EXCEPT ![nonce] = c]
  BY DEF ConsumeNonce
<1>3. executed \in [Nonce -> Call \cup {NotYet}]
  BY DEF SafeInv, SafeTyped
<1>4. \A m \in 0 .. (nonce - 1) : m \in Nonce /\ m # nonce
  BY <1>1, SafeAssumption DEF Nonce
<1>5. executed'[nonce] = c
  BY <1>1, <1>2, <1>3
<1>6. \A m \in 0 .. (nonce - 1) : executed'[m] = executed[m]
  BY <1>2, <1>3, <1>4
<1>7. \A m : m \in 0 .. (nonce + 1 - 1) <=> m \in 0 .. (nonce - 1) \/ m = nonce
  BY <1>1
<1>8. QED
  BY <1>1, <1>2, <1>5, <1>6, <1>7

LEMMA GrantedUntilGrows ==
  ASSUME SafeInv, NEW c \in Call, NEW signers, NEW sender, ConsumeNonce(c, signers, sender),
         NEW k
  PROVE  GrantedUntil(k)' = IF Governs(c, k)
                            THEN IF c.call = "grantRoleWithExpiry" THEN c.expiry ELSE 0
                            ELSE GrantedUntil(k)
<1> DEFINE about == {n \in 0 .. (nonce - 1) : Governs(executed[n], k)}
<1>1. about' = about \cup (IF Governs(c, k) THEN {nonce} ELSE {})
  BY HistoryGrows
<1>2. LastFor(k) = Latest(about) /\ LastFor(k)' = Latest(about')
  BY DEF LastFor, Latest
<1>3. about \subseteq 0 .. (nonce - 1)
  OBVIOUS
<1> HIDE DEF about
<1>4. CASE Governs(c, k)
  <2>1. LastFor(k)' = {nonce}
    <3>1. nonce \in Nat
      BY HistoryGrows
    <3>2. QED
      BY <1>1, <1>2, <1>3, <1>4, <3>1, LatestIsNew
  <2>2. (CHOOSE n \in {nonce} : TRUE) = nonce
    OBVIOUS
  <2>3. executed'[nonce] = c
    BY HistoryGrows
  <2>4. QED
    BY <1>4, <2>1, <2>2, <2>3 DEF GrantedUntil
<1>5. CASE ~Governs(c, k)
  <2>1. LastFor(k)' = LastFor(k)
    BY <1>1, <1>2, <1>5
  <2>2. CASE LastFor(k) = {}
    BY <1>5, <2>1, <2>2 DEF GrantedUntil
  <2>3. CASE LastFor(k) # {}
    <3>1. PICK n : n = CHOOSE m \in LastFor(k) : TRUE
      OBVIOUS
    <3>2. n \in LastFor(k)
      BY <2>3, <3>1
    <3>3. n \in 0 .. (nonce - 1)
      BY <1>2, <1>3, <3>2 DEF Latest
    <3>4. executed'[n] = executed[n]
      BY <3>3, HistoryGrows
    <3>5. QED
      BY <1>5, <2>1, <2>3, <3>1, <3>4 DEF GrantedUntil
  <2>4. QED
    BY <2>2, <2>3
<1>6. QED
  BY <1>4, <1>5

LEMMA SuspendedGrows ==
  ASSUME SafeInv, NEW c \in Call, NEW signers, NEW sender, ConsumeNonce(c, signers, sender),
         NEW k
  PROVE  Suspended(k)' <=> IF Governs(c, k) \/ SetsStatus(c, k)
                           THEN SetsStatus(c, k) /\ c.revoked
                           ELSE Suspended(k)
<1> DEFINE about == {n \in 0 .. (nonce - 1) :
                       Governs(executed[n], k) \/ SetsStatus(executed[n], k)}
           suspends(n) == SetsStatus(executed[n], k) /\ executed[n].revoked
<1>1. about' = about \cup (IF Governs(c, k) \/ SetsStatus(c, k) THEN {nonce} ELSE {})
  BY HistoryGrows
<1>2. /\ Suspended(k) <=> \E n \in Latest(about) : suspends(n)
      /\ Suspended(k)' <=> \E n \in Latest(about') : suspends(n)'
  BY DEF Suspended, Latest
<1>3. \A n \in Latest(about) : suspends(n)' <=> suspends(n)
  BY HistoryGrows DEF Latest
<1>5. about \subseteq 0 .. (nonce - 1)
  OBVIOUS
<1>6. ASSUME NEW n, n = nonce
      PROVE  suspends(n)' <=> SetsStatus(c, k) /\ c.revoked
  BY <1>6, HistoryGrows
<1>7. nonce \in Nat
  BY HistoryGrows
<1> HIDE DEF about, suspends
<1>8. CASE Governs(c, k) \/ SetsStatus(c, k)
  <2>1. PICK n : n = nonce
    OBVIOUS
  <2>2. Latest(about') = {n}
    BY <1>1, <1>5, <1>7, <1>8, <2>1, LatestIsNew
  <2>3. QED
    BY <1>2, <1>6, <1>8, <2>1, <2>2
<1>9. CASE ~(Governs(c, k) \/ SetsStatus(c, k))
  <2>1. about' = about
    BY <1>1, <1>9
  <2>2. QED
    BY <1>2, <1>3, <1>9, <2>1
<1>10. QED
  BY <1>8, <1>9

LEMMA ExecutionKeepsRoles ==
  ASSUME SafeInv, RolesInv, NEW c \in Call, NEW signers, NEW sender,
         ExecTransaction(c, signers, sender)
  PROVE  RolesInv'
<1>1. ConsumeNonce(c, signers, sender)
  BY DEF ExecTransaction
<1>2. now' = now /\ now \in Nat \ {0} /\ roleExpiry \in [RoleKey -> Nat]
  BY DEF ExecTransaction, RolesInv, registryVars
<1>3. \A k \in RoleKey : RoleFollows(k)
  BY DEF RolesInv
<1>4. ASSUME UNCHANGED <<granted, roleExpiry, revoked, renounced>>,
             \A k \in RoleKey : ~Governs(c, k) /\ ~SetsStatus(c, k)
      PROVE  RolesInv'
  <2>1. ASSUME NEW k \in RoleKey
        PROVE  RoleFollows(k)'
    <3>1. GrantedUntil(k)' = GrantedUntil(k) /\ (Suspended(k)' <=> Suspended(k))
      BY <1>1, <1>4, GrantedUntilGrows, SuspendedGrows
    <3>2. QED
      BY <1>3, <1>4, <3>1 DEF RoleFollows
  <2>2. QED
    BY <1>2, <1>4, <2>1 DEF RolesInv
<1>5. CASE OwnerCall(c) /\ UNCHANGED registryVars
  <2>1. \A k \in RoleKey : ~Governs(c, k) /\ ~SetsStatus(c, k)
    BY <1>5 DEF OwnerCall, Governs, SetsStatus
  <2>2. QED
    BY <1>4, <1>5, <2>1 DEF registryVars, roleVars
<1>6. CASE c.call \in {"setWriterAuthorization", "mintAsset", "transferAsset"} /\ UNCHANGED roleVars
  <2>1. \A k \in RoleKey : ~Governs(c, k) /\ ~SetsStatus(c, k)
    BY <1>6 DEF Governs, SetsStatus
  <2>2. QED
    BY <1>4, <1>6, <2>1 DEF roleVars
<1>7. CASE c.call = "grantRoleWithExpiry" /\ GrantRoleWithExpiry(c.key, c.expiry)
  <2>1. c.key \in RoleKey /\ c.expiry \in Nat /\ c.expiry > 0
    BY <1>2, <1>7, RegistriesAssumption DEF GrantRoleWithExpiry
  <2>2. /\ granted' = granted \cup {c.key}
        /\ roleExpiry' = [roleExpiry EXCEPT ![c.key] = c.expiry]
        /\ revoked' = revoked \ {c.key}
        /\ renounced' = renounced \ {c.key}
    BY <1>7 DEF GrantRoleWithExpiry, SetStatus
  <2>3. ASSUME NEW k \in RoleKey
        PROVE  RoleFollows(k)'
    <3>1. ~SetsStatus(c, k) /\ (Governs(c, k) <=> k = c.key)
      BY <1>7 DEF SetsStatus, Governs
    <3>2. CASE k = c.key
      <4>1. GrantedUntil(k)' = c.expiry /\ ~Suspended(k)'
        BY <1>1, <1>7, <3>1, <3>2, GrantedUntilGrows, SuspendedGrows
      <4>2. roleExpiry'[k] = c.expiry
        BY <1>2, <2>1, <2>2, <3>2
      <4>3. QED
        BY <2>1, <2>2, <3>2, <4>1, <4>2 DEF RoleFollows
    <3>3. CASE k # c.key
      <4>1. GrantedUntil(k)' = GrantedUntil(k) /\ (Suspended(k)' <=> Suspended(k))
        BY <1>1, <3>1, <3>3, GrantedUntilGrows, SuspendedGrows
      <4>2. roleExpiry'[k] = roleExpiry[k]
        BY <1>2, <2>2, <3>3
      <4>3. QED
        BY <1>3, <2>2, <3>3, <4>1, <4>2 DEF RoleFollows
    <3>4. QED
      BY <3>2, <3>3
  <2>4. QED
    BY <1>2, <2>1, <2>2, <2>3 DEF RolesInv
<1>8. CASE c.call = "revokeRoleEarly" /\ RevokeRoleEarly(c.key)
  <2>1. /\ granted' = granted \ {c.key}
        /\ revoked' = revoked \cup {c.key}
        /\ UNCHANGED <<roleExpiry, renounced>>
    BY <1>8 DEF RevokeRoleEarly, SetStatus
  <2>2. ASSUME NEW k \in RoleKey
        PROVE  RoleFollows(k)'
    <3>1. ~SetsStatus(c, k) /\ (Governs(c, k) <=> k = c.key)
      BY <1>8 DEF SetsStatus, Governs
    <3>2. CASE k = c.key
      <4>1. GrantedUntil(k)' = 0
        BY <1>1, <1>8, <3>1, <3>2, GrantedUntilGrows
      <4>2. QED
        BY <2>1, <3>2, <4>1 DEF RoleFollows
    <3>3. CASE k # c.key
      <4>1. GrantedUntil(k)' = GrantedUntil(k) /\ (Suspended(k)' <=> Suspended(k))
        BY <1>1, <3>1, <3>3, GrantedUntilGrows, SuspendedGrows
      <4>2. QED
        BY <1>3, <2>1, <3>3, <4>1 DEF RoleFollows
    <3>4. QED
      BY <3>2, <3>3
  <2>3. QED
    BY <1>2, <2>1, <2>2 DEF RolesInv
<1>9. CASE /\ c.call = "setStatus"
           /\ SetStatus(SafeAddress, c.status, c.revoked)
           /\ UNCHANGED <<granted, roleExpiry, renounced>>
  <2>1. revoked' = IF c.revoked THEN revoked \cup {c.status} ELSE revoked \ {c.status}
    BY <1>9 DEF SetStatus
  <2>2. ASSUME NEW k \in RoleKey
        PROVE  RoleFollows(k)'
    <3>1. ~Governs(c, k) /\ (SetsStatus(c, k) <=> k = c.status)
      BY <1>9 DEF SetsStatus, Governs
    <3>2. GrantedUntil(k)' = GrantedUntil(k)
      BY <1>1, <3>1, GrantedUntilGrows
    <3>3. CASE k = c.status
      <4>1. Suspended(k)' <=> c.revoked
        BY <1>1, <3>1, <3>3, SuspendedGrows
      <4>2. k \in revoked' <=> c.revoked
        BY <2>1, <3>3
      <4>3. QED
        BY <1>3, <1>9, <3>2, <4>1, <4>2 DEF RoleFollows
    <3>4. CASE k # c.status
      <4>1. Suspended(k)' <=> Suspended(k)
        BY <1>1, <3>1, <3>4, SuspendedGrows
      <4>2. k \in revoked' <=> k \in revoked
        BY <2>1, <3>4
      <4>3. QED
        BY <1>3, <1>9, <3>2, <4>1, <4>2 DEF RoleFollows
    <3>5. QED
      BY <3>3, <3>4
  <2>3. QED
    BY <1>2, <1>9, <2>2 DEF RolesInv
<1>10. QED
  BY <1>5, <1>6, <1>7, <1>8, <1>9 DEF ExecTransaction, RegistryCall

LEMMA ChainKeepsRoles ==
  ASSUME SafeInv, RolesInv, ChainStep
  PROVE  RolesInv'
<1>1. CASE UNCHANGED <<nonce, executed, granted, roleExpiry, revoked, renounced>>
           /\ now' \in Nat \ {0}
  <2>1. ASSUME NEW k \in RoleKey
        PROVE  RoleFollows(k)'
    <3>1. GrantedUntil(k)' = GrantedUntil(k)
      BY <1>1 DEF GrantedUntil, LastFor, Latest
    <3>2. Suspended(k)' <=> Suspended(k)
      BY <1>1 DEF Suspended, Latest
    <3>3. QED
      BY <1>1, <3>1, <3>2 DEF RolesInv, RoleFollows
  <2>2. QED
    BY <1>1, <2>1 DEF RolesInv
<1>2. CASE UNCHANGED evmVars
  BY <1>1, <1>2 DEF evmVars, safeVars, registryVars, roleVars, RolesInv
<1>3. ASSUME NEW a \in Account, NEW h \in TxHash, ApproveHash(a, h), UNCHANGED registryVars
      PROVE  RolesInv'
  BY <1>1, <1>3 DEF ApproveHash, registryVars, roleVars, RolesInv
<1>4. ASSUME NEW role \in RoleKey, RenounceRole(role)
      PROVE  RolesInv'
  <2>1. /\ UNCHANGED <<nonce, executed, roleExpiry, revoked, now>>
        /\ role \in granted
        /\ granted' = granted \ {role}
        /\ renounced' = renounced \cup {role}
    BY <1>4 DEF RenounceRole, safeVars
  <2>2. ASSUME NEW k \in RoleKey
        PROVE  RoleFollows(k)'
    <3>1. GrantedUntil(k)' = GrantedUntil(k) /\ (Suspended(k)' <=> Suspended(k))
      BY <2>1 DEF GrantedUntil, LastFor, Latest, Suspended
    <3>2. QED
      BY <2>1, <3>1 DEF RolesInv, RoleFollows
  <2>3. QED
    BY <2>1, <2>2 DEF RolesInv
<1>5. CASE NextBlock
  BY <1>1, <1>5 DEF NextBlock, safeVars, roleVars, RolesInv
<1>6. QED
  BY <1>2, <1>3, <1>4, <1>5, ExecutionKeepsRoles DEF ChainStep

LEMMA InitRoles ==
  ASSUME SafeInit, RegistriesInit
  PROVE  RolesInv
<1>1. \A k \in RoleKey : LastFor(k) = {}
  BY DEF SafeInit, LastFor, Latest
<1>2. \A k \in RoleKey : GrantedUntil(k) = IF k = FirstAdmin THEN FirstExpiry ELSE 0
  BY <1>1 DEF GrantedUntil
<1>3. \A k \in RoleKey : ~Suspended(k)
  BY DEF SafeInit, Suspended, Latest
<1>4. QED
  BY <1>2, <1>3, RegistriesAssumption DEF RegistriesInit, RolesInv, RoleFollows

\* hasActiveRole (AccessControlRegistry.sol), which looks at a role, its expiry and
\* its status in another contract, says what the Safe's history says: a revocation
\* always takes a role away, a grant always gives it back, and a transaction that
\* reverted, or one that is only approved yet, does neither.
THEOREM RolesAreHistory == BackendSpec => []RolesFollowHistory
<1>1. BackendInit => RolesInv
  BY InitRoles DEF BackendInit
<1>2. SafeInv /\ RequestsTyped /\ RolesInv /\ [BackendNext]_allVars => RolesInv'
  <2>1. RequestsTyped /\ [BackendNext]_allVars => ChainStep
    BY BackendSteps DEF ChainStep, allVars
  <2>2. QED
    BY <2>1, ChainKeepsRoles
<1>3. RolesInv => RolesFollowHistory
  <2>1. SUFFICES ASSUME RolesInv, NEW k \in RoleKey
                 PROVE  HasActiveRole(k[1], k[2]) <=>
                          GrantedUntil(k) > 0 /\ now <= GrantedUntil(k)
                            /\ k \notin renounced /\ ~Suspended(k)
    BY DEF RolesFollowHistory
  <2>2. k = <<k[1], k[2]>>
    BY DEF RoleKey
  <2>3. RoleFollows(k) /\ now \in Nat /\ roleExpiry[k] \in Nat
    BY <2>1 DEF RolesInv
  <2>4. HasActiveRole(k[1], k[2]) <=>
          k \in granted /\ ~(roleExpiry[k] # 0 /\ now > roleExpiry[k]) /\ k \notin revoked
    BY <2>2 DEF HasActiveRole
  <2>5. QED
    BY <2>3, <2>4 DEF RoleFollows
<1>4. QED
  BY <1>1, <1>2, <1>3, SafeStands, PTL DEF BackendSpec

-----------------------------------------------------------------------------
\* What admins are told.

\* The requests whose transaction was mined and whose admin was not answered yet.
Mined(c) == {r \in Request : IsAt(r, "mined") /\ requests[r].call = c}

\* Each answer, given or due, has an execution of its own.
AnswersInv ==
  /\ answered \in [RouteCall -> Nat]
  /\ \A c \in RouteCall :
       answered[c] + Cardinality(Mined(c)) <= Cardinality(ExecutionsOf(c))

LEMMA CountsFinite ==
  ASSUME SafeInv, NEW c
  PROVE  /\ IsFiniteSet(Mined(c)) /\ Cardinality(Mined(c)) \in Nat
         /\ IsFiniteSet(ExecutionsOf(c)) /\ Cardinality(ExecutionsOf(c)) \in Nat
<1>1. IsFiniteSet(Mined(c))
  <2>1. Mined(c) \subseteq Request
    BY DEF Mined
  <2>2. QED
    BY <2>1, BackendAssumption, FS_Subset
<1>2. IsFiniteSet(ExecutionsOf(c))
  <2>1. nonce \in Int
    BY SafeAssumption DEF SafeInv, SafeTyped
  <2>2. IsFiniteSet(0 .. (nonce - 1)) /\ ExecutionsOf(c) \subseteq 0 .. (nonce - 1)
    BY <2>1, FS_Interval DEF ExecutionsOf
  <2>3. QED
    BY <2>2, FS_Subset
<1>3. QED
  BY <1>1, <1>2, FS_CardinalityType

\* What was executed stays so, and one more execution of a call counts one more.
LEMMA ExecutionsGrow ==
  ASSUME SafeInv, ChainStep, NEW c
  PROVE  /\ Cardinality(ExecutionsOf(c))' \in Nat
         /\ Cardinality(ExecutionsOf(c))' >= Cardinality(ExecutionsOf(c))
<1>1. CASE UNCHANGED <<nonce, executed>>
  <2>1. ExecutionsOf(c)' = ExecutionsOf(c)
    BY <1>1 DEF ExecutionsOf
  <2>2. Cardinality(ExecutionsOf(c)) \in Nat
    BY CountsFinite
  <2>3. Cardinality(ExecutionsOf(c))' = Cardinality(ExecutionsOf(c))
    BY <2>1
  <2>4. QED
    BY <2>2, <2>3
<1>2. ASSUME NEW d \in Call, NEW signers, NEW sender, ConsumeNonce(d, signers, sender)
      PROVE  /\ Cardinality(ExecutionsOf(c))' \in Nat
             /\ Cardinality(ExecutionsOf(c))' >= Cardinality(ExecutionsOf(c))
  <2>1. ExecutionsOf(c)' = ExecutionsOf(c) \cup (IF d = c THEN {nonce} ELSE {})
    BY <1>2, HistoryGrows DEF ExecutionsOf
  <2>2. IsFiniteSet(ExecutionsOf(c)) /\ Cardinality(ExecutionsOf(c)) \in Nat
    BY CountsFinite
  <2>3. IsFiniteSet(ExecutionsOf(c)')
    <3>1. IsFiniteSet(ExecutionsOf(c) \cup {nonce})
      BY <2>2, FS_AddElement
    <3>2. ExecutionsOf(c)' \subseteq ExecutionsOf(c) \cup {nonce}
      BY <2>1
    <3>3. QED
      BY <3>1, <3>2, FS_Subset
  <2>4. Cardinality(ExecutionsOf(c)) <= Cardinality(ExecutionsOf(c)')
    BY <2>1, <2>3, FS_Subset
  <2>5. Cardinality(ExecutionsOf(c)') \in Nat
    BY <2>3, FS_CardinalityType
  <2>6. QED
    BY <2>2, <2>4, <2>5
<1>3. QED
  BY <1>1, <1>2
     DEF ChainStep, evmVars, safeVars, ApproveHash, ExecTransaction, RenounceRole, NextBlock

LEMMA ExecutionCounts ==
  ASSUME SafeInv, NEW c \in Call, NEW signers, NEW sender, ConsumeNonce(c, signers, sender)
  PROVE  Cardinality(ExecutionsOf(c))' = Cardinality(ExecutionsOf(c)) + 1
<1>1. ExecutionsOf(c)' = ExecutionsOf(c) \cup {nonce}
  BY HistoryGrows DEF ExecutionsOf
<1>2. nonce \notin ExecutionsOf(c)
  BY HistoryGrows DEF ExecutionsOf
<1>3. IsFiniteSet(ExecutionsOf(c))
  BY CountsFinite
<1>4. Cardinality(ExecutionsOf(c) \cup {nonce}) = Cardinality(ExecutionsOf(c)) + 1
  BY <1>2, <1>3, FS_AddElement
<1>5. QED
  BY <1>1, <1>4

\* Steps that neither answer nor finish an execution.
LEMMA NothingMined ==
  ASSUME SafeInv, AnswersInv, ChainStep, UNCHANGED answered,
         NEW c \in RouteCall, Mined(c)' \subseteq Mined(c)
  PROVE  answered'[c] + Cardinality(Mined(c))' <= Cardinality(ExecutionsOf(c))'
<1>1. IsFiniteSet(Mined(c)) /\ Cardinality(Mined(c)) \in Nat
  BY CountsFinite
<1>2. /\ Cardinality(Mined(c)') <= Cardinality(Mined(c))
      /\ Cardinality(Mined(c)') \in Nat
  BY <1>1, FS_Subset, FS_CardinalityType
<1>3. /\ Cardinality(ExecutionsOf(c))' \in Nat
      /\ Cardinality(ExecutionsOf(c))' >= Cardinality(ExecutionsOf(c))
      /\ Cardinality(ExecutionsOf(c)) \in Nat
  BY ExecutionsGrow, CountsFinite
<1>4. /\ answered[c] \in Nat /\ answered'[c] = answered[c]
      /\ answered[c] + Cardinality(Mined(c)) <= Cardinality(ExecutionsOf(c))
  BY DEF AnswersInv
<1>5. QED
  BY <1>1, <1>2, <1>3, <1>4

LEMMA RequestChanges ==
  ASSUME RequestsTyped, NEW r \in Request, NEW to, requests' = [requests EXCEPT ![r] = to],
         NEW c
  PROVE  /\ Mined(c)' \subseteq Mined(c) \cup {r}
         /\ to = Idle \/ to.at # "mined" \/ to.call # c => Mined(c)' \subseteq Mined(c) \ {r}
  BY DEF RequestsTyped, Mined, IsAt

LEMMA LocalExecution ==
  ASSUME SafeInv, RequestsTyped, AnswersInv, ChainStep,
         NEW r \in Request, ExecuteLocal(r)
  PROVE  AnswersInv'
<1>1. PICK d : d = requests[r].call
  OBVIOUS
<1>2. /\ d \in RouteCall /\ d \in Call
      /\ IsAt(r, "execute")
      /\ ConsumeNonce(d, LocalSignatures, Relayer)
      /\ answered' = answered
  BY <1>1, RequestFacts DEF ExecuteLocal, ExecTransaction, IsAt
<1>3. PICK to : /\ requests' = [requests EXCEPT ![r] = to]
                /\ to.call = d
  <2>1. requests' = [requests EXCEPT ![r] = [requests[r] EXCEPT !.at = "mined"]]
    BY DEF ExecuteLocal, MoveTo
  <2>2. [requests[r] EXCEPT !.at = "mined"].call = d
    BY <1>1, <1>2 DEF RequestsTyped, IsAt
  <2>3. QED
    BY <2>1, <2>2
<1>4. ASSUME NEW c \in RouteCall
      PROVE  answered'[c] + Cardinality(Mined(c))' <= Cardinality(ExecutionsOf(c))'
  <2>1. CASE c # d
    <3>1. Mined(c)' \subseteq Mined(c)
      BY <1>3, <2>1, RequestChanges
    <3>2. QED
      BY <1>2, <3>1, NothingMined
  <2>2. CASE c = d
    <3>1. Mined(c)' \subseteq Mined(c) \cup {r}
      BY <1>3, RequestChanges
    <3>2. IsFiniteSet(Mined(c)) /\ Cardinality(Mined(c)) \in Nat
      BY CountsFinite
    <3>3. /\ IsFiniteSet(Mined(c) \cup {r})
          /\ Cardinality(Mined(c) \cup {r}) <= Cardinality(Mined(c)) + 1
      <4>1. PICK S : S = Mined(c)
        OBVIOUS
      <4>2. /\ IsFiniteSet(S \cup {r})
            /\ Cardinality(S \cup {r}) = IF r \in S THEN Cardinality(S) ELSE Cardinality(S) + 1
        BY <3>2, <4>1, FS_AddElement
      <4>3. QED
        BY <3>2, <4>1, <4>2
    <3>4. Cardinality(Mined(c) \cup {r}) \in Nat /\ Cardinality(Mined(c)') \in Nat
      BY <3>1, <3>3, FS_Subset, FS_CardinalityType
    <3>5. Cardinality(Mined(c)') <= Cardinality(Mined(c) \cup {r})
      BY <3>1, <3>3, FS_Subset
    <3>6. Cardinality(ExecutionsOf(c))' = Cardinality(ExecutionsOf(c)) + 1
      BY <1>2, <2>2, ExecutionCounts
    <3>7. /\ answered[c] \in Nat /\ answered'[c] = answered[c]
          /\ answered[c] + Cardinality(Mined(c)) <= Cardinality(ExecutionsOf(c))
          /\ Cardinality(ExecutionsOf(c)) \in Nat
      BY <1>2, CountsFinite DEF AnswersInv
    <3>8. QED
      BY <3>2, <3>3, <3>4, <3>5, <3>6, <3>7
  <2>3. QED
    BY <2>1, <2>2
<1>5. QED
  BY <1>2, <1>4 DEF AnswersInv

LEMMA LocalAnswer ==
  ASSUME SafeInv, RequestsTyped, AnswersInv, ChainStep,
         NEW r \in Request, AnswerLocal(r)
  PROVE  AnswersInv'
<1>1. PICK d : d = requests[r].call
  OBVIOUS
<1>2. /\ d \in RouteCall
      /\ r \in Mined(d)
      /\ requests' = [requests EXCEPT ![r] = Idle]
      /\ answered' = [answered EXCEPT ![d] = @ + 1]
      /\ answered \in [RouteCall -> Nat]
      /\ UNCHANGED <<nonce, executed>>
  BY <1>1, RequestFacts
     DEF AnswerLocal, IsAt, Return, Mined, AnswersInv, evmVars, safeVars
<1>3. ASSUME NEW c \in RouteCall
      PROVE  answered'[c] + Cardinality(Mined(c))' <= Cardinality(ExecutionsOf(c))'
  <2>1. Mined(c)' \subseteq Mined(c) \ {r}
    BY <1>2, RequestChanges
  <2>2. ExecutionsOf(c)' = ExecutionsOf(c)
    BY <1>2 DEF ExecutionsOf
  <2>3. /\ answered[c] \in Nat
        /\ answered[c] + Cardinality(Mined(c)) <= Cardinality(ExecutionsOf(c))
        /\ Cardinality(ExecutionsOf(c)) \in Nat
        /\ IsFiniteSet(Mined(c)) /\ Cardinality(Mined(c)) \in Nat
    BY CountsFinite DEF AnswersInv
  <2>4. /\ Cardinality(Mined(c)') \in Nat
        /\ Cardinality(Mined(c)') <= Cardinality(Mined(c) \ {r})
        /\ Cardinality(Mined(c) \ {r}) \in Nat
        /\ Cardinality(Mined(c) \ {r}) <= Cardinality(Mined(c))
        /\ r \in Mined(c) => Cardinality(Mined(c) \ {r}) = Cardinality(Mined(c)) - 1
    <3>1. IsFiniteSet(Mined(c) \ {r})
      BY <2>3, FS_RemoveElement
    <3>2. r \in Mined(c) => Cardinality(Mined(c) \ {r}) = Cardinality(Mined(c)) - 1
      BY <2>3, FS_RemoveElement
    <3>3. Cardinality(Mined(c)') <= Cardinality(Mined(c) \ {r}) /\ IsFiniteSet(Mined(c)')
      BY <2>1, <3>1, FS_Subset
    <3>4. Cardinality(Mined(c) \ {r}) <= Cardinality(Mined(c))
      <4>1. Mined(c) \ {r} \subseteq Mined(c)
        OBVIOUS
      <4>2. QED
        BY <2>3, <4>1, FS_Subset
    <3>5. QED
      BY <3>1, <3>2, <3>3, <3>4, FS_CardinalityType
  <2>5. CASE c = d
    <3>1. answered'[c] = answered[c] + 1 /\ r \in Mined(c)
      BY <1>2, <2>5
    <3>2. QED
      BY <2>2, <2>3, <2>4, <3>1
  <2>6. CASE c # d
    <3>1. answered'[c] = answered[c]
      BY <1>2, <2>6
    <3>2. QED
      BY <2>2, <2>3, <2>4, <3>1
  <2>7. QED
    BY <2>5, <2>6
<1>4. QED
  BY <1>2, <1>3 DEF AnswersInv

LEMMA BackendKeepsAnswers ==
  ASSUME SafeInv, RequestsTyped, AnswersInv, BackendNext
  PROVE  AnswersInv'
<1>1. ChainStep
  BY BackendSteps
<1>2. ASSUME UNCHANGED answered, \A c \in RouteCall : Mined(c)' \subseteq Mined(c)
      PROVE  AnswersInv'
  <2>1. answered' \in [RouteCall -> Nat]
    BY <1>2 DEF AnswersInv
  <2>2. ASSUME NEW c \in RouteCall
        PROVE  answered'[c] + Cardinality(Mined(c))' <= Cardinality(ExecutionsOf(c))'
    BY <1>1, <1>2, NothingMined
  <2>3. QED
    BY <2>1, <2>2 DEF AnswersInv
<1>3. CASE UNCHANGED requests /\ UNCHANGED answered
  <2>1. \A c \in RouteCall : Mined(c)' = Mined(c)
    BY <1>3 DEF Mined, IsAt
  <2>2. QED
    BY <1>2, <1>3, <2>1
<1>4. ASSUME NEW r \in Request, NEW to, requests' = [requests EXCEPT ![r] = to],
             to = Idle \/ to.at # "mined", UNCHANGED answered
      PROVE  AnswersInv'
  <2>1. \A c \in RouteCall : Mined(c)' \subseteq Mined(c)
    BY <1>4, RequestChanges
  <2>2. QED
    BY <1>2, <1>4, <2>1
<1>5. ASSUME NEW r \in Request, NEW who \in Account, NEW c \in RouteCall, Ask(r, who, c)
      PROVE  AnswersInv'
  BY <1>4, <1>5 DEF Ask
<1>6. ASSUME NEW r \in Request, ReadNonce(r)
      PROVE  AnswersInv'
  <2>1. PICK to : requests' = [requests EXCEPT ![r] = to] /\ to.at # "mined"
    <3>1. PICK step : step = IF localMode THEN "first" ELSE "propose"
      OBVIOUS
    <3>2. [at |-> step, call |-> requests[r].call, nonce |-> nonce].at # "mined"
      BY <3>1
    <3>3. requests' =
            [requests EXCEPT ![r] = [at |-> step, call |-> requests[r].call, nonce |-> nonce]]
      BY <1>6, <3>1 DEF ReadNonce
    <3>4. QED
      BY <3>2, <3>3
  <2>2. QED
    BY <1>4, <1>6, <2>1 DEF ReadNonce
<1>7. ASSUME NEW r \in Request, Confirm(r)
      PROVE  AnswersInv'
  <2>1. PICK step \in {"second", "execute"} : MoveTo(r, step) /\ requests[r] # Idle
    BY <1>7 DEF Confirm, IsAt
  <2>2. [requests[r] EXCEPT !.at = step].at # "mined"
    BY <2>1 DEF RequestsTyped
  <2>3. requests' = [requests EXCEPT ![r] = [requests[r] EXCEPT !.at = step]]
    BY <2>1 DEF MoveTo
  <2>4. QED
    BY <1>4, <1>7, <2>2, <2>3 DEF Confirm
<1>8. ASSUME NEW r \in Request, ProposeHosted(r) \/ Fail(r)
      PROVE  AnswersInv'
  <2>1. requests' = [requests EXCEPT ![r] = Idle] /\ UNCHANGED answered
    BY <1>8 DEF ProposeHosted, Fail, Return
  <2>2. QED
    BY <1>4, <2>1
<1>9. ASSUME NEW a \in Account, NEW c \in Call, OwnerProposes(a, c)
      PROVE  AnswersInv'
  BY <1>3, <1>9 DEF OwnerProposes
<1>10. ASSUME NEW a \in Account, NEW h \in TxHash, OwnerConfirms(a, h)
       PROVE  AnswersInv'
  BY <1>3, <1>10 DEF OwnerConfirms, backendVars
<1>11. ASSUME NEW c \in Call, NEW sender \in Executor, AnyoneExecutes(c, sender)
       PROVE  AnswersInv'
  BY <1>3, <1>11 DEF AnyoneExecutes, backendVars
<1>12. CASE UNCHANGED backendVars
  BY <1>3, <1>12 DEF backendVars
<1>13. QED
  BY <1>1, <1>5, <1>6, <1>7, <1>8, <1>9, <1>10, <1>11, <1>12, LocalExecution, LocalAnswer
     DEF BackendNext

\* executeLocalSafeTransaction awaits the receipt: in local mode no admin is told of
\* an execution that did not happen or that another admin was told of, although
\* several requests compete for one nonce and one may execute on confirmations that
\* another gathered.
THEOREM AnswersHappened == BackendSpec => []AnswersAreExecutions
<1>1. BackendInit => AnswersInv
  <2>1. SUFFICES ASSUME BackendInit
                 PROVE  AnswersInv
    OBVIOUS
  <2>2. ASSUME NEW c \in RouteCall
        PROVE  Mined(c) = {} /\ ExecutionsOf(c) = {}
    BY <2>1 DEF BackendInit, SafeInit, Mined, IsAt, ExecutionsOf
  <2>3. QED
    BY <2>1, <2>2, FS_EmptySet DEF BackendInit, AnswersInv
<1>2. SafeInv /\ RequestsTyped /\ AnswersInv /\ [BackendNext]_allVars => AnswersInv'
  <2>1. UNCHANGED allVars /\ AnswersInv => AnswersInv'
    BY DEF allVars, backendVars, evmVars, safeVars, AnswersInv, Mined, IsAt, ExecutionsOf
  <2>2. QED
    BY <2>1, BackendKeepsAnswers
<1>3. SafeInv /\ AnswersInv => AnswersAreExecutions
  <2>1. SUFFICES ASSUME SafeInv, AnswersInv, NEW c \in RouteCall
                 PROVE  answered[c] <= Cardinality(ExecutionsOf(c))
    BY DEF AnswersAreExecutions
  <2>2. Cardinality(Mined(c)) \in Nat /\ Cardinality(ExecutionsOf(c)) \in Nat
    BY <2>1, CountsFinite
  <2>3. QED
    BY <2>1, <2>2 DEF AnswersInv
<1>4. QED
  BY <1>1, <1>2, <1>3, SafeStands, PTL DEF BackendSpec

-----------------------------------------------------------------------------
\* Guardian recovery.

Votings ==
  [at       : {"list", "vote", "send", "wait", "record"},
   guardian : Guardian,
   request  : Recovery,
   votes    : SUBSET Guardian]

GuardiansTyped ==
  /\ guardians \in [Citizen -> Seq(Guardian)]
  /\ recoveries \in [Recovery -> RequestRow \cup {None}]
  /\ votings \in [Voting -> {Idle}
                    \cup [at : {"insertGuardian"}, did : Citizen, guardian : Guardian]
                    \cup [at : {"insertRequest"}, guardian : Guardian, row : RequestRow]
                    \cup Votings]
  /\ sent \in [Voting -> Recovery \cup {None}]
  /\ cast \in [Recovery -> SUBSET Guardian]
  /\ rebound \subseteq Recovery

\* A threshold of different guardians voted for it.
Reached(q) == recoveries[q] # None /\ Cardinality(cast[q]) >= recoveries[q].threshold

\* Whatever the row shows, every vote in it was cast.
RequestStands(q) ==
  recoveries[q] # None =>
    /\ IsFiniteSet(cast[q])
    /\ recoveries[q].votes \subseteq cast[q]
    /\ recoveries[q].threshold >= 2
    /\ recoveries[q].status = "executed" => q \in rebound

\* What a call read before its last await still holds when it uses it.
CallStands(v) ==
  /\ InCall(v, "insertRequest") => /\ votings[v].row.threshold >= 2
                                   /\ votings[v].row.status = "pending"
                                   /\ votings[v].row.votes = {votings[v].guardian}
  /\ InCall(v, "list") \/ InCall(v, "vote") => /\ recoveries[votings[v].request] # None
                                               /\ votings[v].votes \subseteq cast[votings[v].request]
  /\ InCall(v, "send") \/ InCall(v, "wait") \/ InCall(v, "record") => Reached(votings[v].request)
  /\ InCall(v, "wait") => sent[v] = votings[v].request
  /\ InCall(v, "record") => votings[v].request \in rebound
  /\ sent[v] # None => Reached(sent[v])

GuardiansInv ==
  /\ GuardiansTyped
  /\ \A q \in Recovery : RequestStands(q)
  /\ \A q \in rebound : Reached(q)
  /\ \A v \in Voting : CallStands(v)

\* What no step takes back of a request.
RequestsGrow ==
  /\ rebound \subseteq rebound'
  /\ \A q \in Recovery : recoveries[q] # None =>
       /\ recoveries'[q] # None
       /\ recoveries'[q].threshold = recoveries[q].threshold
       /\ cast[q] \subseteq cast'[q]
       /\ IsFiniteSet(cast'[q])

\* Two guardians at least, of however many rows.
LEMMA TwoAtLeast ==
  ASSUME NEW n \in Nat \ {0}
  PROVE  VoteThreshold(n) \in Nat /\ VoteThreshold(n) >= 2
<1>1. (n + 1) \div 2 \in Nat /\ (n + 1) \div 2 >= 1
  OBVIOUS
<1>2. QED
  BY <1>1 DEF VoteThreshold

LEMMA ReachedIsKept ==
  ASSUME GuardiansInv, RequestsGrow, NEW q \in Recovery, Reached(q)
  PROVE  Reached(q)'
<1>1. /\ recoveries'[q] # None
      /\ recoveries'[q].threshold = recoveries[q].threshold
      /\ cast[q] \subseteq cast'[q]
      /\ IsFiniteSet(cast'[q])
  BY DEF RequestsGrow, Reached
<1>2. Cardinality(cast[q]) <= Cardinality(cast'[q])
  BY <1>1, FS_Subset
<1>3. Cardinality(cast'[q]) \in Nat /\ Cardinality(cast[q]) \in Nat
  BY <1>1, FS_Subset, FS_CardinalityType
<1>4. recoveries[q].threshold \in Nat /\ Cardinality(cast[q]) >= recoveries[q].threshold
  BY DEF Reached, GuardiansInv, GuardiansTyped, RequestRow
<1>5. Cardinality(cast'[q]) >= recoveries'[q].threshold
  BY <1>1, <1>2, <1>3, <1>4
<1>6. QED
  BY <1>1, <1>5 DEF Reached

LEMMA VotingFacts ==
  ASSUME GuardiansTyped, NEW v \in Voting, votings[v] # Idle,
         votings[v].at \in {"list", "vote", "send", "wait", "record"}
  PROVE  /\ votings[v] \in Votings
         /\ votings[v].request \in Recovery
         /\ votings[v].guardian \in Guardian
         /\ votings[v].votes \subseteq Guardian
<1>1. votings[v] \in Votings
  BY DEF GuardiansTyped
<1>2. QED
  BY <1>1 DEF Votings

\* A call that does not move in a step stands as before.
LEMMA OthersStand ==
  ASSUME GuardiansInv, RequestsGrow, NEW v \in Voting,
         votings'[v] = votings[v], sent'[v] = sent[v]
  PROVE  CallStands(v)'
<1>1. CallStands(v) /\ GuardiansTyped
  BY DEF GuardiansInv
<1>2. \A step : InCall(v, step)' <=> InCall(v, step)
  BY DEF InCall
<1>3. PICK call : call = votings[v] /\ call = votings'[v]
  OBVIOUS
<1>4. PICK q : q = sent[v] /\ q = sent'[v]
  OBVIOUS
<1>5. \A r \in Recovery : Reached(r) => Reached(r)'
  BY ReachedIsKept
<1>6. InCall(v, "insertRequest")' => /\ votings'[v].row.threshold >= 2
                                     /\ votings'[v].row.status = "pending"
                                     /\ votings'[v].row.votes = {votings'[v].guardian}
  BY <1>1, <1>2 DEF CallStands
<1>7. InCall(v, "list")' \/ InCall(v, "vote")' =>
        /\ recoveries'[votings'[v].request] # None
        /\ votings'[v].votes \subseteq cast'[votings'[v].request]
  <2>1. SUFFICES ASSUME InCall(v, "list") \/ InCall(v, "vote")
                 PROVE  /\ recoveries'[votings[v].request] # None
                        /\ votings[v].votes \subseteq cast'[votings[v].request]
    BY <1>2
  <2>2. votings[v].request \in Recovery
    BY <1>1, <2>1, VotingFacts DEF InCall
  <2>3. /\ recoveries[votings[v].request] # None
        /\ votings[v].votes \subseteq cast[votings[v].request]
    BY <1>1, <2>1 DEF CallStands
  <2>4. QED
    BY <2>2, <2>3 DEF RequestsGrow
<1>8. InCall(v, "send")' \/ InCall(v, "wait")' \/ InCall(v, "record")' => Reached(call.request)'
  <2>1. SUFFICES ASSUME InCall(v, "send") \/ InCall(v, "wait") \/ InCall(v, "record")
                 PROVE  Reached(call.request)'
    BY <1>2
  <2>2. call.request \in Recovery
    BY <1>1, <1>3, <2>1, VotingFacts DEF InCall
  <2>3. Reached(call.request)
    BY <1>1, <1>3, <2>1 DEF CallStands
  <2>4. QED
    BY <1>5, <2>2, <2>3
<1>9. InCall(v, "wait")' => sent'[v] = votings'[v].request
  BY <1>1, <1>2 DEF CallStands
<1>10. InCall(v, "record")' => votings'[v].request \in rebound'
  BY <1>1, <1>2 DEF CallStands, RequestsGrow
<1>11. sent'[v] # None => Reached(q)'
  <2>1. q \in Recovery \cup {None}
    BY <1>1, <1>4 DEF GuardiansTyped
  <2>2. q # None => Reached(q)
    <3>1. Reached(sent[v]) <=> Reached(q)
      BY <1>4
    <3>2. QED
      BY <1>1, <1>4, <3>1 DEF CallStands
  <2>3. q # None => q \in Recovery
    BY <2>1
  <2>4. QED
    BY <1>4, <1>5, <2>2, <2>3
<1>12. (Reached(votings[v].request))' <=> Reached(call.request)'
  BY <1>3 DEF Reached
<1>13. (Reached(sent[v]))' <=> Reached(q)'
  BY <1>4 DEF Reached
<1>14. QED
  BY <1>6, <1>7, <1>8, <1>9, <1>10, <1>11, <1>12, <1>13 DEF CallStands

\* A step of one call, from what it makes of that call and of the requests.
LEMMA CallStepStands ==
  ASSUME GuardiansInv, RequestsGrow, GuardiansTyped', NEW v \in Voting,
         \A w \in Voting \ {v} : votings'[w] = votings[w] /\ sent'[w] = sent[w],
         CallStands(v)',
         \A q \in Recovery : RequestStands(q)',
         \A q \in rebound' : q \in rebound \/ Reached(q)'
  PROVE  GuardiansInv'
<1>1. ASSUME NEW w \in Voting
      PROVE  CallStands(w)'
  <2>1. CASE w = v
    BY <2>1
  <2>2. CASE w # v
    BY <2>2, OthersStand
  <2>3. QED
    BY <2>1, <2>2
<1>2. ASSUME NEW q \in rebound'
      PROVE  Reached(q)'
  <2>1. CASE q \in rebound
    <3>1. q \in Recovery /\ Reached(q)
      BY <2>1 DEF GuardiansInv, GuardiansTyped
    <3>2. QED
      BY <3>1, ReachedIsKept
  <2>2. QED
    BY <2>1
<1>3. QED
  BY <1>1, <1>2 DEF GuardiansInv

LEMMA RequestsUnchanged ==
  ASSUME GuardiansInv, UNCHANGED <<recoveries, cast, rebound>>
  PROVE  /\ RequestsGrow
         /\ \A q \in Recovery : RequestStands(q)'
         /\ \A q \in rebound' : q \in rebound
         /\ \A q : Reached(q)' <=> Reached(q)
  BY DEF GuardiansInv, RequestStands, RequestsGrow, Reached

LEMMA FinishedStands ==
  ASSUME GuardiansInv, RequestsGrow, NEW v \in Voting, votings'[v] = Idle,
         sent'[v] = sent[v] \/ sent'[v] = None
  PROVE  CallStands(v)'
<1>1. \A step : ~InCall(v, step)'
  BY DEF InCall
<1>2. PICK q : q = sent'[v]
  OBVIOUS
<1>3. q # None => Reached(q)'
  <2>1. SUFFICES ASSUME q # None
                 PROVE  Reached(q)'
    OBVIOUS
  <2>2. q = sent[v] /\ q \in Recovery
    BY <1>2, <2>1 DEF GuardiansInv, GuardiansTyped
  <2>3. Reached(q)
    <3>1. Reached(sent[v])
      BY <2>1, <2>2 DEF GuardiansInv, CallStands
    <3>2. QED
      BY <2>2, <3>1
  <2>4. QED
    BY <2>2, <2>3, ReachedIsKept
<1>4. Reached(sent[v])' <=> Reached(q)'
  BY <1>2 DEF Reached
<1>5. QED
  BY <1>1, <1>2, <1>3, <1>4 DEF CallStands

\* A call that begins has nothing sent.
LEMMA BeginningStands ==
  ASSUME GuardiansInv, NEW v \in Voting, NEW call, Begins(v, call),
         UNCHANGED <<guardians, recoveries, sent, cast, rebound>>,
         \/ call \in [at : {"insertGuardian"}, did : Citizen, guardian : Guardian]
         \/ /\ call \in [at : {"insertRequest"}, guardian : Guardian, row : RequestRow]
            /\ call.row.threshold >= 2
            /\ call.row.status = "pending"
            /\ call.row.votes = {call.guardian}
         \/ /\ call \in Votings
            /\ call.at = "list"
            /\ recoveries[call.request] # None
            /\ call.votes \subseteq cast[call.request]
  PROVE  GuardiansInv'
<1>1. /\ sent[v] = None
      /\ votings' = [votings EXCEPT ![v] = call]
      /\ GuardiansTyped
  BY DEF Begins, GuardiansInv
<1>2. GuardiansTyped'
  BY <1>1 DEF GuardiansTyped
<1>3. votings'[v] = call /\ \A w \in Voting \ {v} : votings'[w] = votings[w]
  BY <1>1 DEF GuardiansTyped
<1>4. CallStands(v)'
  <2>1. \A step : InCall(v, step)' => step = call.at
    BY <1>3 DEF InCall
  <2>2. sent'[v] = None
    BY <1>1
  <2>3. CASE call \in [at : {"insertGuardian"}, did : Citizen, guardian : Guardian]
    BY <2>1, <2>2, <2>3 DEF CallStands
  <2>4. CASE /\ call \in [at : {"insertRequest"}, guardian : Guardian, row : RequestRow]
             /\ call.row.threshold >= 2
             /\ call.row.status = "pending"
             /\ call.row.votes = {call.guardian}
    BY <1>3, <2>1, <2>2, <2>4 DEF CallStands
  <2>5. CASE /\ call.at = "list"
             /\ recoveries[call.request] # None
             /\ call.votes \subseteq cast[call.request]
    BY <1>3, <2>1, <2>2, <2>5 DEF CallStands
  <2>6. QED
    BY <2>3, <2>4, <2>5
<1>5. QED
  BY <1>2, <1>3, <1>4, RequestsUnchanged, CallStepStands

LEMMA FinishingStands ==
  ASSUME GuardiansInv, GuardiansTyped', RequestsGrow, NEW v \in Voting, Finish(v),
         \A w \in Voting \ {v} : sent'[w] = sent[w],
         sent'[v] = sent[v] \/ sent'[v] = None,
         \A q \in Recovery : RequestStands(q)',
         UNCHANGED rebound
  PROVE  GuardiansInv'
<1>1. votings'[v] = Idle /\ \A w \in Voting \ {v} : votings'[w] = votings[w]
  BY DEF Finish, GuardiansInv, GuardiansTyped
<1>2. CallStands(v)'
  BY <1>1, FinishedStands
<1>3. QED
  BY <1>1, <1>2, CallStepStands

LEMMA CheckControllerKeeps ==
  ASSUME GuardiansInv, NEW v \in Voting, NEW d \in Citizen, NEW g \in Guardian,
         CheckController(v, d, g)
  PROVE  GuardiansInv'
  BY BeginningStands DEF CheckController, tables

LEMMA AddGuardianKeeps ==
  ASSUME GuardiansInv, NEW v \in Voting, AddGuardian(v)
  PROVE  GuardiansInv'
<1>1. /\ votings[v].did \in Citizen
      /\ votings[v].guardian \in Guardian
  BY DEF GuardiansInv, GuardiansTyped, AddGuardian, InCall, Votings
<1>2. guardians' \in [Citizen -> Seq(Guardian)]
  <2>1. Append(guardians[votings[v].did], votings[v].guardian) \in Seq(Guardian)
    BY <1>1 DEF GuardiansInv, GuardiansTyped
  <2>2. QED
    BY <1>1, <2>1 DEF GuardiansInv, GuardiansTyped, AddGuardian
<1>3. UNCHANGED <<recoveries, sent, cast, rebound>> /\ Finish(v)
  BY DEF AddGuardian
<1>4. GuardiansTyped'
  BY <1>2, <1>3 DEF Finish, GuardiansInv, GuardiansTyped
<1>5. QED
  BY <1>3, <1>4, RequestsUnchanged, FinishingStands

LEMMA BeginRecoveryKeeps ==
  ASSUME GuardiansInv, NEW v \in Voting, NEW g \in Guardian, NEW d \in Citizen,
         NEW new \in NewController, BeginRecovery(v, g, d, new)
  PROVE  GuardiansInv'
<1> DEFINE row == [did |-> d, newController |-> new, votes |-> {g},
                   threshold |-> VoteThreshold(Len(guardians[d])), status |-> "pending"]
           call == [at |-> "insertRequest", guardian |-> g, row |-> row]
<1>1. PICK n \in Nat : n = Len(guardians[d]) /\ DOMAIN guardians[d] = 1 .. n
  BY DEF GuardiansInv, GuardiansTyped
<1>2. n # 0
  BY <1>1 DEF BeginRecovery, ListGuardians
<1>3. row.threshold \in Nat /\ row.threshold >= 2
  BY <1>1, <1>2, TwoAtLeast
<1>4. row \in RequestRow
  BY <1>3 DEF RequestRow
<1>5. Begins(v, call) /\ UNCHANGED <<guardians, recoveries, sent, cast, rebound>>
  BY DEF BeginRecovery, tables
<1>6. row.status = "pending" /\ row.votes = {g}
  OBVIOUS
<1> HIDE DEF row
<1>7. /\ call \in [at : {"insertRequest"}, guardian : Guardian, row : RequestRow]
      /\ call.row = row /\ call.guardian = g
  BY <1>4
<1> HIDE DEF call
<1>8. QED
  BY <1>3, <1>5, <1>6, <1>7, BeginningStands

LEMMA ProposeRecoveryKeeps ==
  ASSUME GuardiansInv, NEW v \in Voting, NEW q \in Recovery, ProposeRecovery(v, q)
  PROVE  GuardiansInv'
<1>1. PICK row, g : row = votings[v].row /\ g = votings[v].guardian
  OBVIOUS
<1>2. /\ row \in RequestRow /\ g \in Guardian
      /\ row.threshold >= 2 /\ row.status = "pending" /\ row.votes = {g}
  <2>1. row \in RequestRow /\ g \in Guardian
    BY <1>1 DEF GuardiansInv, GuardiansTyped, ProposeRecovery, InCall, Votings
  <2>2. CallStands(v) /\ InCall(v, "insertRequest")
    BY DEF GuardiansInv, ProposeRecovery
  <2>3. QED
    BY <1>1, <2>1, <2>2 DEF CallStands
<1>3. /\ recoveries[q] = None
      /\ recoveries' = [recoveries EXCEPT ![q] = row]
      /\ cast' = [cast EXCEPT ![q] = {g}]
      /\ Finish(v)
      /\ UNCHANGED <<guardians, sent, rebound>>
  BY <1>1 DEF ProposeRecovery
<1>4. GuardiansTyped'
  BY <1>2, <1>3 DEF GuardiansInv, GuardiansTyped, Finish
<1>5. /\ recoveries'[q] = row /\ cast'[q] = {g}
      /\ \A r \in Recovery \ {q} : recoveries'[r] = recoveries[r] /\ cast'[r] = cast[r]
  BY <1>3 DEF GuardiansInv, GuardiansTyped
<1>6. RequestsGrow
  BY <1>3, <1>5 DEF RequestsGrow, GuardiansInv, RequestStands
<1>7. ASSUME NEW r \in Recovery
      PROVE  RequestStands(r)'
  <2>1. CASE r = q
    <3>1. IsFiniteSet({g})
      BY FS_Singleton
    <3>2. /\ recoveries'[r] = row /\ cast'[r] = {g}
          /\ row.votes \subseteq {g} /\ row.threshold >= 2 /\ row.status # "executed"
      BY <1>2, <1>5, <2>1
    <3>3. QED
      BY <3>1, <3>2 DEF RequestStands
  <2>2. CASE r # q
    BY <1>3, <1>5, <2>2 DEF RequestStands, GuardiansInv
  <2>3. QED
    BY <2>1, <2>2
<1>8. QED
  BY <1>3, <1>4, <1>6, <1>7, FinishingStands

LEMMA ReadRequestKeeps ==
  ASSUME GuardiansInv, NEW v \in Voting, NEW g \in Guardian, NEW q \in Recovery,
         ReadRequest(v, g, q)
  PROVE  GuardiansInv'
<1> DEFINE call == [at |-> "list", guardian |-> g, request |-> q,
                    votes |-> recoveries[q].votes]
<1>1. /\ recoveries[q] # None
      /\ recoveries[q].votes \subseteq cast[q]
      /\ recoveries[q].votes \subseteq Guardian
  BY DEF ReadRequest, GuardiansInv, RequestStands, GuardiansTyped, RequestRow
<1>2. Begins(v, call) /\ UNCHANGED <<guardians, recoveries, sent, cast, rebound>>
  BY DEF ReadRequest, tables
<1>3. /\ call \in Votings
      /\ call.at = "list" /\ call.request = q /\ call.votes = recoveries[q].votes
  BY <1>1 DEF Votings
<1> HIDE DEF call
<1>4. QED
  BY <1>1, <1>2, <1>3, BeginningStands

\* A call of which only the step changes.
LEMMA ProceedFacts ==
  ASSUME GuardiansTyped, NEW v \in Voting, NEW from, InCall(v, from),
         from \in {"list", "vote", "send", "wait", "record"},
         NEW step \in {"vote", "send", "wait", "record"}, Proceed(v, step)
  PROVE  /\ votings' \in [Voting -> {Idle}
                    \cup [at : {"insertGuardian"}, did : Citizen, guardian : Guardian]
                    \cup [at : {"insertRequest"}, guardian : Guardian, row : RequestRow]
                    \cup Votings]
         /\ \A w \in Voting \ {v} : votings'[w] = votings[w]
         /\ votings'[v].request = votings[v].request
         /\ votings'[v].votes = votings[v].votes
         /\ votings'[v].at = step
         /\ \A s : InCall(v, s)' => s = step
<1>1. votings[v] \in Votings
  BY VotingFacts DEF InCall
<1> DEFINE call == [votings[v] EXCEPT !.at = step]
<1>2. /\ call \in Votings
      /\ call.at = step
      /\ call.request = votings[v].request
      /\ call.votes = votings[v].votes
  BY <1>1 DEF Votings
<1>3. votings' = [votings EXCEPT ![v] = call]
  BY DEF Proceed
<1> HIDE DEF call
<1>4. votings'[v] = call /\ \A w \in Voting \ {v} : votings'[w] = votings[w]
  BY <1>3 DEF GuardiansTyped
<1>5. votings' \in [Voting -> {Idle}
                    \cup [at : {"insertGuardian"}, did : Citizen, guardian : Guardian]
                    \cup [at : {"insertRequest"}, guardian : Guardian, row : RequestRow]
                    \cup Votings]
  BY <1>2, <1>3 DEF GuardiansTyped
<1>6. QED
  BY <1>2, <1>4, <1>5 DEF InCall

LEMMA CheckGuardianKeeps ==
  ASSUME GuardiansInv, NEW v \in Voting, CheckGuardian(v)
  PROVE  GuardiansInv'
<1>1. /\ InCall(v, "list")
      /\ Proceed(v, "vote")
      /\ UNCHANGED <<guardians, recoveries, sent, cast, rebound>>
      /\ GuardiansTyped
      /\ CallStands(v)
  BY DEF CheckGuardian, tables, GuardiansInv
<1>2. /\ \A w \in Voting \ {v} : votings'[w] = votings[w]
      /\ votings'[v].request = votings[v].request
      /\ votings'[v].votes = votings[v].votes
      /\ \A s : InCall(v, s)' => s = "vote"
  BY <1>1, ProceedFacts
<1>3. GuardiansTyped'
  BY <1>1, ProceedFacts DEF GuardiansTyped
<1>4. CallStands(v)'
  <2>1. PICK q : q = sent[v] /\ q = sent'[v]
    BY <1>1
  <2>2. q # None => Reached(q)'
    <3>1. (Reached(sent[v]) <=> Reached(q)) /\ (Reached(q)' <=> Reached(q))
      BY <2>1, RequestsUnchanged, <1>1
    <3>2. QED
      BY <1>1, <2>1, <3>1 DEF CallStands
  <2>3. Reached(sent[v])' <=> Reached(q)'
    BY <2>1 DEF Reached
  <2>4. /\ recoveries'[votings'[v].request] # None
        /\ votings'[v].votes \subseteq cast'[votings'[v].request]
    BY <1>1, <1>2 DEF CallStands
  <2>5. QED
    BY <1>2, <2>1, <2>2, <2>3, <2>4 DEF CallStands
<1>5. QED
  BY <1>1, <1>2, <1>3, <1>4, RequestsUnchanged, CallStepStands

LEMMA SendRebindKeeps ==
  ASSUME GuardiansInv, NEW v \in Voting, SendRebind(v)
  PROVE  GuardiansInv'
<1>1. PICK q : q = votings[v].request
  OBVIOUS
<1>2. /\ InCall(v, "send")
      /\ Proceed(v, "wait")
      /\ sent' = [sent EXCEPT ![v] = q]
      /\ UNCHANGED <<guardians, recoveries, cast, rebound>>
      /\ GuardiansTyped
      /\ CallStands(v)
  BY <1>1 DEF SendRebind, tables, GuardiansInv
<1>3. q \in Recovery
  BY <1>1, <1>2, VotingFacts DEF InCall
<1>4. /\ \A w \in Voting \ {v} : votings'[w] = votings[w] /\ sent'[w] = sent[w]
      /\ votings'[v].request = q
      /\ sent'[v] = q
      /\ \A s : InCall(v, s)' => s = "wait"
  BY <1>1, <1>2, ProceedFacts DEF GuardiansTyped
<1>5. GuardiansTyped'
  <2>1. sent' \in [Voting -> Recovery \cup {None}]
    BY <1>2, <1>3 DEF GuardiansTyped
  <2>2. QED
    BY <1>2, <2>1, ProceedFacts DEF GuardiansTyped
<1>6. CallStands(v)'
  <2>1. Reached(q)'
    <3>1. Reached(votings[v].request) <=> Reached(q)
      BY <1>1
    <3>2. Reached(q)' <=> Reached(q)
      BY <1>2, RequestsUnchanged
    <3>3. QED
      BY <1>2, <3>1, <3>2 DEF CallStands
  <2>2. (Reached(sent[v])' <=> Reached(q)') /\ (Reached(votings[v].request)' <=> Reached(q)')
    BY <1>4 DEF Reached
  <2>3. QED
    BY <1>4, <2>1, <2>2 DEF CallStands
<1>7. QED
  BY <1>2, <1>4, <1>5, <1>6, RequestsUnchanged, CallStepStands

LEMMA WriteVotesKeeps ==
  ASSUME GuardiansInv, NEW v \in Voting, WriteVotes(v)
  PROVE  GuardiansInv'
<1>1. PICK q, votes, g : /\ q = votings[v].request
                         /\ g = votings[v].guardian
                         /\ votes = votings[v].votes \cup {g}
  OBVIOUS
<1>2. PICK row : row = [recoveries[q] EXCEPT !.votes = votes]
  OBVIOUS
<1>3. /\ InCall(v, "vote")
      /\ recoveries' = [recoveries EXCEPT ![q] = row]
      /\ cast' = [cast EXCEPT ![q] = @ \cup {g}]
      /\ IF Cardinality(votes) >= recoveries[q].threshold THEN Proceed(v, "send") ELSE Finish(v)
      /\ UNCHANGED <<guardians, sent, rebound>>
      /\ GuardiansTyped
      /\ CallStands(v)
  BY <1>1, <1>2 DEF WriteVotes, GuardiansInv
<1>4. /\ q \in Recovery
      /\ g \in Guardian
      /\ votes \subseteq Guardian
      /\ recoveries[q] # None
      /\ votes \subseteq cast[q] \cup {g}
  <2>1. q \in Recovery /\ g \in Guardian /\ votes \subseteq Guardian
    BY <1>1, <1>3, VotingFacts DEF InCall
  <2>2. recoveries[q] # None /\ votings[v].votes \subseteq cast[q]
    BY <1>1, <1>3 DEF CallStands
  <2>3. QED
    BY <1>1, <2>1, <2>2
<1>5. recoveries[q] \in RequestRow
  BY <1>3, <1>4 DEF GuardiansTyped
<1>6. /\ row \in RequestRow
      /\ row.votes = votes
      /\ row.threshold = recoveries[q].threshold
      /\ row.status = recoveries[q].status
      /\ row # None
  <2>1. /\ row \in RequestRow
        /\ row.votes = votes
        /\ row.threshold = recoveries[q].threshold
        /\ row.status = recoveries[q].status
    BY <1>2, <1>4, <1>5 DEF RequestRow
  <2>2. QED
    BY <2>1, RecoveryAssumption
<1>7. /\ recoveries' \in [Recovery -> RequestRow \cup {None}]
      /\ cast' \in [Recovery -> SUBSET Guardian]
  BY <1>3, <1>4, <1>6 DEF GuardiansTyped
<1>8. /\ recoveries'[q] = row /\ cast'[q] = cast[q] \cup {g}
      /\ \A r \in Recovery \ {q} : recoveries'[r] = recoveries[r] /\ cast'[r] = cast[r]
  BY <1>3, <1>4 DEF GuardiansTyped
<1>9. RequestStands(q) /\ IsFiniteSet(cast[q])
  BY <1>4 DEF GuardiansInv, RequestStands
<1>10. IsFiniteSet(cast[q] \cup {g})
  BY <1>9, FS_AddElement
<1>11. RequestsGrow
  <2>1. ASSUME NEW r \in Recovery, recoveries[r] # None
        PROVE  /\ recoveries'[r] # None
               /\ recoveries'[r].threshold = recoveries[r].threshold
               /\ cast[r] \subseteq cast'[r]
               /\ IsFiniteSet(cast'[r])
    <3>1. CASE r = q
      BY <1>6, <1>8, <1>10, <3>1
    <3>2. CASE r # q
      BY <1>8, <2>1, <3>2 DEF GuardiansInv, RequestStands
    <3>3. QED
      BY <3>1, <3>2
  <2>2. QED
    BY <1>3, <2>1 DEF RequestsGrow
<1>12. ASSUME NEW r \in Recovery
       PROVE  RequestStands(r)'
  <2>1. CASE r = q
    <3>1. row.threshold >= 2 /\ (row.status = "executed" => q \in rebound)
      BY <1>4, <1>6, <1>9 DEF RequestStands
    <3>2. QED
      BY <1>3, <1>4, <1>6, <1>8, <1>10, <2>1, <3>1 DEF RequestStands
  <2>2. CASE r # q
    BY <1>3, <1>8, <2>2 DEF GuardiansInv, RequestStands
  <2>3. QED
    BY <2>1, <2>2
<1>13. CASE Finish(v)
  <2>1. GuardiansTyped'
    BY <1>3, <1>7, <1>13 DEF GuardiansTyped, Finish
  <2>2. QED
    BY <1>3, <1>11, <1>12, <1>13, <2>1, FinishingStands
<1>14. CASE Cardinality(votes) >= recoveries[q].threshold /\ Proceed(v, "send")
  <2>1. /\ \A w \in Voting \ {v} : votings'[w] = votings[w]
        /\ votings'[v].request = q
        /\ \A s : InCall(v, s)' => s = "send"
    BY <1>1, <1>3, <1>14, ProceedFacts
  <2>2. GuardiansTyped'
    BY <1>3, <1>7, <1>14, ProceedFacts DEF GuardiansTyped
  <2>3. Reached(q)'
    <3>1. /\ Cardinality(votes) <= Cardinality(cast[q] \cup {g})
          /\ IsFiniteSet(votes)
      BY <1>4, <1>10, FS_Subset
    <3>2. Cardinality(votes) \in Nat /\ Cardinality(cast[q] \cup {g}) \in Nat
      BY <1>10, <3>1, FS_CardinalityType
    <3>3. recoveries[q].threshold \in Nat
      BY <1>5 DEF RequestRow
    <3>4. Cardinality(cast[q] \cup {g}) >= row.threshold
      BY <1>6, <1>14, <3>1, <3>2, <3>3
    <3>5. QED
      BY <1>6, <1>8, <3>4 DEF Reached
  <2>4. CallStands(v)'
    <3>1. PICK p : p = sent[v] /\ p = sent'[v]
      BY <1>3
    <3>2. p # None => Reached(p)'
      <4>1. SUFFICES ASSUME p # None
                     PROVE  Reached(p)'
        OBVIOUS
      <4>2. p \in Recovery
        BY <1>3, <3>1, <4>1 DEF GuardiansTyped
      <4>3. Reached(p)
        <5>1. Reached(sent[v]) <=> Reached(p)
          BY <3>1
        <5>2. QED
          BY <1>3, <3>1, <4>1, <5>1 DEF CallStands
      <4>4. QED
        BY <1>11, <4>2, <4>3, ReachedIsKept
    <3>3. /\ Reached(sent[v])' <=> Reached(p)'
          /\ Reached(votings[v].request)' <=> Reached(q)'
      BY <2>1, <3>1 DEF Reached
    <3>4. QED
      BY <2>1, <2>3, <3>1, <3>2, <3>3 DEF CallStands
  <2>5. \A w \in Voting \ {v} : votings'[w] = votings[w] /\ sent'[w] = sent[w]
    BY <1>3, <2>1
  <2>6. \A r \in rebound' : r \in rebound
    BY <1>3
  <2>7. QED
    BY <1>11, <1>12, <2>2, <2>4, <2>5, <2>6, CallStepStands
<1>15. QED
  BY <1>3, <1>13, <1>14

\* By now the call may have ended; what it sent is mined all the same.
LEMMA MineRebindKeeps ==
  ASSUME GuardiansInv, NEW v \in Voting, MineRebind(v)
  PROVE  GuardiansInv'
<1>1. PICK q : q = sent[v]
  OBVIOUS
<1>2. /\ q # None
      /\ rebound' = rebound \cup {q}
      /\ sent' = [sent EXCEPT ![v] = None]
      /\ IF InCall(v, "wait") THEN Proceed(v, "record") ELSE UNCHANGED votings
      /\ UNCHANGED <<guardians, recoveries, cast>>
      /\ GuardiansTyped
      /\ CallStands(v)
  BY <1>1 DEF MineRebind, tables, GuardiansInv
<1>3. q \in Recovery
  BY <1>1, <1>2 DEF GuardiansTyped
<1>4. Reached(q)
  <2>1. Reached(sent[v]) <=> Reached(q)
    BY <1>1
  <2>2. QED
    BY <1>1, <1>2, <2>1 DEF CallStands
<1>5. Reached(q)'
  BY <1>2, <1>4 DEF Reached
<1>6. RequestsGrow /\ \A r \in Recovery : RequestStands(r)'
  BY <1>2 DEF GuardiansInv, RequestsGrow, RequestStands
<1>7. /\ sent'[v] = None
      /\ \A w \in Voting \ {v} : sent'[w] = sent[w]
      /\ sent' \in [Voting -> Recovery \cup {None}]
  BY <1>2 DEF GuardiansTyped
<1>8. \A r \in rebound' : r \in rebound \/ Reached(r)'
  BY <1>2, <1>5
<1>9. CASE InCall(v, "wait") /\ Proceed(v, "record")
  <2>1. /\ \A w \in Voting \ {v} : votings'[w] = votings[w]
        /\ votings'[v].request = votings[v].request
        /\ \A s : InCall(v, s)' => s = "record"
    BY <1>2, <1>9, ProceedFacts
  <2>2. votings'[v].request = q
    BY <1>1, <1>2, <1>9, <2>1 DEF CallStands
  <2>3. GuardiansTyped'
    BY <1>2, <1>3, <1>7, <1>9, ProceedFacts DEF GuardiansTyped
  <2>4. CallStands(v)'
    <3>1. Reached(votings[v].request)' <=> Reached(q)'
      BY <2>2 DEF Reached
    <3>2. QED
      BY <1>2, <1>5, <1>7, <2>1, <2>2, <3>1 DEF CallStands
  <2>5. QED
    BY <1>6, <1>7, <1>8, <2>1, <2>3, <2>4, CallStepStands
<1>10. CASE ~InCall(v, "wait") /\ UNCHANGED votings
  <2>1. GuardiansTyped'
    BY <1>2, <1>3, <1>7, <1>10 DEF GuardiansTyped
  <2>2. CallStands(v)'
    <3>1. \A s : InCall(v, s)' <=> InCall(v, s)
      BY <1>10 DEF InCall
    <3>2. Reached(votings[v].request)' <=> Reached(votings[v].request)
      BY <1>2, <1>10 DEF Reached
    <3>3. QED
      BY <1>2, <1>7, <1>10, <3>1, <3>2 DEF CallStands
  <2>3. \A w \in Voting \ {v} : votings'[w] = votings[w] /\ sent'[w] = sent[w]
    BY <1>7, <1>10
  <2>4. QED
    BY <1>6, <1>8, <2>1, <2>2, <2>3, CallStepStands
<1>11. QED
  BY <1>2, <1>9, <1>10

LEMMA RevertRebindKeeps ==
  ASSUME GuardiansInv, NEW v \in Voting, RevertRebind(v)
  PROVE  GuardiansInv'
<1>1. /\ sent' = [sent EXCEPT ![v] = None]
      /\ Finish(v)
      /\ UNCHANGED <<guardians, recoveries, cast, rebound>>
      /\ GuardiansTyped
  BY DEF RevertRebind, tables, GuardiansInv
<1>2. GuardiansTyped'
  BY <1>1 DEF GuardiansTyped, Finish
<1>3. sent'[v] = None /\ \A w \in Voting \ {v} : sent'[w] = sent[w]
  BY <1>1 DEF GuardiansTyped
<1>4. QED
  BY <1>1, <1>2, <1>3, RequestsUnchanged, FinishingStands

LEMMA EndsKeeps ==
  ASSUME GuardiansInv, NEW v \in Voting, Ends(v)
  PROVE  GuardiansInv'
<1>1. /\ Finish(v)
      /\ UNCHANGED <<guardians, recoveries, sent, cast, rebound>>
      /\ GuardiansTyped
  BY DEF Ends, tables, GuardiansInv
<1>2. GuardiansTyped'
  BY <1>1 DEF GuardiansTyped, Finish
<1>3. QED
  BY <1>1, <1>2, RequestsUnchanged, FinishingStands

LEMMA RecordExecutedKeeps ==
  ASSUME GuardiansInv, NEW v \in Voting, RecordExecuted(v)
  PROVE  GuardiansInv'
<1>1. PICK q, row : /\ q = votings[v].request
                    /\ row = [recoveries[q] EXCEPT !.status = "executed"]
  OBVIOUS
<1>2. /\ InCall(v, "record")
      /\ recoveries' = [recoveries EXCEPT ![q] = row]
      /\ Finish(v)
      /\ UNCHANGED <<guardians, sent, cast, rebound>>
      /\ GuardiansTyped
      /\ CallStands(v)
  BY <1>1 DEF RecordExecuted, GuardiansInv
<1>3. q \in Recovery /\ q \in rebound
  BY <1>1, <1>2, VotingFacts DEF InCall, CallStands
<1>4. recoveries[q] # None /\ recoveries[q] \in RequestRow
  BY <1>2, <1>3 DEF GuardiansInv, Reached, GuardiansTyped
<1>5. /\ row \in RequestRow
      /\ row # None
      /\ row.votes = recoveries[q].votes
      /\ row.threshold = recoveries[q].threshold
  <2>1. /\ row \in RequestRow
        /\ row.votes = recoveries[q].votes
        /\ row.threshold = recoveries[q].threshold
    BY <1>1, <1>4 DEF RequestRow
  <2>2. QED
    BY <2>1, RecoveryAssumption
<1>6. /\ recoveries'[q] = row
      /\ \A r \in Recovery \ {q} : recoveries'[r] = recoveries[r]
  BY <1>2, <1>3 DEF GuardiansTyped
<1>7. GuardiansTyped'
  BY <1>2, <1>5 DEF GuardiansTyped, Finish
<1>8. RequestsGrow
  BY <1>2, <1>5, <1>6 DEF GuardiansInv, RequestStands, RequestsGrow
<1>9. ASSUME NEW r \in Recovery
      PROVE  RequestStands(r)'
  <2>1. CASE r = q
    BY <1>2, <1>3, <1>4, <1>5, <1>6, <2>1 DEF GuardiansInv, RequestStands
  <2>2. CASE r # q
    BY <1>2, <1>6, <2>2 DEF GuardiansInv, RequestStands
  <2>3. QED
    BY <2>1, <2>2
<1>10. QED
  BY <1>2, <1>7, <1>8, <1>9, FinishingStands

LEMMA RecoveryStepKeeps ==
  ASSUME GuardiansInv, [RecoveryNext]_recoveryVars
  PROVE  GuardiansInv'
<1>1. CASE UNCHANGED <<guardians, recoveries, votings, sent, cast, rebound>>
  BY <1>1 DEF GuardiansInv, GuardiansTyped, RequestStands, CallStands, Reached, InCall
<1>2. ASSUME NEW d \in Citizen, NEW a \in Account, RegisterDID(a, d)
      PROVE  GuardiansInv'
  BY <1>1, <1>2 DEF RegisterDID, tables
<1>3. ASSUME NEW d \in Citizen, NEW new \in NewController, Rotate(d, new)
      PROVE  GuardiansInv'
  BY <1>1, <1>3 DEF Rotate, tables
<1>4. CASE SetRecoveryModule
  BY <1>1, <1>4 DEF SetRecoveryModule, tables
<1>5. ASSUME NEW d \in Citizen, RegisterUser(d)
      PROVE  GuardiansInv'
  BY <1>1, <1>5 DEF RegisterUser
<1>6. CASE UNCHANGED recoveryVars
  BY <1>1, <1>6 DEF recoveryVars, tables
<1>7. ASSUME NEW v \in Voting,
             \/ AddGuardian(v) \/ CheckGuardian(v) \/ WriteVotes(v)
             \/ SendRebind(v) \/ MineRebind(v) \/ RevertRebind(v)
             \/ RecordExecuted(v) \/ Ends(v)
      PROVE  GuardiansInv'
  BY <1>7, AddGuardianKeeps, CheckGuardianKeeps, WriteVotesKeeps, SendRebindKeeps,
     MineRebindKeeps, RevertRebindKeeps, RecordExecutedKeeps, EndsKeeps
<1>8. QED
  BY <1>2, <1>3, <1>4, <1>5, <1>6, <1>7, CheckControllerKeeps, BeginRecoveryKeeps,
     ProposeRecoveryKeeps, ReadRequestKeeps DEF RecoveryNext

\* "No individual guardian, and no admin, can re-bind a DID alone" (recovery.service.ts
\* of the EVM backend): although votes are counted on what a call had read and
\* overwrite each other, a relayed rebind had the votes of a threshold of different
\* guardians, two at least, and only a mined one is recorded as executed.
THEOREM NoGuardianAlone == RecoverySpec => []NoLoneGuardian
<1>1. RecoveryInit => GuardiansInv
  <2>1. SUFFICES ASSUME RecoveryInit
                 PROVE  GuardiansInv
    OBVIOUS
  <2>2. GuardiansTyped
    BY <2>1 DEF RecoveryInit, GuardiansTyped
  <2>3. \A v \in Voting : CallStands(v)
    BY <2>1 DEF RecoveryInit, CallStands, InCall
  <2>4. QED
    BY <2>1, <2>2, <2>3 DEF RecoveryInit, GuardiansInv, RequestStands
<1>2. GuardiansInv /\ [RecoveryNext]_recoveryVars => GuardiansInv'
  BY RecoveryStepKeeps
<1>3. GuardiansInv => NoLoneGuardian
  <2>1. SUFFICES ASSUME GuardiansInv, NEW q \in Recovery, recoveries[q] # None
                 PROVE  /\ q \in rebound => /\ Cardinality(cast[q]) >= recoveries[q].threshold
                                            /\ Cardinality(cast[q]) >= 2
                        /\ recoveries[q].status = "executed" => q \in rebound
    BY DEF NoLoneGuardian
  <2>2. /\ IsFiniteSet(cast[q])
        /\ recoveries[q].threshold >= 2
        /\ recoveries[q].status = "executed" => q \in rebound
    BY <2>1 DEF GuardiansInv, RequestStands
  <2>3. Cardinality(cast[q]) \in Nat /\ recoveries[q].threshold \in Nat
    BY <2>1, <2>2, FS_CardinalityType DEF GuardiansInv, GuardiansTyped, RequestRow
  <2>4. q \in rebound => Cardinality(cast[q]) >= recoveries[q].threshold
    BY <2>1 DEF GuardiansInv, Reached
  <2>5. QED
    BY <2>2, <2>3, <2>4
<1>4. QED
  BY <1>1, <1>2, <1>3, PTL DEF RecoverySpec
=============================================================================
