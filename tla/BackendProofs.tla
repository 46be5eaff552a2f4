---------------------------- MODULE BackendProofs ----------------------------
(***************************************************************************)
(* What the backend promises of the two states it keeps by itself, beside  *)
(* the ledger: the sessions that a login opens (Sessions), and the feed of *)
(* the audit indexer with the numbers taken from it (Indexer).  The two    *)
(* have nothing in common; their theorems are one after the other.         *)
(***************************************************************************)
EXTENDS Sessions, Indexer, FiniteSetTheorems, TLAPS

-----------------------------------------------------------------------------
(***************************************************************************)
(* LOGINS, for every number of DIDs, keys, devices, nonces, overlapping    *)
(* calls and clock ticks.                                                  *)
(*                                                                         *)
(* Each promise is about a moment (the session is inserted) and rests on   *)
(* what the call read at earlier ones, so the invariant carries it along   *)
(* the call (Standing).  Whether a device was seen before also depends on  *)
(* the other calls: a device becomes known only through a call that proved *)
(* the DID, so whenever a second call is past its signature, the login was *)
(* proved twice (Overlapping).                                             *)
(***************************************************************************)

Steps ==
  {"checkSignature", "markUsed", "findDevice", "recordDevice", "notify",
   "insertSession"}

CallState ==
  [at : Steps, did : Did, nonce : Nonce, key : Key, device : Device,
   newDevice : BOOLEAN]

TypeOK ==
  /\ controller \in [Did -> Key \cup {Absent}]
  /\ nonces \in [Nonce -> NonceRow \cup {Absent}]
  /\ known_devices \subseteq Did \X Device
  /\ calls \in [Call -> CallState \cup {Idle}]
  /\ now \in Nat
  /\ valid \in [Call -> SUBSET Key]
  /\ proved \in [Did \X Device -> 0 .. 2]
  /\ opened \in [Token -> Login \cup {Absent}]
  /\ announced \subseteq Did \X Device

LoginOf(c) == <<calls[c].did, calls[c].device>>
Issued(n, d) == nonces[n] # Absent /\ nonces[n].did = d

\* The call has checked the signature.
Past(c) == calls[c] # Idle /\ calls[c].at # "checkSignature"

\* What holds of a call under way.
Standing(c) ==
  LET x == calls[c]
  IN  /\ Issued(x.nonce, x.did)
      /\ controller[x.did] # Absent => controller[x.did] \in valid[c]
      /\ x.at # "checkSignature" => x.key \in valid[c] /\ proved[LoginOf(c)] # 0
      /\ x.at \in {"markUsed", "findDevice"} /\ LoginOf(c) \in known_devices =>
           proved[LoginOf(c)] = 2
      /\ x.at \in {"recordDevice", "insertSession"} /\ ~x.newDevice =>
           proved[LoginOf(c)] = 2
      /\ x.at = "notify" => x.newDevice
      /\ x.at = "insertSession" /\ x.newDevice => LoginOf(c) \in announced

Overlapping ==
  \A b, c \in Call :
    b # c /\ Past(b) /\ Past(c) /\ LoginOf(b) = LoginOf(c) => proved[LoginOf(c)] = 2

KnownWereProved == \A x \in known_devices : proved[x] # 0

\* What holds of a session that was opened.
Sound(o) ==
  /\ o.key \in o.valid
  /\ Issued(o.nonce, o.did)
  /\ IF o.newDevice THEN <<o.did, o.device>> \in announced
                    ELSE proved[<<o.did, o.device>>] = 2

SessionsInv ==
  /\ TypeOK
  /\ \A c \in Call : calls[c] # Idle => Standing(c)
  /\ Overlapping
  /\ KnownWereProved
  /\ \A x \in Token : opened[x] # Absent => Sound(opened[x])

\* What no step undoes.
Lasting ==
  /\ \A n \in Nonce, d \in Did : Issued(n, d) => Issued(n, d)'
  /\ \A n \in Nonce : nonces[n] # Absent /\ nonces[n].used =>
       nonces'[n] # Absent /\ nonces'[n].used
  /\ \A x \in Did \X Device : /\ proved[x] # 0 => proved'[x] # 0
                              /\ proved[x] = 2 => proved'[x] = 2
  /\ announced \subseteq announced'

-----------------------------------------------------------------------------
\* The types, and what lasts.

Only(c) == \A b \in Call : b # c => calls'[b] = calls[b] /\ valid'[b] = valid[b]

\* The call goes on, with a device flagged or not.
Moves(c, step, flag) ==
  calls'[c] = [at |-> step, did |-> calls[c].did, nonce |-> calls[c].nonce,
               key |-> calls[c].key, device |-> calls[c].device, newDevice |-> flag]

LEMMA CallFields ==
  ASSUME TypeOK, NEW c \in Call, calls[c] # Idle
  PROVE  /\ calls[c] \in CallState
         /\ calls[c].at \in Steps
         /\ calls[c].did \in Did
         /\ calls[c].nonce \in Nonce
         /\ calls[c].key \in Key
         /\ calls[c].device \in Device
         /\ calls[c].newDevice \in BOOLEAN
         /\ LoginOf(c) \in Did \X Device
<1>1. calls[c] \in CallState
  BY DEF TypeOK
<1>2. QED
  BY <1>1 DEF CallState, LoginOf

LEMMA GoToMoves ==
  ASSUME TypeOK, NEW c \in Call, calls[c] # Idle, NEW step \in Steps, GoTo(c, step),
         UNCHANGED valid
  PROVE  /\ calls' \in [Call -> CallState \cup {Idle}]
         /\ Only(c)
         /\ Moves(c, step, calls[c].newDevice)
<1>1. calls \in [Call -> CallState \cup {Idle}]
  BY DEF TypeOK
<1>2. calls[c] \in CallState
  BY CallFields
<1>3. calls' = [calls EXCEPT ![c] = [calls[c] EXCEPT !.at = step]]
  BY DEF GoTo
<1>4. [calls[c] EXCEPT !.at = step]
        = [at |-> step, did |-> calls[c].did, nonce |-> calls[c].nonce,
           key |-> calls[c].key, device |-> calls[c].device,
           newDevice |-> calls[c].newDevice]
  BY <1>2 DEF CallState
<1>5. [calls[c] EXCEPT !.at = step] \in CallState
  BY <1>2, <1>4 DEF CallState
<1>6. QED
  BY <1>1, <1>3, <1>4, <1>5 DEF Only, Moves

LEMMA FindDeviceMoves ==
  ASSUME TypeOK, NEW c \in Call, FindDevice(c)
  PROVE  /\ calls' \in [Call -> CallState \cup {Idle}]
         /\ Only(c)
         /\ Moves(c, "recordDevice", LoginOf(c) \notin known_devices)
<1> DEFINE flag == LoginOf(c) \notin known_devices
           moved == [at |-> "recordDevice", did |-> calls[c].did,
                     nonce |-> calls[c].nonce, key |-> calls[c].key,
                     device |-> calls[c].device, newDevice |-> flag]
<1>1. /\ calls[c] # Idle
      /\ calls' = [calls EXCEPT ![c].at = "recordDevice", ![c].newDevice = flag]
      /\ UNCHANGED valid
  BY DEF FindDevice, At, IsKnown, LoginOf
<1>2. calls[c] \in CallState
  BY <1>1, CallFields
<1>3. calls \in [Call -> CallState \cup {Idle}] /\ flag \in BOOLEAN
  BY DEF TypeOK
<1>4. [calls[c] EXCEPT !.at = "recordDevice"]
        = [at |-> "recordDevice", did |-> calls[c].did, nonce |-> calls[c].nonce,
           key |-> calls[c].key, device |-> calls[c].device,
           newDevice |-> calls[c].newDevice]
  BY <1>2 DEF CallState
<1>5. moved \in CallState
  BY <1>2, <1>3 DEF CallState, Steps
<1> HIDE DEF flag
<1>6. [[at |-> "recordDevice", did |-> calls[c].did, nonce |-> calls[c].nonce,
        key |-> calls[c].key, device |-> calls[c].device,
        newDevice |-> calls[c].newDevice] EXCEPT !.newDevice = flag] = moved
  OBVIOUS
<1>7. calls' = [calls EXCEPT ![c] = [calls[c] EXCEPT !.at = "recordDevice",
                                                     !.newDevice = flag]]
  BY <1>1, <1>3
<1>8. calls' = [calls EXCEPT ![c] = moved]
  BY <1>4, <1>6, <1>7
<1> HIDE DEF moved
<1>9. /\ calls' \in [Call -> CallState \cup {Idle}]
      /\ Only(c)
      /\ calls'[c] = moved
  BY <1>1, <1>3, <1>5, <1>8 DEF Only
<1>10. QED
  BY <1>9 DEF moved, Moves, flag

LEMMA FinishIdles ==
  ASSUME TypeOK, NEW c \in Call, Finish(c)
  PROVE  /\ calls' \in [Call -> CallState \cup {Idle}]
         /\ valid' \in [Call -> SUBSET Key]
         /\ Only(c)
         /\ calls'[c] = Idle
  BY DEF TypeOK, Finish, Only

LEMMA ReadNonceBegins ==
  ASSUME TypeOK, NEW c \in Call, NEW d \in Did, NEW n \in Nonce, NEW key \in Key,
         NEW device \in Device, ReadNonce(c, d, n, key, device)
  PROVE  /\ calls' \in [Call -> CallState \cup {Idle}]
         /\ valid' \in [Call -> SUBSET Key]
         /\ Only(c)
         /\ valid'[c] = {controller[d]} \ {Absent}
         /\ calls'[c] = [at |-> "checkSignature", did |-> d, nonce |-> n, key |-> key,
                         device |-> device, newDevice |-> FALSE]
<1>1. [at |-> "checkSignature", did |-> d, nonce |-> n, key |-> key,
       device |-> device, newDevice |-> FALSE] \in CallState
  BY DEF CallState, Steps
<1>2. {controller[d]} \ {Absent} \in SUBSET Key
  BY DEF TypeOK
<1>3. QED
  BY <1>1, <1>2 DEF TypeOK, ReadNonce, Only

\* A new key is added to what was valid for the calls of its DID.
LEMMA ControllerFacts ==
  ASSUME TypeOK, NEW d \in Did, NEW key \in Key,
         RegisterDID(d, key) \/ UpdateController(d, key)
  PROVE  /\ controller' \in [Did -> Key \cup {Absent}]
         /\ valid' \in [Call -> SUBSET Key]
         /\ controller'[d] = key
         /\ \A e \in Did : e # d => controller'[e] = controller[e]
         /\ \A c \in Call :
              /\ valid[c] \subseteq valid'[c]
              /\ calls[c] # Idle /\ calls[c].did = d => key \in valid'[c]
         /\ UNCHANGED <<nonces, sessions, known_devices, calls, now, proved, opened,
                        announced>>
  BY DEF TypeOK, RegisterDID, UpdateController

LEMMA CheckSignatureFacts ==
  ASSUME SessionsInv, NEW c \in Call, CheckSignature(c)
  PROVE  /\ calls' \in [Call -> CallState \cup {Idle}]
         /\ Only(c)
         /\ Moves(c, "markUsed", calls[c].newDevice)
         /\ proved' \in [Did \X Device -> 0 .. 2]
         /\ proved'[LoginOf(c)] = IF proved[LoginOf(c)] = 0 THEN 1 ELSE 2
         /\ \A x \in Did \X Device : x # LoginOf(c) => proved'[x] = proved[x]
<1>1. /\ calls[c] # Idle
      /\ GoTo(c, "markUsed")
      /\ UNCHANGED valid
      /\ proved' = [proved EXCEPT ![LoginOf(c)] = IF @ = 2 THEN 2 ELSE @ + 1]
  BY DEF CheckSignature, At, LoginOf
<1>2. TypeOK /\ LoginOf(c) \in Did \X Device
  BY <1>1, CallFields DEF SessionsInv
<1>3. proved \in [Did \X Device -> 0 .. 2]
  BY <1>2 DEF TypeOK
<1>4. proved[LoginOf(c)] \in 0 .. 2
  BY <1>2, <1>3
<1> DEFINE counted == IF proved[LoginOf(c)] = 2 THEN 2 ELSE proved[LoginOf(c)] + 1
<1>5. /\ counted \in 0 .. 2
      /\ counted = IF proved[LoginOf(c)] = 0 THEN 1 ELSE 2
      /\ proved' = [proved EXCEPT ![LoginOf(c)] = counted]
  BY <1>1, <1>4
<1> HIDE DEF counted
<1>6. /\ proved' \in [Did \X Device -> 0 .. 2]
      /\ proved'[LoginOf(c)] = counted
      /\ \A x \in Did \X Device : x # LoginOf(c) => proved'[x] = proved[x]
  BY <1>2, <1>3, <1>5
<1>7. /\ calls' \in [Call -> CallState \cup {Idle}]
      /\ Only(c)
      /\ Moves(c, "markUsed", calls[c].newDevice)
  <2>1. TypeOK /\ calls[c] # Idle /\ GoTo(c, "markUsed") /\ UNCHANGED valid
    BY <1>1, <1>2
  <2>2. "markUsed" \in Steps
    BY DEF Steps
  <2>3. QED
    BY <2>1, <2>2, GoToMoves
<1>8. QED
  BY <1>5, <1>6, <1>7

LEMMA UsedRow ==
  ASSUME NEW row \in NonceRow
  PROVE  /\ [row EXCEPT !.used = TRUE] \in NonceRow
         /\ [row EXCEPT !.used = TRUE].did = row.did
         /\ [row EXCEPT !.used = TRUE].used
<1>1. [row EXCEPT !.used = TRUE] \in NonceRow
  BY DEF NonceRow
<1>2. [row EXCEPT !.used = TRUE].did = row.did
  BY DEF NonceRow
<1>3. [row EXCEPT !.used = TRUE].used
  BY DEF NonceRow
<1>4. QED
  BY <1>1, <1>2, <1>3

LEMMA MarkUsedFacts ==
  ASSUME SessionsInv, NEW c \in Call, MarkUsed(c)
  PROVE  /\ nonces' \in [Nonce -> NonceRow \cup {Absent}]
         /\ \A n \in Nonce : n # calls[c].nonce => nonces'[n] = nonces[n]
         /\ nonces'[calls[c].nonce].did = nonces[calls[c].nonce].did
         /\ nonces'[calls[c].nonce].used
         /\ nonces'[calls[c].nonce] # Absent
<1> DEFINE n == calls[c].nonce
<1>1. /\ calls[c] # Idle
      /\ nonces' = [nonces EXCEPT ![n].used = TRUE]
  BY DEF MarkUsed, At
<1>2. TypeOK /\ Standing(c)
  BY <1>1 DEF SessionsInv
<1>3. n \in Nonce /\ nonces[n] # Absent
  BY <1>1, <1>2, CallFields DEF Standing, Issued
<1>4. nonces \in [Nonce -> NonceRow \cup {Absent}] /\ nonces[n] \in NonceRow
  BY <1>2, <1>3 DEF TypeOK
<1>6. /\ [nonces[n] EXCEPT !.used = TRUE] \in NonceRow
      /\ [nonces[n] EXCEPT !.used = TRUE].did = nonces[n].did
      /\ [nonces[n] EXCEPT !.used = TRUE].used
  BY <1>4, UsedRow
<1>7. [nonces[n] EXCEPT !.used = TRUE] # Absent
  BY <1>6, RowsAssumption
<1> HIDE DEF n
<1>8. /\ nonces' \in [Nonce -> NonceRow \cup {Absent}]
      /\ \A m \in Nonce : m # n => nonces'[m] = nonces[m]
      /\ nonces'[n] = [nonces[n] EXCEPT !.used = TRUE]
  BY <1>1, <1>3, <1>4, <1>6
<1>9. QED
  BY <1>6, <1>7, <1>8 DEF n

LEMMA ChallengeFacts ==
  ASSUME TypeOK, NEW n \in Nonce, NEW d \in Did, Challenge(n, d)
  PROVE  /\ nonces' \in [Nonce -> NonceRow \cup {Absent}]
         /\ nonces[n] = Absent
         /\ \A m \in Nonce : m # n => nonces'[m] = nonces[m]
<1>1. [did |-> d, used |-> FALSE, created_at |-> now] \in NonceRow
  BY DEF NonceRow, TypeOK
<1>2. QED
  BY <1>1 DEF TypeOK, Challenge

LEMMA InsertFacts ==
  ASSUME TypeOK, NEW c \in Call, NEW token \in Token, InsertSession(c, token)
  PROVE  LET x == calls[c]
             login == [did |-> x.did, key |-> x.key, nonce |-> x.nonce,
                       device |-> x.device, newDevice |-> x.newDevice,
                       valid |-> valid[c]]
         IN  /\ opened' \in [Token -> Login \cup {Absent}]
             /\ opened'[token] = login
             /\ \A y \in Token : y # token => opened'[y] = opened[y]
<1> DEFINE x == calls[c]
           login == [did |-> x.did, key |-> x.key, nonce |-> x.nonce,
                     device |-> x.device, newDevice |-> x.newDevice,
                     valid |-> valid[c]]
<1>1. calls[c] # Idle /\ opened' = [opened EXCEPT ![token] = login]
  BY DEF InsertSession, At
<1>2. valid[c] \in SUBSET Key
  BY DEF TypeOK
<1>3. login \in Login
  BY <1>1, <1>2, CallFields DEF Login
<1> HIDE DEF login
<1>4. /\ opened' \in [Token -> Login \cup {Absent}]
      /\ opened'[token] = login
      /\ \A y \in Token : y # token => opened'[y] = opened[y]
  BY <1>1, <1>3 DEF TypeOK
<1>5. QED
  BY <1>4 DEF login

\* Every step keeps the types, and undoes nothing that a call rests on.
LEMMA NextType ==
  ASSUME SessionsInv, Next
  PROVE  TypeOK' /\ Lasting
<1>1. TypeOK
  BY DEF SessionsInv
<1>2. /\ controller \in [Did -> Key \cup {Absent}]
      /\ nonces \in [Nonce -> NonceRow \cup {Absent}]
      /\ known_devices \subseteq Did \X Device
      /\ calls \in [Call -> CallState \cup {Idle}]
      /\ now \in Nat
      /\ valid \in [Call -> SUBSET Key]
      /\ proved \in [Did \X Device -> 0 .. 2]
      /\ opened \in [Token -> Login \cup {Absent}]
      /\ announced \subseteq Did \X Device
  BY <1>1 DEF TypeOK
<1>3. ASSUME UNCHANGED <<nonces, proved, announced>>
      PROVE  Lasting
  BY <1>3 DEF Lasting, Issued
<1>4. ASSUME NEW d \in Did, NEW key \in Key,
             RegisterDID(d, key) \/ UpdateController(d, key)
      PROVE  TypeOK' /\ Lasting
  BY <1>1, <1>2, <1>3, <1>4, ControllerFacts DEF TypeOK
<1>5. ASSUME NEW n \in Nonce, NEW d \in Did, Challenge(n, d)
      PROVE  TypeOK' /\ Lasting
  <2>1. /\ nonces' \in [Nonce -> NonceRow \cup {Absent}]
        /\ nonces[n] = Absent
        /\ \A m \in Nonce : m # n => nonces'[m] = nonces[m]
    BY <1>1, <1>5, ChallengeFacts
  <2>2. UNCHANGED <<controller, known_devices, calls, now, valid, proved, opened, announced>>
    BY <1>5 DEF Challenge
  <2>3. Lasting
    BY <2>1, <2>2 DEF Lasting, Issued
  <2>4. QED
    BY <1>2, <2>1, <2>2, <2>3 DEF TypeOK
<1>6. ASSUME NEW c \in Call, NEW d \in Did, NEW n \in Nonce, NEW key \in Key,
             NEW device \in Device, ReadNonce(c, d, n, key, device)
      PROVE  TypeOK' /\ Lasting
  <2>1. UNCHANGED <<controller, nonces, known_devices, now, proved, opened, announced>>
    BY <1>6 DEF ReadNonce
  <2>2. calls' \in [Call -> CallState \cup {Idle}] /\ valid' \in [Call -> SUBSET Key]
    BY <1>1, <1>6, ReadNonceBegins
  <2>3. QED
    BY <1>2, <1>3, <2>1, <2>2 DEF TypeOK
<1>7. ASSUME NEW c \in Call, CheckSignature(c)
      PROVE  TypeOK' /\ Lasting
  <2>1. UNCHANGED <<controller, nonces, known_devices, now, valid, opened, announced>>
    BY <1>7 DEF CheckSignature
  <2>2. /\ calls' \in [Call -> CallState \cup {Idle}]
        /\ proved' \in [Did \X Device -> 0 .. 2]
        /\ proved'[LoginOf(c)] = IF proved[LoginOf(c)] = 0 THEN 1 ELSE 2
        /\ \A x \in Did \X Device : x # LoginOf(c) => proved'[x] = proved[x]
    BY <1>7, CheckSignatureFacts
  <2>3. Lasting
    BY <2>1, <2>2 DEF Lasting, Issued
  <2>4. QED
    BY <1>2, <2>1, <2>2, <2>3 DEF TypeOK
<1>8. ASSUME NEW c \in Call, MarkUsed(c)
      PROVE  TypeOK' /\ Lasting
  <2>1. /\ UNCHANGED <<controller, known_devices, now, valid, proved, opened, announced>>
        /\ calls[c] # Idle /\ GoTo(c, "findDevice")
    BY <1>8 DEF MarkUsed, At
  <2>2. calls' \in [Call -> CallState \cup {Idle}]
    BY <1>1, <2>1, GoToMoves DEF Steps
  <2>3. /\ nonces' \in [Nonce -> NonceRow \cup {Absent}]
        /\ \A n \in Nonce : n # calls[c].nonce => nonces'[n] = nonces[n]
        /\ nonces'[calls[c].nonce].did = nonces[calls[c].nonce].did
        /\ nonces'[calls[c].nonce].used
        /\ nonces'[calls[c].nonce] # Absent
    BY <1>8, MarkUsedFacts
  <2>4. Lasting
    BY <2>1, <2>3 DEF Lasting, Issued
  <2>5. QED
    BY <1>2, <2>1, <2>2, <2>3, <2>4 DEF TypeOK
<1>9. ASSUME NEW c \in Call, FindDevice(c)
      PROVE  TypeOK' /\ Lasting
  <2>1. UNCHANGED <<controller, nonces, known_devices, now, valid, proved, opened, announced>>
    BY <1>9 DEF FindDevice
  <2>2. calls' \in [Call -> CallState \cup {Idle}]
    BY <1>1, <1>9, FindDeviceMoves
  <2>3. QED
    BY <1>2, <1>3, <2>1, <2>2 DEF TypeOK
<1>10. ASSUME NEW c \in Call, RecordDevice(c)
       PROVE  TypeOK' /\ Lasting
  <2>1. /\ UNCHANGED <<controller, nonces, now, valid, proved, opened, announced>>
        /\ calls[c] # Idle
        /\ known_devices' \subseteq known_devices \cup {LoginOf(c)}
        /\ GoTo(c, IF calls[c].newDevice THEN "notify" ELSE "insertSession")
    BY <1>10 DEF RecordDevice, At, LoginOf
  <2>2. calls' \in [Call -> CallState \cup {Idle}] /\ LoginOf(c) \in Did \X Device
    BY <1>1, <2>1, GoToMoves, CallFields DEF Steps
  <2>3. QED
    BY <1>2, <1>3, <2>1, <2>2 DEF TypeOK
<1>11. ASSUME NEW c \in Call, NotifyNewDeviceLogin(c)
       PROVE  TypeOK' /\ Lasting
  <2>1. /\ UNCHANGED <<controller, nonces, known_devices, now, valid, proved, opened>>
        /\ calls[c] # Idle
        /\ announced' = announced \cup {LoginOf(c)}
        /\ GoTo(c, "insertSession")
    BY <1>11 DEF NotifyNewDeviceLogin, At, LoginOf
  <2>2. calls' \in [Call -> CallState \cup {Idle}] /\ LoginOf(c) \in Did \X Device
    BY <1>1, <2>1, GoToMoves, CallFields DEF Steps
  <2>3. Lasting
    BY <2>1 DEF Lasting, Issued
  <2>4. QED
    BY <1>2, <2>1, <2>2, <2>3 DEF TypeOK
<1>12. ASSUME NEW c \in Call, NEW token \in Token, InsertSession(c, token)
       PROVE  TypeOK' /\ Lasting
  <2>1. UNCHANGED <<controller, nonces, known_devices, now, proved, announced>>
    BY <1>12 DEF InsertSession
  <2>2. opened' \in [Token -> Login \cup {Absent}]
    BY <1>1, <1>12, InsertFacts
  <2>3. calls' \in [Call -> CallState \cup {Idle}] /\ valid' \in [Call -> SUBSET Key]
    BY <1>1, <1>12, FinishIdles DEF InsertSession
  <2>4. QED
    BY <1>2, <1>3, <2>1, <2>2, <2>3 DEF TypeOK
<1>13. ASSUME NEW c \in Call, Fail(c)
       PROVE  TypeOK' /\ Lasting
  <2>1. UNCHANGED <<controller, nonces, known_devices, now, proved, opened, announced>>
    BY <1>13 DEF Fail
  <2>2. calls' \in [Call -> CallState \cup {Idle}] /\ valid' \in [Call -> SUBSET Key]
    BY <1>1, <1>13, FinishIdles DEF Fail
  <2>3. QED
    BY <1>2, <1>3, <2>1, <2>2 DEF TypeOK
<1>14. ASSUME NEW token \in Token, Logout(token)
       PROVE  TypeOK' /\ Lasting
  BY <1>2, <1>3, <1>14 DEF TypeOK, Logout
<1>15. ASSUME Tick
       PROVE  TypeOK' /\ Lasting
  BY <1>2, <1>3, <1>15 DEF TypeOK, Tick
<1>16. QED
  BY <1>4, <1>5, <1>6, <1>7, <1>8, <1>9, <1>10, <1>11, <1>12, <1>13, <1>14, <1>15
     DEF Next

-----------------------------------------------------------------------------
\* What the invariant says of the calls.

\* A call stands after a step of others that leaves what it reads: the controller
\* of its DID is valid for it, and its device did not become known unproved.
LEMMA StandsStill ==
  ASSUME TypeOK, Lasting, NEW c \in Call, calls[c] # Idle, Standing(c),
         calls'[c] = calls[c],
         valid[c] \subseteq valid'[c],
         controller'[calls[c].did] # Absent => controller'[calls[c].did] \in valid'[c],
         (/\ calls[c].at \in {"markUsed", "findDevice"}
          /\ LoginOf(c) \in known_devices'
          /\ LoginOf(c) \notin known_devices) => proved[LoginOf(c)] = 2
  PROVE  Standing(c)'
<1>1. calls[c].nonce \in Nonce /\ calls[c].did \in Did /\ LoginOf(c) \in Did \X Device
  BY CallFields
<1>2. LoginOf(c)' = LoginOf(c)
  BY DEF LoginOf
<1>3. Issued(calls[c].nonce, calls[c].did) => Issued(calls[c].nonce, calls[c].did)'
  <2>1. ASSUME NEW n \in Nonce, NEW d \in Did, Issued(n, d)
        PROVE  Issued(n, d)'
    BY <2>1 DEF Lasting
  <2>2. QED
    BY <1>1, <2>1 DEF Issued
<1>4. /\ proved[LoginOf(c)] # 0 => proved'[LoginOf(c)] # 0
      /\ proved[LoginOf(c)] = 2 => proved'[LoginOf(c)] = 2
      /\ LoginOf(c) \in announced => LoginOf(c) \in announced'
  BY <1>1 DEF Lasting
<1>5. QED
  BY <1>2, <1>3, <1>4 DEF Standing

\* Every call under way stands after every step.
LEMMA NextStanding ==
  ASSUME SessionsInv, Next
  PROVE  \A c \in Call : calls'[c] # Idle => Standing(c)'
<1> DEFINE Goal == \A b \in Call : calls'[b] # Idle => Standing(b)'
<1>1. TypeOK /\ TypeOK' /\ Lasting /\ \A b \in Call : calls[b] # Idle => Standing(b)
  BY NextType DEF SessionsInv
<1>2. ASSUME NEW b \in Call, calls'[b] # Idle, calls'[b] = calls[b],
             valid'[b] = valid[b], UNCHANGED <<controller, known_devices>>
      PROVE  Standing(b)'
  <2>1. Standing(b) /\ calls[b] # Idle
    BY <1>1, <1>2
  <2>2. controller[calls[b].did] # Absent => controller[calls[b].did] \in valid[b]
    BY <2>1 DEF Standing
  <2>3. QED
    BY <1>1, <1>2, <2>1, <2>2, StandsStill
<1>3. ASSUME NEW c \in Call, Only(c), UNCHANGED <<controller, known_devices>>,
             calls'[c] # Idle => Standing(c)'
      PROVE  Goal
  BY <1>2, <1>3 DEF Only
<1>4. ASSUME UNCHANGED <<controller, known_devices, calls, valid>>
      PROVE  Goal
  BY <1>2, <1>4
<1>5. ASSUME NEW d \in Did, NEW key \in Key,
             RegisterDID(d, key) \/ UpdateController(d, key)
      PROVE  Goal
  <2>1. /\ controller'[d] = key
        /\ \A e \in Did : e # d => controller'[e] = controller[e]
        /\ \A c \in Call :
             /\ valid[c] \subseteq valid'[c]
             /\ calls[c] # Idle /\ calls[c].did = d => key \in valid'[c]
        /\ UNCHANGED <<known_devices, calls>>
    BY <1>1, <1>5, ControllerFacts
  <2>2. ASSUME NEW b \in Call, calls'[b] # Idle
        PROVE  Standing(b)'
    <3>1. Standing(b) /\ calls[b] # Idle /\ calls'[b] = calls[b]
      BY <1>1, <2>1, <2>2
    <3>2. controller'[calls[b].did] # Absent => controller'[calls[b].did] \in valid'[b]
      <4>1. calls[b].did \in Did
        BY <1>1, <3>1, CallFields
      <4>2. controller[calls[b].did] # Absent => controller[calls[b].did] \in valid[b]
        BY <3>1 DEF Standing
      <4>3. QED
        BY <2>1, <3>1, <4>1, <4>2
    <3>3. valid[b] \subseteq valid'[b]
      BY <2>1
    <3>4. QED
      BY <1>1, <2>1, <3>1, <3>2, <3>3, StandsStill
  <2>3. QED
    BY <2>2
<1>6. ASSUME NEW c \in Call, NEW d \in Did, NEW n \in Nonce, NEW key \in Key,
             NEW device \in Device, ReadNonce(c, d, n, key, device)
      PROVE  Goal
  <2>1. /\ UNCHANGED <<controller, nonces, known_devices>>
        /\ Issued(n, d)
    BY <1>6 DEF ReadNonce, CanUse, Issued
  <2>2. /\ Only(c)
        /\ valid'[c] = {controller[d]} \ {Absent}
        /\ calls'[c] = [at |-> "checkSignature", did |-> d, nonce |-> n, key |-> key,
                        device |-> device, newDevice |-> FALSE]
    BY <1>1, <1>6, ReadNonceBegins
  <2>3. Standing(c)'
    BY <2>1, <2>2 DEF Standing, Issued
  <2>4. QED
    BY <1>3, <2>1, <2>2, <2>3
<1>7. ASSUME NEW c \in Call, CheckSignature(c)
      PROVE  Goal
  <2> DEFINE x == calls[c]
  <2>1. /\ UNCHANGED <<controller, nonces, known_devices, valid>>
        /\ x # Idle
        /\ controller[x.did] # Absent
        /\ x.key = controller[x.did]
    BY <1>7 DEF CheckSignature, At, IsRegistered, VerifySignature, GetController
  <2>2. /\ Only(c)
        /\ Moves(c, "markUsed", x.newDevice)
        /\ proved'[LoginOf(c)] = IF proved[LoginOf(c)] = 0 THEN 1 ELSE 2
    BY <1>7, CheckSignatureFacts
  <2>3. Standing(c)
    BY <1>1, <2>1
  <2>4. LoginOf(c) \in known_devices => proved[LoginOf(c)] # 0
    BY DEF SessionsInv, KnownWereProved
  <2>5. LoginOf(c)' = LoginOf(c)
    BY <2>2 DEF LoginOf, Moves
  <2>6. Standing(c)'
    BY <2>1, <2>2, <2>3, <2>4, <2>5 DEF Standing, Issued, Moves
  <2>7. QED
    BY <1>3, <2>1, <2>2, <2>6
<1>8. ASSUME NEW c \in Call, MarkUsed(c)
      PROVE  Goal
  <2> DEFINE x == calls[c]
  <2>1. /\ UNCHANGED <<controller, known_devices, valid, proved, announced>>
        /\ x # Idle /\ x.at = "markUsed"
        /\ GoTo(c, "findDevice")
    BY <1>8 DEF MarkUsed, At
  <2>2. Only(c) /\ Moves(c, "findDevice", x.newDevice)
    BY <1>1, <2>1, GoToMoves DEF Steps
  <2>3. Standing(c)
    BY <1>1, <2>1
  <2>4. /\ nonces'[x.nonce].did = nonces[x.nonce].did
        /\ nonces'[x.nonce] # Absent
    BY <1>8, MarkUsedFacts
  <2>5. LoginOf(c)' = LoginOf(c)
    BY <2>2 DEF LoginOf, Moves
  <2>6. Standing(c)'
    BY <2>1, <2>2, <2>3, <2>4, <2>5 DEF Standing, Issued, Moves
  <2>7. QED
    BY <1>3, <2>1, <2>2, <2>6
<1>9. ASSUME NEW c \in Call, FindDevice(c)
      PROVE  Goal
  <2> DEFINE x == calls[c]
  <2>1. /\ UNCHANGED <<controller, nonces, known_devices, valid, proved, announced>>
        /\ x # Idle /\ x.at = "findDevice"
    BY <1>9 DEF FindDevice, At
  <2>2. Only(c) /\ Moves(c, "recordDevice", LoginOf(c) \notin known_devices)
    BY <1>1, <1>9, FindDeviceMoves
  <2>3. Standing(c)
    BY <1>1, <2>1
  <2>4. LoginOf(c)' = LoginOf(c)
    BY <2>2 DEF LoginOf, Moves
  <2>5. Standing(c)'
    <3>1. CASE LoginOf(c) \in known_devices
      <4>1. Moves(c, "recordDevice", FALSE)
        BY <2>2, <3>1
      <4>2. proved[LoginOf(c)] = 2
        BY <2>1, <2>3, <3>1 DEF Standing
      <4>3. QED
        BY <2>1, <2>3, <2>4, <4>1, <4>2 DEF Standing, Issued, Moves
    <3>2. CASE LoginOf(c) \notin known_devices
      <4>1. Moves(c, "recordDevice", TRUE)
        BY <2>2, <3>2
      <4>2. QED
        BY <2>1, <2>3, <2>4, <4>1 DEF Standing, Issued, Moves
    <3>3. QED
      BY <3>1, <3>2
  <2>6. QED
    BY <1>3, <2>1, <2>2, <2>5
<1>10. ASSUME NEW c \in Call, RecordDevice(c)
       PROVE  Goal
  <2> DEFINE x == calls[c]
             step == IF x.newDevice THEN "notify" ELSE "insertSession"
  <2>1. /\ UNCHANGED <<controller, nonces, valid, proved, announced>>
        /\ x # Idle /\ x.at = "recordDevice"
        /\ GoTo(c, step)
        /\ known_devices' \subseteq known_devices \cup {LoginOf(c)}
    BY <1>10 DEF RecordDevice, At, LoginOf
  <2>2. Only(c) /\ Moves(c, step, x.newDevice)
    BY <1>1, <2>1, GoToMoves DEF Steps
  <2>3. Standing(c)
    BY <1>1, <2>1
  <2>4. LoginOf(c)' = LoginOf(c)
    BY <2>2 DEF LoginOf, Moves
  <2>5. Standing(c)'
    <3>1. CASE x.newDevice
      BY <2>1, <2>2, <2>3, <2>4, <3>1 DEF Standing, Issued, Moves
    <3>2. CASE ~x.newDevice
      BY <2>1, <2>2, <2>3, <2>4, <3>2 DEF Standing, Issued, Moves
    <3>3. QED
      BY <3>1, <3>2
  <2>6. ASSUME NEW b \in Call, b # c, calls'[b] # Idle
        PROVE  Standing(b)'
    <3>1. Standing(b) /\ calls[b] # Idle /\ calls'[b] = calls[b] /\ valid'[b] = valid[b]
      BY <1>1, <2>2, <2>6 DEF Only
    <3>2. ASSUME calls[b].at \in {"markUsed", "findDevice"},
                 LoginOf(b) \in known_devices', LoginOf(b) \notin known_devices
          PROVE  proved[LoginOf(b)] = 2
      <4>1. LoginOf(b) = LoginOf(c)
        BY <2>1, <3>2
      <4>2. Past(b) /\ Past(c)
        BY <2>1, <3>1, <3>2 DEF Past
      <4>3. QED
        BY <2>6, <4>1, <4>2 DEF SessionsInv, Overlapping
    <3>3. controller[calls[b].did] # Absent => controller[calls[b].did] \in valid[b]
      BY <3>1 DEF Standing
    <3>4. QED
      BY <1>1, <2>1, <3>1, <3>2, <3>3, StandsStill
  <2>7. QED
    BY <2>5, <2>6
<1>11. ASSUME NEW c \in Call, NotifyNewDeviceLogin(c)
       PROVE  Goal
  <2> DEFINE x == calls[c]
  <2>1. /\ UNCHANGED <<controller, nonces, known_devices, valid, proved>>
        /\ x # Idle /\ x.at = "notify"
        /\ GoTo(c, "insertSession")
        /\ LoginOf(c) \in announced'
    BY <1>11 DEF NotifyNewDeviceLogin, At, LoginOf
  <2>2. Only(c) /\ Moves(c, "insertSession", x.newDevice)
    BY <1>1, <2>1, GoToMoves DEF Steps
  <2>3. Standing(c)
    BY <1>1, <2>1
  <2>4. LoginOf(c)' = LoginOf(c)
    BY <2>2 DEF LoginOf, Moves
  <2>5. Standing(c)'
    BY <2>1, <2>2, <2>3, <2>4 DEF Standing, Issued, Moves
  <2>6. QED
    BY <1>3, <2>1, <2>2, <2>5
<1>12. ASSUME NEW c \in Call, Finish(c), UNCHANGED <<controller, known_devices>>
       PROVE  Goal
  BY <1>1, <1>3, <1>12, FinishIdles
<1>13. QED
  BY <1>4, <1>5, <1>6, <1>7, <1>8, <1>9, <1>10, <1>11, <1>12
     DEF Next, Challenge, InsertSession, Fail, Logout, Tick

\* A call that is past its signature after a step was so before it, or checked its
\* signature in that step.
LEMMA NextOverlapping ==
  ASSUME SessionsInv, Next
  PROVE  Overlapping'
<1>1. TypeOK /\ Lasting
  BY NextType DEF SessionsInv
<1>2. ASSUME NEW b \in Call, Past(b)
      PROVE  LoginOf(b) \in Did \X Device /\ proved[LoginOf(b)] # 0
  BY <1>1, <1>2, CallFields DEF SessionsInv, Standing, Past
<1>3. ASSUME NEW c \in Call, CheckSignature(c)
      PROVE  Overlapping'
  <2>1. /\ Only(c)
        /\ Moves(c, "markUsed", calls[c].newDevice)
        /\ proved'[LoginOf(c)] = IF proved[LoginOf(c)] = 0 THEN 1 ELSE 2
    BY <1>3, CheckSignatureFacts
  <2>2. LoginOf(c)' = LoginOf(c)
    BY <2>1 DEF LoginOf, Moves
  <2>3. \A b \in Call : b # c => /\ LoginOf(b)' = LoginOf(b)
                                 /\ Past(b)' => Past(b)
    BY <2>1 DEF Only, LoginOf, Past
  <2>4. ASSUME NEW a \in Call, NEW b \in Call, a # b, Past(a)', Past(b)',
               LoginOf(a)' = LoginOf(b)'
        PROVE  proved'[LoginOf(b)'] = 2
    <3>1. CASE a # c /\ b # c
      BY <1>1, <1>2, <2>3, <2>4, <3>1 DEF SessionsInv, Overlapping, Lasting
    <3>2. CASE a = c
      BY <1>2, <2>1, <2>2, <2>3, <2>4, <3>2
    <3>3. CASE b = c
      BY <1>2, <2>1, <2>2, <2>3, <2>4, <3>3
    <3>4. QED
      BY <3>1, <3>2, <3>3
  <2>5. QED
    BY <2>4 DEF Overlapping
<1>4. ASSUME \A b \in Call : Past(b)' => Past(b) /\ LoginOf(b)' = LoginOf(b)
      PROVE  Overlapping'
  BY <1>1, <1>2, <1>4 DEF SessionsInv, Overlapping, Lasting
<1>5. ASSUME NEW c \in Call, Only(c),
             Past(c)' => Past(c) /\ LoginOf(c)' = LoginOf(c)
      PROVE  Overlapping'
  BY <1>4, <1>5 DEF Only, Past, LoginOf
<1>6. ASSUME NEW c \in Call, NEW d \in Did, NEW n \in Nonce, NEW key \in Key,
             NEW device \in Device, ReadNonce(c, d, n, key, device)
      PROVE  Overlapping'
  <2>1. Only(c) /\ ~Past(c)'
    <3>1. /\ Only(c)
          /\ calls'[c] = [at |-> "checkSignature", did |-> d, nonce |-> n, key |-> key,
                          device |-> device, newDevice |-> FALSE]
      BY <1>1, <1>6, ReadNonceBegins
    <3>2. QED
      BY <3>1 DEF Past
  <2>2. QED
    BY <1>5, <2>1
<1>7. ASSUME NEW c \in Call, Past(c), NEW step \in Steps, GoTo(c, step), UNCHANGED valid
      PROVE  Overlapping'
  <2>1. Only(c) /\ Moves(c, step, calls[c].newDevice)
    BY <1>1, <1>7, GoToMoves DEF Past
  <2>2. QED
    BY <1>5, <1>7, <2>1 DEF Moves, LoginOf
<1>8. ASSUME NEW c \in Call, FindDevice(c)
      PROVE  Overlapping'
  <2>1. Only(c) /\ Moves(c, "recordDevice", LoginOf(c) \notin known_devices)
    BY <1>1, <1>8, FindDeviceMoves
  <2>2. Past(c)
    BY <1>8 DEF FindDevice, At, Past
  <2>3. QED
    BY <1>5, <2>1, <2>2 DEF Moves, LoginOf
<1>9. ASSUME NEW c \in Call, Finish(c)
      PROVE  Overlapping'
  BY <1>1, <1>5, <1>9, FinishIdles DEF Past
<1>10. ASSUME UNCHANGED calls
       PROVE  Overlapping'
  BY <1>4, <1>10 DEF Past, LoginOf
<1>11. QED
  <2>1. ASSUME NEW c \in Call, MarkUsed(c) \/ RecordDevice(c) \/ NotifyNewDeviceLogin(c)
        PROVE  Overlapping'
    <3>1. Past(c) /\ UNCHANGED valid
      BY <2>1 DEF MarkUsed, RecordDevice, NotifyNewDeviceLogin, At, Past
    <3>2. PICK step \in Steps : GoTo(c, step)
      BY <2>1 DEF MarkUsed, RecordDevice, NotifyNewDeviceLogin, Steps
    <3>3. QED
      BY <1>7, <3>1, <3>2
  <2>2. QED
    BY <1>3, <1>6, <1>8, <1>9, <1>10, <2>1
       DEF Next, RegisterDID, UpdateController, Challenge, InsertSession, Fail, Logout, Tick

\* A device becomes known through a call that proved the DID.
LEMMA NextKnown ==
  ASSUME SessionsInv, Next
  PROVE  KnownWereProved'
<1>1. TypeOK /\ Lasting
  BY NextType DEF SessionsInv
<1>2. ASSUME NEW x \in known_devices
      PROVE  proved'[x] # 0
  BY <1>1 DEF SessionsInv, KnownWereProved, Lasting, TypeOK
<1>3. ASSUME NEW c \in Call, RecordDevice(c)
      PROVE  KnownWereProved'
  <2>1. /\ calls[c] # Idle /\ calls[c].at = "recordDevice"
        /\ known_devices' \subseteq known_devices \cup {LoginOf(c)}
        /\ UNCHANGED proved
    BY <1>3 DEF RecordDevice, At, LoginOf
  <2>2. proved[LoginOf(c)] # 0
    BY <2>1 DEF SessionsInv, Standing
  <2>3. QED
    BY <1>2, <2>1, <2>2 DEF KnownWereProved
<1>4. CASE UNCHANGED known_devices
  BY <1>2, <1>4 DEF KnownWereProved
<1>5. QED
  BY <1>3, <1>4
     DEF Next, RegisterDID, UpdateController, Challenge, ReadNonce, CheckSignature,
         MarkUsed, FindDevice, NotifyNewDeviceLogin, InsertSession, Fail, Logout, Tick

\* What a session was opened for stays true of it.
LEMMA SoundStays ==
  ASSUME Lasting, NEW o \in Login, Sound(o)
  PROVE  Sound(o)'
<1>1. o.nonce \in Nonce /\ o.did \in Did /\ <<o.did, o.device>> \in Did \X Device
  BY DEF Login
<1>2. Issued(o.nonce, o.did)'
  BY <1>1 DEF Lasting, Sound
<1>3. QED
  BY <1>1, <1>2 DEF Lasting, Sound

LEMMA NextSound ==
  ASSUME SessionsInv, Next
  PROVE  (\A x \in Token : opened[x] # Absent => Sound(opened[x]))'
<1>1. TypeOK /\ TypeOK' /\ Lasting
  BY NextType DEF SessionsInv
<1> SUFFICES ASSUME NEW x \in Token, opened'[x] # Absent
             PROVE  Sound(opened[x])'
  OBVIOUS
<1>2. PICK o \in Login : o = opened'[x]
  BY <1>1 DEF TypeOK
<1>3. ASSUME opened'[x] = opened[x]
      PROVE  Sound(o)'
  BY <1>1, <1>2, <1>3, SoundStays DEF SessionsInv
<1>4. ASSUME NEW c \in Call, NEW token \in Token, InsertSession(c, token)
      PROVE  Sound(o)'
  <2>1. CASE x # token
    BY <1>1, <1>3, <1>4, <2>1, InsertFacts
  <2>2. CASE x = token
    <3>1. calls[c] # Idle /\ calls[c].at = "insertSession"
      BY <1>4 DEF InsertSession, At
    <3>2. Standing(c) /\ calls[c].newDevice \in BOOLEAN
      BY <1>1, <3>1, CallFields DEF SessionsInv
    <3>3. o = [did |-> calls[c].did, key |-> calls[c].key, nonce |-> calls[c].nonce,
               device |-> calls[c].device, newDevice |-> calls[c].newDevice,
               valid |-> valid[c]]
      BY <1>1, <1>2, <1>4, <2>2, InsertFacts
    <3>4. Sound(o)
      BY <3>1, <3>2, <3>3 DEF Sound, Standing, LoginOf
    <3>5. QED
      BY <1>1, <3>4, SoundStays
  <2>3. QED
    BY <2>1, <2>2
<1>5. Sound(o)'
  <2>1. CASE UNCHANGED opened
    BY <1>3, <2>1
  <2>2. QED
    BY <1>4, <2>1
       DEF Next, RegisterDID, UpdateController, Challenge, ReadNonce, CheckSignature,
           MarkUsed, FindDevice, RecordDevice, NotifyNewDeviceLogin, Fail, Logout, Tick
<1>6. QED
  BY <1>2, <1>5 DEF Sound

LEMMA NextSessionsInv ==
  ASSUME SessionsInv, [Next]_vars
  PROVE  SessionsInv'
<1>1. CASE Next
  BY <1>1, NextType, NextStanding, NextOverlapping, NextKnown, NextSound
     DEF SessionsInv
<1>2. CASE UNCHANGED vars
  BY <1>2 DEF vars, SessionsInv, TypeOK, Standing, Overlapping, KnownWereProved,
     Sound, Issued, Past, LoginOf
<1>3. QED
  BY <1>1, <1>2

LEMMA InitSessionsInv == Init => SessionsInv
<1> SUFFICES ASSUME Init PROVE SessionsInv
  OBVIOUS
<1>1. TypeOK
  BY DEF Init, TypeOK
<1>2. /\ \A c \in Call : calls[c] = Idle
      /\ known_devices = {}
      /\ \A x \in Token : opened[x] = Absent
  BY DEF Init
<1>3. QED
  BY <1>1, <1>2 DEF SessionsInv, Overlapping, KnownWereProved, Past

\* The invariant that everything below rests on holds in every state.
THEOREM LoginsStand == Spec => []SessionsInv
<1>1. Init => SessionsInv
  BY InitSessionsInv
<1>2. SessionsInv /\ [Next]_vars => SessionsInv'
  BY NextSessionsInv
<1>3. QED
  BY <1>1, <1>2, PTL DEF Spec

-----------------------------------------------------------------------------
\* The properties that the runs check.

\* A session is opened only with a key that was the DID's controller during that
\* call (auth.routes.ts:81), for a nonce issued to that DID, however many rotations
\* and other calls come in between.
THEOREM SessionsHadControllers == Spec => []SessionHadController
<1>1. SessionsInv => SessionHadController
  BY DEF SessionsInv, Sound, Issued, SessionHadController
<1>2. QED
  BY <1>1, LoginsStand, PTL

\* A login that was not flagged is at least the second proof of that DID from that
\* device, and a flagged one has been announced (auth.routes.ts:101), also when
\* calls from the same new device overlap.
THEOREM UnflaggedLoginsAreRepeated == Spec => []UnflaggedLoginIsRepeated
<1>1. SessionsInv => UnflaggedLoginIsRepeated
  BY DEF SessionsInv, Sound, UnflaggedLoginIsRepeated
<1>2. QED
  BY <1>1, LoginsStand, PTL

\* A call that did not begin in a step keeps its nonce.
LEMMA NoncesAreKept ==
  ASSUME TypeOK, Next, NEW b \in Call, calls[b] # Idle, calls'[b] # Idle
  PROVE  calls'[b].nonce = calls[b].nonce
<1> DEFINE Goal == calls'[b].nonce = calls[b].nonce
<1>1. ASSUME NEW c \in Call, NEW step \in Steps, calls[c] # Idle, GoTo(c, step),
             UNCHANGED valid
      PROVE  Goal
  <2>1. Only(c) /\ Moves(c, step, calls[c].newDevice)
    BY <1>1, GoToMoves
  <2>2. QED
    BY <2>1 DEF Only, Moves
<1>2. ASSUME NEW c \in Call, FindDevice(c)
      PROVE  Goal
  <2>1. Only(c) /\ Moves(c, "recordDevice", LoginOf(c) \notin known_devices)
    BY <1>2, FindDeviceMoves
  <2>2. QED
    BY <2>1 DEF Only, Moves
<1>3. ASSUME NEW c \in Call, Finish(c)
      PROVE  Goal
  BY <1>3, FinishIdles DEF Only
<1>4. ASSUME NEW c \in Call, calls[c] = Idle, Only(c)
      PROVE  Goal
  BY <1>4 DEF Only
<1>5. ASSUME NEW c \in Call, NEW d \in Did, NEW n \in Nonce, NEW key \in Key,
             NEW device \in Device, ReadNonce(c, d, n, key, device)
      PROVE  Goal
  BY <1>4, <1>5, ReadNonceBegins DEF ReadNonce
<1>6. ASSUME UNCHANGED calls
      PROVE  Goal
  BY <1>6
<1>7. ASSUME NEW c \in Call,
             \/ CheckSignature(c) \/ MarkUsed(c)
             \/ RecordDevice(c) \/ NotifyNewDeviceLogin(c)
      PROVE  Goal
  <2>1. calls[c] # Idle /\ UNCHANGED valid
    BY <1>7 DEF CheckSignature, MarkUsed, RecordDevice, NotifyNewDeviceLogin, At
  <2>2. PICK step \in Steps : GoTo(c, step)
    BY <1>7 DEF CheckSignature, MarkUsed, RecordDevice, NotifyNewDeviceLogin, Steps
  <2>3. QED
    BY <1>1, <2>1, <2>2
<1>8. QED
  BY <1>2, <1>3, <1>5, <1>6, <1>7
     DEF Next, RegisterDID, UpdateController, Challenge, InsertSession, Fail, Logout, Tick

\* A spent nonce begins no call and opens no session.
LEMMA StepsKeepSpent ==
  ASSUME SessionsInv, [Next]_vars, NEW n \in Nonce, Spent(n)
  PROVE  /\ Spent(n)'
         /\ \A x \in Token : opened'[x] # opened[x] => opened'[x].nonce # n
<1>1. CASE Next
  <2>1. TypeOK /\ Lasting
    BY <1>1, NextType DEF SessionsInv
  <2>2. nonces'[n] # Absent /\ nonces'[n].used
    BY <2>1 DEF Lasting, Spent
  <2>3. ASSUME NEW b \in Call, calls[b] = Idle, calls'[b] # Idle
        PROVE  calls'[b].nonce # n
    <3>1. PICK d \in Did, m \in Nonce, key \in Key, device \in Device :
            ReadNonce(b, d, m, key, device)
      <4>1. ASSUME NEW c \in Call, c # b, Only(c)
            PROVE  FALSE
        BY <2>3, <4>1 DEF Only
      <4>2. ASSUME NEW c \in Call, NEW d \in Did, NEW m \in Nonce, NEW key \in Key,
                   NEW device \in Device, ReadNonce(c, d, m, key, device)
            PROVE  c = b
        BY <2>1, <4>1, <4>2, ReadNonceBegins
      <4>3. ASSUME NEW c \in Call, calls[c] # Idle, NEW step, GoTo(c, step)
            PROVE  FALSE
        BY <2>1, <2>3, <4>3 DEF GoTo, TypeOK
      <4>4. ASSUME NEW c \in Call, Finish(c)
            PROVE  FALSE
        BY <2>1, <2>3, <4>4 DEF Finish, TypeOK
      <4>5. ASSUME NEW c \in Call, FindDevice(c)
            PROVE  FALSE
        BY <2>1, <2>3, <4>1, <4>5, FindDeviceMoves DEF FindDevice, At
      <4>6. ASSUME UNCHANGED calls
            PROVE  FALSE
        BY <2>3, <4>6
      <4>7. ASSUME NEW c \in Call,
                   \/ CheckSignature(c) \/ MarkUsed(c)
                   \/ RecordDevice(c) \/ NotifyNewDeviceLogin(c)
            PROVE  FALSE
        BY <4>3, <4>7
           DEF CheckSignature, MarkUsed, RecordDevice, NotifyNewDeviceLogin, At
      <4>8. QED
        BY <1>1, <4>2, <4>4, <4>5, <4>6, <4>7
           DEF Next, RegisterDID, UpdateController, Challenge, InsertSession, Fail,
               Logout, Tick
    <3>2. calls'[b].nonce = m /\ ~nonces[m].used
      BY <2>1, <3>1, ReadNonceBegins DEF ReadNonce, CanUse
    <3>3. QED
      BY <3>2 DEF Spent
  <2>4. ASSUME NEW b \in Call, calls'[b] # Idle
        PROVE  calls'[b].nonce # n
    BY <1>1, <2>1, <2>3, <2>4, NoncesAreKept DEF Spent
  <2>5. Spent(n)'
    BY <2>2, <2>4 DEF Spent
  <2>6. ASSUME NEW x \in Token, opened'[x] # opened[x]
        PROVE  opened'[x].nonce # n
    <3>1. PICK c \in Call, token \in Token : InsertSession(c, token)
      BY <1>1, <2>6
         DEF Next, RegisterDID, UpdateController, Challenge, ReadNonce,
             CheckSignature, MarkUsed, FindDevice, RecordDevice,
             NotifyNewDeviceLogin, Fail, Logout, Tick
    <3>2. x = token
      BY <2>1, <2>6, <3>1, InsertFacts
    <3>3. opened'[x].nonce = calls[c].nonce
      <4>1. opened'[token] =
              [did |-> calls[c].did, key |-> calls[c].key, nonce |-> calls[c].nonce,
               device |-> calls[c].device, newDevice |-> calls[c].newDevice,
               valid |-> valid[c]]
        BY <2>1, <3>1, InsertFacts
      <4>2. QED
        BY <3>2, <4>1
    <3>4. QED
      BY <3>1, <3>3 DEF Spent, InsertSession, At
  <2>7. QED
    BY <2>5, <2>6
<1>2. CASE UNCHANGED vars
  BY <1>2 DEF vars, Spent
<1>3. QED
  BY <1>1, <1>2

\* Once a nonce is used and the calls that read it are through, it opens no other
\* session (auth.routes.ts:72), in any number of steps.
THEOREM SpentNoncesOpenNothing == Spec => SpentNoncesStaySpent
<1> DEFINE Kept ==
      \A n \in Nonce : Spent(n) =>
        /\ Spent(n)'
        /\ \A x \in Token : opened'[x] # opened[x] => opened'[x].nonce # n
<1>1. SessionsInv /\ [Next]_vars => Kept
  BY StepsKeepSpent
<1>2. QED
  BY <1>1, LoginsStand, PTL DEF Spec, SpentNoncesStaySpent

-----------------------------------------------------------------------------
(***************************************************************************)
(* THE FEED, for every number of events, of restarts and every size of the *)
(* feed.                                                                   *)
(*                                                                         *)
(* A process is at most one event ahead of the checkpoint, so a new stream *)
(* repeats at most the newest event of the feed (Position); the counts     *)
(* follow from the set of the events cached and from what the ledger may   *)
(* emit of a proposal (LedgerOfProposals).                                 *)
(***************************************************************************)

EventNames == DomainEvent \cup
  {"DIDRegistered", "ProposalCreated", "ProposalApproved", "ProposalCancelled"}
Events ==
  [name : EventNames, proposal : ProposalId \cup {None}, revoked : BOOLEAN \cup {None}]

IndexerTyped ==
  /\ ledger \in Seq(Events)
  /\ checkpoint \in Nat /\ streamed \in Nat /\ lifeStart \in Nat /\ seen \in Nat
  /\ running \in BOOLEAN
  /\ cache \in Seq(Nat)

Position ==
  /\ lifeStart <= checkpoint /\ checkpoint <= seen /\ seen <= checkpoint + 1
  /\ seen <= Len(ledger)
  /\ running => checkpoint <= streamed /\ streamed <= seen

IndexerInv == IndexerTyped /\ Position /\ FeedIsGapless

\* What the ledger emits of a proposal: its creation first, and one execution.
IsExecution(e) == ledger[e].name \in DomainEvent
LedgerOfProposals ==
  /\ \A e \in DOMAIN ledger :
       \/ ledger[e].name = "DIDRegistered" /\ ledger[e].proposal = None
       \/ /\ ledger[e].proposal \in ProposalId
          /\ Emitted("ProposalCreated", ledger[e].proposal)
          /\ \/ ledger[e].name \in {"ProposalCreated", "ProposalApproved", "ProposalCancelled"}
             \/ \E f \in Effect : f.name = ledger[e].name /\ f.revoked = ledger[e].revoked
  /\ \A d, e \in DOMAIN ledger :
       IsExecution(d) /\ IsExecution(e) /\ ledger[d].proposal = ledger[e].proposal => d = e

-----------------------------------------------------------------------------
LEMMA Lengths ==
  ASSUME IndexerTyped
  PROVE  /\ Len(ledger) \in Nat /\ DOMAIN ledger = 1 .. Len(ledger)
         /\ \A e \in 1 .. Len(ledger) : ledger[e] \in Events
         /\ Len(cache) \in Nat /\ DOMAIN cache = 1 .. Len(cache)
         /\ \A i \in 1 .. Len(cache) : cache[i] \in Nat
  BY DEF IndexerTyped

\* The feed after an event was put at its head.
LEMMA Prepended ==
  ASSUME IndexerTyped, NEW e \in Nat
  PROVE  /\ Prepend(e) \in Seq(Nat)
         /\ Len(Prepend(e)) =
              IF Len(cache) < MAX_CACHED_EVENTS THEN Len(cache) + 1 ELSE MAX_CACHED_EVENTS
         /\ \A i \in 1 .. Len(Prepend(e)) :
              Prepend(e)[i] = IF i = 1 THEN e ELSE cache[i - 1]
<1> DEFINE s == <<e>> \o cache
           n == IF Len(s) > MAX_CACHED_EVENTS THEN MAX_CACHED_EVENTS ELSE Len(s)
<1>1. s \in Seq(Nat) /\ Len(s) = Len(cache) + 1 /\ Len(s) \in Nat
      /\ \A i \in 1 .. Len(s) : s[i] = IF i = 1 THEN e ELSE cache[i - 1]
  BY DEF IndexerTyped
<1>2. MAX_CACHED_EVENTS \in Nat
  BY IndexerAssumption
<1>3. Prepend(e) = SubSeq(s, 1, n)
  BY DEF Prepend, Truncated
<1> HIDE DEF s
<1>4. n \in 0 .. Len(s)
  BY <1>1, <1>2
<1>5. n = IF Len(cache) < MAX_CACHED_EVENTS THEN Len(cache) + 1 ELSE MAX_CACHED_EVENTS
  BY <1>1, <1>2, Lengths
<1> HIDE DEF n
<1>6. SubSeq(s, 1, n) \in Seq(Nat) /\ Len(SubSeq(s, 1, n)) = n
      /\ \A i \in 1 .. n : SubSeq(s, 1, n)[i] = s[i]
  BY <1>1, <1>4
<1>7. \A i \in 1 .. n : SubSeq(s, 1, n)[i] = IF i = 1 THEN e ELSE cache[i - 1]
  BY <1>1, <1>4, <1>6
<1>8. QED
  BY ONLY <1>3, <1>5, <1>6, <1>7

LEMMA Appended ==
  ASSUME IndexerTyped, NEW x, ledger' = Append(ledger, x)
  PROVE  /\ Len(ledger') = Len(ledger) + 1 /\ DOMAIN ledger' = 1 .. Len(ledger) + 1
         /\ \A e \in 1 .. Len(ledger) : ledger'[e] = ledger[e]
         /\ ledger'[Len(ledger) + 1] = x
         /\ x \in Events => ledger' \in Seq(Events)
  BY DEF IndexerTyped

\* The steps of the chaincode.
Emission(x) ==
  /\ ledger' = Append(ledger, x)
  /\ UNCHANGED <<checkpoint, streamed, running, cache, restarts, lifeStart, seen>>

LEMMA Emissions ==
  ASSUME Register \/ \E p \in ProposalId : Propose(p) \/ Approve(p) \/ Cancel(p) \/ Execute(p)
  PROVE  \E x \in Events : Emission(x)
<1>1. ASSUME NEW name \in EventNames, NEW p \in ProposalId \cup {None},
             NEW revoked \in BOOLEAN \cup {None}, Emit(name, p, revoked)
      PROVE  \E x \in Events : Emission(x)
  BY <1>1 DEF Emit, Emission, Events
<1>2. CASE Register
  BY <1>1, <1>2 DEF Register, EventNames
<1>3. ASSUME NEW p \in ProposalId, Propose(p) \/ Approve(p) \/ Cancel(p)
      PROVE  \E x \in Events : Emission(x)
  BY <1>1, <1>3 DEF Propose, Approve, Cancel, EventNames
<1>4. ASSUME NEW p \in ProposalId, Execute(p)
      PROVE  \E x \in Events : Emission(x)
  <2>1. PICK f \in Effect : Emit(f.name, p, f.revoked)
    BY <1>4 DEF Execute
  <2>2. f.name \in EventNames /\ f.revoked \in BOOLEAN \cup {None}
    BY IndexerAssumption DEF EventNames
  <2>3. QED
    BY <1>1, <2>1, <2>2
<1>5. QED
  BY <1>2, <1>3, <1>4

LEMMA EmitKeeps ==
  ASSUME IndexerInv, NEW x \in Events, Emission(x)
  PROVE  IndexerInv'
<1>a. IndexerTyped /\ Position /\ FeedIsGapless
  BY DEF IndexerInv
<1>1. /\ Len(ledger') = Len(ledger) + 1 /\ ledger' \in Seq(Events) /\ Len(ledger) \in Nat
      /\ \A e \in 1 .. Len(ledger) : ledger'[e] = ledger[e]
  BY <1>a, Appended, Lengths DEF Emission
<1>2. UNCHANGED <<checkpoint, streamed, running, cache, lifeStart, seen>>
  BY DEF Emission
<1>3. IndexerTyped' /\ Position'
  BY <1>a, <1>1, <1>2 DEF IndexerTyped, Position
<1>4. \A e \in lifeStart + 1 .. seen : IsAudited(e)' <=> IsAudited(e)
  <2>1. lifeStart + 1 .. seen \subseteq 1 .. Len(ledger)
    BY <1>a, <1>1 DEF Position, IndexerTyped
  <2>2. QED
    BY <1>1, <2>1 DEF IsAudited
<1>5. Audited' = Audited
  BY <1>2, <1>4 DEF Audited
<1>6. FeedIsGapless'
  BY <1>a, <1>2, <1>5 DEF FeedIsGapless, Cached
<1>7. QED
  BY <1>3, <1>6 DEF IndexerInv

LEMMA ProcessKeeps ==
  ASSUME IndexerInv, Process
  PROVE  IndexerInv'
<1>a. IndexerTyped /\ Position /\ FeedIsGapless
  BY DEF IndexerInv
<1> DEFINE e == streamed + 1
<1>1. /\ streamed = checkpoint /\ streamed < Len(ledger) /\ running
      /\ streamed' = e /\ UNCHANGED <<ledger, checkpoint, running, lifeStart>>
      /\ seen' = IF e > seen THEN e ELSE seen
      /\ cache' = IF IsAudited(e) /\ e \notin Cached THEN Prepend(e) ELSE cache
  BY DEF Process
<1>2. e \in Nat /\ seen' = e /\ lifeStart < e /\ (seen = e \/ seen = e - 1)
  BY <1>1, <1>a DEF Position, IndexerTyped
<1>3. Position' /\ cache' \in Seq(Nat) => IndexerTyped'
  BY <1>1, <1>2, <1>a DEF IndexerTyped
<1>4. Position'
  BY <1>1, <1>2, <1>a, Lengths DEF Position, IndexerTyped
<1>5. Audited' = {x \in lifeStart + 1 .. e : IsAudited(x)}
  BY <1>1, <1>2 DEF Audited, IsAudited
<1> HIDE DEF e
<1>6. CASE ~(IsAudited(e) /\ e \notin Cached)
  <2>1. cache' = cache
    BY <1>1, <1>6
  <2>2. Audited' = Audited
    <3>1. CASE seen = e
      BY <1>5, <3>1 DEF Audited
    <3>2. CASE seen = e - 1
      <4>1. e \notin Cached
        BY <1>a, <1>2, <3>2 DEF FeedIsGapless, Audited, IndexerTyped
      <4>2. ~IsAudited(e)
        BY <1>6, <4>1
      <4>3. QED
        BY <1>5, <1>2, <1>a, <3>2, <4>2 DEF Audited, IndexerTyped
    <3>3. QED
      BY <1>2, <3>1, <3>2
  <2>3. FeedIsGapless'
    BY <1>a, <1>4, <2>1, <2>2 DEF FeedIsGapless, Cached, Position
  <2>4. QED
    BY <1>3, <1>4, <1>a, <2>1, <2>3 DEF IndexerInv, IndexerTyped
<1>7. CASE IsAudited(e) /\ e \notin Cached
  <2>1. cache' = Prepend(e) /\ cache' \in Seq(Nat)
    <3>1. cache' = Prepend(e)
      BY <1>1, <1>7
    <3>2. Prepend(e) \in Seq(Nat)
      BY <1>2, <1>a, Prepended
    <3>3. QED
      BY <3>1, <3>2
  <2>2. /\ Len(cache') = IF Len(cache) < MAX_CACHED_EVENTS THEN Len(cache) + 1 ELSE MAX_CACHED_EVENTS
        /\ \A i \in 1 .. Len(cache') : cache'[i] = IF i = 1 THEN e ELSE cache[i - 1]
        /\ DOMAIN cache' = 1 .. Len(cache')
    <3>1. PICK c : c = Prepend(e)
      OBVIOUS
    <3>2. /\ Len(c) = IF Len(cache) < MAX_CACHED_EVENTS THEN Len(cache) + 1 ELSE MAX_CACHED_EVENTS
          /\ \A i \in 1 .. Len(c) : c[i] = IF i = 1 THEN e ELSE cache[i - 1]
      BY ONLY <3>1, <1>2, <1>a, Prepended
    <3>3. cache' = c
      BY <2>1, <3>1
    <3>4. DOMAIN cache' = 1 .. Len(cache')
      BY <2>1
    <3>5. QED
      BY ONLY <3>2, <3>3, <3>4
  <2>3. /\ Len(cache) \in Nat /\ DOMAIN cache = 1 .. Len(cache) /\ MAX_CACHED_EVENTS \in Nat
        /\ Len(cache) <= MAX_CACHED_EVENTS
        /\ \A i \in 1 .. Len(cache) : cache[i] \in Nat
    BY <1>a, Lengths, IndexerAssumption DEF FeedIsGapless
  <2>4. \A i \in 1 .. Len(cache) : cache[i] \in Audited /\ cache[i] < e
    <3>1. \A i \in 1 .. Len(cache) : cache[i] \in Cached
      BY <2>3 DEF Cached
    <3>2. \A i \in 1 .. Len(cache) : cache[i] \in Audited /\ cache[i] # e
      BY <1>7, <1>a, <3>1 DEF FeedIsGapless
    <3>3. QED
      BY <1>2, <1>a, <3>2 DEF Audited, IndexerTyped
  <2>5. Audited' = Audited \cup {e}
    BY <1>5, <1>2, <1>7, <1>a DEF Audited, IndexerTyped
  <2>6. Cached' \subseteq Audited'
    <3>1. \A i \in 1 .. Len(cache') : i # 1 => i - 1 \in 1 .. Len(cache)
      BY <2>2, <2>3
    <3>2. QED
      BY <2>2, <2>4, <2>5, <3>1 DEF Cached
  <2>7. \A i, j \in DOMAIN cache' : i < j => cache'[i] > cache'[j]
    <3>1. ASSUME NEW i \in DOMAIN cache', NEW j \in DOMAIN cache', i < j
          PROVE  cache'[i] > cache'[j]
      <4>1. j \in Nat /\ i \in Nat /\ j # 1 /\ j - 1 \in 1 .. Len(cache)
        BY <2>2, <2>3, <3>1
      <4>2. cache'[j] = cache[j - 1]
        BY <2>2, <4>1
      <4>3. CASE i = 1
        BY <2>2, <2>3, <2>4, <4>1, <4>2, <4>3, <1>2
      <4>4. CASE i # 1
        <5>1. i - 1 \in 1 .. Len(cache) /\ i - 1 < j - 1 /\ cache'[i] = cache[i - 1]
          BY <2>2, <2>3, <3>1, <4>1, <4>4
        <5>2. cache[i - 1] > cache[j - 1]
          BY <5>1, <4>1, <2>3, <1>a DEF FeedIsGapless
        <5>3. QED
          BY <4>2, <5>1, <5>2
      <4>5. QED
        BY <4>3, <4>4
    <3>2. QED
      BY <3>1
  <2>8. ASSUME NEW x \in Audited' \ Cached'
        PROVE  Len(cache') = MAX_CACHED_EVENTS /\ \A i \in DOMAIN cache' : cache'[i] > x
    <3>1. CASE Len(cache') = 0
      BY <2>2, <2>3, <3>1
    <3>2. CASE Len(cache') # 0
      <4>1. 1 \in DOMAIN cache' /\ cache'[1] = e
        BY <2>2, <2>3, <3>2
      <4>2. x \in Audited /\ x # e
        BY <2>5, <2>8, <4>1 DEF Cached
      <4>3. CASE x \in Cached
        \* It was the oldest entry, and the feed was full.
        <5>1. PICK k \in 1 .. Len(cache) : x = cache[k]
          BY <4>3, <2>3 DEF Cached
        <5>2. ~(k + 1 \in 1 .. Len(cache'))
          <6>1. ASSUME k + 1 \in 1 .. Len(cache') PROVE FALSE
            <7>1. cache'[k + 1] = x
              BY <2>2, <5>1, <6>1
            <7>2. QED
              BY <2>2, <2>8, <6>1, <7>1 DEF Cached
          <6>2. QED
            BY <6>1
        <5>3. k = Len(cache) /\ Len(cache') = MAX_CACHED_EVENTS /\ Len(cache) = MAX_CACHED_EVENTS
          <6>1. k \in Nat /\ k >= 1 /\ k <= Len(cache) /\ Len(cache') \in Nat
            BY <2>2, <2>3, <5>1
          <6>2. k + 1 > Len(cache')
            BY <5>2, <6>1
          <6>3. Len(cache) >= MAX_CACHED_EVENTS
            BY <2>2, <2>3, <6>1, <6>2
          <6>4. Len(cache') = MAX_CACHED_EVENTS
            BY <2>2, <2>3, <6>3
          <6>5. Len(cache) \in Nat /\ MAX_CACHED_EVENTS \in Nat /\ Len(cache) <= MAX_CACHED_EVENTS
            BY <2>3
          <6>6. QED
            BY ONLY <6>1, <6>2, <6>3, <6>4, <6>5
        <5>4. ASSUME NEW i \in DOMAIN cache' PROVE cache'[i] > x
          <6>1. CASE i = 1
            BY <4>1, <6>1, <5>1, <2>4, <2>3, <1>2
          <6>2. CASE i # 1
            <7>1. i - 1 \in 1 .. Len(cache) /\ i - 1 < k /\ cache'[i] = cache[i - 1]
              BY <2>2, <2>3, <5>3, <6>2, <5>4
            <7>2. QED
              BY <7>1, <5>1, <2>3, <1>a DEF FeedIsGapless
          <6>3. QED
            BY <6>1, <6>2
        <5>5. QED
          BY <5>3, <5>4
      <4>4. CASE x \notin Cached
        <5>1. Len(cache) = MAX_CACHED_EVENTS /\ \A i \in 1 .. Len(cache) : cache[i] > x
          BY <1>a, <2>3, <4>2, <4>4 DEF FeedIsGapless
        <5>2. Len(cache') = MAX_CACHED_EVENTS
          BY <2>2, <5>1, <2>3
        <5>3. x \in Int /\ x < e
          BY <4>2, <1>2, <1>a DEF Audited, IndexerTyped
        <5>4. ASSUME NEW i \in DOMAIN cache' PROVE cache'[i] > x
          <6>1. CASE i = 1
            BY <4>1, <5>3, <6>1, <1>2
          <6>2. CASE i # 1
            <7>1. i - 1 \in 1 .. Len(cache) /\ cache'[i] = cache[i - 1]
              BY <2>2, <2>3, <5>1, <6>2, <5>4
            <7>2. QED
              BY <7>1, <5>1
          <6>3. QED
            BY <6>1, <6>2
        <5>5. QED
          BY <5>2, <5>4
      <4>5. QED
        BY <4>3, <4>4
    <3>3. QED
      BY <3>1, <3>2
  <2>9. Len(cache') <= MAX_CACHED_EVENTS
    BY <2>2, <2>3
  <2>10. checkpoint' <= seen'
    BY <1>4 DEF Position
  <2>11. FeedIsGapless'
    BY <2>6, <2>7, <2>8, <2>9, <2>10 DEF FeedIsGapless
  <2>12. QED
    BY <1>3, <1>4, <2>1, <2>11 DEF IndexerInv
<1>8. QED
  BY <1>6, <1>7

LEMMA FeedNext == IndexerInv /\ [IndexerNext]_indexerVars => IndexerInv'
<1> SUFFICES ASSUME IndexerInv, [IndexerNext]_indexerVars PROVE IndexerInv'
  OBVIOUS
<1>a. IndexerTyped /\ Position /\ FeedIsGapless
  BY DEF IndexerInv
\* The feed, and what the process has been through, stay as they are.
<1>b. ASSUME UNCHANGED <<ledger, cache, lifeStart, seen>>, checkpoint' <= seen'
      PROVE  FeedIsGapless'
  BY <1>a, <1>b DEF FeedIsGapless, Cached, Audited, IsAudited
<1>1. CASE Register \/ \E p \in ProposalId : Propose(p) \/ Approve(p) \/ Cancel(p) \/ Execute(p)
  BY <1>1, Emissions, EmitKeeps
<1>2. CASE Process
  BY <1>2, ProcessKeeps
<1>3. CASE Connect
  BY <1>3, <1>a, <1>b DEF Connect, IndexerInv, IndexerTyped, Position
<1>4. CASE Checkpoint
  BY <1>4, <1>a, <1>b DEF Checkpoint, IndexerInv, IndexerTyped, Position
<1>5. CASE Disconnect
  BY <1>5, <1>a, <1>b DEF Disconnect, IndexerInv, IndexerTyped, Position
<1>6. CASE Restart
  <2>1. cache' = <<>> /\ lifeStart' = checkpoint /\ seen' = checkpoint /\ running' = FALSE
        /\ UNCHANGED <<ledger, checkpoint, streamed>>
    BY <1>6 DEF Restart
  <2>2. IndexerTyped' /\ Position'
    <3>1. <<>> \in Seq(Nat) /\ Len(ledger) \in Nat
      BY <1>a, Lengths
    <3>2. IndexerTyped'
      BY <1>a, <2>1, <3>1 DEF IndexerTyped
    <3>3. Position'
      BY <1>a, <2>1, <3>1 DEF IndexerTyped, Position
    <3>4. QED
      BY <3>2, <3>3
  <2>3. Audited' = {} /\ Cached' = {}
    BY <1>a, <2>1 DEF Audited, Cached, IndexerTyped
  <2>4. DOMAIN cache' = {} /\ Len(cache') <= MAX_CACHED_EVENTS
    BY <2>1, IndexerAssumption
  <2>5. FeedIsGapless'
    BY <2>2, <2>3, <2>4 DEF FeedIsGapless, Position
  <2>6. QED
    BY <2>2, <2>5 DEF IndexerInv
<1>7. CASE UNCHANGED indexerVars
  BY <1>7, <1>a, <1>b DEF indexerVars, IndexerInv, IndexerTyped, Position
<1>8. QED
  BY <1>1, <1>2, <1>3, <1>4, <1>5, <1>6, <1>7 DEF IndexerNext

LEMMA FeedInit == IndexerInit => IndexerInv
<1> SUFFICES ASSUME IndexerInit PROVE IndexerInv
  OBVIOUS
<1>1. ledger = <<>> /\ cache = <<>> /\ checkpoint = 0 /\ seen = 0 /\ lifeStart = 0
      /\ streamed = 0 /\ running = FALSE
  BY DEF IndexerInit
<1>2. IndexerTyped /\ Position
  <2>1. <<>> \in Seq(Nat) /\ <<>> \in Seq(Events) /\ Len(<<>>) = 0
    OBVIOUS
  <2>2. IndexerTyped
    BY <1>1, <2>1 DEF IndexerTyped
  <2>3. Position
    BY <1>1, <2>1 DEF Position
  <2>4. QED
    BY <2>2, <2>3
<1>3. Audited = {} /\ Cached = {} /\ DOMAIN cache = {} /\ Len(cache) = 0
  BY <1>1 DEF Audited, Cached
<1>4. FeedIsGapless
  BY <1>1, <1>3, IndexerAssumption DEF FeedIsGapless
<1>5. QED
  BY <1>2, <1>4 DEF IndexerInv

LEMMA IndexerStands == IndexerSpec => []IndexerInv
  BY FeedInit, FeedNext, PTL DEF IndexerSpec

(***************************************************************************)
(* However streams break and processes restart, the feed of a process is   *)
(* the audited events it has been through, newest first and each once, the *)
(* newest MAX_CACHED_EVENTS of them (indexer.service.ts).                  *)
(***************************************************************************)
THEOREM FeedSkipsNothing == IndexerSpec => []FeedIsGapless
  BY IndexerStands, PTL DEF IndexerInv

-----------------------------------------------------------------------------
(* What the ledger emits of a proposal.                                     *)

LEMMA LedgerKeeps ==
  ASSUME IndexerTyped, LedgerOfProposals, NEW x \in Events, Emission(x),
         \/ x.name = "DIDRegistered" /\ x.proposal = None
         \/ x.proposal \in ProposalId /\ x.name = "ProposalCreated"
         \/ /\ x.proposal \in ProposalId /\ Emitted("ProposalCreated", x.proposal)
            /\ x.name \in {"ProposalApproved", "ProposalCancelled"}
         \/ /\ x.proposal \in ProposalId /\ Emitted("ProposalCreated", x.proposal)
            /\ ~Executed(x.proposal)
            /\ \E f \in Effect : f.name = x.name /\ f.revoked = x.revoked
  PROVE  LedgerOfProposals'
<1> DEFINE n == Len(ledger)
<1>1. /\ DOMAIN ledger' = 1 .. n + 1 /\ DOMAIN ledger = 1 .. n /\ n \in Nat
      /\ \A e \in 1 .. n : ledger'[e] = ledger[e]
      /\ ledger'[n + 1] = x
  BY Appended, Lengths DEF Emission
<1> HIDE DEF n
<1>2. \A e \in DOMAIN ledger' : e \in 1 .. n \/ e = n + 1
  BY <1>1
<1>3. ASSUME NEW name, NEW p, Emitted(name, p) PROVE Emitted(name, p)'
  BY <1>1, <1>3 DEF Emitted
<1>5. ASSUME NEW e \in DOMAIN ledger', NEW y, y = ledger'[e]
      PROVE  \/ y.name = "DIDRegistered" /\ y.proposal = None
             \/ /\ y.proposal \in ProposalId
                /\ Emitted("ProposalCreated", y.proposal)'
                /\ \/ y.name \in {"ProposalCreated", "ProposalApproved", "ProposalCancelled"}
                   \/ \E f \in Effect : f.name = y.name /\ f.revoked = y.revoked
  <2>1. CASE e \in 1 .. n
    BY <1>1, <1>3, <1>5, <2>1 DEF LedgerOfProposals
  <2>2. CASE e = n + 1
    <3>1. y = x
      BY <1>1, <1>5, <2>2
    <3>2. x.name = "ProposalCreated" => Emitted("ProposalCreated", x.proposal)'
      BY <1>1, <1>2 DEF Emitted
    <3>3. Emitted("ProposalCreated", x.proposal) => Emitted("ProposalCreated", x.proposal)'
      BY <1>3
    <3>4. QED
      BY <3>1, <3>2, <3>3
  <2>3. QED
    BY <1>2, <2>1, <2>2
\* An execution is not emitted of a proposal that has one.
<1>6. ASSUME NEW e \in 1 .. n, IsExecution(e), x.name \in DomainEvent
      PROVE  ledger[e].proposal # x.proposal
  <2>1. PICK f \in Effect : f.name = ledger[e].name
    BY <1>1, <1>6 DEF LedgerOfProposals, IsExecution, DomainEvent
  <2>2. Executed(ledger[e].proposal)
    BY <1>1, <2>1 DEF Executed, Emitted
  <2>3. ~Executed(x.proposal)
    BY <1>6 DEF DomainEvent
  <2>4. QED
    BY <2>2, <2>3
<1>7. ASSUME NEW d \in DOMAIN ledger', NEW e \in DOMAIN ledger',
             IsExecution(d)', IsExecution(e)', ledger'[d].proposal = ledger'[e].proposal
      PROVE  d = e
  <2>1. CASE d \in 1 .. n /\ e \in 1 .. n
    BY <1>1, <1>7, <2>1 DEF LedgerOfProposals, IsExecution
  <2>2. CASE d = n + 1 /\ e \in 1 .. n
    BY <1>1, <1>6, <1>7, <2>2 DEF IsExecution
  <2>3. CASE e = n + 1 /\ d \in 1 .. n
    BY <1>1, <1>6, <1>7, <2>3 DEF IsExecution
  <2>4. QED
    BY <1>2, <2>1, <2>2, <2>3
<1>8. QED
  BY <1>5, <1>7 DEF LedgerOfProposals

LEMMA LedgerNext == IndexerTyped /\ LedgerOfProposals /\ [IndexerNext]_indexerVars => LedgerOfProposals'
<1> SUFFICES ASSUME IndexerTyped, LedgerOfProposals, [IndexerNext]_indexerVars PROVE LedgerOfProposals'
  OBVIOUS
<1> DEFINE x(name, p, revoked) == [name |-> name, proposal |-> p, revoked |-> revoked]
<1>1. ASSUME NEW name \in EventNames, NEW p \in ProposalId \cup {None},
             NEW revoked \in BOOLEAN \cup {None}, Emit(name, p, revoked)
      PROVE  x(name, p, revoked) \in Events /\ Emission(x(name, p, revoked))
  BY <1>1 DEF Emit, Emission, Events
<1>2. CASE Register
  <2>1. Emit("DIDRegistered", None, None) /\ "DIDRegistered" \in EventNames
    BY <1>2 DEF Register, EventNames
  <2>2. PICK y \in Events : y = x("DIDRegistered", None, None) /\ Emission(y)
    BY <1>1, <2>1
  <2>3. QED
    BY <2>2, LedgerKeeps
<1>3. ASSUME NEW p \in ProposalId, Propose(p) PROVE LedgerOfProposals'
  <2>1. Emit("ProposalCreated", p, None) /\ "ProposalCreated" \in EventNames
    BY <1>3 DEF Propose, EventNames
  <2>2. PICK y \in Events : y = x("ProposalCreated", p, None) /\ Emission(y)
    BY <1>1, <2>1
  <2>3. QED
    BY <2>2, LedgerKeeps
<1>4. ASSUME NEW p \in ProposalId, Approve(p) \/ Cancel(p) PROVE LedgerOfProposals'
  <2>1. PICK name \in {"ProposalApproved", "ProposalCancelled"} : Emit(name, p, None)
    BY <1>4 DEF Approve, Cancel
  <2>2. name \in EventNames /\ Emitted("ProposalCreated", p)
    BY <1>4 DEF Approve, Cancel, Pending, EventNames
  <2>3. PICK y \in Events : y = x(name, p, None) /\ Emission(y)
    BY <1>1, <2>1, <2>2
  <2>4. y.name = name /\ y.proposal = p
    BY <2>3
  <2>5. QED
    BY <2>2, <2>3, <2>4, LedgerKeeps
<1>5. ASSUME NEW p \in ProposalId, Execute(p) PROVE LedgerOfProposals'
  <2>1. PICK f \in Effect : Emit(f.name, p, f.revoked)
    BY <1>5 DEF Execute
  <2>2. f.name \in EventNames /\ f.revoked \in BOOLEAN \cup {None}
    BY IndexerAssumption DEF EventNames
  <2>3. Emitted("ProposalCreated", p) /\ ~Executed(p)
    BY <1>5 DEF Execute, Pending
  <2>4. PICK y \in Events : y = x(f.name, p, f.revoked) /\ Emission(y)
    BY <1>1, <2>1, <2>2
  <2>5. y.name = f.name /\ y.proposal = p /\ y.revoked = f.revoked
    BY <2>4
  <2>6. QED
    BY <2>3, <2>4, <2>5, LedgerKeeps
<1>6. CASE Connect \/ Process \/ Checkpoint \/ Disconnect \/ Restart \/ UNCHANGED indexerVars
  <2>1. ledger' = ledger
    BY <1>6 DEF Connect, Process, Checkpoint, Disconnect, Restart, indexerVars
  <2>2. QED
    BY <2>1 DEF LedgerOfProposals, Emitted, IsExecution
<1>7. QED
  BY <1>2, <1>3, <1>4, <1>5, <1>6 DEF IndexerNext

LEMMA LedgerInit == IndexerInit => LedgerOfProposals
  BY DEF IndexerInit, LedgerOfProposals

-----------------------------------------------------------------------------
(* The numbers of the transparency page.                                    *)

\* A cached event is one of the ledger's, and its entry tells what it was.
LEMMA Entries ==
  ASSUME IndexerInv, LedgerOfProposals, NEW e \in Cached
  PROVE  /\ e \in DOMAIN ledger /\ IsAudited(e)
         /\ ToAuditEvent(e).proposalId = ledger[e].proposal
         /\ ToAuditEvent(e).type = "PROPOSAL_CREATED" <=> ledger[e].name = "ProposalCreated"
         /\ ledger[e].proposal # None =>
              (ToAuditEvent(e).type \notin {"PROPOSAL_CREATED", "PROPOSAL_APPROVED"}
                 <=> IsExecution(e))
<1>1. e \in Audited /\ IndexerTyped /\ Position
  BY DEF IndexerInv, FeedIsGapless
<1>2. e \in DOMAIN ledger /\ IsAudited(e)
  BY <1>1, Lengths DEF Audited, Position, IndexerTyped
<1>3. ledger[e].name \in DOMAIN EVENT_TYPES
  BY <1>2 DEF IsAudited
<1>4. /\ ToAuditEvent(e).proposalId = ledger[e].proposal
      /\ ToAuditEvent(e).type = EVENT_TYPES[ledger[e].name]
  BY <1>3 DEF ToAuditEvent
<1>5. DOMAIN EVENT_TYPES =
        DomainEvent \cup {"DIDRegistered", "ProposalCreated", "ProposalApproved"}
  BY DEF EVENT_TYPES, DomainEvent
<1>6. ASSUME NEW name \in DOMAIN EVENT_TYPES
      PROVE  /\ EVENT_TYPES[name] = "PROPOSAL_CREATED" <=> name = "ProposalCreated"
             /\ EVENT_TYPES[name] = "PROPOSAL_APPROVED" <=> name = "ProposalApproved"
  BY <1>5 DEF EVENT_TYPES, DomainEvent
<1>7. ledger[e].proposal # None => ledger[e].name # "DIDRegistered"
  BY <1>2, IndexerAssumption DEF LedgerOfProposals, DomainEvent
<1>8. QED
  BY <1>2, <1>3, <1>4, <1>5, <1>6, <1>7 DEF IsExecution, DomainEvent

LEMMA Counted ==
  ASSUME IndexerInv, LedgerOfProposals
  PROVE  /\ proposedIds =
              {ledger[e].proposal : e \in {x \in Cached : ledger[x].name = "ProposalCreated"}}
         /\ executedIds =
              {ledger[e].proposal :
                 e \in {x \in Cached : ledger[x].proposal # None /\ IsExecution(x)}}
<1>1. \A a : a \in Governed <=>
        \E e \in Cached : ledger[e].proposal # None /\ a = ToAuditEvent(e)
  BY DEF Governed
<1>2. \A e \in Cached : ledger[e].name = "ProposalCreated" => ledger[e].proposal # None
  BY Entries, IndexerAssumption DEF LedgerOfProposals
<1>3. ASSUME NEW p
      PROVE  p \in proposedIds <=>
               \E e \in Cached : ledger[e].name = "ProposalCreated" /\ p = ledger[e].proposal
  <2>1. p \in proposedIds <=>
          \E e \in Cached : /\ ledger[e].proposal # None
                            /\ ToAuditEvent(e).type = "PROPOSAL_CREATED"
                            /\ p = ToAuditEvent(e).proposalId
    BY <1>1 DEF proposedIds
  <2>2. QED
    BY <1>2, <2>1, Entries
<1>4. ASSUME NEW p
      PROVE  p \in executedIds <=>
               \E e \in Cached : /\ ledger[e].proposal # None /\ IsExecution(e)
                                 /\ p = ledger[e].proposal
  <2>1. p \in executedIds <=>
          \E e \in Cached : /\ ledger[e].proposal # None
                            /\ ToAuditEvent(e).type \notin {"PROPOSAL_CREATED", "PROPOSAL_APPROVED"}
                            /\ p = ToAuditEvent(e).proposalId
    BY <1>1 DEF executedIds
  <2>2. QED
    BY <2>1, Entries
<1>5. QED
  BY <1>3, <1>4

\* What executed a proposal is told by an event of its own.
LEMMA ExecutedBy ==
  ASSUME IndexerInv, LedgerOfProposals, NEW p, p # None
  PROVE  Executed(p) <=> \E e \in DOMAIN ledger : IsExecution(e) /\ ledger[e].proposal = p
<1>1. Executed(p) => \E e \in DOMAIN ledger : IsExecution(e) /\ ledger[e].proposal = p
  BY IndexerAssumption DEF Executed, Emitted, IsExecution
<1>2. ASSUME NEW e \in DOMAIN ledger, IsExecution(e), ledger[e].proposal = p
      PROVE  Executed(p)
  <2>1. \E f \in Effect : f.name = ledger[e].name
    BY <1>2 DEF LedgerOfProposals, IsExecution, DomainEvent
  <2>2. QED
    BY <1>2, <2>1 DEF Executed, Emitted
<1>3. QED
  BY <1>1, <1>2

LEMMA WholeFeed ==
  ASSUME IndexerInv, FeedIsWhole
  PROVE  Cached = {e \in DOMAIN ledger : IsAudited(e)}
<1>1. IndexerTyped /\ Position /\ FeedIsGapless
  BY DEF IndexerInv
<1>2. lifeStart = 0 /\ seen = Len(ledger) /\ Len(cache) # MAX_CACHED_EVENTS
  <2>1. lifeStart = 0 /\ Len(cache) < MAX_CACHED_EVENTS /\ checkpoint = Len(ledger)
    BY DEF FeedIsWhole, CaughtUp
  <2>2. Len(cache) \in Nat /\ Len(ledger) \in Nat /\ seen \in Nat /\ MAX_CACHED_EVENTS \in Nat
    BY <1>1, Lengths, IndexerAssumption DEF IndexerTyped
  <2>3. checkpoint <= seen /\ seen <= Len(ledger)
    BY <1>1 DEF Position
  <2>4. QED
    BY ONLY <2>1, <2>2, <2>3
<1>3. Audited = {e \in DOMAIN ledger : IsAudited(e)}
  BY <1>1, <1>2, Lengths DEF Audited
<1>4. QED
  BY <1>1, <1>2, <1>3 DEF FeedIsGapless

LEMMA StatsHold ==
  ASSUME IndexerInv, LedgerOfProposals
  PROVE  StatsFollowLedger
<1>1. ASSUME NEW p \in executedIds PROVE Executed(p)
  <2>1. PICK e \in Cached : ledger[e].proposal # None /\ IsExecution(e) /\ p = ledger[e].proposal
    BY <1>1, Counted
  <2>2. QED
    BY <2>1, Entries, ExecutedBy
<1> DEFINE created == {p \in ProposalId : Emitted("ProposalCreated", p)}
           open == {p \in ProposalId : Emitted("ProposalCreated", p)
                                         /\ (~Executed(p) \/ Undoes(p))}
<1>2. ASSUME FeedIsWhole PROVE proposedIds = created
  <2>1. ASSUME NEW p
        PROVE  p \in proposedIds <=>
                 \E e \in DOMAIN ledger : IsAudited(e) /\ ledger[e].name = "ProposalCreated"
                                            /\ p = ledger[e].proposal
    BY <1>2, Counted, WholeFeed
  <2>2. ASSUME NEW e \in DOMAIN ledger, ledger[e].name = "ProposalCreated"
        PROVE  IsAudited(e) /\ ledger[e].proposal \in ProposalId
    BY <2>2 DEF IsAudited, EVENT_TYPES, LedgerOfProposals
  <2>3. ASSUME NEW p
        PROVE  p \in created <=> p \in ProposalId /\
                 \E e \in DOMAIN ledger : ledger[e].name = "ProposalCreated"
                                            /\ ledger[e].proposal = p
    BY DEF Emitted
  <2>4. QED
    BY <2>1, <2>2, <2>3
<1>3. ASSUME FeedIsWhole, NEW p \in ProposalId
      PROVE  p \in executedIds <=> Executed(p) /\ ~Undoes(p)
  <2>1. p # None
    BY IndexerAssumption
  <2>2. p \in executedIds <=>
          \E e \in DOMAIN ledger : IsAudited(e) /\ IsExecution(e) /\ p = ledger[e].proposal
    BY <1>3, <2>1, Counted, WholeFeed
  <2>3. ASSUME NEW e \in DOMAIN ledger, IsExecution(e), ledger[e].proposal = p
        PROVE  IsAudited(e) <=> ~Undoes(p)
    <3>1. \A d \in DOMAIN ledger : IsExecution(d) /\ ledger[d].proposal = p => d = e
      BY <2>3 DEF LedgerOfProposals
    <3>2. Undoes(p) <=> ledger[e].name = "StatusChanged" /\ ledger[e].revoked = FALSE
      BY <2>3, <3>1 DEF Undoes, IsExecution, DomainEvent
    <3>3. PICK f \in Effect : f.name = ledger[e].name /\ f.revoked = ledger[e].revoked
      BY <2>3 DEF LedgerOfProposals, IsExecution, DomainEvent
    <3>4. ledger[e].name = "StatusChanged" => ledger[e].revoked \in BOOLEAN
      BY <3>3, IndexerAssumption
    <3>5. ledger[e].name \in DOMAIN EVENT_TYPES
      BY <2>3 DEF IsExecution, DomainEvent, EVENT_TYPES
    <3>6. QED
      BY <3>2, <3>4, <3>5 DEF IsAudited
  <2>4. QED
    BY <2>1, <2>2, <2>3, ExecutedBy
<1>4. IsFiniteSet(created)
  <2>1. Len(ledger) \in Nat /\ DOMAIN ledger = 1 .. Len(ledger)
    BY Lengths DEF IndexerInv
  <2>2. IsFiniteSet(DOMAIN ledger)
    BY <2>1, FS_Interval
  <2>3. PICK where \in [created -> DOMAIN ledger] :
          \A p \in created : ledger[where[p]].proposal = p
    <3> DEFINE at(p) == CHOOSE e \in DOMAIN ledger : ledger[e].proposal = p
    <3>1. \A p \in created : at(p) \in DOMAIN ledger /\ ledger[at(p)].proposal = p
      BY DEF Emitted
    <3>2. [p \in created |-> at(p)] \in [created -> DOMAIN ledger]
      BY <3>1
    <3>3. QED
      BY <3>1, <3>2
  <2>4. where \in Injection(created, DOMAIN ledger)
    BY <2>3 DEF Injection, IsInjective
  <2>5. QED
    BY <2>2, <2>4, FS_Injection
<1>5. ASSUME FeedIsWhole
      PROVE  pendingOrCancelledProposals = Cardinality(open)
  <2> DEFINE done == executedIds \cap created
  <2>1. done \cup open = created /\ done \cap open = {}
    BY <1>3, <1>5
  <2>2. done \subseteq created /\ open \subseteq created
    BY <2>1
  <2> HIDE DEF done, open, created
  <2>3. IsFiniteSet(done) /\ IsFiniteSet(open)
    BY <1>4, <2>2, FS_Subset
  <2>4. Cardinality(created) = Cardinality(done) + Cardinality(open) - Cardinality({})
    BY <2>1, <2>3, FS_Union
  <2>5. Cardinality({}) = 0 /\ Cardinality(done) \in Nat /\ Cardinality(open) \in Nat
    BY <2>3, FS_EmptySet, FS_CardinalityType
  <2>6. pendingOrCancelledProposals = Cardinality(created) - Cardinality(done)
    BY <1>2, <1>5
       DEF pendingOrCancelledProposals, totalProposals, executedProposals, done
  <2>7. QED
    BY <2>4, <2>5, <2>6
<1>6. QED
  BY <1>1, <1>2, <1>5 DEF StatsFollowLedger, totalProposals

(***************************************************************************)
(* The page never counts as executed what the ledger did not execute, and  *)
(* counts right from a whole feed, for any mix of proposals, executions    *)
(* and un-revocations (transparency.service.ts, computeTransparencyStats). *)
(***************************************************************************)
THEOREM StatsAreOfTheLedger == IndexerSpec => []StatsFollowLedger
<1>1. IndexerSpec => []LedgerOfProposals
  BY LedgerInit, LedgerNext, IndexerStands, PTL DEF IndexerSpec, IndexerInv
<1>2. QED
  BY <1>1, IndexerStands, StatsHold, PTL
=============================================================================
