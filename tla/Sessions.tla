------------------------------- MODULE Sessions -------------------------------
(***************************************************************************)
(* Login by signed challenge (routes/fabric/auth.routes.ts).               *)
(*                                                                         *)
(* POST /auth/challenge stores a nonce for a DID.  POST /auth/verify takes *)
(* a signature of it and opens a session: it reads the nonce, then the     *)
(* DID's controller key on the ledger, marks the nonce as used, looks up   *)
(* and records the device, and inserts the session, each after an await.   *)
(* Other calls run in between, the ledger may rebind the controller, and a *)
(* call can end at any of them.                                            *)
(*                                                                         *)
(* The ledger is reduced to its controllers: a DID is registered once and  *)
(* rebound from then on (TrustMeshLedger says by whom).                    *)
(***************************************************************************)
EXTENDS Integers

CONSTANTS
  Did, Key, Device,
  Nonce,         \* the nonces that are ever issued
  Token,         \* the session tokens that are ever issued
  Call,          \* calls of /auth/verify that the backend handles at once
  NONCE_TTL_MS,  \* in clock ticks
  MaxTime,       \* bound on the clock
  Absent,        \* no row
  Idle           \* a call that is not under way

ASSUME SessionsAssumption == NONCE_TTL_MS \in Nat /\ MaxTime \in Nat

\* A row of auth_nonces, and what the history keeps of a session.
NonceRow == [did : Did, used : BOOLEAN, created_at : Nat]
Login ==
  [did : Did, key : Key, nonce : Nonce, device : Device, newDevice : BOOLEAN,
   valid : SUBSET Key]

ASSUME RowsAssumption == Absent \notin NonceRow /\ Absent \notin Login

VARIABLES
  controller,     \* the controller key of each DID on the ledger
  nonces,         \* auth_nonces
  sessions,       \* sessions
  known_devices,
  calls,
  now,
  valid,          \* history: per call, the controllers of its DID since it began
  proved,         \* history: whether no call proved a DID from a device, one, or
                  \*   more (0, 1, 2)
  opened,         \* history: what each token was issued for
  announced       \* history: <<DID, device>> whose owner was sent an alert, or for
                  \*   whom recording one failed

vars ==
  <<controller, nonces, sessions, known_devices, calls, now, valid, proved, opened,
    announced>>

Init ==
  /\ controller = [d \in Did |-> Absent]
  /\ nonces = [n \in Nonce |-> Absent]
  /\ sessions = [x \in Token |-> Absent]
  /\ known_devices = {}
  /\ calls = [c \in Call |-> Idle]
  /\ now = 0
  /\ valid = [c \in Call |-> {}]
  /\ proved = [x \in Did \X Device |-> 0]
  /\ opened = [x \in Token |-> Absent]
  /\ announced = {}

At(c, step) == calls[c] # Idle /\ calls[c].at = step
GoTo(c, step) == calls' = [calls EXCEPT ![c].at = step]
Finish(c) ==
  /\ calls' = [calls EXCEPT ![c] = Idle]
  /\ valid' = [valid EXCEPT ![c] = {}]

-----------------------------------------------------------------------------
\* The ledger.

RegisterDID(d, key) ==
  /\ controller[d] = Absent
  /\ controller' = [controller EXCEPT ![d] = key]
  /\ valid' = [c \in Call |-> IF calls[c] # Idle /\ calls[c].did = d
                              THEN valid[c] \cup {key} ELSE valid[c]]
  /\ UNCHANGED <<nonces, sessions, known_devices, calls, now, proved, opened, announced>>

UpdateController(d, key) ==
  /\ controller[d] # Absent
  /\ controller' = [controller EXCEPT ![d] = key]
  /\ valid' = [c \in Call |-> IF calls[c] # Idle /\ calls[c].did = d
                              THEN valid[c] \cup {key} ELSE valid[c]]
  /\ UNCHANGED <<nonces, sessions, known_devices, calls, now, proved, opened, announced>>

-----------------------------------------------------------------------------
\* POST /auth/challenge: for any DID, registered or not.
Challenge(n, d) ==
  /\ nonces[n] = Absent
  /\ nonces' = [nonces EXCEPT ![n] = [did |-> d, used |-> FALSE, created_at |-> now]]
  /\ UNCHANGED <<controller, sessions, known_devices, calls, now, valid, proved, opened, announced>>

-----------------------------------------------------------------------------
\* POST /auth/verify

\* Faulty: whether it was used is not looked at.
CanUseAgain(n, d) ==
  /\ nonces[n] # Absent
  /\ nonces[n].did = d
  /\ now - nonces[n].created_at <= NONCE_TTL_MS

CanUse(n, d) ==
  /\ nonces[n] # Absent
  /\ ~nonces[n].used
  /\ nonces[n].did = d
  /\ now - nonces[n].created_at <= NONCE_TTL_MS

\* The caller names a DID and a nonce and signs with some key.
ReadNonce(c, d, n, key, device) ==
  /\ calls[c] = Idle
  /\ CanUse(n, d)
  /\ calls' = [calls EXCEPT ![c] =
       [at |-> "checkSignature", did |-> d, nonce |-> n, key |-> key,
        device |-> device, newDevice |-> FALSE]]
  /\ valid' = [valid EXCEPT ![c] = {controller[d]} \ {Absent}]
  /\ UNCHANGED <<controller, nonces, sessions, known_devices, now, proved, opened, announced>>

IsRegistered(d) == controller[d] # Absent
GetController(d) == controller[d]

\* Faulty: the key comes with the request.
SignedByAny(call, key) == TRUE

\* A signature made with one key verifies under no other.
VerifySignature(call, key) == call.key = key

CheckSignature(c) ==
  /\ At(c, "checkSignature")
  /\ IsRegistered(calls[c].did)
  /\ VerifySignature(calls[c], GetController(calls[c].did))
  /\ GoTo(c, "markUsed")
  /\ proved' = [proved EXCEPT ![<<calls[c].did, calls[c].device>>] =
       IF @ = 2 THEN 2 ELSE @ + 1]
  /\ UNCHANGED <<controller, nonces, sessions, known_devices, now, valid, opened, announced>>

MarkUsed(c) ==
  /\ At(c, "markUsed")
  /\ nonces' = [nonces EXCEPT ![calls[c].nonce].used = TRUE]
  /\ GoTo(c, "findDevice")
  /\ UNCHANGED <<controller, sessions, known_devices, now, valid, proved, opened, announced>>

\* Faulty: a device that anybody has logged in from.
IsKnownToAnyone(d, device) == \E e \in Did : <<e, device>> \in known_devices

IsKnown(d, device) == <<d, device>> \in known_devices

FindDevice(c) ==
  /\ At(c, "findDevice")
  /\ calls' = [calls EXCEPT ![c].at = "recordDevice",
                            ![c].newDevice = ~IsKnown(calls[c].did, calls[c].device)]
  /\ UNCHANGED <<controller, nonces, sessions, known_devices, now, valid, proved, opened, announced>>

\* A known device's row is touched, a new one's inserted (ON CONFLICT DO NOTHING).
RecordDevice(c) ==
  /\ At(c, "recordDevice")
  /\ known_devices' =
       IF calls[c].newDevice
       THEN known_devices \cup {<<calls[c].did, calls[c].device>>} ELSE known_devices
  /\ GoTo(c, IF calls[c].newDevice THEN "notify" ELSE "insertSession")
  /\ UNCHANGED <<controller, nonces, sessions, now, valid, proved, opened, announced>>

\* Awaited; that the alert could not be recorded does not keep the login from
\* going on.
NotifyNewDeviceLogin(c) ==
  /\ At(c, "notify")
  /\ announced' = announced \cup {<<calls[c].did, calls[c].device>>}
  /\ GoTo(c, "insertSession")
  /\ UNCHANGED <<controller, nonces, sessions, known_devices, now, valid, proved, opened>>

InsertSession(c, token) ==
  /\ At(c, "insertSession")
  /\ opened[token] = Absent
  /\ sessions' = [sessions EXCEPT ![token] = [did |-> calls[c].did]]
  /\ opened' = [opened EXCEPT ![token] =
       [did |-> calls[c].did, key |-> calls[c].key, nonce |-> calls[c].nonce,
        device |-> calls[c].device, newDevice |-> calls[c].newDevice,
        valid |-> valid[c]]]
  /\ Finish(c)
  /\ UNCHANGED <<controller, nonces, known_devices, now, proved, announced>>

\* Refused, or cut off.
Fail(c) ==
  /\ calls[c] # Idle
  /\ Finish(c)
  /\ UNCHANGED <<controller, nonces, sessions, known_devices, now, proved, opened, announced>>

-----------------------------------------------------------------------------
\* POST /auth/logout
Logout(token) ==
  /\ sessions[token] # Absent
  /\ sessions' = [sessions EXCEPT ![token] = Absent]
  /\ UNCHANGED <<controller, nonces, known_devices, calls, now, valid, proved, opened, announced>>

Tick ==
  /\ now < MaxTime
  /\ now' = now + 1
  /\ UNCHANGED <<controller, nonces, sessions, known_devices, calls, valid, proved, opened, announced>>

Next ==
  \/ \E d \in Did, key \in Key : RegisterDID(d, key)
  \/ \E d \in Did, key \in Key : UpdateController(d, key)
  \/ \E n \in Nonce, d \in Did : Challenge(n, d)
  \/ \E c \in Call, d \in Did, n \in Nonce, key \in Key, device \in Device :
       ReadNonce(c, d, n, key, device)
  \/ \E c \in Call : CheckSignature(c)
  \/ \E c \in Call : MarkUsed(c)
  \/ \E c \in Call : FindDevice(c)
  \/ \E c \in Call : RecordDevice(c)
  \/ \E c \in Call : NotifyNewDeviceLogin(c)
  \/ \E c \in Call, token \in Token : InsertSession(c, token)
  \/ \E c \in Call : Fail(c)
  \/ \E token \in Token : Logout(token)
  \/ Tick

Spec == Init /\ [][Next]_vars

-----------------------------------------------------------------------------
\* "A DID whose controller has been rotated or recovered immediately stops
\* accepting the old key" (auth.routes.ts:81): a session is opened only with a key
\* that was the DID's controller at some moment of that very call, for a nonce
\* issued to that DID.  A key replaced before a call begins never opens one.
SessionHadController ==
  \A x \in Token : opened[x] # Absent =>
    /\ opened[x].key \in opened[x].valid
    /\ nonces[opened[x].nonce].did = opened[x].did

Spent(n) ==
  /\ nonces[n] # Absent
  /\ nonces[n].used
  /\ \A c \in Call : calls[c] # Idle => calls[c].nonce # n

\* A nonce can open several sessions, but only for calls that overlap its first
\* use: once it is used and they are through, it opens no other
\* (auth.routes.ts:72).
SpentNoncesStaySpent ==
  [][\A n \in Nonce : Spent(n) =>
       /\ Spent(n)'
       /\ \A x \in Token : opened'[x] # opened[x] => opened'[x].nonce # n]_vars

\* "A fingerprint this DID has never authenticated with before is, by construction,
\* a new device for it" (auth.routes.ts:101): a login that was not flagged is at
\* least the second time that this DID was proved from this device; one that was
\* flagged has been announced to the owner before its session exists.
UnflaggedLoginIsRepeated ==
  \A x \in Token : opened[x] # Absent =>
    LET login == <<opened[x].did, opened[x].device>>
    IN  IF opened[x].newDevice THEN login \in announced ELSE proved[login] = 2
=============================================================================
