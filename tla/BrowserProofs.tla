---------------------------- MODULE BrowserProofs ----------------------------
(***************************************************************************)
(* What one page of the frontend promises, for every number of keys,       *)
(* overlapping operations, polls and reloads.                              *)
(*                                                                         *)
(* Nothing in the code keeps operations apart, so each promise rests on    *)
(* what the others can still do in the state where it is made: which       *)
(* buttons are enabled (KeysAreSafe), which operation is the only one      *)
(* under way (GateIsRight), which answers are still wanted (BellIsRight).  *)
(***************************************************************************)
EXTENDS Browser, TLAPS

Types ==
  /\ stored \in [did : Key, key : Key] \cup {None}
  /\ made \in 0 .. MaxKeys
  /\ backups \subseteq Key
  /\ cookie \in Key \cup {None}
  /\ identity \in Key \cup {None}
  /\ registered \in BOOLEAN /\ session \in BOOLEAN /\ loading \in BOOLEAN
  /\ letGo \in BOOLEAN /\ overlapped \in BOOLEAN
  /\ ops \in [Op -> Operations \cup {None}]
  /\ polls \in [Poll -> [live : BOOLEAN, did : Key \cup {None}] \cup {None}]

\* The page shows the label of the record that is stored, if it shows any.
ShowsStored == identity # None => stored # None /\ stored.did = identity

BrowserTyped == Types /\ ShowsStored

LEMMA Distinct ==
  /\ None \notin Key /\ None \notin [did : Key, key : Key] /\ None \notin Operations
  /\ 1 \in Op
  BY BrowserAssumption DEF Op

\* What an operation's own step makes of the operations.
LEMMA StartFacts ==
  ASSUME Types, NEW o \in Op, NEW x \in Operations, Start(o, x)
  PROVE  /\ Types' \/ letGo' \notin BOOLEAN
         /\ ops'[o] = x /\ \A p \in Op \ {o} : ops'[p] = ops[p]
         /\ ops[o] = None /\ \A p \in 1 .. o - 1 : ops[p] # None
         /\ overlapped' = \/ overlapped
                           \/ \E p \in Op : ops[p] # None /\
                                (ChangesIdentity(ops[p]) \/ ChangesIdentity(x))
  BY DEF Start, Types, device, server

LEMMA SetSessionTypes ==
  ASSUME Types, NEW shown \in BOOLEAN, SetSession(shown)
  PROVE  /\ session' \in BOOLEAN
         /\ polls' \in [Poll -> [live : BOOLEAN, did : Key \cup {None}] \cup {None}]
<1>1. CASE shown
  BY <1>1 DEF SetSession, Types
<1>2. CASE ~shown
  <2>1. \A p \in Poll : Cancelled(p) \in [live : BOOLEAN, did : Key \cup {None}] \cup {None}
    BY DEF Cancelled, Types
  <2>2. QED
    BY <1>2, <2>1 DEF SetSession
<1>3. QED
  BY <1>1, <1>2

LEMMA ClickTypes ==
  ASSUME BrowserTyped, NEW o \in Op, Click(o)
  PROVE  BrowserTyped'
<1>1. PICK kind \in Kinds, at \in Steps, key \in Key \cup {None} :
        /\ Start(o, Operation(kind, at, key, None))
        /\ letGo' \in BOOLEAN
  <2>1. CASE ClickRestore(o)
    BY <2>1 DEF ClickRestore, Kinds, Steps, BrowserTyped, Types
  <2>2. CASE ~ClickRestore(o)
    BY <2>2 DEF Click, ClickCreate, ClickRegister, ClickLogin, ClickLogout, ClickForget,
       Kinds, Steps, BrowserTyped, Types
  <2>3. QED
    BY <2>1, <2>2
<1>2. Operation(kind, at, key, None) \in Operations
  BY DEF Operation, Operations
<1>3. Types'
  BY <1>1, <1>2, StartFacts DEF BrowserTyped
<1>4. UNCHANGED <<identity, stored>>
  BY <1>1 DEF Start, device
<1>5. QED
  BY <1>3, <1>4 DEF BrowserTyped, ShowsStored

LEMMA TwoFields ==
  ASSUME Types, NEW o \in Op, ops[o] # None, NEW x, NEW y
  PROVE  /\ [ops EXCEPT ![o].at = x, ![o].did = y]
              = [ops EXCEPT ![o] = [ops[o] EXCEPT !.at = x, !.did = y]]
         /\ [ops EXCEPT ![o].at = x, ![o].key = y]
              = [ops EXCEPT ![o] = [ops[o] EXCEPT !.at = x, !.key = y]]
<1>1. ops \in [Op -> Operations \cup {None}]
  BY DEF Types
<1>2. [ops EXCEPT ![o].at = x][o] = [ops[o] EXCEPT !.at = x]
  BY <1>1
<1>3. QED
  BY <1>1, <1>2

LEMMA StepTypes ==
  ASSUME BrowserTyped, NEW o \in Op, Step(o)
  PROVE  BrowserTyped' /\ \A p \in Op \ {o} : ops'[p] = ops[p]
<1> USE Distinct
<1>a. Types /\ ShowsStored
  BY DEF BrowserTyped
<1>b. ops[o] # None /\ ops[o] \in Operations
  BY <1>a DEF Types, Step, At, Create, Restore, Forget, RefreshNothing, RefreshIdentity,
     ReadNothing, ReadIdentity, Sign, ServeRegister, ServeChallenge, ServeLogin, ServeLogout,
     StatusAnswer, MeAnswer, RegisterAnswer, LoginAnswer, LogoutAnswer, Fail
<1>1. CASE Create(o)
  <2>1. made' \in Key /\ stored' = [did |-> made', key |-> made'] /\ identity' = made'
    BY <1>1, <1>a, BrowserAssumption
       DEF Create, CreateIdentity, CreateIdentityWithBackup, NewKey, Install, Types, Key
  <2>2. backups' \subseteq Key
    BY <1>1, <1>a, <2>1 DEF Create, CreateIdentity, CreateIdentityWithBackup, Types
  <2>3. made' \in 0 .. MaxKeys
    BY <2>1 DEF Key
  <2>4. SetSession(FALSE) /\ registered' = FALSE /\ Finish(o)
        /\ UNCHANGED <<cookie, letGo, overlapped>>
    BY <1>1 DEF Create, ResetGate, server
  <2>5. stored' # None /\ stored'.did = identity'
    BY <2>1
  <2>6. QED
    BY <1>a, <2>1, <2>2, <2>3, <2>4, <2>5, SetSessionTypes
       DEF BrowserTyped, Types, ShowsStored, Finish
<1>2. CASE Restore(o)
  <2>1. PICK label \in Key : Restored(ops[o].key, label)
    BY <1>2 DEF Restore, RestoreFromBackup
  <2>2. stored' = [did |-> label, key |-> label] /\ identity' = label
    BY <2>1 DEF Restored, Install
  <2>3. stored' # None /\ stored'.did = identity' /\ stored' \in [did : Key, key : Key]
    BY <2>2
  <2>4. Operation("refresh", "read", None, None) \in Operations
    BY DEF Operation, Operations, Kinds, Steps
  <2>5. /\ ops' = [ops EXCEPT ![o] = Operation("refresh", "read", None, None)]
        /\ UNCHANGED <<made, backups, cookie, registered, session, loading, polls, letGo,
                       overlapped>>
    BY <1>2 DEF Restore, server, history
  <2>6. QED
    BY <1>a, <2>2, <2>3, <2>4, <2>5 DEF BrowserTyped, Types, ShowsStored
<1>3. CASE Forget(o)
  BY <1>3, <1>a, SetSessionTypes
     DEF Forget, ForgetIdentity, ResetGate, Finish, BrowserTyped, Types, ShowsStored, server
<1>4. CASE RefreshNothing(o)
  BY <1>4, <1>a, SetSessionTypes
     DEF RefreshNothing, SeesNothing, Finish, BrowserTyped, Types, ShowsStored, device, server
<1>5. CASE RefreshIdentity(o)
  <2>1. [ops[o] EXCEPT !.at = "status", !.did = stored.did] \in Operations
    BY <1>5, <1>a, <1>b DEF RefreshIdentity, Types, Operations, Steps
  <2>2. ops' = [ops EXCEPT ![o] = [ops[o] EXCEPT !.at = "status", !.did = stored.did]]
    BY <1>5, <1>a DEF RefreshIdentity, Types
  <2>3. QED
    BY <1>5, <1>a, <2>1, <2>2
       DEF RefreshIdentity, BrowserTyped, Types, ShowsStored, device, server, history
<1>6. CASE ReadNothing(o)
  BY <1>6, <1>a
     DEF ReadNothing, SeesNothing, Finish, BrowserTyped, Types, ShowsStored, device, server
<1>7. CASE ReadIdentity(o)
  <2>1. PICK at \in Steps : at = IF ops[o].kind = "register" THEN "sign" ELSE "challenge"
    BY DEF Steps
  <2>2. [ops[o] EXCEPT !.at = at, !.did = stored.did] \in Operations
    BY <1>7, <1>a, <1>b DEF ReadIdentity, Types, Operations
  <2>3. ops' = [ops EXCEPT ![o] = [ops[o] EXCEPT !.at = at, !.did = stored.did]]
    <3>1. ops' = [ops EXCEPT ![o].at = at, ![o].did = stored.did]
      BY ONLY <1>7, <2>1 DEF ReadIdentity
    <3>2. PICK did : did = stored.did
      OBVIOUS
    <3>3. QED
      BY ONLY <3>1, <3>2, <1>a, <1>b, TwoFields
  <2>4. UNCHANGED <<stored, made, backups, cookie, identity, registered, session, loading,
                   letGo, overlapped, polls>>
    BY <1>7 DEF ReadIdentity, device, server, page, history
  <2>5. ops' \in [Op -> Operations \cup {None}] /\ \A p \in Op \ {o} : ops'[p] = ops[p]
    BY <1>a, <2>2, <2>3 DEF Types
  <2>6. QED
    BY <1>a, <2>4, <2>5 DEF BrowserTyped, Types, ShowsStored
<1>8. CASE Sign(o)
  <2>1. [ops[o] EXCEPT !.at = "send", !.key = stored.key] \in Operations
    BY <1>8, <1>a, <1>b DEF Sign, Types, Operations, Steps
  <2>2. ops' = [ops EXCEPT ![o] = [ops[o] EXCEPT !.at = "send", !.key = stored.key]]
    <3>1. ops' = [ops EXCEPT ![o].at = "send", ![o].key = stored.key]
      BY ONLY <1>8 DEF Sign
    <3>2. PICK key : key = stored.key
      OBVIOUS
    <3>3. QED
      BY ONLY <3>1, <3>2, <1>a, <1>b, TwoFields
  <2>3. UNCHANGED <<stored, made, backups, cookie, identity, registered, session, loading,
                   letGo, overlapped, polls>>
    BY <1>8 DEF Sign, device, server, page, history
  <2>4. ops' \in [Op -> Operations \cup {None}] /\ \A p \in Op \ {o} : ops'[p] = ops[p]
    BY <1>a, <2>1, <2>2 DEF Types
  <2>5. QED
    BY <1>a, <2>3, <2>4 DEF BrowserTyped, Types, ShowsStored
<1>9. CASE ServeChallenge(o)
  <2>1. [ops[o] EXCEPT !.at = "sign"] \in Operations
    BY <1>b DEF Operations, Steps
  <2>2. QED
    BY <1>9, <1>a, <2>1
       DEF ServeChallenge, GoTo, BrowserTyped, Types, ShowsStored, device, server, page, history
<1>10. ASSUME NEW accepted \in BOOLEAN, Serve(o, accepted), cookie' \in Key \cup {None}
       PROVE  BrowserTyped' /\ \A p \in Op \ {o} : ops'[p] = ops[p]
  <2>1. [Operation(ops[o].kind, "answer", None, None) EXCEPT !.ok = accepted] \in Operations
    BY <1>b DEF Operations, Operation, Steps
  <2>2. QED
    BY <1>10, <1>a, <2>1
       DEF Serve, BrowserTyped, Types, ShowsStored, device, page
<1>11. CASE ServeRegister(o)
  <2>1. cookie' \in Key \cup {None}
    BY <1>11, <1>a DEF ServeRegister, Types
  <2>2. QED
    BY <1>10, <1>11, <2>1 DEF ServeRegister
<1>12. CASE ServeLogin(o)
  <2>1. cookie' \in Key \cup {None}
    BY <1>12, <1>a, <1>b DEF ServeLogin, SetCookie, Types, Operations
  <2>2. QED
    BY <1>10, <1>12, <2>1 DEF ServeLogin
<1>13. CASE ServeLogout(o)
  <2>1. Serve(o, TRUE) /\ cookie' \in Key \cup {None}
    BY <1>13 DEF ServeLogout, SetCookie
  <2>2. TRUE \in BOOLEAN
    OBVIOUS
  <2>3. QED
    BY ONLY <1>10, <2>1, <2>2
<1>14. CASE StatusAnswer(o)
  <2>1. Operation("refresh", "me", None, None) \in Operations
    BY DEF Operation, Operations, Kinds, Steps
  <2>2. registered' \in BOOLEAN
    <3>1. VerifyStatus(ops[o].did) \in BOOLEAN
      BY DEF VerifyStatus
    <3>2. \E ok \in {VerifyStatus(ops[o].did), FALSE} : registered' = ok
      BY <1>14 DEF StatusAnswer
    <3>3. QED
      BY <3>1, <3>2
  <2>3. QED
    BY <1>14, <1>a, <2>1, <2>2
       DEF StatusAnswer, BrowserTyped, Types, ShowsStored, device, server, history
<1>15. CASE MeAnswer(o)
  <2>1. PICK ok \in BOOLEAN : SetSession(ok)
    BY <1>15 DEF MeAnswer, Me, Admitted
  <2>2. session' \in BOOLEAN
        /\ polls' \in [Poll -> [live : BOOLEAN, did : Key \cup {None}] \cup {None}]
    BY <1>a, <2>1, SetSessionTypes
  <2>3. QED
    BY <1>15, <1>a, <2>2
       DEF MeAnswer, Finish, BrowserTyped, Types, ShowsStored, device, server
<1>16. CASE RegisterAnswer(o)
  BY <1>16, <1>a
     DEF RegisterAnswer, Finish, BrowserTyped, Types, ShowsStored, device, server, history
<1>17. CASE LoginAnswer(o)
  BY <1>17, <1>a, SetSessionTypes
     DEF LoginAnswer, Finish, BrowserTyped, Types, ShowsStored, device, server
<1>18. CASE LogoutAnswer(o)
  BY <1>18, <1>a, SetSessionTypes
     DEF LogoutAnswer, Finish, BrowserTyped, Types, ShowsStored, device, server
<1>19. CASE Fail(o)
  BY <1>19, <1>a
     DEF Fail, Finish, BrowserTyped, Types, ShowsStored, device, server, history
<1>20. QED
  BY <1>1, <1>2, <1>3, <1>4, <1>5, <1>6, <1>7, <1>8, <1>9, <1>11, <1>12, <1>13, <1>14,
     <1>15, <1>16, <1>17, <1>18, <1>19 DEF Step

-----------------------------------------------------------------------------
(* RegisteredIsAnchored, made inductive: an operation that may change the   *)
(* identity has the page to itself, so what the others read is still so.    *)

Doing(o, kinds) == ops[o] # None /\ ops[o].kind \in kinds

\* What an operation has established on its way, of these kinds.
OpGate(o) ==
  /\ At(o, {"refresh"}, "read") => ~registered
  /\ At(o, {"refresh"}, "status") => identity # None /\ ops[o].did = identity
  /\ Doing(o, {"create", "restore"}) => identity = None
  /\ Doing(o, {"register"}) => identity # None
  /\ At(o, {"register"}, "sign") \/ At(o, {"register"}, "send") => ops[o].did = identity
  /\ At(o, {"register"}, "answer") /\ ops[o].ok => identity \in anchored

GateIsRight ==
  ~overlapped =>
    /\ \A p, q \in Op : ops[p] # None /\ ops[q] # None /\ ChangesIdentity(ops[p]) => p = q
    /\ registered => identity # None /\ identity \in anchored
    /\ \A o \in Op : OpGate(o)

BellIsRight ==
  /\ session => cookie \in since
  /\ bell # None => session /\ bell \in since
  /\ \A p \in Poll :
       polls[p] # None /\ polls[p].live =>
         session /\ (polls[p].did # None => polls[p].did \in since)

\* Until the citizen let go of the identity: it is replaced by nothing while it is
\* shown, and nothing but the first refresh or an onboarding step is under way before.
KeysAreSafe ==
  ~letGo =>
    /\ \A o \in Op : ~Doing(o, {"forget"})
    /\ identity # None => \A o \in Op : ~Doing(o, {"create", "restore"})
    /\ identity = None =>
         /\ ~registered
         /\ \A o \in Op \ {1} : ops[o] = None
         /\ ops[1] # None =>
              /\ loading
              /\ \/ At(1, {"refresh"}, "read")
                 \/ At(1, {"create", "restore"}, "put") /\ stored = None
         /\ stored # None => At(1, {"refresh"}, "read")

-----------------------------------------------------------------------------
LEMMA MountedTypes ==
  /\ Mounted \in [Op -> Operations \cup {None}]
  /\ Mounted[1] = Operation("refresh", "read", None, None) /\ Mounted[1] # None
  /\ \A o \in Op \ {1} : Mounted[o] = None
<1>1. Operation("refresh", "read", None, None) \in Operations
  BY DEF Operation, Operations, Kinds, Steps
<1>2. QED
  BY <1>1, Distinct DEF Mounted

LEMMA InitTypes == Init => BrowserTyped
<1>1. 0 \in 0 .. MaxKeys
  BY BrowserAssumption
<1>2. Init => polls \in [Poll -> [live : BOOLEAN, did : Key \cup {None}] \cup {None}]
  BY DEF Init
<1>3. Init => Types
  BY <1>1, <1>2, MountedTypes DEF Init, Types
<1>4. QED
  BY <1>3 DEF Init, BrowserTyped, ShowsStored

\* The steps that no operation takes.
LEMMA OtherTypes ==
  ASSUME BrowserTyped,
         \/ \E p \in Poll : StartPoll(p) \/ ServePoll(p) \/ EndPoll(p)
         \/ SessionEnds
         \/ Reload
         \/ UNCHANGED vars
  PROVE  BrowserTyped'
<1> DEFINE Polling == [live : BOOLEAN, did : Key \cup {None}]
<1>a. Types /\ ShowsStored
  BY DEF BrowserTyped
<1>b. polls \in [Poll -> Polling \cup {None}] /\ cookie \in Key \cup {None}
  BY <1>a DEF Types
<1>1. ASSUME NEW p \in Poll, StartPoll(p) \/ ServePoll(p) \/ EndPoll(p)
      PROVE  BrowserTyped'
  <2>1. UNCHANGED <<stored, made, backups, cookie, identity, registered, session, loading,
                   letGo, overlapped, ops>>
    BY <1>1 DEF StartPoll, ServePoll, EndPoll, device, server, page, history
  <2>2. CASE StartPoll(p)
    <3>1. [live |-> TRUE, did |-> None] \in Polling
      OBVIOUS
    <3>2. polls' \in [Poll -> Polling \cup {None}]
      BY <1>b, <2>2, <3>1 DEF StartPoll
    <3>3. QED
      BY <1>a, <2>1, <3>2 DEF BrowserTyped, Types, ShowsStored
  <2>3. CASE ServePoll(p)
    <3>1. [polls[p] EXCEPT !.did = cookie] \in Polling
      BY <1>b, <2>3 DEF ServePoll
    <3>2. polls' \in [Poll -> Polling \cup {None}]
      BY <1>b, <2>3, <3>1 DEF ServePoll
    <3>3. QED
      BY <1>a, <2>1, <3>2 DEF BrowserTyped, Types, ShowsStored
  <2>4. CASE EndPoll(p)
    <3>1. polls' \in [Poll -> Polling \cup {None}]
      BY <1>b, <2>4 DEF EndPoll
    <3>2. QED
      BY <1>a, <2>1, <3>1 DEF BrowserTyped, Types, ShowsStored
  <2>5. QED
    BY <1>1, <2>2, <2>3, <2>4
<1>2. CASE SessionEnds
  <2>1. cookie' = None
        /\ UNCHANGED <<stored, made, backups, identity, registered, session, loading,
                       letGo, overlapped, ops, polls>>
    BY <1>2 DEF SessionEnds, SetCookie, device, page
  <2>2. QED
    BY <1>a, <2>1 DEF BrowserTyped, Types, ShowsStored
<1>3. CASE Reload
  <2>1. UNCHANGED <<stored, made, backups, cookie>> /\ identity' = None
        /\ ops' = Mounted /\ polls' = [p \in Poll |-> None]
    BY <1>3 DEF Reload, device, server
  <2>2. registered' \in BOOLEAN /\ session' \in BOOLEAN /\ loading' \in BOOLEAN
        /\ letGo' \in BOOLEAN /\ overlapped' \in BOOLEAN
    BY <1>3 DEF Reload
  <2>3. QED
    BY <1>a, <2>1, <2>2, MountedTypes DEF BrowserTyped, Types, ShowsStored
<1>4. CASE UNCHANGED vars
  BY <1>4 DEF vars, device, server, page, history, BrowserTyped, Types, ShowsStored
<1>5. QED
  BY <1>1, <1>2, <1>3, <1>4

LEMMA NextTypes == BrowserTyped /\ [Next]_vars => BrowserTyped'
  BY ClickTypes, StepTypes, OtherTypes DEF Next

(***************************************************************************)
(* Whatever the operations that overlap, the page stays well-formed and    *)
(* the DID it shows is the label of the record in the store (refresh,      *)
(* createIdentity, restoreFromBackup, forgetIdentity).                     *)
(***************************************************************************)
THEOREM PageIsTyped == Spec => []BrowserTyped
  BY InitTypes, NextTypes, PTL DEF Spec

-----------------------------------------------------------------------------
\* What a step of any other operation leaves as it is.
LEMMA KeepsIdentity ==
  ASSUME Types, NEW o \in Op, ops[o] # None, ~ChangesIdentity(ops[o]), Step(o)
  PROVE  /\ identity' = identity /\ anchored \subseteq anchored'
         /\ ops'[o] = None \/ ~ChangesIdentity(ops'[o])
<1> USE Distinct
<1>1. ops \in [Op -> Operations \cup {None}] /\ ops[o] \in Operations
  BY DEF Types
<1>2. ~Create(o) /\ ~Restore(o) /\ ~Forget(o) /\ ~RefreshNothing(o) /\ ~RefreshIdentity(o)
  BY DEF Create, Restore, Forget, RefreshNothing, RefreshIdentity, At, ChangesIdentity
<1>3. identity' = identity
  BY <1>2 DEF Step, ReadNothing, ReadIdentity, Sign, Serve, ServeRegister,
     ServeChallenge, ServeLogin, ServeLogout, StatusAnswer, MeAnswer, RegisterAnswer,
     LoginAnswer, LogoutAnswer, Fail, page
<1>4. anchored \subseteq anchored'
  BY <1>2 DEF Step, ReadNothing, ReadIdentity, Sign, Serve, ServeRegister,
     ServeChallenge, ServeLogin, ServeLogout, StatusAnswer, MeAnswer, RegisterAnswer,
     LoginAnswer, LogoutAnswer, Fail, server
<1>5. \/ ops'[o] = None
      \/ ops'[o].kind = ops[o].kind /\ (ops'[o].kind = "refresh" => ops'[o].at = "me")
  <2>1. CASE ReadIdentity(o) \/ Sign(o) \/ ServeChallenge(o)
    BY <1>1, <2>1 DEF ReadIdentity, Sign, ServeChallenge, GoTo, At, Operations
  <2>2. CASE ServeRegister(o) \/ ServeLogin(o) \/ ServeLogout(o)
    BY <1>1, <2>2 DEF ServeRegister, ServeLogin, ServeLogout, Serve, At, Operation
  <2>3. CASE StatusAnswer(o)
    BY <1>1, <2>3 DEF StatusAnswer, At, Operation
  <2>4. CASE \/ ReadNothing(o) \/ MeAnswer(o) \/ RegisterAnswer(o) \/ LoginAnswer(o)
             \/ LogoutAnswer(o) \/ Fail(o)
    BY <1>1, <2>4
       DEF ReadNothing, MeAnswer, RegisterAnswer, LoginAnswer, LogoutAnswer, Fail, Finish
  <2>5. QED
    BY <1>2, <2>1, <2>2, <2>3, <2>4 DEF Step
<1>6. QED
  BY <1>3, <1>4, <1>5 DEF ChangesIdentity

LEMMA GateStep ==
  ASSUME BrowserTyped, BrowserTyped', GateIsRight, ~overlapped, NEW o \in Op, Step(o)
  PROVE  GateIsRight'
<1> USE Distinct
<1>a. Types /\ ShowsStored /\ Types' /\ ShowsStored'
  BY DEF BrowserTyped
<1>b. ops[o] # None
  BY DEF Step, At, Create, Restore, Forget, RefreshNothing, RefreshIdentity,
     ReadNothing, ReadIdentity, Sign, ServeRegister, ServeChallenge, ServeLogin, ServeLogout,
     StatusAnswer, MeAnswer, RegisterAnswer, LoginAnswer, LogoutAnswer, Fail
<1>c. \A p \in Op \ {o} : ops'[p] = ops[p]
  BY StepTypes
<1>d. registered => identity # None /\ identity \in anchored
  BY DEF GateIsRight
<1>e. OpGate(o)
  BY DEF GateIsRight
<1>f. SUFFICES (registered' => identity' # None /\ identity' \in anchored') /\ OpGate(o)'
  <2>1. ASSUME NEW p \in Op \ {o}, ops[p] # None
        PROVE  /\ ~ChangesIdentity(ops[p]) /\ identity' = identity /\ anchored \subseteq anchored'
               /\ ops'[o] = None \/ ~ChangesIdentity(ops'[o])
    BY <1>a, <1>b, <2>1, KeepsIdentity DEF GateIsRight
  <2>2. ASSUME NEW p \in Op \ {o} PROVE OpGate(p)'
    <3>1. CASE ops[p] = None
      BY <1>c, <3>1 DEF OpGate, At, Doing
    <3>2. CASE ops[p] # None
      <4>1. OpGate(p)
        BY DEF GateIsRight
      <4>2. ops[p].kind \notin {"create", "restore"} /\ ~At(p, {"refresh"}, "read")
        BY <2>1, <3>2 DEF ChangesIdentity, At
      <4>3. QED
        BY <1>c, <2>1, <3>2, <4>1, <4>2 DEF OpGate, At, Doing
    <3>3. QED
      BY <3>1, <3>2
  <2>3. ASSUME NEW p \in Op, NEW q \in Op, ops'[p] # None, ops'[q] # None,
               ChangesIdentity(ops'[p]), p # q
        PROVE  FALSE
    <3>1. CASE p = o
      BY <1>c, <2>1, <2>3, <3>1
    <3>2. CASE p # o
      BY <1>b, <1>c, <2>1, <2>3, <3>2
    <3>3. QED
      BY <3>1, <3>2
  <2>4. QED
    BY <2>2, <2>3 DEF GateIsRight, ChangesIdentity
<1>g. ops \in [Op -> Operations \cup {None}] /\ ops[o] \in Operations
  BY <1>a, <1>b DEF Types
<1>h. Finish(o) => ops'[o] = None
  BY <1>g DEF Finish
<1>i. ops'[o] = None => OpGate(o)'
  BY DEF OpGate, At, Doing
\* Steps after which nothing is registered and the operation is over.
<1>1. CASE Create(o) \/ Forget(o) \/ RefreshNothing(o)
  <2>1. registered' = FALSE /\ Finish(o)
    BY <1>1 DEF Create, Forget, RefreshNothing, ResetGate
  <2>2. QED
    BY <2>1, <1>h, <1>i
<1>2. CASE Restore(o)
  <2>1. ops'[o] = Operation("refresh", "read", None, None) /\ registered' = registered
    BY <1>2, <1>g DEF Restore
  <2>2. ~registered
    BY <1>2, <1>d, <1>e DEF Restore, At, OpGate, Doing
  <2>3. QED
    BY <2>1, <2>2 DEF OpGate, At, Doing, Operation
<1>3. CASE RefreshIdentity(o)
  <2>1. /\ ops'[o] = [ops[o] EXCEPT !.at = "status", !.did = stored.did]
        /\ ops[o].kind = "refresh" /\ identity' = stored.did /\ registered' = registered
    BY <1>3, <1>a DEF RefreshIdentity, At, Types
  <2>2. ~registered /\ stored \in [did : Key, key : Key]
    BY <1>3, <1>a, <1>e DEF RefreshIdentity, OpGate, At, Types
  <2>3. ops'[o].kind = "refresh" /\ ops'[o].at = "status" /\ ops'[o].did = identity'
        /\ identity' # None
    BY <1>g, <2>1, <2>2 DEF Operations
  <2>4. QED
    BY <2>1, <2>2, <2>3 DEF OpGate, At, Doing
\* The identity, what is registered and what is anchored stay, and the operation ends.
<1>4. ASSUME UNCHANGED <<identity, registered>>, anchored \subseteq anchored'
      PROVE  registered' => identity' # None /\ identity' \in anchored'
  BY <1>4, <1>d
<1>5. CASE ReadNothing(o) \/ MeAnswer(o) \/ LoginAnswer(o) \/ LogoutAnswer(o) \/ Fail(o)
  <2>1. Finish(o) /\ UNCHANGED <<identity, registered, anchored>>
    BY <1>5 DEF ReadNothing, MeAnswer, LoginAnswer, LogoutAnswer, Fail, server
  <2>2. QED
    BY <2>1, <1>4, <1>h, <1>i
<1>6. CASE ReadIdentity(o)
  <2>1. UNCHANGED <<identity, registered, anchored>>
    BY <1>6 DEF ReadIdentity, page, server
  <2>2. ops[o].kind \in {"register", "login"} /\ stored # None
    BY <1>6 DEF ReadIdentity, At
  <2>3. PICK at \in {"sign", "challenge"} :
          at = IF ops[o].kind = "register" THEN "sign" ELSE "challenge"
    OBVIOUS
  <2>4. ops'[o].kind = ops[o].kind /\ ops'[o].at = at /\ ops'[o].did = stored.did
    <3>1. ops' = [ops EXCEPT ![o].at = at, ![o].did = stored.did]
      BY ONLY <1>6, <2>3 DEF ReadIdentity
    <3>2. QED
      BY <1>g, <3>1 DEF Operations
  <2>5. ops[o].kind = "register" => identity # None /\ stored.did = identity
    BY <1>a, <1>b, <1>e DEF OpGate, Doing, ShowsStored
  <2>6. OpGate(o)'
    BY <2>1, <2>2, <2>4, <2>5 DEF OpGate, At, Doing
  <2>7. QED
    BY <2>1, <2>6, <1>4
<1>7. CASE Sign(o) \/ ServeChallenge(o)
  <2>1. UNCHANGED <<identity, registered, anchored>>
    BY <1>7 DEF Sign, ServeChallenge, page, server
  <2>2. ops[o].kind \in {"register", "login"} /\ (ServeChallenge(o) => ops[o].kind = "login")
        /\ (Sign(o) => ops[o].at = "sign")
    BY <1>7 DEF Sign, ServeChallenge, At
  <2>3. ops'[o].kind = ops[o].kind /\ ops'[o].at \in {"sign", "send"}
        /\ ops'[o].did = ops[o].did
    <3>1. CASE Sign(o)
      BY <3>1, <1>g DEF Sign, Operations
    <3>2. CASE ServeChallenge(o)
      BY <3>2, <1>g DEF ServeChallenge, GoTo, Operations
    <3>3. QED
      BY <1>7, <3>1, <3>2
  <2>4. ops[o].kind = "register" => identity # None /\ ops[o].did = identity
    BY <1>7, <1>b, <1>e, <2>2 DEF OpGate, Doing, At
  <2>5. OpGate(o)'
    BY <2>1, <2>2, <2>3, <2>4 DEF OpGate, At, Doing
  <2>6. QED
    BY <2>1, <2>5, <1>4
<1>8. CASE ServeRegister(o)
  <2>1. PICK accepted \in BOOLEAN :
          /\ accepted => ops[o].did \notin anchored
          /\ Serve(o, accepted)
          /\ anchored' = IF accepted THEN anchored \cup {ops[o].did} ELSE anchored
    BY <1>8 DEF ServeRegister, VerifiesFor
  <2>2. UNCHANGED <<identity, registered>> /\ anchored \subseteq anchored'
    BY <2>1 DEF Serve, page
  <2>3. identity # None /\ ops[o].did = identity /\ ops[o].kind = "register"
    BY <1>8, <1>b, <1>e DEF ServeRegister, OpGate, Doing, At
  <2>4. ops'[o].kind = "register" /\ ops'[o].at = "answer" /\ ops'[o].ok = accepted
    BY <1>g, <2>1, <2>3 DEF Serve, Operation
  <2>5. accepted => identity \in anchored'
    BY <2>1, <2>3
  <2>6. OpGate(o)'
    BY <2>2, <2>3, <2>4, <2>5 DEF OpGate, At, Doing
  <2>7. QED
    BY <2>2, <2>6, <1>4
<1>9. CASE ServeLogin(o) \/ ServeLogout(o)
  <2>1. PICK accepted \in BOOLEAN : Serve(o, accepted)
    <3>1. CASE ServeLogin(o)
      BY <3>1 DEF ServeLogin, VerifiesFor
    <3>2. CASE ServeLogout(o)
      BY <3>2 DEF ServeLogout
    <3>3. QED
      BY <1>9, <3>1, <3>2
  <2>2. UNCHANGED <<identity, registered, anchored>> /\ ops[o].kind \in {"login", "logout"}
    BY <1>9, <2>1 DEF ServeLogin, ServeLogout, Serve, page, At
  <2>3. ops'[o].kind = ops[o].kind
    BY <1>g, <2>1 DEF Serve, Operation
  <2>4. OpGate(o)'
    BY <2>2, <2>3 DEF OpGate, At, Doing
  <2>5. QED
    BY <2>2, <2>4, <1>4
<1>10. CASE StatusAnswer(o)
  <2>1. identity # None /\ ops[o].did = identity
    BY <1>10, <1>e DEF StatusAnswer, OpGate
  <2>2. registered' => identity \in anchored
    <3>1. CASE ops[o].did \in anchored
      BY <3>1, <2>1
    <3>2. CASE ops[o].did \notin anchored
      <4>1. PICK ok \in {VerifyStatus(ops[o].did), FALSE} : registered' = ok
        BY <1>10 DEF StatusAnswer
      <4>2. VerifyStatus(ops[o].did) \in BOOLEAN /\ ~VerifyStatus(ops[o].did)
        BY <3>2 DEF VerifyStatus
      <4>3. ok = FALSE
        BY ONLY <4>1, <4>2
      <4>4. QED
        BY <4>1, <4>3
    <3>3. QED
      BY <3>1, <3>2
  <2>3. UNCHANGED <<identity, anchored>>
        /\ ops'[o] = Operation("refresh", "me", None, None)
    BY <1>10, <1>g DEF StatusAnswer, server
  <2>4. OpGate(o)'
    BY <2>3 DEF OpGate, At, Doing, Operation
  <2>5. QED
    BY <2>1, <2>2, <2>3, <2>4
<1>11. CASE RegisterAnswer(o)
  <2>1. identity # None /\ identity \in anchored
    BY <1>11, <1>b, <1>e DEF RegisterAnswer, OpGate, At, Doing
  <2>2. Finish(o) /\ UNCHANGED <<identity, anchored>>
    BY <1>11 DEF RegisterAnswer, server
  <2>3. QED
    BY <2>1, <2>2, <1>h, <1>i
<1>12. QED
  BY <1>1, <1>2, <1>3, <1>5, <1>6, <1>7, <1>8, <1>9, <1>10, <1>11 DEF Step

LEMMA GateClick ==
  ASSUME BrowserTyped, GateIsRight, ~overlapped', NEW o \in Op, Click(o)
  PROVE  GateIsRight'
<1> USE Distinct
<1>a. Types
  BY DEF BrowserTyped
<1>1. PICK kind \in Kinds, at \in Steps, key \in Key \cup {None} :
        /\ Start(o, Operation(kind, at, key, None))
        /\ kind # "refresh" /\ (kind = "register" => at = "read")
        /\ kind \in {"create", "restore"} => identity = None
        /\ kind = "register" => identity # None
  <2>1. CASE ClickRestore(o)
    BY <2>1, <1>a DEF ClickRestore, CreateShown, InGate, CreateStep, Kinds, Steps, Types
  <2>2. CASE ~ClickRestore(o)
    BY <2>2 DEF Click, ClickCreate, ClickRegister, ClickLogin, ClickLogout, ClickForget,
       CreateShown, RegisterShown, InGate, InNavBar, CreateStep, RegisterStep, Kinds, Steps
  <2>3. QED
    BY <2>1, <2>2
<1>2. Operation(kind, at, key, None) \in Operations
  BY DEF Operation, Operations
<1>b. PICK x \in Operations : x = Operation(kind, at, key, None)
  BY <1>2
<1>3. /\ ops'[o] = x /\ ~overlapped
      /\ \A p \in Op : ops[p] # None => ~ChangesIdentity(ops[p]) /\ ~ChangesIdentity(x)
      /\ \A p \in Op \ {o} : ops'[p] = ops[p]
      /\ ops[o] = None
  BY <1>1, <1>b, <1>a, StartFacts
<1>4. UNCHANGED <<identity, registered, anchored>>
  BY <1>1 DEF Start, server
<1>5. registered => identity # None /\ identity \in anchored
  BY <1>3 DEF GateIsRight
<1>6. OpGate(o)'
  BY <1>1, <1>b, <1>3, <1>4 DEF OpGate, At, Doing, Operation
<1>7. ASSUME NEW p \in Op \ {o} PROVE OpGate(p)'
  BY <1>3, <1>4 DEF GateIsRight, OpGate, At, Doing
<1>8. ASSUME NEW p \in Op, NEW q \in Op, ops'[p] # None, ops'[q] # None,
             ChangesIdentity(ops'[p])
      PROVE  p = q
  BY <1>3, <1>8 DEF GateIsRight
<1>9. QED
  BY <1>4, <1>5, <1>6, <1>7, <1>8 DEF GateIsRight, ChangesIdentity

LEMMA GateNext == BrowserTyped /\ BrowserTyped' /\ GateIsRight /\ [Next]_vars => GateIsRight'
<1> SUFFICES ASSUME BrowserTyped, BrowserTyped', GateIsRight, [Next]_vars, ~overlapped'
             PROVE  GateIsRight'
  BY DEF GateIsRight
<1>1. ASSUME NEW o \in Op, Step(o) PROVE GateIsRight'
  <2>1. overlapped' = overlapped
    BY <1>1 DEF Step, Create, Restore, Forget, RefreshNothing, RefreshIdentity, ReadNothing,
       ReadIdentity, Sign, Serve, ServeRegister, ServeChallenge, ServeLogin, ServeLogout,
       StatusAnswer, MeAnswer, RegisterAnswer, LoginAnswer, LogoutAnswer, Fail, history
  <2>2. QED
    BY <1>1, <2>1, GateStep
<1>2. ASSUME NEW o \in Op, Click(o) PROVE GateIsRight'
  BY <1>2, GateClick
<1>3. CASE Reload
  <2>1. ops' = Mounted /\ registered' = FALSE
    BY <1>3 DEF Reload
  <2>2. ASSUME NEW p \in Op PROVE OpGate(p)'
    BY <2>1, MountedTypes DEF OpGate, At, Doing, Operation
  <2>3. \A p, q \in Op : ops'[p] # None /\ ops'[q] # None => p = q
    BY <2>1, MountedTypes
  <2>4. QED
    BY <2>1, <2>2, <2>3 DEF GateIsRight
<1>4. CASE \/ \E p \in Poll : StartPoll(p) \/ ServePoll(p) \/ EndPoll(p)
           \/ SessionEnds
           \/ UNCHANGED vars
  <2>1. UNCHANGED <<identity, registered, anchored, overlapped, ops>>
    BY <1>4 DEF StartPoll, ServePoll, EndPoll, SessionEnds, device, server, page, history, vars
  <2>2. QED
    BY <2>1 DEF GateIsRight, OpGate, At, Doing, ChangesIdentity
<1>5. QED
  BY <1>1, <1>2, <1>3, <1>4 DEF Next

(***************************************************************************)
(* As long as nothing overlapped an operation that may change the identity,*)
(* "anchored" is said only of the shown identity and only when the ledger  *)
(* has it, whatever sequence of creating, restoring, registering, signing  *)
(* in and out, forgetting, failing and reloading led there                 *)
(* (identity-context.tsx).                                                 *)
(***************************************************************************)
THEOREM RegisteredMeansAnchored == Spec => []RegisteredIsAnchored
<1>1. Init => GateIsRight
  <2>1. ASSUME Init PROVE \A p \in Op : OpGate(p)
    BY <2>1, MountedTypes, Distinct DEF Init, OpGate, At, Doing, Operation
  <2>2. ASSUME Init
        PROVE  /\ \A p, q \in Op : ops[p] # None /\ ops[q] # None => p = q
               /\ ~registered
    BY <2>2, MountedTypes DEF Init
  <2>3. QED
    BY <2>1, <2>2 DEF GateIsRight
<1>2. GateIsRight => RegisteredIsAnchored
  BY DEF GateIsRight, RegisteredIsAnchored
<1>3. QED
  BY <1>1, <1>2, PageIsTyped, GateNext, PTL DEF Spec

-----------------------------------------------------------------------------
(* BellIsOfThisSession, made inductive: the answers that are still wanted   *)
(* were fetched with a cookie of this session, and the cookie is one.       *)

LEMMA BellSetSession ==
  ASSUME BellIsRight, NEW shown \in BOOLEAN, SetSession(shown), cookie' = cookie
  PROVE  BellIsRight'
<1>1. CASE shown
  <2>1. session' = TRUE /\ UNCHANGED <<bell, polls>>
        /\ since' = IF session THEN since ELSE {cookie}
    BY <1>1 DEF SetSession
  <2>2. CASE session
    BY <2>1, <2>2 DEF BellIsRight
  <2>3. CASE ~session
    BY <2>1, <2>3 DEF BellIsRight
  <2>4. QED
    BY <2>2, <2>3
<1>2. CASE ~shown
  <2>1. session' = FALSE /\ bell' = None /\ polls' = [p \in Poll |-> Cancelled(p)]
    BY <1>2 DEF SetSession
  <2>2. ASSUME NEW p \in Poll, polls'[p] # None PROVE ~polls'[p].live
    <3>1. polls'[p] = [polls[p] EXCEPT !.live = FALSE] /\ polls[p] # None
      BY <2>1, <2>2 DEF Cancelled
    <3>2. QED
      BY <3>1
  <2>3. QED
    BY <2>1, <2>2 DEF BellIsRight
<1>3. QED
  BY <1>1, <1>2

LEMMA BellSetCookie ==
  ASSUME BellIsRight, NEW d, SetCookie(d), UNCHANGED <<session, bell, polls>>
  PROVE  BellIsRight'
<1>1. cookie' = d /\ since' = IF session THEN since \cup {d} ELSE since
  BY DEF SetCookie
<1>2. CASE session
  BY <1>1, <1>2 DEF BellIsRight
<1>3. CASE ~session
  BY <1>1, <1>3 DEF BellIsRight
<1>4. QED
  BY <1>2, <1>3

LEMMA BellStep ==
  ASSUME BellIsRight, NEW o \in Op, Step(o)
  PROVE  BellIsRight'
<1>1. CASE \/ Create(o) \/ Forget(o) \/ RefreshNothing(o) \/ MeAnswer(o) \/ LoginAnswer(o)
           \/ LogoutAnswer(o)
  <2>1. cookie' = cookie
    BY <1>1 DEF Create, Forget, RefreshNothing, MeAnswer, LoginAnswer, LogoutAnswer, server
  <2>2. PICK shown \in BOOLEAN : SetSession(shown)
    <3>1. CASE MeAnswer(o)
      BY <3>1 DEF MeAnswer, Me, Admitted
    <3>2. CASE ~MeAnswer(o)
      BY <1>1, <3>2 DEF Create, Forget, RefreshNothing, LoginAnswer, LogoutAnswer, ResetGate
    <3>3. QED
      BY <3>1, <3>2
  <2>3. QED
    BY <2>1, <2>2, BellSetSession
<1>2. CASE ServeLogin(o) \/ ServeLogout(o)
  <2>1. UNCHANGED <<session, bell, polls>>
    BY <1>2 DEF ServeLogin, ServeLogout, Serve, page
  <2>2. PICK d : SetCookie(d)
    BY <1>2 DEF ServeLogin, ServeLogout
  <2>3. QED
    BY <2>1, <2>2, BellSetCookie
<1>3. CASE \/ Restore(o) \/ RefreshIdentity(o) \/ ReadNothing(o) \/ ReadIdentity(o) \/ Sign(o)
           \/ ServeRegister(o) \/ ServeChallenge(o) \/ StatusAnswer(o) \/ RegisterAnswer(o)
           \/ Fail(o)
  <2>1. UNCHANGED <<session, cookie, since, bell, polls>>
    BY <1>3 DEF Restore, RefreshIdentity, ReadNothing, ReadIdentity, Sign, ServeRegister, Serve,
       ServeChallenge, StatusAnswer, RegisterAnswer, Fail, device, server, page, history
  <2>2. QED
    BY <2>1 DEF BellIsRight
<1>4. QED
  BY <1>1, <1>2, <1>3 DEF Step

LEMMA BellPoll ==
  ASSUME Types, BellIsRight, NEW p \in Poll, StartPoll(p) \/ ServePoll(p) \/ EndPoll(p)
  PROVE  BellIsRight'
<1> USE Distinct
<1>1. UNCHANGED <<session, cookie, since>>
  BY DEF StartPoll, ServePoll, EndPoll, server, page, history
<1>2. polls \in [Poll -> [live : BOOLEAN, did : Key \cup {None}] \cup {None}]
  BY DEF Types
<1>3. CASE StartPoll(p)
  <2>1. polls'[p] = [live |-> TRUE, did |-> None] /\ session /\ bell' = bell
    BY <1>2, <1>3 DEF StartPoll, page
  <2>2. \A q \in Poll \ {p} : polls'[q] = polls[q]
    BY <1>2, <1>3 DEF StartPoll
  <2>3. polls'[p].did = None
    BY <2>1
  <2>4. QED
    BY <1>1, <2>1, <2>2, <2>3 DEF BellIsRight
<1>4. CASE ServePoll(p)
  <2>1. polls'[p] = [polls[p] EXCEPT !.did = cookie] /\ polls[p] # None /\ bell' = bell
    BY <1>2, <1>4 DEF ServePoll, page
  <2>2. \A q \in Poll \ {p} : polls'[q] = polls[q]
    BY <1>2, <1>4 DEF ServePoll
  <2>3. polls'[p].did = cookie /\ polls'[p].live = polls[p].live
    BY <1>2, <2>1
  <2>4. QED
    BY <1>1, <2>1, <2>2, <2>3 DEF BellIsRight
<1>5. CASE EndPoll(p)
  <2>1. polls'[p] = None /\ \A q \in Poll \ {p} : polls'[q] = polls[q]
    BY <1>2, <1>5 DEF EndPoll
  <2>2. bell' = bell \/ (polls[p] # None /\ polls[p].live /\ polls[p].did # None
                           /\ bell' = polls[p].did)
    <3>1. polls[p] # None
      BY <1>5 DEF EndPoll
    <3>2. CASE Listed(p)
      BY <1>5, <3>1, <3>2 DEF EndPoll, Listed
    <3>3. CASE ~Listed(p)
      BY <1>5, <3>3 DEF EndPoll
    <3>4. QED
      BY <3>2, <3>3
  <2>3. QED
    BY <1>1, <2>1, <2>2 DEF BellIsRight
<1>6. QED
  BY <1>3, <1>4, <1>5

LEMMA BellNext == BrowserTyped /\ BellIsRight /\ [Next]_vars => BellIsRight'
<1> SUFFICES ASSUME BrowserTyped, BellIsRight, [Next]_vars PROVE BellIsRight'
  OBVIOUS
<1>1. ASSUME NEW o \in Op, Click(o) PROVE BellIsRight'
  <2>1. UNCHANGED <<session, cookie, since, bell, polls>>
    BY <1>1 DEF Click, ClickCreate, ClickRestore, ClickRegister, ClickLogin, ClickLogout,
       ClickForget, Start, server
  <2>2. QED
    BY <2>1 DEF BellIsRight
<1>2. CASE SessionEnds
  BY <1>2, BellSetCookie DEF SessionEnds, page
<1>3. CASE Reload
  BY <1>3 DEF Reload, BellIsRight
<1>4. CASE UNCHANGED vars
  BY <1>4 DEF vars, server, page, history, BellIsRight
<1>5. QED
  BY <1>1, <1>2, <1>3, <1>4, BellStep, BellPoll DEF Next, BrowserTyped

(***************************************************************************)
(* The bell shows nothing that was fetched before the page last became     *)
(* signed in, for any number of requests on their way when the citizen     *)
(* signs out or forgets the identity (NotificationBell's cancelled flag).  *)
(***************************************************************************)
THEOREM BellShowsThisSession == Spec => []BellIsOfThisSession
<1>1. Init => BellIsRight
  BY DEF Init, BellIsRight
<1>2. BellIsRight => BellIsOfThisSession
  BY DEF BellIsRight, BellIsOfThisSession
<1>3. QED
  BY <1>1, <1>2, PageIsTyped, BellNext, PTL DEF Spec

-----------------------------------------------------------------------------
(* KeyIsNotOverwritten and AnchorsOnlyHeldKeys are about steps; the second  *)
(* rests on the first, and both on KeysAreSafe.                             *)

LEMMA SafeStep ==
  ASSUME BrowserTyped, BrowserTyped', KeysAreSafe, ~letGo, ~letGo', NEW o \in Op, Step(o)
  PROVE  KeysAreSafe' /\ (stored # None => stored' = stored)
<1> USE Distinct
<1>a. Types /\ ShowsStored /\ Types' /\ ShowsStored'
  BY DEF BrowserTyped
<1>b. \A p \in Op \ {o} : ops'[p] = ops[p]
  BY StepTypes
<1>c. ops \in [Op -> Operations \cup {None}]
  BY <1>a DEF Types
<1>d. Finish(o) => ops'[o] = None
  BY <1>c DEF Finish
\* Before there is an identity, the only operation is the first one, in its first step.
<1>e. ASSUME identity = None
      PROVE  /\ o = 1 /\ (\A p \in Op \ {o} : ops[p] = None) /\ ~registered
             /\ \/ At(o, {"refresh"}, "read")
                \/ At(o, {"create", "restore"}, "put") /\ stored = None
             /\ stored # None => At(o, {"refresh"}, "read")
  <2>1. ops[o] # None
    BY DEF Step, At, Create, Restore, Forget, RefreshNothing, RefreshIdentity,
       ReadNothing, ReadIdentity, Sign, ServeRegister, ServeChallenge, ServeLogin,
       ServeLogout, StatusAnswer, MeAnswer, RegisterAnswer, LoginAnswer, LogoutAnswer, Fail
  <2>2. QED
    BY <1>e, <2>1 DEF KeysAreSafe
<1>f. ASSUME identity # None
      PROVE  \A p \in Op : ~Doing(p, {"create", "restore", "forget"})
  BY <1>f DEF KeysAreSafe, Doing
\* An identity is shown afterwards, and nothing but a refresh was added.
<1>g. ASSUME identity' # None, ops'[o] # None => ops'[o].kind \notin {"create", "restore", "forget"}
      PROVE  KeysAreSafe'
  <2>1. ASSUME NEW p \in Op PROVE ~Doing(p, {"create", "restore", "forget"})'
    <3>1. CASE p = o
      BY <1>g, <3>1 DEF Doing
    <3>2. CASE p # o
      <4>1. ~Doing(p, {"create", "restore", "forget"})
        BY <1>e, <1>f, <3>2 DEF Doing
      <4>2. QED
        BY <1>b, <3>2, <4>1 DEF Doing
    <3>3. QED
      BY <3>1, <3>2
  <2>2. QED
    BY <1>g, <2>1 DEF KeysAreSafe, Doing
<1>1. CASE Create(o)
  <2>1. At(o, {"create"}, "put") /\ identity' = made' /\ made' \in Key /\ Finish(o)
    BY <1>1, <1>a, BrowserAssumption
       DEF Create, CreateIdentity, CreateIdentityWithBackup, NewKey, Install, Types, Key
  <2>2. stored = None
    BY <2>1, <1>e, <1>f DEF At, Doing
  <2>3. QED
    BY <2>1, <2>2, <1>d, <1>g
<1>2. CASE Restore(o)
  <2>1. PICK label \in Key : identity' = label
    BY <1>2 DEF Restore, RestoreFromBackup, Restored, Install
  <2>2. ops'[o] = Operation("refresh", "read", None, None)
    BY <1>2, <1>c DEF Restore
  <2>3. stored = None
    BY <1>2, <1>e, <1>f DEF Restore, At, Doing
  <2>4. ops'[o].kind = "refresh"
    BY <2>2 DEF Operation
  <2>5. QED
    BY <2>1, <2>3, <2>4, <1>g
<1>3. ~Forget(o)
  BY DEF Forget, At, Doing, KeysAreSafe
\* Every other step leaves the store as it is.
<1>4. CASE ~Create(o) /\ ~Restore(o) /\ ~RefreshNothing(o)
  <2>1. stored' = stored
    BY <1>3, <1>4 DEF Step, RefreshIdentity, ReadNothing, ReadIdentity, Sign, Serve, ServeRegister,
       ServeChallenge, ServeLogin, ServeLogout, StatusAnswer, MeAnswer, RegisterAnswer,
       LoginAnswer, LogoutAnswer, Fail, device
  <2>2. CASE RefreshIdentity(o)
    <3>1. identity' # None
      BY <2>2, <1>a DEF RefreshIdentity, Types
    <3>2. ops[o].kind = "refresh" /\ ops[o] \in Operations
          /\ ops' = [ops EXCEPT ![o].at = "status", ![o].did = stored.did]
      BY <2>2, <1>c DEF RefreshIdentity, At
    <3>3. ops'[o].kind = "refresh"
      BY <3>2, <1>c DEF Operations
    <3>4. QED
      BY <2>1, <3>1, <3>3, <1>g
  <2>3. CASE ~RefreshIdentity(o)
    <3>1. identity' = identity
      BY <1>3, <1>4, <2>3 DEF Step, ReadNothing, ReadIdentity, Sign, Serve, ServeRegister,
         ServeChallenge, ServeLogin, ServeLogout, StatusAnswer, MeAnswer, RegisterAnswer,
         LoginAnswer, LogoutAnswer, Fail, page
    <3>2. CASE identity # None
      <4>1. ops[o] # None /\ ops[o].kind \notin {"create", "restore", "forget"}
        BY <1>f, <3>2 DEF Doing, Step, At, Create, Restore, Forget, RefreshNothing,
           RefreshIdentity, ReadNothing, ReadIdentity, Sign, ServeRegister, ServeChallenge,
           ServeLogin, ServeLogout, StatusAnswer, MeAnswer, RegisterAnswer, LoginAnswer,
           LogoutAnswer, Fail
      <4>2. ops'[o] = None \/ ops'[o].kind = ops[o].kind
        <5>1. ops[o] \in Operations
          BY <4>1, <1>c
        <5>2. CASE ReadIdentity(o) \/ Sign(o) \/ ServeChallenge(o)
          BY <5>1, <5>2, <1>c DEF ReadIdentity, Sign, ServeChallenge, GoTo, Operations
        <5>3. CASE ServeRegister(o) \/ ServeLogin(o) \/ ServeLogout(o)
          BY <5>1, <5>3, <1>c DEF ServeRegister, ServeLogin, ServeLogout, Serve, Operation
        <5>4. CASE StatusAnswer(o)
          BY <5>4, <1>c DEF StatusAnswer, At, Operation
        <5>5. CASE \/ ReadNothing(o) \/ MeAnswer(o) \/ RegisterAnswer(o) \/ LoginAnswer(o)
                   \/ LogoutAnswer(o) \/ Fail(o)
          BY <5>5, <1>d
             DEF ReadNothing, MeAnswer, RegisterAnswer, LoginAnswer, LogoutAnswer, Fail
        <5>6. QED
          BY <1>3, <1>4, <2>3, <5>2, <5>3, <5>4, <5>5 DEF Step
      <4>3. QED
        BY <2>1, <3>1, <3>2, <4>1, <4>2, <1>g
    \* Only the failure of creating or restoring is left.
    <3>3. CASE identity = None
      <4>1. Fail(o)
        BY <1>3, <1>4, <1>e, <2>3, <3>3 DEF Step, At, ReadNothing, ReadIdentity, Sign,
           ServeRegister, ServeChallenge, ServeLogin, ServeLogout, StatusAnswer, MeAnswer,
           RegisterAnswer, LoginAnswer, LogoutAnswer
      <4>2. stored = None /\ registered' = registered /\ ops'[o] = None
        BY <4>1, <1>d, <1>e, <3>3 DEF Fail, At
      <4>3. \A p \in Op : ops'[p] = None
        BY <4>2, <1>b, <1>e, <3>3
      <4>4. QED
        BY <2>1, <3>1, <3>3, <4>2, <4>3, <1>e DEF KeysAreSafe, Doing, At
    <3>4. QED
      BY <3>2, <3>3
  <2>4. QED
    BY <2>2, <2>3
\* There was nothing to read, or the identity would be let go of.
<1>5. CASE RefreshNothing(o)
  <2>1. stored = None /\ stored' = stored /\ identity' = None /\ ~registered' /\ ops'[o] = None
    BY <1>5, <1>d DEF RefreshNothing, SeesNothing, device
  <2>2. identity = None
    BY <2>1, <1>a DEF ShowsStored
  <2>3. \A p \in Op : ops'[p] = None
    BY <2>1, <2>2, <1>b, <1>e
  <2>4. QED
    BY <2>1, <2>3 DEF KeysAreSafe, Doing, At
<1>6. QED
  BY <1>1, <1>2, <1>4, <1>5

LEMMA SafeClick ==
  ASSUME BrowserTyped, KeysAreSafe, ~letGo, ~letGo', NEW o \in Op, Click(o)
  PROVE  KeysAreSafe' /\ stored' = stored
<1> USE Distinct
<1>a. Types
  BY DEF BrowserTyped
<1>1. PICK kind \in Kinds, at \in Steps, key \in Key \cup {None} :
        /\ Start(o, Operation(kind, at, key, None))
        /\ kind # "forget" /\ (kind \in {"create", "restore"} => at = "put" /\ CreateShown)
        /\ identity = None => kind \in {"create", "restore"}
  <2>1. CASE ClickRestore(o)
    BY <2>1, <1>a DEF ClickRestore, Kinds, Steps, Types
  <2>2. CASE ~ClickRestore(o)
    BY <2>2 DEF Click, ClickCreate, ClickRegister, ClickLogin, ClickLogout, ClickForget,
       RegisterShown, LoginShown, LogoutShown, InGate, InNavBar, RegisterStep, LoginStep,
       KeysAreSafe, Kinds, Steps
  <2>3. QED
    BY <2>1, <2>2
<1>2. Operation(kind, at, key, None) \in Operations
  BY DEF Operation, Operations
<1>3. /\ ops'[o] = Operation(kind, at, key, None) /\ \A p \in Op \ {o} : ops'[p] = ops[p]
      /\ ops[o] = None /\ \A p \in 1 .. o - 1 : ops[p] # None
  BY <1>1, <1>2, <1>a, StartFacts
<1>4. loading' = TRUE /\ UNCHANGED <<stored, identity, registered>>
  BY <1>1 DEF Start, device
<1>5. ops'[o] # None /\ ops'[o].kind = kind /\ ops'[o].at = at
  <2>1. ops'[o] \in Operations
    BY <1>2, <1>3
  <2>2. ops'[o] # None
    BY ONLY <2>1, Distinct
  <2>3. QED
    BY ONLY <2>2, <1>3 DEF Operation
<1>6. CASE identity # None
  <2>1. kind \notin {"create", "restore"}
    BY <1>1, <1>6 DEF CreateShown, InGate, CreateStep
  <2>2. \A p \in Op : ~Doing(p, {"create", "restore", "forget"})
    BY <1>6 DEF KeysAreSafe, Doing
  <2>3. \A p \in Op : ~Doing(p, {"create", "restore", "forget"})'
    BY <1>1, <1>3, <1>5, <2>1, <2>2 DEF Doing
  <2>4. QED
    BY <1>4, <1>6, <2>3 DEF KeysAreSafe, Doing
<1>7. CASE identity = None
  <2>1. kind \in {"create", "restore"} /\ at = "put" /\ ~loading
    BY <1>1, <1>7 DEF CreateShown, InGate
  <2>2. ops[1] = None /\ (\A p \in Op \ {1} : ops[p] = None) /\ stored = None /\ ~registered
    BY <1>7, <2>1 DEF KeysAreSafe, At
  <2>3. o = 1
    BY <1>3, <2>2 DEF Op
  <2>4. \A p \in Op : ~Doing(p, {"forget"})'
    BY <1>3, <1>5, <2>1, <2>2, <2>3 DEF Doing
  <2>5. At(1, {"create", "restore"}, "put")'
    BY <1>5, <2>1, <2>3 DEF At
  <2>6. QED
    BY <1>3, <1>4, <1>7, <2>2, <2>3, <2>4, <2>5 DEF KeysAreSafe
<1>8. QED
  BY <1>4, <1>6, <1>7

LEMMA SafeNext ==
  BrowserTyped /\ BrowserTyped' /\ KeysAreSafe /\ [Next]_vars =>
    KeysAreSafe' /\ (stored # None /\ ~letGo => stored' = stored)
<1> SUFFICES ASSUME BrowserTyped, BrowserTyped', KeysAreSafe, [Next]_vars
             PROVE  KeysAreSafe' /\ (stored # None /\ ~letGo => stored' = stored)
  OBVIOUS
<1>1. CASE Reload
  <2>1. identity' = None /\ ~registered' /\ ops' = Mounted /\ loading' = TRUE /\ stored' = stored
    BY <1>1 DEF Reload, device
  <2>2. At(1, {"refresh"}, "read")' /\ \A p \in Op : ~Doing(p, {"forget"})'
    BY <2>1, MountedTypes, Distinct DEF At, Doing, Operation
  <2>3. QED
    BY <2>1, <2>2, MountedTypes DEF KeysAreSafe
<1>2. CASE \/ \E p \in Poll : StartPoll(p) \/ ServePoll(p) \/ EndPoll(p)
           \/ SessionEnds
           \/ UNCHANGED vars
  <2>1. UNCHANGED <<identity, registered, stored, letGo, loading, ops>>
    BY <1>2 DEF StartPoll, ServePoll, EndPoll, SessionEnds, device, server, page, history, vars
  <2>2. QED
    BY <2>1 DEF KeysAreSafe, At, Doing
\* What lets go of the identity leaves the store alone, until the forget is carried out.
<1>3. ASSUME NEW o \in Op, Step(o) \/ Click(o), letGo' \/ letGo
      PROVE  KeysAreSafe' /\ (stored # None /\ ~letGo => stored' = stored)
  <2>1. letGo => letGo'
    BY <1>3 DEF Step, Create, Restore, Forget, RefreshNothing, RefreshIdentity, ReadNothing,
       ReadIdentity, Sign, Serve, ServeRegister, ServeChallenge, ServeLogin, ServeLogout,
       StatusAnswer, MeAnswer, RegisterAnswer, LoginAnswer, LogoutAnswer, Fail, history,
       Click, ClickCreate, ClickRestore, ClickRegister, ClickLogin, ClickLogout, ClickForget,
       SeesNothing
  <2>2. KeysAreSafe'
    BY <1>3, <2>1 DEF KeysAreSafe
  <2>3. ASSUME ~letGo PROVE stored' = stored
    <3>1. CASE RefreshNothing(o) \/ ReadNothing(o) \/ ClickForget(o)
      BY <3>1 DEF RefreshNothing, ReadNothing, ClickForget, Start, device
    <3>2. CASE ~RefreshNothing(o) /\ ~ReadNothing(o) /\ ~ClickForget(o)
      <4>1. letGo' = letGo
        BY <1>3, <3>2 DEF Step, Create, Restore, Forget, RefreshIdentity,
           ReadIdentity, Sign, Serve, ServeRegister, ServeChallenge, ServeLogin, ServeLogout,
           StatusAnswer, MeAnswer, RegisterAnswer, LoginAnswer, LogoutAnswer, Fail, history,
           Click, ClickCreate, ClickRestore, ClickRegister, ClickLogin, ClickLogout
      <4>2. QED
        BY <1>3, <2>3, <4>1
    <3>3. QED
      BY <3>1, <3>2
  <2>4. QED
    BY <2>2, <2>3
<1>4. QED
  BY <1>1, <1>2, <1>3, SafeStep, SafeClick DEF Next

LEMMA InitSafe == Init => KeysAreSafe
<1>1. ASSUME Init
      PROVE  At(1, {"refresh"}, "read") /\ (\A p \in Op : ~Doing(p, {"forget"}))
             /\ identity = None /\ ~registered /\ loading /\ stored = None
             /\ \A p \in Op \ {1} : ops[p] = None
  BY <1>1, MountedTypes, Distinct DEF Init, At, Doing, Operation
<1>2. QED
  BY <1>1 DEF KeysAreSafe

(***************************************************************************)
(* Until a forget is confirmed or a read of the store fails, no sequence   *)
(* of clicks, answers, failures and reloads overwrites the key in the      *)
(* store, although the buttons of the navigation bar stay enabled while    *)
(* other operations are under way (IdentityGate, lib/identity.ts).         *)
(***************************************************************************)
THEOREM KeysAreNotOverwritten == Spec => KeyIsNotOverwritten
<1>1. Init => KeysAreSafe
  BY InitSafe
<1>2. KeysAreSafe /\ BrowserTyped /\ BrowserTyped' /\ [Next]_vars =>
        KeysAreSafe' /\ [stored # None /\ ~letGo => stored' = stored]_vars
  BY SafeNext
<1>3. QED
  BY <1>1, <1>2, PageIsTyped, PTL DEF Spec, KeyIsNotOverwritten

-----------------------------------------------------------------------------
\* A registration that is signed and on its way was signed with the key in the store.
SignedIsStored ==
  ~letGo => \A o \in Op : At(o, {"register"}, "send") => stored # None /\ ops[o].key = stored.key

\* Nothing but signing sends a registration on its way.
LEMMA OnlySigningSends ==
  ASSUME BrowserTyped, [Next]_vars, NEW o \in Op, ops'[o] # ops[o], At(o, {"register"}, "send")'
  PROVE  Sign(o)
<1> USE Distinct
<1>1. ops \in [Op -> Operations \cup {None}] /\ Types
  BY DEF BrowserTyped, Types
<1>2. ops'[o] # None /\ ops'[o].kind = "register" /\ ops'[o].at = "send"
  BY DEF At
<1>3. ~Reload
  BY <1>2, MountedTypes DEF Reload, Operation
<1>4. \A p \in Poll : ~StartPoll(p) /\ ~ServePoll(p) /\ ~EndPoll(p)
  BY DEF StartPoll, ServePoll, EndPoll
<1>5. ~SessionEnds /\ ~UNCHANGED vars
  BY DEF SessionEnds, vars
<1>6. ASSUME NEW p \in Op, Click(p) PROVE FALSE
  <2>1. ~ClickRestore(p)
    <3>1. SUFFICES ASSUME NEW k \in backups, Start(p, Operation("restore", "put", k, None))
                   PROVE  FALSE
      BY DEF ClickRestore
    <3>2. k \in Key
      BY <1>1 DEF Types
    <3>3. Operation("restore", "put", k, None) \in Operations
      BY <3>2 DEF Operation, Operations, Kinds, Steps
    <3>4. ops'[p] = Operation("restore", "put", k, None) /\ \A q \in Op \ {p} : ops'[q] = ops[q]
      BY <1>1, <3>1, <3>3, StartFacts
    <3>5. QED
      BY <1>2, <3>4 DEF Operation
  <2>2. PICK kind \in Kinds, at \in Steps :
          Start(p, Operation(kind, at, None, None)) /\ (kind = "register" => at = "read")
    BY <1>6, <2>1 DEF Click, ClickCreate, ClickRegister, ClickLogin, ClickLogout, ClickForget,
       Kinds, Steps
  <2>3. Operation(kind, at, None, None) \in Operations
    BY DEF Operation, Operations
  <2>4. ops'[p] = Operation(kind, at, None, None) /\ \A q \in Op \ {p} : ops'[q] = ops[q]
    BY <1>1, <2>2, <2>3, StartFacts
  <2>5. QED
    BY <1>2, <2>2, <2>4 DEF Operation
<1>7. PICK p \in Op : Step(p)
  BY <1>3, <1>4, <1>5, <1>6 DEF Next
<1>8. p = o /\ ops[o] # None /\ ops[o] \in Operations
  <2>1. p = o
    BY <1>7, StepTypes
  <2>2. QED
    BY <1>1, <1>7, <2>1 DEF Step, At, Create, Restore, Forget, RefreshNothing, RefreshIdentity,
       ReadNothing, ReadIdentity, Sign, ServeRegister, ServeChallenge, ServeLogin, ServeLogout,
       StatusAnswer, MeAnswer, RegisterAnswer, LoginAnswer, LogoutAnswer, Fail
<1>9. ~Finish(o)
  BY <1>1, <1>2 DEF Finish
<1>10. ~Create(o) /\ ~Forget(o) /\ ~RefreshNothing(o) /\ ~ReadNothing(o) /\ ~MeAnswer(o)
       /\ ~RegisterAnswer(o) /\ ~LoginAnswer(o) /\ ~LogoutAnswer(o) /\ ~Fail(o)
  <2>1. ~Create(o) /\ ~Forget(o) /\ ~RefreshNothing(o) /\ ~ReadNothing(o)
    BY <1>9, Zenon DEF Create, Forget, RefreshNothing, ReadNothing
  <2>2. ~MeAnswer(o) /\ ~RegisterAnswer(o) /\ ~LoginAnswer(o) /\ ~LogoutAnswer(o) /\ ~Fail(o)
    BY <1>9, Zenon DEF MeAnswer, RegisterAnswer, LoginAnswer, LogoutAnswer, Fail
  <2>3. QED
    BY <2>1, <2>2
<1>11. ~Restore(o) /\ ~StatusAnswer(o)
  <2>1. ~ \E at \in Steps : ops' = [ops EXCEPT ![o] = Operation("refresh", at, None, None)]
    BY <1>1, <1>2 DEF Operation
  <2>2. "read" \in Steps /\ "me" \in Steps
    BY DEF Steps
  <2>3. QED
    BY <2>1, <2>2, Zenon DEF Restore, StatusAnswer
<1>12. ~ServeRegister(o) /\ ~ServeLogin(o) /\ ~ServeLogout(o)
  BY <1>1, <1>2 DEF ServeRegister, ServeLogin, ServeLogout, Serve, Operation
<1>13. ~RefreshIdentity(o) /\ ~ReadIdentity(o) /\ ~ServeChallenge(o)
  BY <1>1, <1>2, <1>8 DEF RefreshIdentity, ReadIdentity, ServeChallenge, GoTo, Operations
<1>14. QED
  BY <1>7, <1>8, <1>10, <1>11, <1>12, <1>13 DEF Step

\* Only loading the page again makes the citizen's word be forgotten.
LEMMA LetGoLasts == [Next]_vars /\ letGo => letGo' \/ Reload
  BY DEF Next, Step, Create, Restore, Forget, RefreshNothing, RefreshIdentity, ReadNothing,
     ReadIdentity, Sign, Serve, ServeRegister, ServeChallenge, ServeLogin, ServeLogout,
     StatusAnswer, MeAnswer, RegisterAnswer, LoginAnswer, LogoutAnswer, Fail, history,
     Click, ClickCreate, ClickRestore, ClickRegister, ClickLogin, ClickLogout, ClickForget,
     SeesNothing, StartPoll, ServePoll, EndPoll, SessionEnds, vars

LEMMA SignedNext ==
  ASSUME BrowserTyped, SignedIsStored, [Next]_vars, stored # None /\ ~letGo => stored' = stored
  PROVE  SignedIsStored'
<1> USE Distinct
<1>1. SUFFICES ASSUME ~letGo', NEW o \in Op, At(o, {"register"}, "send")'
               PROVE  stored' # None /\ ops'[o].key = stored'.key
  BY DEF SignedIsStored
<1>2. ~Reload
  BY <1>1, MountedTypes DEF Reload, At, Operation
<1>3. ~letGo
  BY <1>1, <1>2, LetGoLasts
<1>4. CASE ops'[o] = ops[o]
  <2>1. At(o, {"register"}, "send")
    BY <1>1, <1>4 DEF At
  <2>2. QED
    BY <1>3, <1>4, <2>1 DEF SignedIsStored
<1>5. CASE ops'[o] # ops[o]
  <2>1. Sign(o)
    BY <1>1, <1>5, OnlySigningSends
  <2>2. ops \in [Op -> Operations \cup {None}] /\ ops[o] \in Operations /\ stored # None
    BY <2>1 DEF BrowserTyped, Types, Sign, At
  <2>3. ops' = [ops EXCEPT ![o].at = "send", ![o].key = stored.key]
    BY <2>1 DEF Sign
  <2>4. ops'[o].key = stored.key
    BY <2>2, <2>3 DEF Operations
  <2>5. QED
    BY <1>3, <2>2, <2>4
<1>6. QED
  BY <1>4, <1>5

(***************************************************************************)
(* Until the citizen lets go of the identity, a DID that a registration of *)
(* the page anchors has its key in the store or in a backup, for any       *)
(* number of operations that overlap between reading the identity, signing *)
(* and the request (register, signMessage, IdentityGate).                  *)
(***************************************************************************)
THEOREM AnchoredKeysAreHeld == Spec => AnchorsOnlyHeldKeys
<1>1. Init => KeysAreSafe /\ SignedIsStored
  BY InitSafe, MountedTypes, Distinct DEF Init, SignedIsStored, At, Operation
<1>2. ASSUME BrowserTyped, SignedIsStored, [Next]_vars, ~letGo
      PROVE  anchored' \ anchored \subseteq Held
  <2>1. CASE anchored' = anchored
    BY <2>1
  <2>2. ASSUME NEW o \in Op, ServeRegister(o)
        PROVE  anchored' \ anchored \subseteq Held
    <3>1. At(o, {"register"}, "send")
      BY <2>2 DEF ServeRegister
    <3>2. stored # None /\ ops[o].key = stored.key
      BY <1>2, <3>1 DEF SignedIsStored
    <3>3. anchored' = anchored \/ (ops[o].key = ops[o].did /\ anchored' = anchored \cup {ops[o].did})
      BY <2>2 DEF ServeRegister, VerifiesFor
    <3>4. QED
      BY <3>2, <3>3 DEF Held
  <2>3. anchored' = anchored \/ \E o \in Op : ServeRegister(o)
    BY <1>2 DEF Next, Step, Create, Restore, Forget, RefreshNothing, RefreshIdentity, ReadNothing,
       ReadIdentity, Sign, Serve, ServeChallenge, ServeLogin, ServeLogout,
       StatusAnswer, MeAnswer, RegisterAnswer, LoginAnswer, LogoutAnswer, Fail, server,
       Click, ClickCreate, ClickRestore, ClickRegister, ClickLogin, ClickLogout, ClickForget,
       Start, StartPoll, ServePoll, EndPoll, SessionEnds, Reload, vars
  <2>4. QED
    BY <2>1, <2>2, <2>3
<1>3. /\ KeysAreSafe /\ SignedIsStored /\ BrowserTyped /\ BrowserTyped' /\ [Next]_vars =>
           KeysAreSafe' /\ SignedIsStored'
      /\ SignedIsStored /\ BrowserTyped /\ [Next]_vars =>
           [~letGo => anchored' \ anchored \subseteq Held]_vars
  BY <1>2, SafeNext, SignedNext
<1>4. QED
  BY <1>1, <1>3, PageIsTyped, PTL DEF Spec, AnchorsOnlyHeldKeys
=============================================================================
