------------------------------- MODULE Browser -------------------------------
(***************************************************************************)
(* One page of the frontend: the key pair it keeps in IndexedDB            *)
(* (lib/identity.ts), the state that every component reads                 *)
(* (lib/identity-context.tsx), the buttons that change it                  *)
(* (components/IdentityGate.tsx) and the notification bell.                *)
(*                                                                         *)
(* An operation is a chain of awaits.  The buttons of the navigation bar   *)
(* stay enabled while another operation is under way, so operations        *)
(* overlap, and each may fail at any await; all of them share one loading  *)
(* flag.  A request is served at one step and its answer is applied at a   *)
(* later one.  A transaction on the store and the assignments that follow  *)
(* its await are one step, because the browser runs them in one task.      *)
(*                                                                         *)
(* A did:key is derived from its key, so a DID is named by its key pair;   *)
(* "key" is the private half and "did" the label stored beside it.         *)
(***************************************************************************)
EXTENDS Naturals

CONSTANTS
  MaxKeys,     \* bound on the key pairs that are generated
  MaxOps,      \* bound on the operations that are under way at once
  Poll,        \* requests for notifications that can be under way at once
  MaxReloads,  \* bound on the times the page is loaded again
  None

Op == 1 .. MaxOps
Key == 1 .. MaxKeys

(* An operation and the await it has reached. *)
Kinds == {"create", "restore", "register", "login", "logout", "forget", "refresh"}
Steps == {"put", "read", "status", "me", "challenge", "sign", "send", "answer"}
Operations ==
  [kind : Kinds, at : Steps, key : Key \cup {None}, did : Key \cup {None}, ok : BOOLEAN]

ASSUME BrowserAssumption ==
  /\ MaxKeys \in Nat /\ MaxReloads \in Nat /\ MaxOps \in Nat \ {0}
  /\ None \notin Key /\ None \notin [did : Key, key : Key] /\ None \notin Operations

VARIABLES
  stored,      \* the record of the object store, or None
  made,        \* how many keys were generated and installed: 1 .. made
  backups,     \* the keys of which a backup file exists
  anchored,    \* the DIDs registered on the ledger
  cookie,      \* the DID whose session the cookie opens, or None
  identity, registered, session, loading,
  roles,       \* the DID whose roles the navigation bar goes by, or None
  bell,        \* the DID whose notifications the bell lists, or None
  ops, polls,
  reloads,
  letGo,       \* history: since the page was opened, a forget was confirmed or
               \*   a read of the store failed
  overlapped,  \* history: since then, an operation overlapped one that may
               \*   change which identity is shown
  since        \* history: the cookies held since the page last became signed in

device == <<stored, made, backups>>
server == <<anchored, cookie>>
page == <<identity, registered, session, loading, roles, bell>>
history == <<letGo, overlapped, since>>
vars == <<device, server, page, ops, polls, reloads, history>>

Operation(kind, at, key, did) ==
  [kind |-> kind, at |-> at, key |-> key, did |-> did, ok |-> FALSE]

(* An effect of IdentityProvider runs refresh() when the page opens. *)
Mounted ==
  [o \in Op |-> IF o = 1 THEN Operation("refresh", "read", None, None) ELSE None]

Init ==
  /\ stored = None /\ made = 0 /\ backups = {}
  /\ anchored = {} /\ cookie = None
  /\ identity = None /\ registered = FALSE /\ session = FALSE /\ loading = TRUE
  /\ roles = None /\ bell = None
  /\ ops = Mounted
  /\ polls = [p \in Poll |-> None]
  /\ reloads = 0
  /\ letGo = FALSE /\ overlapped = FALSE /\ since = {}

At(o, kinds, step) == ops[o] # None /\ ops[o].kind \in kinds /\ ops[o].at = step
GoTo(o, step) == ops' = [ops EXCEPT ![o].at = step]

(* The finally of wrap() and of the first refresh. *)
Finish(o) ==
  /\ ops' = [ops EXCEPT ![o] = None]
  /\ loading' = FALSE

(* setSession, with the bell's effect on [session]: when the session goes, *)
(* the list is emptied and the answers still to come are cancelled.        *)
Cancelled(p) == IF polls[p] = None THEN None ELSE [polls[p] EXCEPT !.live = FALSE]
SetSession(shown) ==
  /\ session' = shown
  /\ IF shown
     THEN /\ since' = IF session THEN since ELSE {cookie}
          /\ UNCHANGED <<bell, polls>>
     ELSE /\ since' = {}
          /\ bell' = None
          /\ polls' = [p \in Poll |-> Cancelled(p)]

SetCookie(d) ==
  /\ cookie' = d
  /\ since' = IF session THEN since \cup {d} ELSE since

-----------------------------------------------------------------------------
(* The buttons: those of the onboarding steps, which the gate of the other *)
(* pages shows too, are disabled while loading; those of the navigation    *)
(* bar are not.                                                            *)

CreateStep == identity = None
RegisterStep == identity # None /\ ~registered
LoginStep == registered /\ ~session

InGate(step) == step /\ ~loading
InNavBar(button) == identity # None /\ button

(* Faulty: the buttons of CreateIdentity are not disabled while loading. *)
CreateShownLoading == CreateStep

CreateShown == InGate(CreateStep)
RegisterShown == InGate(RegisterStep) \/ InNavBar(~registered)
LoginShown == InGate(LoginStep) \/ InNavBar(registered /\ ~session)
LogoutShown == InNavBar(session)
ForgetShown == InNavBar(TRUE)

(* What may change the identity: a put, or a read of the store that fails. *)
ChangesIdentity(x) ==
  \/ x.kind \in {"create", "restore", "forget"}
  \/ x.kind = "refresh" /\ x.at = "read"

Start(o, operation) ==
  /\ ops[o] = None /\ \A x \in 1 .. o - 1 : ops[x] # None
  /\ ops' = [ops EXCEPT ![o] = operation]
  /\ loading' = TRUE
  /\ overlapped' = \/ overlapped
                   \/ \E x \in Op : ops[x] # None /\
                        (ChangesIdentity(ops[x]) \/ ChangesIdentity(operation))
  /\ UNCHANGED <<device, server, identity, registered, session, roles, bell, polls,
                 reloads, since>>

ClickCreate(o) ==
  /\ CreateShown /\ made < MaxKeys
  /\ Start(o, Operation("create", "put", None, None))
  /\ UNCHANGED letGo

ClickRestore(o) ==
  /\ CreateShown
  /\ \E k \in backups : Start(o, Operation("restore", "put", k, None))
  /\ UNCHANGED letGo

ClickRegister(o) ==
  /\ RegisterShown
  /\ Start(o, Operation("register", "read", None, None))
  /\ UNCHANGED letGo

ClickLogin(o) ==
  /\ LoginShown
  /\ Start(o, Operation("login", "read", None, None))
  /\ UNCHANGED letGo

ClickLogout(o) ==
  /\ LogoutShown
  /\ Start(o, Operation("logout", "send", None, None))
  /\ UNCHANGED letGo

(* Faulty: nobody is asked to confirm. *)
ClickForgetUnasked(o) ==
  /\ ForgetShown
  /\ Start(o, Operation("forget", "put", None, None))
  /\ UNCHANGED letGo

ClickForget(o) ==
  /\ ForgetShown
  /\ Start(o, Operation("forget", "put", None, None))
  /\ letGo' = TRUE

-----------------------------------------------------------------------------
(* Operations on the store *)

(* A put: the key under a label. *)
Install(key, did) ==
  /\ stored' = [did |-> did, key |-> key]
  /\ identity' = did

(* Faulty: only the session is reset. *)
ResetSession == UNCHANGED registered /\ SetSession(FALSE)

ResetGate == registered' = FALSE /\ SetSession(FALSE)

NewKey ==
  /\ made < MaxKeys
  /\ made' = made + 1

CreateIdentity ==
  /\ NewKey
  /\ Install(made', made')
  /\ UNCHANGED backups

(* The same key goes, encrypted, into a file that is downloaded. *)
CreateIdentityWithBackup ==
  /\ NewKey
  /\ Install(made', made')
  /\ backups' = backups \cup {made'}

Create(o) ==
  /\ At(o, {"create"}, "put")
  /\ CreateIdentity \/ CreateIdentityWithBackup
  /\ ResetGate
  /\ Finish(o)
  /\ UNCHANGED <<server, roles, reloads, letGo, overlapped>>

(* The DID is derived again from the key; a label that differs is refused. *)
Restored(key, label) == label = key /\ Install(key, label)

(* The labels of a backup file are plain text and need not match its key. *)
RestoreFromBackup(key) == \E label \in Key : Restored(key, label)

(* Restoring goes on with a refresh, still inside wrap(). *)
Restore(o) ==
  /\ At(o, {"restore"}, "put")
  /\ RestoreFromBackup(ops[o].key)
  /\ ops' = [ops EXCEPT ![o] = Operation("refresh", "read", None, None)]
  /\ UNCHANGED <<made, backups, server, registered, session, loading, roles, bell,
                 polls, reloads, history>>

ForgetIdentity == stored' = None

Forget(o) ==
  /\ At(o, {"forget"}, "put")
  /\ ForgetIdentity
  /\ identity' = None
  /\ ResetGate
  /\ Finish(o)
  /\ UNCHANGED <<made, backups, server, roles, reloads, letGo, overlapped>>

(* loadIdentity answers null when there is no record, and when the read fails. *)
SeesNothing == letGo' = (letGo \/ stored # None)

RefreshNothing(o) ==
  /\ At(o, {"refresh"}, "read")
  /\ SeesNothing
  /\ identity' = None
  /\ registered' = FALSE
  /\ roles' = None
  /\ SetSession(FALSE)
  /\ Finish(o)
  /\ UNCHANGED <<device, server, reloads, overlapped>>

RefreshIdentity(o) ==
  /\ At(o, {"refresh"}, "read")
  /\ stored # None
  /\ identity' = stored.did
  /\ ops' = [ops EXCEPT ![o].at = "status", ![o].did = stored.did]
  /\ UNCHANGED <<device, server, registered, session, loading, roles, bell, polls,
                 reloads, history>>

(* getPublicIdentity in register() and login(), and again in signMessage. *)
ReadNothing(o) ==
  /\ At(o, {"register", "login"}, "read") \/ At(o, {"register", "login"}, "sign")
  /\ SeesNothing
  /\ Finish(o)
  /\ UNCHANGED <<device, server, identity, registered, session, roles, bell, polls,
                 reloads, overlapped, since>>

ReadIdentity(o) ==
  /\ At(o, {"register", "login"}, "read")
  /\ stored # None
  /\ ops' = [ops EXCEPT
       ![o].at = IF ops[o].kind = "register" THEN "sign" ELSE "challenge",
       ![o].did = stored.did]
  /\ UNCHANGED <<device, server, page, polls, reloads, history>>

(* signMessage loads the identity afresh. *)
Sign(o) ==
  /\ At(o, {"register", "login"}, "sign")
  /\ stored # None
  /\ ops' = [ops EXCEPT ![o].at = "send", ![o].key = stored.key]
  /\ UNCHANGED <<device, server, page, polls, reloads, history>>

-----------------------------------------------------------------------------
(* The backend's side of each request *)

(* Every path but these needs an open session. *)
PublicPaths == {"/identity/did", "/auth/challenge", "/auth/verify", "/verify"}
Admitted(path) == path \in PublicPaths \/ cookie # None

(* A signature verifies with the public half that its DID is derived from. *)
VerifiesFor(key, did) == key = did

(* GET /verify/:did and GET /identity/me: whether they answer with a 200. *)
VerifyStatus(did) == did \in anchored
Me == Admitted("/identity/me")

Serve(o, accepted) ==
  /\ ops' = [ops EXCEPT ![o] =
       [Operation(@.kind, "answer", None, None) EXCEPT !.ok = accepted]]
  /\ UNCHANGED <<device, page, polls, reloads, letGo, overlapped>>

ServeRegister(o) ==
  /\ At(o, {"register"}, "send")
  /\ LET accepted == VerifiesFor(ops[o].key, ops[o].did) /\ ops[o].did \notin anchored IN
     /\ Serve(o, accepted)
     /\ anchored' = IF accepted THEN anchored \cup {ops[o].did} ELSE anchored
  /\ UNCHANGED <<cookie, since>>

ServeChallenge(o) ==
  /\ At(o, {"login"}, "challenge")
  /\ GoTo(o, "sign")
  /\ UNCHANGED <<device, server, page, polls, reloads, history>>

ServeLogin(o) ==
  /\ At(o, {"login"}, "send")
  /\ LET accepted == VerifiesFor(ops[o].key, ops[o].did) /\ ops[o].did \in anchored IN
     /\ Serve(o, accepted)
     /\ SetCookie(IF accepted THEN ops[o].did ELSE cookie)
  /\ UNCHANGED anchored

ServeLogout(o) ==
  /\ At(o, {"logout"}, "send") /\ Admitted("/auth/logout")
  /\ Serve(o, TRUE)
  /\ SetCookie(None)
  /\ UNCHANGED anchored

SessionEnds ==
  /\ cookie # None
  /\ SetCookie(None)
  /\ UNCHANGED <<device, anchored, page, ops, polls, reloads, letGo, overlapped>>

-----------------------------------------------------------------------------
(* Answers.  Any request may also fail, before or after it was served. *)

StatusAnswer(o) ==
  /\ At(o, {"refresh"}, "status")
  /\ \E ok \in {VerifyStatus(ops[o].did), FALSE} :
       /\ registered' = ok
       /\ roles' = IF ok THEN ops[o].did ELSE None
  /\ ops' = [ops EXCEPT ![o] = Operation("refresh", "me", None, None)]
  /\ UNCHANGED <<device, server, identity, session, loading, bell, polls, reloads, history>>

MeAnswer(o) ==
  /\ At(o, {"refresh"}, "me")
  /\ \E ok \in {Me, FALSE} : SetSession(ok)
  /\ Finish(o)
  /\ UNCHANGED <<device, server, identity, registered, roles, reloads, letGo, overlapped>>

RegisterAnswer(o) ==
  /\ At(o, {"register"}, "answer") /\ ops[o].ok
  /\ registered' = TRUE
  /\ Finish(o)
  /\ UNCHANGED <<device, server, identity, session, roles, bell, polls, reloads, history>>

LoginAnswer(o) ==
  /\ At(o, {"login"}, "answer") /\ ops[o].ok
  /\ SetSession(TRUE)
  /\ Finish(o)
  /\ UNCHANGED <<device, server, identity, registered, roles, reloads, letGo, overlapped>>

(* Whether the backend could be reached makes no difference. *)
LogoutAnswer(o) ==
  /\ At(o, {"logout"}, "send") \/ At(o, {"logout"}, "answer")
  /\ SetSession(FALSE)
  /\ Finish(o)
  /\ UNCHANGED <<device, server, identity, registered, roles, reloads, letGo, overlapped>>

(* An await of the operation throws. *)
Fail(o) ==
  /\ ops[o] # None /\ ops[o].kind \notin {"refresh", "logout"}
  /\ Finish(o)
  /\ UNCHANGED <<device, server, identity, registered, session, roles, bell, polls,
                 reloads, history>>

-----------------------------------------------------------------------------
(* The notification bell *)

StartPoll(p) ==
  /\ session /\ polls[p] = None
  /\ polls' = [polls EXCEPT ![p] = [live |-> TRUE, did |-> None]]
  /\ UNCHANGED <<device, server, page, ops, reloads, history>>

ServePoll(p) ==
  /\ polls[p] # None /\ polls[p].did = None /\ Admitted("/notifications")
  /\ polls' = [polls EXCEPT ![p].did = cookie]
  /\ UNCHANGED <<device, server, page, ops, reloads, history>>

(* Faulty: an answer is listed although the effect was cleaned up. *)
Answered(p) == polls[p].did # None

Listed(p) == polls[p].live /\ polls[p].did # None

(* The answer, or none: then the list stays as it was. *)
EndPoll(p) ==
  /\ polls[p] # None
  /\ polls' = [polls EXCEPT ![p] = None]
  /\ bell' \in {bell} \cup IF Listed(p) THEN {polls[p].did} ELSE {}
  /\ UNCHANGED <<device, server, identity, registered, session, loading, roles, ops,
                 reloads, history>>

-----------------------------------------------------------------------------
(* The page is loaded again: what was under way is dropped. *)
Reload ==
  /\ reloads < MaxReloads
  /\ reloads' = reloads + 1
  /\ identity' = None /\ registered' = FALSE /\ session' = FALSE /\ loading' = TRUE
  /\ roles' = None /\ bell' = None
  /\ ops' = Mounted
  /\ polls' = [p \in Poll |-> None]
  /\ letGo' = FALSE /\ overlapped' = FALSE /\ since' = {}
  /\ UNCHANGED <<device, server>>

(* What the page goes on with by itself once an operation has begun. *)
Step(o) ==
  \/ Create(o) \/ Restore(o) \/ Forget(o)
  \/ RefreshNothing(o) \/ RefreshIdentity(o) \/ ReadNothing(o) \/ ReadIdentity(o)
  \/ Sign(o)
  \/ ServeRegister(o) \/ ServeChallenge(o)
  \/ ServeLogin(o) \/ ServeLogout(o)
  \/ StatusAnswer(o) \/ MeAnswer(o) \/ RegisterAnswer(o) \/ LoginAnswer(o)
  \/ LogoutAnswer(o) \/ Fail(o)

Click(o) ==
  \/ ClickCreate(o) \/ ClickRestore(o) \/ ClickRegister(o)
  \/ ClickLogin(o) \/ ClickLogout(o) \/ ClickForget(o)

Next ==
  \/ \E o \in Op : Step(o) \/ Click(o)
  \/ \E p \in Poll : StartPoll(p) \/ ServePoll(p) \/ EndPoll(p)
  \/ SessionEnds
  \/ Reload

Spec == Init /\ [][Next]_vars

-----------------------------------------------------------------------------
(***************************************************************************)
(* The gate says "anchored" only of the shown identity, and only when the  *)
(* ledger has it, as long as nothing overlapped an operation that may      *)
(* change the identity: each one leaves the flag right for the next, and   *)
(* registering, signing in and out and the answers of a refresh may        *)
(* overlap, answer late and fail in any order.                             *)
(***************************************************************************)
RegisteredIsAnchored ==
  ~overlapped /\ registered => identity # None /\ identity \in anchored

(***************************************************************************)
(* The bell lists only what was fetched with a cookie that the page has    *)
(* held since it last became signed in: an answer that was on its way when *)
(* the citizen signed out, or forgot the identity, is not shown to whoever *)
(* signs in next (NotificationBell's cancelled flag).                      *)
(***************************************************************************)
BellIsOfThisSession == bell # None => session /\ bell \in since

(***************************************************************************)
(* Until the citizen lets go of the identity, no registration of this page *)
(* anchors a DID that can never be used again: whatever else is under way  *)
(* between reading the identity, signing and the request, the key of a DID *)
(* that becomes anchored is still in the store or in a backup.             *)
(***************************************************************************)
Held == backups \cup (IF stored = None THEN {} ELSE {stored.key})

AnchorsOnlyHeldKeys ==
  [][~letGo => anchored' \ anchored \subseteq Held]_vars

(***************************************************************************)
(* An identity is replaced only by someone who let go of it: until a       *)
(* forget is confirmed or a read of the store fails, nothing the page      *)
(* offers overwrites the key, which no server holds.                       *)
(***************************************************************************)
KeyIsNotOverwritten ==
  [][stored # None /\ ~letGo => stored' = stored]_vars
=============================================================================
