----------------------------- MODULE VaultProofs -----------------------------
(***************************************************************************)
(* Theorems about the vault, for every set of users, browsers, sessions,   *)
(* keys, accounts, devices and requests, and every mix of routes.          *)
(***************************************************************************)
EXTENDS VaultProperties, TLAPS

-----------------------------------------------------------------------------
(* Type correctness.  A handler uses what an earlier step of it has put in *)
(* the request's record, so the types alone are not inductive: RequestOK   *)
(* says which fields are filled in at which point of a handler.            *)

HoldsRow == {"setupDone", "verify", "snapshot", "commit", "changed"}

PastGuard == GuardedOps \cup {"snapshot", "commit", "changed", "apply"}

RequestOK(q) ==
    /\ q \in RequestState
    /\ q.pc # "idle" => q.sid \in Sid /\ q.browser \in Browser
    /\ q.pc \in HoldsRow => q.rowKey \in Key /\ q.minutes \in Minutes
    /\ q.pc \in PastGuard => q.user \in User /\ q.key \in Key
    /\ q.pc = "setupDone" => q.user \in User
    /\ q.pc \in {"commit", "changed"} => q.newKey \in Key
    /\ q.pc = "apply" => q.minutes \in Minutes

TablesOK ==
    /\ users \in [User -> UserRow]
    /\ accounts \in [Account -> AccountRow \cup {NoAccount}]
    /\ created \subseteq Account
    /\ devices \in [Device -> DeviceRow \cup {NoDevice}]
    /\ keyOwner \in [Key -> User \cup {None}]

RequestsOK == reqs \in [Request -> RequestState] /\ \A r \in Request : RequestOK(reqs[r])

TypeInv == KeyStoreTypeOK /\ SessionsTypeOK /\ TablesOK /\ RequestsOK

(* The idle request has every field empty. *)
LEMMA IdleRequestOK == RequestOK(IdleRequest)
<1>1. NewSession \in Session
    BY DEF NewSession, Session
<1>2. NoSnapshot \in [Account -> Ciphertext \cup {NoCiphertext}]
    BY DEF NoSnapshot
<1> QED
    BY <1>1, <1>2 DEF RequestOK, IdleRequest, RequestState, HoldsRow, PastGuard, PCs, GuardedOps

(* Replacing one request by a well-formed one keeps all well-formed. *)
LEMMA ReplaceRequest ==
    ASSUME RequestsOK, NEW r \in Request, NEW q, RequestOK(q),
           reqs' = [reqs EXCEPT ![r] = q]
    PROVE  RequestsOK'
<1> q \in RequestState
    BY DEF RequestOK
<1> QED
    BY DEF RequestsOK, RequestOK

(* A new copy of the session leaves the rest of the request alone. *)
LEMMA WithSessionType ==
    ASSUME RequestsOK, NEW r \in Request, NEW session \in Session
    PROVE  /\ WithSession(r, session) \in RequestState
           /\ WithSession(r, session).sid = reqs[r].sid
           /\ WithSession(r, session).browser = reqs[r].browser
           /\ WithSession(r, session).key = reqs[r].key
           /\ WithSession(r, session).rowKey = reqs[r].rowKey
           /\ WithNonce(r, session) \in RequestState
           /\ WithNonce(r, session).sid = reqs[r].sid
           /\ WithNonce(r, session).browser = reqs[r].browser
           /\ WithNonce(r, session).key = reqs[r].key
           /\ WithNonce(r, session).rowKey = reqs[r].rowKey
    BY DEF RequestsOK, RequestState, WithSession, WithNonce

(* A response needs nothing but a session and a browser. *)
LEMMA RespondType ==
    ASSUME RequestsOK, NEW r \in Request, NEW q \in RequestState,
           q.sid \in Sid, q.browser \in Browser, Respond(r, q)
    PROVE  RequestsOK'
<1> DEFINE a == [q EXCEPT !.pc = "end"]
<1>1. a \in RequestState /\ a.pc = "end" /\ a.sid = q.sid /\ a.browser = q.browser
    BY DEF RequestState, PCs
<1>2. RequestOK(a)
    BY <1>1 DEF RequestOK, HoldsRow, PastGuard, GuardedOps
<1> HIDE DEF a
<1>3. reqs' = [reqs EXCEPT ![r] = a]
    BY DEF Respond, a
<1> QED
    BY <1>2, <1>3, ReplaceRequest

-----------------------------------------------------------------------------
(* The key store. *)

(* set() stores a well-formed entry. *)
LEMMA SetEntryType ==
    ASSUME KeyStoreTypeOK, NEW s \in Sid, NEW k \in Key, NEW m \in Minutes, SetEntry(s, k, m)
    PROVE  KeyStoreTypeOK'
<1>1. [key |-> k, autoLockMinutes |-> m, idle |-> 0] \in UnlockEntry
    BY IdleAssumption DEF UnlockEntry
<1> QED
    BY <1>1 DEF KeyStoreTypeOK, SetEntry

(* An entry the Map has is a real one: None is no key. *)
LEMMA EntryCases ==
    ASSUME KeyStoreTypeOK, NEW s \in Sid
    PROVE  /\ HasEntry(s) => entries[s] \in UnlockEntry
           /\ entries[s].key \in Key \cup {None}
           /\ HasEntry(s) <=> entries[s].key # None
           /\ TouchedKey(s) # None => HasEntry(s) /\ TouchedKey(s) = entries[s].key
<1>1. None \notin Key
    BY NoneAssumption
<1>2. CASE entries[s] \in UnlockEntry
    <2>1. entries[s].key \in Key /\ entries[s] # NoEntry
        BY <1>1, <1>2 DEF UnlockEntry, NoEntry
    <2> QED
        BY <1>1, <1>2, <2>1 DEF HasEntry, TouchedKey
<1>3. CASE entries[s] = NoEntry
    <2>1. entries[s].key = None
        BY <1>3 DEF NoEntry
    <2> QED
        BY <1>3, <2>1 DEF HasEntry, TouchedKey
<1> QED
    BY <1>2, <1>3 DEF KeyStoreTypeOK

(* delete(), touch() and the change of the minutes keep entries well-formed. *)
LEMMA DeleteEntryType ==
    ASSUME KeyStoreTypeOK, NEW s \in Sid, DeleteEntry(s)
    PROVE  KeyStoreTypeOK'
    BY DEF KeyStoreTypeOK, DeleteEntry

LEMMA TouchType ==
    ASSUME KeyStoreTypeOK, NEW s \in Sid, Touch(s)
    PROVE  KeyStoreTypeOK'
<1>1. CASE HasEntry(s) /\ ~Expired(s)
    <2>1. [entries[s] EXCEPT !.idle = 0] \in UnlockEntry
        BY <1>1, EntryCases, IdleAssumption DEF UnlockEntry
    <2> QED
        BY <1>1, <2>1 DEF KeyStoreTypeOK, Touch
<1>2. CASE ~(HasEntry(s) /\ ~Expired(s))
    BY <1>2 DEF KeyStoreTypeOK, Touch
<1> QED
    BY <1>1, <1>2

LEMMA UpdateEntryMinutesType ==
    ASSUME KeyStoreTypeOK, NEW s \in Sid, NEW m \in Minutes, UpdateEntryMinutes(s, m)
    PROVE  KeyStoreTypeOK'
<1>1. CASE HasEntry(s)
    <2>1. [entries[s] EXCEPT !.autoLockMinutes = m] \in UnlockEntry
        BY <1>1, EntryCases DEF UnlockEntry
    <2> QED
        BY <1>1, <2>1 DEF KeyStoreTypeOK, UpdateEntryMinutes
<1>2. CASE ~HasEntry(s)
    BY <1>2 DEF KeyStoreTypeOK, UpdateEntryMinutes
<1> QED
    BY <1>1, <1>2

LEMMA AgeType ==
    ASSUME KeyStoreTypeOK, Age
    PROVE  KeyStoreTypeOK'
<1> SUFFICES ASSUME NEW s \in Sid
             PROVE  entries'[s] \in UnlockEntry \cup {NoEntry}
    BY DEF KeyStoreTypeOK, Age
<1>1. CASE HasEntry(s) /\ entries[s].idle < IdleCap
    <2>1. entries[s] \in UnlockEntry
        BY <1>1, EntryCases
    <2>2. entries[s].idle + 1 \in 0..IdleCap
        BY <1>1, <2>1, IdleAssumption DEF UnlockEntry
    <2>3. entries'[s] = [entries[s] EXCEPT !.idle = entries[s].idle + 1]
        BY <1>1 DEF Age
    <2> QED
        BY <2>1, <2>2, <2>3 DEF UnlockEntry
<1>2. CASE ~(HasEntry(s) /\ entries[s].idle < IdleCap)
    BY <1>2 DEF KeyStoreTypeOK, Age
<1> QED
    BY <1>1, <1>2

-----------------------------------------------------------------------------
(* The session layer. *)

(* A request in flight has a session id and a browser, and fields it has   *)
(* the type of.                                                            *)
LEMMA InFlight ==
    ASSUME RequestsOK, NEW r \in Request, reqs[r].pc # "idle"
    PROVE  /\ reqs[r] \in RequestState /\ RequestOK(reqs[r])
           /\ reqs[r].sid \in Sid /\ reqs[r].browser \in Browser
           /\ reqs[r].sess \in Session
    BY DEF RequestsOK, RequestOK, RequestState

LEMMA SaveSessionType ==
    ASSUME SessionsTypeOK, NEW s \in Sid, NEW session \in Session, SaveSession(s, session)
    PROVE  /\ rows' \in [Sid -> Session]
           /\ status' \in [Sid -> {"unused", "stored", "destroyed"}]
    BY DEF SessionsTypeOK, SaveSession

LEMMA DestroySessionType ==
    ASSUME SessionsTypeOK, NEW s \in Sid, DestroySession(s)
    PROVE  /\ rows' \in [Sid -> Session]
           /\ status' \in [Sid -> {"unused", "stored", "destroyed"}]
<1>1. NewSession \in Session
    BY DEF NewSession, Session
<1> QED
    BY <1>1 DEF SessionsTypeOK, DestroySession

-----------------------------------------------------------------------------
(* One lemma per group of actions that change the same variables. *)

(* The session middleware and the end of a response. *)
LEMMA SessionStepType ==
    ASSUME TypeInv, NEW r \in Request,
           \/ \E b \in Browser, op \in Ops : Load(r, b, op)
           \/ EndRequest(r)
           \/ SaveLost(r)
           \/ Destroy(r)
    PROVE  TypeInv'
<1> USE DEF TypeInv
<1>1. ASSUME NEW b \in Browser, NEW op \in Ops, Load(r, b, op)
      PROVE  TypeInv'
    <2>1. PICK s \in Sid :
              reqs' = [reqs EXCEPT ![r] =
                  [IdleRequest EXCEPT
                      !.op = op, !.pc = "loaded", !.browser = b, !.sid = s,
                      !.carried = CookieFound(b),
                      !.sess = IF CookieFound(b) THEN rows[s] ELSE NewSession]]
        BY <1>1 DEF Load
    <2> DEFINE q == [IdleRequest EXCEPT
                        !.op = op, !.pc = "loaded", !.browser = b, !.sid = s,
                        !.carried = CookieFound(b),
                        !.sess = IF CookieFound(b) THEN rows[s] ELSE NewSession]
    <2>2. IdleRequest \in RequestState
        BY IdleRequestOK DEF RequestOK
    <2>3. (IF CookieFound(b) THEN rows[s] ELSE NewSession) \in Session
        BY DEF SessionsTypeOK, NewSession, Session
    <2>4. op \in OpNames
        BY VaultAssumption
    <2>5. CookieFound(b) \in BOOLEAN
        BY DEF CookieFound
    <2>6. q \in RequestState /\ q.pc = "loaded" /\ q.sid = s /\ q.browser = b
        BY <2>2, <2>3, <2>4, <2>5 DEF IdleRequest, RequestState, PCs
    <2>7. RequestOK(q)
        BY <2>6 DEF RequestOK, HoldsRow, PastGuard, GuardedOps
    <2>8. RequestsOK'
        BY <2>1, <2>7, ReplaceRequest
    <2> QED
        BY <1>1, <2>8 DEF Load, KeyStoreTypeOK, SessionsTypeOK, sessionVars, TablesOK, tables
<1>2. ASSUME EndRequest(r) \/ SaveLost(r) \/ Destroy(r)
      PROVE  TypeInv'
    <2>1. /\ reqs[r].pc # "idle"
          /\ reqs' = [reqs EXCEPT ![r] = IdleRequest]
          /\ UNCHANGED <<entries, tables>>
        BY <1>2 DEF EndRequest, SaveLost, Destroy
    <2>2. RequestsOK'
        BY <2>1, IdleRequestOK, ReplaceRequest
    <2>3. KeyStoreTypeOK' /\ TablesOK'
        BY <2>1 DEF KeyStoreTypeOK, TablesOK, tables
    <2>4. cookie' \in [Browser -> Sid \cup {None}]
        BY <1>2, <2>1, InFlight DEF EndRequest, SaveLost, Destroy, SessionsTypeOK
    <2>5. /\ rows' \in [Sid -> Session]
          /\ status' \in [Sid -> {"unused", "stored", "destroyed"}]
        BY <1>2, <2>1, InFlight, SaveSessionType, DestroySessionType
        DEF EndRequest, SaveLost, Destroy, SessionsTypeOK
    <2> QED
        BY <2>2, <2>3, <2>4, <2>5 DEF SessionsTypeOK
<1> QED
    BY <1>1, <1>2

(* Handlers that answer at once and change no more than their session. *)
LEMMA AnswerType ==
    ASSUME TypeInv, NEW r \in Request,
           \/ GoogleStart(r)
           \/ \E g \in Identity : GoogleCallback(r, g)
           \/ GoogleCallbackRejected(r)
           \/ Finish(r)
           \/ IssueChallenge(r)
           \/ PasskeyRejected(r)
           \/ Reject(r)
    PROVE  TypeInv'
<1> USE DEF TypeInv
<1>1. reqs[r].pc # "idle" /\ UNCHANGED <<entries, sessionVars, tables>>
    BY DEF GoogleStart, GoogleCallback, GoogleCallbackRejected, Finish, IssueChallenge,
           PasskeyRejected, Reject, At, GuardedOps
<1>2. /\ reqs[r] \in RequestState /\ reqs[r].sess \in Session
      /\ reqs[r].sid \in Sid /\ reqs[r].browser \in Browser
    BY <1>1, InFlight
<1>3. KeyStoreTypeOK' /\ SessionsTypeOK' /\ TablesOK'
    BY <1>1 DEF KeyStoreTypeOK, SessionsTypeOK, TablesOK, sessionVars, tables
<1>4. ASSUME NEW session \in Session,
             \/ Respond(r, WithSession(r, session))
             \/ Respond(r, WithNonce(r, session))
             \/ Respond(r, reqs[r])
      PROVE  RequestsOK'
    BY <1>2, <1>4, WithSessionType, RespondType
<1>5. CASE GoogleStart(r)
    <2>1. [reqs[r].sess EXCEPT !.oauthState = TRUE] \in Session
        BY <1>2 DEF Session
    <2> QED
        BY <1>3, <1>4, <1>5, <2>1 DEF GoogleStart
<1>6. ASSUME NEW g \in Identity, GoogleCallback(r, g)
      PROVE  TypeInv'
    <2> DEFINE consumed == [reqs[r].sess EXCEPT !.oauthState = FALSE]
    <2>1. consumed \in Session
        BY <1>2 DEF Session
    <2>2. \A u \in User : [consumed EXCEPT !.userId = u, !.unlocked = "no"] \in Session
        BY <2>1 DEF Session
    <2>3. [consumed EXCEPT !.pendingGoogle = g] \in Session
        BY <2>1 DEF Session
    <2>4. \E session \in Session : Respond(r, WithSession(r, session))
        BY <1>6, <2>2, <2>3 DEF GoogleCallback
    <2> QED
        BY <1>3, <1>4, <2>4
<1>7. CASE GoogleCallbackRejected(r)
    <2>1. [reqs[r].sess EXCEPT !.oauthState = FALSE] \in Session
        BY <1>2 DEF Session
    <2> QED
        BY <1>2, <1>3, <1>4, <1>7, <2>1 DEF GoogleCallbackRejected
<1>8. CASE Finish(r) \/ Reject(r)
    BY <1>2, <1>3, <1>4, <1>8 DEF Finish, Reject
<1>9. CASE IssueChallenge(r)
    <2>1. [reqs[r].sess EXCEPT !.challenge = TRUE] \in Session
        BY <1>2 DEF Session
    <2> QED
        BY <1>3, <1>4, <1>9, <2>1 DEF IssueChallenge
<1>10. CASE PasskeyRejected(r)
    <2>1. [reqs[r].sess EXCEPT !.challenge = FALSE] \in Session
        BY <1>2 DEF Session
    <2> QED
        BY <1>3, <1>4, <1>10, <2>1 DEF PasskeyRejected
<1> QED
    BY <1>5, <1>6, <1>7, <1>8, <1>9, <1>10

(* Handlers that put a key in the key store or take one out, and answer. *)
LEMMA KeyStoreAnswerType ==
    ASSUME TypeInv, NEW r \in Request,
           \/ SetupUnlock(r) \/ UnlockSetKey(r) \/ ChangeSetKey(r)
           \/ Lock(r) \/ Me(r) \/ Refuse(r) \/ SettingsApply(r)
    PROVE  TypeInv'
<1> USE DEF TypeInv
<1>1. reqs[r].pc # "idle" /\ UNCHANGED <<sessionVars, tables>>
    BY DEF SetupUnlock, UnlockSetKey, ChangeSetKey, Lock, Me, Refuse, SettingsApply, At
<1>2. /\ reqs[r] \in RequestState /\ RequestOK(reqs[r]) /\ reqs[r].sess \in Session
      /\ reqs[r].sid \in Sid /\ reqs[r].browser \in Browser
    BY <1>1, InFlight
<1>3. SessionsTypeOK' /\ TablesOK'
    BY <1>1 DEF SessionsTypeOK, TablesOK, sessionVars, tables
<1>4. ASSUME NEW session \in Session,
             Respond(r, WithSession(r, session)) \/ Respond(r, reqs[r])
      PROVE  RequestsOK'
    BY <1>2, <1>4, WithSessionType, RespondType
<1>5. /\ [reqs[r].sess EXCEPT !.unlocked = "yes"] \in Session
      /\ [reqs[r].sess EXCEPT !.unlocked = "no"] \in Session
    BY <1>2 DEF Session
<1>6. CASE SetupUnlock(r)
    <2>1. reqs[r].rowKey \in Key /\ reqs[r].minutes \in Minutes /\ reqs[r].user \in User
        BY <1>2, <1>6 DEF SetupUnlock, At, RequestOK, HoldsRow
    <2>2. [reqs[r].sess EXCEPT !.pendingGoogle = None, !.userId = reqs[r].user,
                               !.unlocked = "yes"] \in Session
        BY <1>2, <2>1 DEF Session
    <2> QED
        BY <1>2, <1>3, <1>4, <1>6, <2>1, <2>2, SetEntryType DEF SetupUnlock
<1>7. CASE UnlockSetKey(r)
    <2>1. reqs[r].rowKey \in Key /\ reqs[r].minutes \in Minutes
        BY <1>2, <1>7 DEF UnlockSetKey, RequestOK, HoldsRow
    <2> QED
        BY <1>2, <1>3, <1>4, <1>5, <1>7, <2>1, SetEntryType DEF UnlockSetKey
<1>8. CASE ChangeSetKey(r)
    <2>1. reqs[r].newKey \in Key /\ reqs[r].minutes \in Minutes
        BY <1>2, <1>8 DEF ChangeSetKey, RequestOK, HoldsRow
    <2> QED
        BY <1>2, <1>3, <1>4, <1>5, <1>8, <2>1, SetEntryType DEF ChangeSetKey
<1>9. CASE Lock(r)
    BY <1>2, <1>3, <1>4, <1>5, <1>9, DeleteEntryType DEF Lock
<1>10. CASE Me(r)
    <2>1. RequestsOK'
        BY <1>2, <1>4, <1>5, <1>10 DEF Me
    <2>2. KeyStoreTypeOK'
        BY <1>2, <1>10, TouchType DEF Me, KeyStoreTypeOK
    <2> QED
        BY <1>3, <2>1, <2>2
<1>11. CASE Refuse(r)
    <2>1. RequestsOK'
        BY <1>2, <1>4, <1>5, <1>11 DEF Refuse
    <2>2. KeyStoreTypeOK'
        BY <1>2, <1>11, TouchType DEF Refuse, KeyStoreTypeOK
    <2> QED
        BY <1>3, <2>1, <2>2
<1>12. CASE SettingsApply(r)
    <2>1. reqs[r].minutes \in Minutes
        BY <1>2, <1>12 DEF SettingsApply, RequestOK
    <2> QED
        BY <1>2, <1>3, <1>4, <1>12, <2>1, UpdateEntryMinutesType DEF SettingsApply
<1> QED
    BY <1>6, <1>7, <1>8, <1>9, <1>10, <1>11, <1>12

(* Handlers that go on to a further step. *)
LEMMA ProceedType ==
    ASSUME TypeInv, NEW r \in Request,
           \/ UnlockReadUser(r)
           \/ Logout(r)
           \/ Admit(r)
           \/ ChangeReadUser(r)
           \/ \E k \in Key : ChangeSnapshot(r, k)
           \/ \E d \in Device : Authenticate(r, d)
    PROVE  TypeInv'
<1> USE DEF TypeInv
<1>1. reqs[r].pc # "idle" /\ UNCHANGED <<rows, status, tables>>
    BY DEF UnlockReadUser, Logout, Admit, ChangeReadUser, ChangeSnapshot, Authenticate, At,
           sessionVars
<1>2. /\ reqs[r] \in RequestState /\ RequestOK(reqs[r]) /\ reqs[r].sess \in Session
      /\ reqs[r].sid \in Sid /\ reqs[r].browser \in Browser
    BY <1>1, InFlight
<1>3. TablesOK' /\ (UNCHANGED cookie => SessionsTypeOK')
    BY <1>1 DEF SessionsTypeOK, TablesOK, tables
<1>4. UNCHANGED entries => KeyStoreTypeOK'
    BY DEF KeyStoreTypeOK
<1>5. \A u \in User : UserExists(u) => users[u].key \in Key /\ users[u].autoLockMinutes \in Minutes
    BY DEF TablesOK, UserRow, UserExists
<1>6. CASE UnlockReadUser(r)
    <2> DEFINE u == reqs[r].sess.userId
               q == [reqs[r] EXCEPT !.pc = "verify", !.user = u, !.rowKey = users[u].key,
                                    !.minutes = users[u].autoLockMinutes]
    <2>1. u \in User /\ UserExists(u)
        BY <1>2, <1>6 DEF UnlockReadUser, Session
    <2>2. q \in RequestState /\ q.pc = "verify" /\ q.sid = reqs[r].sid
          /\ q.browser = reqs[r].browser /\ q.rowKey \in Key /\ q.minutes \in Minutes
        BY <1>2, <1>5, <2>1 DEF RequestState, PCs
    <2>3. RequestOK(q)
        BY <1>2, <2>2 DEF RequestOK, HoldsRow, PastGuard, GuardedOps
    <2>4. reqs' = [reqs EXCEPT ![r] = q]
        BY <1>6 DEF UnlockReadUser
    <2>5. RequestsOK'
        BY <2>3, <2>4, ReplaceRequest
    <2> QED
        BY <1>3, <1>4, <1>6, <2>5 DEF UnlockReadUser, sessionVars
<1>7. CASE Logout(r)
    <2> DEFINE q == [reqs[r] EXCEPT !.pc = "destroy"]
    <2>1. q \in RequestState /\ q.pc = "destroy" /\ q.sid = reqs[r].sid
          /\ q.browser = reqs[r].browser
        BY <1>2 DEF RequestState, PCs
    <2>2. RequestOK(q)
        BY <1>2, <2>1 DEF RequestOK, HoldsRow, PastGuard, GuardedOps
    <2>3. reqs' = [reqs EXCEPT ![r] = q]
        BY <1>7 DEF Logout
    <2>4. RequestsOK'
        BY <2>2, <2>3, ReplaceRequest
    <2>5. SessionsTypeOK'
        BY <1>1, <1>2, <1>7 DEF Logout, SessionsTypeOK
    <2>6. KeyStoreTypeOK'
        BY <1>2, <1>7, DeleteEntryType DEF Logout
    <2> QED
        BY <1>3, <2>4, <2>5, <2>6
<1>8. CASE Admit(r)
    <2> DEFINE q == [reqs[r] EXCEPT !.pc = reqs[r].op, !.user = reqs[r].sess.userId,
                                    !.key = TouchedKey(reqs[r].sid)]
    <2>1. /\ reqs[r].sess.userId \in User
          /\ TouchedKey(reqs[r].sid) \in Key
          /\ reqs[r].op \in GuardedOps
        BY <1>2, <1>8, EntryCases DEF Admit, MayPass, Session
    <2>2. q \in RequestState /\ q.pc \in GuardedOps /\ q.sid = reqs[r].sid
          /\ q.browser = reqs[r].browser /\ q.user \in User /\ q.key \in Key
        BY <1>2, <2>1 DEF RequestState, PCs
    <2>3. RequestOK(q)
        BY <1>2, <2>2 DEF RequestOK, HoldsRow, PastGuard, GuardedOps
    <2>4. reqs' = [reqs EXCEPT ![r] = q]
        BY <1>8 DEF Admit
    <2>5. RequestsOK'
        BY <2>3, <2>4, ReplaceRequest
    <2>6. KeyStoreTypeOK'
        BY <1>2, <1>8, TouchType DEF Admit
    <2> QED
        BY <1>3, <1>8, <2>5, <2>6 DEF Admit, sessionVars
<1>9. CASE ChangeReadUser(r)
    <2> DEFINE u == reqs[r].user
               q == [reqs[r] EXCEPT !.pc = "snapshot", !.rowKey = users[u].key,
                                    !.minutes = users[u].autoLockMinutes]
    <2>1. u \in User /\ UserExists(u) /\ reqs[r].key \in Key
        BY <1>2, <1>9 DEF ChangeReadUser, RequestOK, PastGuard, GuardedOps
    <2>2. q \in RequestState /\ q.pc = "snapshot" /\ q.sid = reqs[r].sid
          /\ q.browser = reqs[r].browser /\ q.rowKey \in Key /\ q.minutes \in Minutes
          /\ q.user = u /\ q.key = reqs[r].key
        BY <1>2, <1>5, <2>1 DEF RequestState, PCs
    <2>3. RequestOK(q)
        BY <1>2, <2>1, <2>2 DEF RequestOK, HoldsRow, PastGuard, GuardedOps
    <2>4. reqs' = [reqs EXCEPT ![r] = q]
        BY <1>9 DEF ChangeReadUser
    <2>5. RequestsOK'
        BY <2>3, <2>4, ReplaceRequest
    <2> QED
        BY <1>3, <1>4, <1>9, <2>5 DEF ChangeReadUser, sessionVars
<1>10. ASSUME NEW k \in Key, ChangeSnapshot(r, k)
       PROVE  TypeInv'
    <2> DEFINE snapshot ==
                   [a \in Account |->
                       IF accounts[a].owner = reqs[r].user
                       THEN [key |-> accounts[a].key, secret |-> accounts[a].secret]
                       ELSE NoCiphertext]
               q == [reqs[r] EXCEPT !.pc = "commit", !.newKey = k, !.snapshot = snapshot]
    <2>1. /\ reqs[r].user \in User /\ reqs[r].key \in Key
          /\ reqs[r].rowKey \in Key /\ reqs[r].minutes \in Minutes
        BY <1>2, <1>10 DEF ChangeSnapshot, RequestOK, PastGuard, HoldsRow
    <2>2. ASSUME NEW a \in Account, accounts[a].owner = reqs[r].user
          PROVE  accounts[a].key \in Key /\ accounts[a].secret \in Secret
        BY <2>1, <2>2, NoneAssumption DEF TablesOK, AccountRow, NoAccount
    <2>3. snapshot \in [Account -> Ciphertext \cup {NoCiphertext}]
        BY <2>2 DEF Ciphertext
    <2> HIDE DEF snapshot
    <2>4. q \in RequestState /\ q.pc = "commit" /\ q.sid = reqs[r].sid
          /\ q.browser = reqs[r].browser /\ q.rowKey = reqs[r].rowKey
          /\ q.minutes = reqs[r].minutes
          /\ q.user = reqs[r].user /\ q.key = reqs[r].key /\ q.newKey = k
        BY <1>2, <2>3 DEF RequestState, PCs
    <2>5. RequestOK(q)
        BY <1>2, <2>1, <2>4 DEF RequestOK, HoldsRow, PastGuard, GuardedOps
    <2>6. reqs' = [reqs EXCEPT ![r] = q]
        BY <1>10 DEF ChangeSnapshot, snapshot
    <2>7. RequestsOK'
        BY <2>5, <2>6, ReplaceRequest
    <2> QED
        BY <1>3, <1>4, <1>10, <2>7 DEF ChangeSnapshot, sessionVars
<1>11. ASSUME NEW d \in Device, Authenticate(r, d)
       PROVE  TypeInv'
    <2> DEFINE session == [reqs[r].sess EXCEPT !.challenge = FALSE,
                                               !.userId = devices[d].owner]
               q == [WithSession(r, session) EXCEPT !.pc = "readUser"]
    <2>1. devices[d].owner \in User
        BY <1>11 DEF Authenticate, TablesOK, DeviceRow
    <2>2. session \in Session
        BY <1>2, <2>1 DEF Session
    <2> HIDE DEF session
    <2>3. q \in RequestState /\ q.pc = "readUser" /\ q.sid = reqs[r].sid
          /\ q.browser = reqs[r].browser
        BY <2>2, WithSessionType DEF RequestState, PCs
    <2>4. RequestOK(q)
        BY <1>2, <2>3 DEF RequestOK, HoldsRow, PastGuard, GuardedOps
    <2>5. reqs' = [reqs EXCEPT ![r] = q]
        BY <1>11 DEF Authenticate, session
    <2>6. RequestsOK'
        BY <2>4, <2>5, ReplaceRequest
    <2> QED
        BY <1>3, <1>4, <1>11, <2>6 DEF Authenticate, sessionVars
<1> QED
    BY <1>6, <1>7, <1>8, <1>9, <1>10, <1>11

(* Handlers that write a table. *)
LEMMA SetupCreateType ==
    ASSUME TypeInv, NEW r \in Request, NEW u \in User, NEW k \in Key, SetupCreate(r, u, k)
    PROVE  TypeInv'
<1> USE DEF TypeInv
<1>1. /\ reqs[r] \in RequestState /\ RequestOK(reqs[r]) /\ reqs[r].sess \in Session
      /\ reqs[r].sid \in Sid /\ reqs[r].browser \in Browser
    BY InFlight DEF SetupCreate, At
<1>2. TablesOK'
    <2>1. [googleSubId |-> reqs[r].sess.pendingGoogle, key |-> k,
           autoLockMinutes |-> DefaultMinutes] \in UserRow
        BY <1>1, VaultAssumption DEF Session, UserRow
    <2> QED
        BY <2>1 DEF SetupCreate, TablesOK
<1>3. RequestsOK'
    <2> DEFINE q == [reqs[r] EXCEPT !.pc = "setupDone", !.user = u, !.rowKey = k,
                                    !.minutes = DefaultMinutes]
    <2>1. q \in RequestState /\ q.pc = "setupDone" /\ q.sid = reqs[r].sid
          /\ q.browser = reqs[r].browser /\ q.rowKey \in Key /\ q.minutes \in Minutes
          /\ q.user \in User
        BY <1>1, VaultAssumption DEF RequestState, PCs
    <2>2. RequestOK(q)
        BY <1>1, <2>1 DEF RequestOK, HoldsRow, PastGuard, GuardedOps
    <2>3. reqs' = [reqs EXCEPT ![r] = q]
        BY DEF SetupCreate
    <2> QED
        BY <2>2, <2>3, ReplaceRequest
<1> QED
    BY <1>2, <1>3 DEF SetupCreate, KeyStoreTypeOK, SessionsTypeOK, sessionVars

LEMMA AccountWriteType ==
    ASSUME TypeInv, NEW r \in Request, NEW a \in Account,
           \/ \E slot \in Slot, secret \in Secret :
                  InsertAccount(r, a, slot, secret) \/ UpdateAccount(r, a, slot, secret)
           \/ RemoveAccount(r, a)
    PROVE  TypeInv'
<1> USE DEF TypeInv
<1>1. reqs[r].pc \in {"create", "import", "update", "remove"}
    BY DEF InsertAccount, UpdateAccount, RemoveAccount
<1>2. /\ reqs[r] \in RequestState /\ RequestOK(reqs[r])
      /\ reqs[r].sid \in Sid /\ reqs[r].browser \in Browser
    BY <1>1, InFlight
<1>3. reqs[r].user \in User /\ reqs[r].key \in Key
    BY <1>1, <1>2 DEF RequestOK, PastGuard, GuardedOps
<1>4. UNCHANGED <<entries, sessionVars, users, devices, keyOwner>>
    BY DEF InsertAccount, UpdateAccount, RemoveAccount
<1>5. ASSUME accounts' \in [Account -> AccountRow \cup {NoAccount}],
             created' \subseteq Account, RequestsOK'
      PROVE  TypeInv'
    BY <1>4, <1>5 DEF KeyStoreTypeOK, SessionsTypeOK, sessionVars, TablesOK
<1>6. ASSUME NEW slot \in Slot, NEW secret \in Secret, InsertAccount(r, a, slot, secret)
      PROVE  TypeInv'
    <2> DEFINE q == [reqs[r] EXCEPT !.pc = IF @ = "create" THEN "end" ELSE @]
    <2>1. [owner |-> reqs[r].user, slot |-> slot, key |-> reqs[r].key, secret |-> secret]
              \in AccountRow
        BY <1>3 DEF AccountRow
    <2>2. accounts' \in [Account -> AccountRow \cup {NoAccount}] /\ created' \subseteq Account
        BY <1>6, <2>1 DEF InsertAccount, TablesOK
    <2>3. q \in RequestState /\ q.pc \in {"end", "import"} /\ q.sid = reqs[r].sid
          /\ q.browser = reqs[r].browser /\ q.user = reqs[r].user /\ q.key = reqs[r].key
        BY <1>2, <1>6 DEF InsertAccount, RequestState, PCs
    <2>4. RequestOK(q)
        BY <1>2, <1>3, <2>3 DEF RequestOK, HoldsRow, PastGuard, GuardedOps
    <2>5. reqs' = [reqs EXCEPT ![r] = q]
        BY <1>6 DEF InsertAccount
    <2>6. RequestsOK'
        BY <2>4, <2>5, ReplaceRequest
    <2> QED
        BY <1>5, <2>2, <2>6
<1>7. ASSUME NEW slot \in Slot, NEW secret \in Secret, UpdateAccount(r, a, slot, secret)
      PROVE  TypeInv'
    <2>1. accounts[a] \in AccountRow
        <3>1. accounts[a].owner \in User
            BY <1>3, <1>7 DEF UpdateAccount
        <3>2. NoAccount.owner \notin User
            BY NoneAssumption DEF NoAccount
        <3> QED
            BY <3>1, <3>2 DEF TablesOK
    <2>2. /\ [accounts[a] EXCEPT !.slot = slot] \in AccountRow
          /\ [accounts[a] EXCEPT !.slot = slot, !.key = reqs[r].key, !.secret = secret]
                 \in AccountRow
        BY <1>3, <2>1 DEF AccountRow
    <2>3. accounts' \in [Account -> AccountRow \cup {NoAccount}] /\ created' \subseteq Account
        BY <1>7, <2>2 DEF UpdateAccount, TablesOK
    <2>4. RequestsOK'
        BY <1>2, <1>7, RespondType DEF UpdateAccount
    <2> QED
        BY <1>5, <2>3, <2>4
<1>8. CASE RemoveAccount(r, a)
    <2>1. accounts' \in [Account -> AccountRow \cup {NoAccount}] /\ created' \subseteq Account
        BY <1>8 DEF RemoveAccount, TablesOK
    <2>2. RequestsOK'
        BY <1>2, <1>8, RespondType DEF RemoveAccount
    <2> QED
        BY <1>5, <2>1, <2>2
<1> QED
    BY <1>6, <1>7, <1>8

LEMMA ChangeCommitType ==
    ASSUME TypeInv, NEW r \in Request, ChangeCommit(r)
    PROVE  TypeInv'
<1> USE DEF TypeInv
<1>1. /\ reqs[r] \in RequestState /\ RequestOK(reqs[r])
      /\ reqs[r].sid \in Sid /\ reqs[r].browser \in Browser /\ reqs[r].pc = "commit"
    BY InFlight DEF ChangeCommit
<1>2. /\ reqs[r].user \in User /\ reqs[r].key \in Key /\ reqs[r].newKey \in Key
      /\ reqs[r].rowKey \in Key /\ reqs[r].minutes \in Minutes
    BY <1>1 DEF RequestOK, PastGuard, HoldsRow
<1>3. accounts' \in [Account -> AccountRow \cup {NoAccount}]
    <2>1. ASSUME NEW a \in Account, a \in Listed(r)
          PROVE  [accounts[a] EXCEPT !.key = reqs[r].newKey,
                                     !.secret = reqs[r].snapshot[a].secret] \in AccountRow
        <3>1. accounts[a] \in AccountRow
            BY <2>1 DEF ChangeCommit, TablesOK
        <3>2. reqs[r].snapshot[a] \in Ciphertext
            BY <1>1, <2>1 DEF Listed, RequestState
        <3> QED
            BY <1>2, <3>1, <3>2 DEF AccountRow, Ciphertext
    <2> QED
        BY <2>1 DEF ChangeCommit, Reencrypted, TablesOK
<1>4. users' \in [User -> UserRow]
    BY <1>2 DEF ChangeCommit, TablesOK, UserRow
<1>5. devices' \in [Device -> DeviceRow \cup {NoDevice}]
    BY DEF ChangeCommit, DevicesRevoked, TablesOK
<1>6. keyOwner' \in [Key -> User \cup {None}] /\ created' \subseteq Account
    BY <1>2 DEF ChangeCommit, TablesOK
<1>7. RequestsOK'
    <2> DEFINE q == [reqs[r] EXCEPT !.pc = "changed"]
    <2>1. q \in RequestState /\ q.pc = "changed" /\ q.sid = reqs[r].sid
          /\ q.browser = reqs[r].browser /\ q.rowKey = reqs[r].rowKey
          /\ q.minutes = reqs[r].minutes /\ q.user = reqs[r].user /\ q.key = reqs[r].key
          /\ q.newKey = reqs[r].newKey
        BY <1>1 DEF RequestState, PCs
    <2>2. RequestOK(q)
        BY <1>1, <1>2, <2>1 DEF RequestOK, HoldsRow, PastGuard, GuardedOps
    <2>3. reqs' = [reqs EXCEPT ![r] = q]
        BY DEF ChangeCommit
    <2> QED
        BY <2>2, <2>3, ReplaceRequest
<1>8. KeyStoreTypeOK' /\ SessionsTypeOK'
    BY DEF ChangeCommit, KeyStoreTypeOK, SessionsTypeOK, sessionVars
<1> QED
    BY <1>3, <1>4, <1>5, <1>6, <1>7, <1>8 DEF TablesOK

LEMMA SettingsWriteType ==
    ASSUME TypeInv, NEW r \in Request, NEW m \in Minutes, SettingsWrite(r, m)
    PROVE  TypeInv'
<1> USE DEF TypeInv
<1>1. /\ reqs[r] \in RequestState /\ RequestOK(reqs[r])
      /\ reqs[r].sid \in Sid /\ reqs[r].browser \in Browser /\ reqs[r].pc = "settings"
    BY InFlight DEF SettingsWrite
<1>2. reqs[r].user \in User /\ reqs[r].key \in Key
    BY <1>1 DEF RequestOK, PastGuard, GuardedOps
<1> DEFINE q == [reqs[r] EXCEPT !.pc = "apply", !.minutes = m]
<1>3. q \in RequestState /\ q.pc = "apply" /\ q.sid = reqs[r].sid
      /\ q.browser = reqs[r].browser /\ q.user = reqs[r].user /\ q.key = reqs[r].key
      /\ q.minutes = m
    BY <1>1 DEF RequestState, PCs
<1>4. RequestOK(q)
    BY <1>1, <1>2, <1>3 DEF RequestOK, HoldsRow, PastGuard, GuardedOps
<1>5. reqs' = [reqs EXCEPT ![r] = q]
    BY DEF SettingsWrite
<1>6. RequestsOK'
    BY <1>4, <1>5, ReplaceRequest
<1>7. users' \in [User -> UserRow]
    BY <1>2 DEF SettingsWrite, TablesOK, UserRow
<1> QED
    BY <1>6, <1>7 DEF SettingsWrite, TablesOK, KeyStoreTypeOK, SessionsTypeOK, sessionVars

LEMMA DeviceWriteType ==
    ASSUME TypeInv, NEW r \in Request, NEW d \in Device,
           RegisterDevice(r, d) \/ RemoveDevice(r, d)
    PROVE  TypeInv'
<1> USE DEF TypeInv
<1>1. reqs[r].pc \in {"register", "removeDevice"}
    BY DEF RegisterDevice, RemoveDevice
<1>2. /\ reqs[r] \in RequestState /\ RequestOK(reqs[r]) /\ reqs[r].sess \in Session
      /\ reqs[r].sid \in Sid /\ reqs[r].browser \in Browser
    BY <1>1, InFlight
<1>3. reqs[r].user \in User /\ reqs[r].key \in Key
    BY <1>1, <1>2 DEF RequestOK, PastGuard, GuardedOps
<1>4. UNCHANGED <<entries, sessionVars, users, accounts, created, keyOwner>>
    BY DEF RegisterDevice, RemoveDevice
<1>5. devices' \in [Device -> DeviceRow \cup {NoDevice}]
    BY <1>3 DEF RegisterDevice, RemoveDevice, TablesOK, DeviceRow
<1>6. RequestsOK'
    <2>1. [reqs[r].sess EXCEPT !.challenge = FALSE] \in Session
        BY <1>2 DEF Session
    <2> QED
        BY <1>2, <2>1, WithSessionType, RespondType DEF RegisterDevice, RemoveDevice
<1> QED
    BY <1>4, <1>5, <1>6 DEF TablesOK, KeyStoreTypeOK, SessionsTypeOK, sessionVars

(* Restarting empties the memory, time only ages the entries. *)
LEMMA EventType ==
    ASSUME TypeInv, Restart \/ Tick
    PROVE  TypeInv'
<1> USE DEF TypeInv
<1>1. CASE Restart
    <2>1. RequestsOK'
        BY <1>1, IdleRequestOK DEF Restart, RequestsOK, RequestOK
    <2> QED
        BY <1>1, <2>1 DEF Restart, KeyStoreTypeOK, SessionsTypeOK, sessionVars, TablesOK, tables
<1>2. CASE Tick
    BY <1>2, AgeType DEF Tick, SessionsTypeOK, sessionVars, TablesOK, tables, RequestsOK, RequestOK
<1> QED
    BY <1>1, <1>2

-----------------------------------------------------------------------------

(* Every reachable state of the vault is well-typed, and every field a     *)
(* handler uses has been filled in by an earlier step of that handler, for *)
(* any interleaving of requests, restarts and lost session writes.         *)
LEMMA TypeInvInit == Init => TypeInv
<1> SUFFICES ASSUME Init PROVE TypeInv
    OBVIOUS
<1>1. KeyStoreTypeOK
    BY DEF Init, KeyStoreInit, KeyStoreTypeOK
<1>2. SessionsTypeOK
    BY DEF Init, SessionsInit, SessionsTypeOK, NewSession, Session
<1>3. TablesOK
    BY VaultAssumption DEF Init, TablesOK, NoUser, UserRow
<1>4. RequestsOK
    BY IdleRequestOK DEF Init, RequestsOK, RequestOK
<1> QED
    BY <1>1, <1>2, <1>3, <1>4 DEF TypeInv

LEMMA TypeInvNext == TypeInv /\ [Next]_vars => TypeInv'
<1> SUFFICES ASSUME TypeInv, [Next]_vars PROVE TypeInv'
    OBVIOUS
<1>1. ASSUME NEW r \in Request, AuthStep(r) PROVE TypeInv'
    BY <1>1, SessionStepType, AnswerType, KeyStoreAnswerType, ProceedType, SetupCreateType
    DEF AuthStep
<1>2. ASSUME NEW r \in Request, AccountStep(r) PROVE TypeInv'
    BY <1>2, AccountWriteType, AnswerType DEF AccountStep
<1>3. ASSUME NEW r \in Request, ChangeStep(r) PROVE TypeInv'
    BY <1>3, ProceedType, ChangeCommitType, KeyStoreAnswerType, SettingsWriteType DEF ChangeStep
<1>4. ASSUME NEW r \in Request, DeviceStep(r) PROVE TypeInv'
    BY <1>4, AnswerType, DeviceWriteType, ProceedType DEF DeviceStep
<1>5. CASE UNCHANGED vars
    BY <1>5 DEF vars, tables, TypeInv, KeyStoreTypeOK, SessionsTypeOK, TablesOK, RequestsOK, RequestOK
<1> QED
    BY <1>1, <1>2, <1>3, <1>4, <1>5, EventType DEF Next

(* Type correctness: Vault keeps TypeOK. *)
THEOREM TypeCorrect == Spec => []TypeOK
<1>1. TypeInv => TypeOK
    BY DEF TypeInv, TypeOK, TablesOK, RequestsOK
<1> QED
    BY TypeInvInit, TypeInvNext, <1>1, PTL DEF Spec

-----------------------------------------------------------------------------
(* Keys.  KeysCommitted says that entries, requests and accounts hold      *)
(* committed keys only.  Unlocking copies the key of a user row through    *)
(* the record of the request, and a change sets the key it has committed,  *)
(* so the inductive invariant adds the rows and these two fields.          *)

Committed(k) == keyOwner[k] # None

EntryKeys == \A s \in Sid : HasEntry(s) => Committed(entries[s].key)

UserKeys == \A u \in User : UserExists(u) => Committed(users[u].key)

AccountKeys == \A a \in StoredAccounts : Committed(accounts[a].key)

RequestKeys ==
    \A r \in Request :
        /\ reqs[r].key # None => Committed(reqs[r].key)
        /\ reqs[r].rowKey # None => Committed(reqs[r].rowKey)
        /\ reqs[r].pc = "changed" => Committed(reqs[r].newKey)

KeysInv == TypeInv /\ EntryKeys /\ UserKeys /\ AccountKeys /\ RequestKeys

(* A key is given to a user by a setup or by a change that commits. *)
LEMMA KeyOwnerWriters ==
    ASSUME [Next]_vars
    PROVE  \/ UNCHANGED keyOwner
           \/ \E r \in Request :
                  ChangeCommit(r) \/ \E u \in User, k \in Key : SetupCreate(r, u, k)
<1>1. ASSUME NEW r \in Request, AuthStep(r)
      PROVE  UNCHANGED keyOwner \/ \E u \in User, k \in Key : SetupCreate(r, u, k)
    BY <1>1 DEF AuthStep, Load, EndRequest, SaveLost, GoogleStart, GoogleCallback,
        GoogleCallbackRejected, SetupUnlock, UnlockReadUser, UnlockSetKey, Lock, Logout,
        Destroy, Me, Admit, Refuse, Reject, tables
<1>2. ASSUME NEW r \in Request, AccountStep(r) \/ DeviceStep(r)
      PROVE  UNCHANGED keyOwner
    BY <1>2 DEF AccountStep, DeviceStep, InsertAccount, UpdateAccount, RemoveAccount, Finish,
        IssueChallenge, RegisterDevice, RemoveDevice, Authenticate, PasskeyRejected, tables
<1>3. ASSUME NEW r \in Request, ChangeStep(r)
      PROVE  UNCHANGED keyOwner \/ ChangeCommit(r)
    BY <1>3 DEF ChangeStep, ChangeReadUser, ChangeSnapshot, ChangeSetKey, SettingsWrite,
        SettingsApply, tables
<1>4. CASE Restart \/ Tick \/ UNCHANGED vars
    BY <1>4 DEF Restart, Tick, vars, tables
<1> QED
    BY <1>1, <1>2, <1>3, <1>4 DEF Next

(* No step takes a key back: it stays committed. *)
LEMMA CommittedStays ==
    ASSUME TypeInv, [Next]_vars
    PROVE  \A k \in Key : Committed(k) => Committed(k)'
<1>1. CASE UNCHANGED keyOwner
    BY <1>1 DEF Committed
<1>2. ASSUME NEW r \in Request, NEW u \in User, NEW k \in Key, SetupCreate(r, u, k)
      PROVE  \A j \in Key : Committed(j) => Committed(j)'
    BY <1>2, NoneAssumption DEF SetupCreate, Committed, TypeInv, TablesOK
<1>3. ASSUME NEW r \in Request, ChangeCommit(r)
      PROVE  \A j \in Key : Committed(j) => Committed(j)'
    <2>1. reqs[r].user \in User /\ reqs[r].newKey \in Key
        BY <1>3 DEF ChangeCommit, TypeInv, RequestsOK, RequestOK, PastGuard
    <2> QED
        BY <1>3, <2>1, NoneAssumption DEF ChangeCommit, Committed, TypeInv, TablesOK
<1> QED
    BY <1>1, <1>2, <1>3, KeyOwnerWriters

(* One request gets committed keys, the others keep theirs. *)
LEMMA NewRequestKeys ==
    ASSUME TypeInv, RequestKeys, NEW r \in Request, NEW q,
           q.key # None => keyOwner'[q.key] # None,
           q.rowKey # None => keyOwner'[q.rowKey] # None,
           q.pc = "changed" => keyOwner'[q.newKey] # None,
           reqs' = [reqs EXCEPT ![r] = q],
           \A k \in Key : Committed(k) => Committed(k)'
    PROVE  RequestKeys'
<1> SUFFICES ASSUME NEW p \in Request
             PROVE  /\ reqs'[p].key # None => keyOwner'[reqs'[p].key] # None
                    /\ reqs'[p].rowKey # None => keyOwner'[reqs'[p].rowKey] # None
                    /\ reqs'[p].pc = "changed" => keyOwner'[reqs'[p].newKey] # None
    BY DEF RequestKeys, Committed
<1>1. CASE p = r
    BY <1>1 DEF TypeInv, RequestsOK
<1>2. CASE p # r
    <2>1. reqs'[p] = reqs[p] /\ reqs[p] \in RequestState /\ RequestOK(reqs[p])
        BY <1>2 DEF TypeInv, RequestsOK
    <2>2. reqs[p].pc = "changed" => reqs[p].newKey \in Key
        BY <2>1 DEF RequestOK
    <2> QED
        BY <2>1, <2>2 DEF RequestKeys, RequestState, Committed
<1> QED
    BY <1>1, <1>2

(* A request whose keys are those it had, or gone. *)
LEMMA SameRequestKeys ==
    ASSUME TypeInv, RequestKeys, NEW r \in Request, NEW q,
           q.key # None => q.key = reqs[r].key,
           q.rowKey # None => q.rowKey = reqs[r].rowKey,
           q.pc # "changed",
           reqs' = [reqs EXCEPT ![r] = q],
           \A k \in Key : Committed(k) => Committed(k)'
    PROVE  RequestKeys'
<1>1. reqs[r] \in RequestState
    BY DEF TypeInv, RequestsOK
<1>2. /\ q.key # None => keyOwner'[q.key] # None
      /\ q.rowKey # None => keyOwner'[q.rowKey] # None
    BY <1>1 DEF RequestKeys, RequestState, Committed
<1> QED
    BY <1>2, NewRequestKeys

(* A response keeps the keys of its request. *)
LEMMA RespondKeys ==
    ASSUME TypeInv, RequestKeys, NEW r \in Request, NEW q \in RequestState,
           q.key = reqs[r].key, q.rowKey = reqs[r].rowKey, Respond(r, q),
           \A k \in Key : Committed(k) => Committed(k)'
    PROVE  RequestKeys'
<1> DEFINE a == [q EXCEPT !.pc = "end"]
<1>1. a.key = reqs[r].key /\ a.rowKey = reqs[r].rowKey /\ a.pc = "end"
    BY DEF RequestState
<1>2. reqs' = [reqs EXCEPT ![r] = a]
    BY DEF Respond
<1> HIDE DEF a
<1> QED
    BY <1>1, <1>2, SameRequestKeys

(* Which steps write which variable. *)
LEMMA EntryWriters ==
    ASSUME [Next]_vars
    PROVE  \/ UNCHANGED entries
           \/ \E r \in Request :
                  \/ SetupUnlock(r) \/ UnlockSetKey(r) \/ ChangeSetKey(r)
                  \/ Lock(r) \/ Logout(r) \/ Me(r) \/ Admit(r) \/ Refuse(r) \/ SettingsApply(r)
           \/ Restart
           \/ Tick
<1>1. ASSUME NEW r \in Request, AuthStep(r)
      PROVE  \/ UNCHANGED entries
             \/ SetupUnlock(r) \/ UnlockSetKey(r)
             \/ Lock(r) \/ Logout(r) \/ Me(r) \/ Admit(r) \/ Refuse(r)
    BY <1>1 DEF AuthStep, Load, EndRequest, SaveLost, GoogleStart, GoogleCallback,
        GoogleCallbackRejected, SetupCreate, UnlockReadUser, Destroy, Reject
<1>2. ASSUME NEW r \in Request, AccountStep(r) \/ DeviceStep(r)
      PROVE  UNCHANGED entries
    BY <1>2 DEF AccountStep, DeviceStep, InsertAccount, UpdateAccount, RemoveAccount, Finish,
        IssueChallenge, RegisterDevice, RemoveDevice, Authenticate, PasskeyRejected
<1>3. ASSUME NEW r \in Request, ChangeStep(r)
      PROVE  UNCHANGED entries \/ ChangeSetKey(r) \/ SettingsApply(r)
    BY <1>3 DEF ChangeStep, ChangeReadUser, ChangeSnapshot, ChangeCommit, SettingsWrite
<1> QED
    BY <1>1, <1>2, <1>3 DEF Next, vars

LEMMA TableWriters ==
    ASSUME [Next]_vars
    PROVE  /\ \/ UNCHANGED users
              \/ \E r \in Request :
                     \/ \E u \in User, k \in Key : SetupCreate(r, u, k)
                     \/ \E m \in Minutes : SettingsWrite(r, m)
                     \/ ChangeCommit(r)
           /\ \/ UNCHANGED accounts
              \/ \E r \in Request :
                     \/ \E a \in Account, slot \in Slot, secret \in Secret :
                            InsertAccount(r, a, slot, secret) \/ UpdateAccount(r, a, slot, secret)
                     \/ \E a \in Account : RemoveAccount(r, a)
                     \/ ChangeCommit(r)
<1>1. ASSUME NEW r \in Request, AuthStep(r)
      PROVE  UNCHANGED accounts
             /\ (UNCHANGED users \/ \E u \in User, k \in Key : SetupCreate(r, u, k))
    BY <1>1 DEF AuthStep, Load, EndRequest, SaveLost, GoogleStart, GoogleCallback,
        GoogleCallbackRejected, SetupCreate, SetupUnlock, UnlockReadUser, UnlockSetKey, Lock,
        Logout, Destroy, Me, Admit, Refuse, Reject, tables
<1>2. ASSUME NEW r \in Request, AccountStep(r)
      PROVE  UNCHANGED users
             /\ \/ UNCHANGED accounts
                \/ \E a \in Account, slot \in Slot, secret \in Secret :
                       InsertAccount(r, a, slot, secret) \/ UpdateAccount(r, a, slot, secret)
                \/ \E a \in Account : RemoveAccount(r, a)
    BY <1>2 DEF AccountStep, InsertAccount, UpdateAccount, RemoveAccount, Finish, tables
<1>3. ASSUME NEW r \in Request, DeviceStep(r)
      PROVE  UNCHANGED <<users, accounts>>
    BY <1>3 DEF DeviceStep, IssueChallenge, RegisterDevice, RemoveDevice, Authenticate,
        PasskeyRejected, tables
<1>4. ASSUME NEW r \in Request, ChangeStep(r)
      PROVE  \/ UNCHANGED <<users, accounts>>
             \/ ChangeCommit(r)
             \/ UNCHANGED accounts /\ \E m \in Minutes : SettingsWrite(r, m)
    BY <1>4 DEF ChangeStep, ChangeReadUser, ChangeSnapshot, ChangeSetKey, SettingsWrite,
        SettingsApply, tables
<1>5. CASE Restart \/ Tick \/ UNCHANGED vars
    BY <1>5 DEF Restart, Tick, vars, tables
<1> QED
    BY <1>1, <1>2, <1>3, <1>4, <1>5 DEF Next

(* Touching, ageing or deleting entries leaves the keys of the others. *)
LEMMA EntriesKept ==
    ASSUME TypeInv, \/ UNCHANGED entries \/ Restart \/ Tick
                    \/ \E s \in Sid : DeleteEntry(s) \/ Touch(s)
                           \/ \E m \in Minutes : UpdateEntryMinutes(s, m)
    PROVE  \A s \in Sid : entries'[s].key \in {None, entries[s].key}
<1> SUFFICES ASSUME NEW s \in Sid
             PROVE  entries'[s].key \in {None, entries[s].key}
    OBVIOUS
<1>1. NoEntry.key = None
    BY DEF NoEntry
<1>2. HasEntry(s) => entries[s] \in UnlockEntry
    BY EntryCases DEF TypeInv
<1>3. CASE Restart
    BY <1>1, <1>3 DEF Restart
<1>4. CASE Tick
    BY <1>2, <1>4 DEF Tick, Age, UnlockEntry
<1>5. ASSUME NEW t \in Sid, DeleteEntry(t) \/ Touch(t)
      PROVE  entries'[s].key \in {None, entries[s].key}
    BY <1>1, <1>2, <1>5 DEF DeleteEntry, Touch, UnlockEntry, TypeInv, KeyStoreTypeOK
<1>6. ASSUME NEW t \in Sid, NEW m \in Minutes, UpdateEntryMinutes(t, m)
      PROVE  entries'[s].key \in {None, entries[s].key}
    BY <1>1, <1>2, <1>6 DEF UpdateEntryMinutes, UnlockEntry, TypeInv, KeyStoreTypeOK
<1> QED
    BY <1>3, <1>4, <1>5, <1>6

(* The entries hold committed keys. *)
LEMMA EntryKeysStep ==
    ASSUME KeysInv, [Next]_vars
    PROVE  EntryKeys'
<1> USE DEF KeysInv
<1>1. TypeInv'
    BY TypeInvNext
<1>2. \A k \in Key : Committed(k) => Committed(k)'
    BY CommittedStays
<1>3. SUFFICES ASSUME NEW s \in Sid, entries'[s].key # None
               PROVE  keyOwner'[entries'[s].key] # None
    <2>1. \A s \in Sid : HasEntry(s)' <=> entries'[s].key # None
        <3>1. NoEntry.key = None
            BY DEF NoEntry
        <3>2. \A s \in Sid : entries'[s] \in UnlockEntry \cup {NoEntry}
            BY <1>1 DEF TypeInv, KeyStoreTypeOK
        <3> QED
            BY <3>1, <3>2, NoneAssumption DEF HasEntry, UnlockEntry
    <2> QED
        BY <2>1 DEF EntryKeys, Committed
<1>4. CASE entries'[s].key = entries[s].key
    BY <1>2, <1>3, <1>4, EntryCases DEF EntryKeys, Committed, TypeInv
<1>5. ASSUME NEW t \in Sid, NEW k \in Key, NEW m \in Minutes, SetEntry(t, k, m), Committed(k)
      PROVE  keyOwner'[entries'[s].key] # None
    <2>1. CASE s = t
        BY <1>2, <1>5, <2>1 DEF SetEntry, TypeInv, KeyStoreTypeOK, Committed
    <2>2. CASE s # t
        BY <1>4, <1>5, <2>2 DEF SetEntry, TypeInv, KeyStoreTypeOK
    <2> QED
        BY <2>1, <2>2
<1>6. ASSUME NEW r \in Request, SetupUnlock(r) \/ UnlockSetKey(r)
      PROVE  keyOwner'[entries'[s].key] # None
    <2>1. reqs[r].pc \in {"setupDone", "verify"}
        BY <1>6 DEF SetupUnlock, UnlockSetKey, At
    <2>2. reqs[r].sid \in Sid /\ reqs[r].rowKey \in Key /\ reqs[r].minutes \in Minutes
        BY <2>1 DEF TypeInv, RequestsOK, RequestOK, HoldsRow
    <2>3. Committed(reqs[r].rowKey)
        BY <2>2, NoneAssumption DEF RequestKeys
    <2> QED
        BY <1>5, <1>6, <2>2, <2>3 DEF SetupUnlock, UnlockSetKey
<1>7. ASSUME NEW r \in Request, ChangeSetKey(r)
      PROVE  keyOwner'[entries'[s].key] # None
    <2>1. reqs[r].pc = "changed"
        BY <1>7 DEF ChangeSetKey
    <2>2. reqs[r].sid \in Sid /\ reqs[r].newKey \in Key /\ reqs[r].minutes \in Minutes
        BY <2>1 DEF TypeInv, RequestsOK, RequestOK, HoldsRow
    <2>3. Committed(reqs[r].newKey)
        BY <2>1 DEF RequestKeys
    <2> QED
        BY <1>5, <1>7, <2>2, <2>3 DEF ChangeSetKey
<1>8. ASSUME NEW r \in Request,
             Lock(r) \/ Logout(r) \/ Me(r) \/ Admit(r) \/ Refuse(r) \/ SettingsApply(r)
      PROVE  keyOwner'[entries'[s].key] # None
    <2>1. reqs[r].pc \in {"loaded", "apply"}
        BY <1>8 DEF Lock, Logout, Me, Admit, Refuse, SettingsApply, At
    <2>2. reqs[r].sid \in Sid
        BY <2>1, InFlight DEF TypeInv
    <2>3. reqs[r].pc = "apply" => reqs[r].minutes \in Minutes
        BY DEF TypeInv, RequestsOK, RequestOK
    <2>4. entries'[s].key \in {None, entries[s].key}
        BY <1>8, <2>2, <2>3, EntriesKept
        DEF Lock, Logout, Me, Admit, Refuse, SettingsApply
    <2> QED
        BY <1>3, <1>4, <2>4
<1>9. CASE UNCHANGED entries \/ Restart \/ Tick
    BY <1>3, <1>4, <1>9, EntriesKept
<1> QED
    BY <1>6, <1>7, <1>8, <1>9, EntryWriters

(* The user rows hold committed keys. *)
LEMMA UserKeysStep ==
    ASSUME KeysInv, [Next]_vars
    PROVE  UserKeys'
<1> USE DEF KeysInv
<1>1. \A k \in Key : Committed(k) => Committed(k)'
    BY CommittedStays
<1>2. SUFFICES ASSUME NEW u \in User, users'[u].key # None
               PROVE  keyOwner'[users'[u].key] # None
    BY DEF UserKeys, UserExists, Committed
<1>3. CASE users'[u].key = users[u].key
    BY <1>1, <1>2, <1>3 DEF UserKeys, UserExists, Committed, TypeInv, TablesOK, UserRow
<1>4. ASSUME NEW r \in Request, NEW v \in User, NEW k \in Key, SetupCreate(r, v, k)
      PROVE  keyOwner'[users'[u].key] # None
    <2>1. CASE u = v
        BY <1>4, <2>1, NoneAssumption DEF SetupCreate, TypeInv, TablesOK
    <2>2. CASE u # v
        BY <1>3, <1>4, <2>2 DEF SetupCreate, TypeInv, TablesOK
    <2> QED
        BY <2>1, <2>2
<1>5. ASSUME NEW r \in Request, NEW m \in Minutes, SettingsWrite(r, m)
      PROVE  users'[u].key = users[u].key
    BY <1>5 DEF SettingsWrite, TypeInv, TablesOK, UserRow
<1>6. ASSUME NEW r \in Request, ChangeCommit(r)
      PROVE  keyOwner'[users'[u].key] # None
    <2>1. reqs[r].user \in User /\ reqs[r].newKey \in Key
        BY <1>6 DEF ChangeCommit, TypeInv, RequestsOK, RequestOK, PastGuard
    <2>2. CASE u = reqs[r].user
        BY <1>6, <2>1, <2>2, NoneAssumption DEF ChangeCommit, TypeInv, TablesOK, UserRow
    <2>3. CASE u # reqs[r].user
        BY <1>3, <1>6, <2>3 DEF ChangeCommit, TypeInv, TablesOK
    <2> QED
        BY <2>2, <2>3
<1> QED
    BY <1>3, <1>4, <1>5, <1>6, TableWriters

(* The accounts are encrypted under committed keys. *)
LEMMA AccountKeysStep ==
    ASSUME KeysInv, [Next]_vars
    PROVE  AccountKeys'
<1> USE DEF KeysInv
<1>1. \A k \in Key : Committed(k) => Committed(k)'
    BY CommittedStays
<1>2. SUFFICES ASSUME NEW a \in Account, accounts'[a] # NoAccount
               PROVE  keyOwner'[accounts'[a].key] # None
    BY DEF AccountKeys, StoredAccounts, Committed
<1>3. CASE accounts[a] # NoAccount /\ accounts'[a].key = accounts[a].key
    BY <1>1, <1>3 DEF AccountKeys, StoredAccounts, Committed, TypeInv, TablesOK, AccountRow
<1>4. ASSUME NEW k \in Key, Committed(k), accounts'[a].key = k
      PROVE  keyOwner'[accounts'[a].key] # None
    BY <1>1, <1>4 DEF Committed
<1>5. ASSUME NEW r \in Request, reqs[r].pc \in {"create", "import", "update"}
      PROVE  reqs[r].key \in Key /\ Committed(reqs[r].key) /\ reqs[r].user \in User
    <2>1. reqs[r].key \in Key /\ reqs[r].user \in User
        BY <1>5 DEF TypeInv, RequestsOK, RequestOK, PastGuard, GuardedOps
    <2> QED
        BY <2>1, NoneAssumption DEF RequestKeys
<1>6. ASSUME NEW r \in Request, NEW b \in Account, NEW slot \in Slot, NEW secret \in Secret,
             InsertAccount(r, b, slot, secret)
      PROVE  keyOwner'[accounts'[a].key] # None
    <2>1. reqs[r].key \in Key /\ Committed(reqs[r].key)
        BY <1>5, <1>6 DEF InsertAccount
    <2>2. CASE a = b
        BY <1>4, <1>6, <2>1, <2>2 DEF InsertAccount, TypeInv, TablesOK
    <2>3. CASE a # b
        BY <1>2, <1>3, <1>6, <2>3 DEF InsertAccount, TypeInv, TablesOK
    <2> QED
        BY <2>2, <2>3
<1>7. ASSUME NEW r \in Request, NEW b \in Account, NEW slot \in Slot, NEW secret \in Secret,
             UpdateAccount(r, b, slot, secret)
      PROVE  keyOwner'[accounts'[a].key] # None
    <2>1. reqs[r].key \in Key /\ Committed(reqs[r].key) /\ reqs[r].user \in User
        BY <1>5, <1>7 DEF UpdateAccount
    <2>2. CASE a = b
        <3>1. NoAccount.owner \notin User
            BY NoneAssumption DEF NoAccount
        <3>2. accounts[a] \in AccountRow /\ accounts[a] # NoAccount
            BY <1>7, <2>1, <2>2, <3>1 DEF UpdateAccount, TypeInv, TablesOK
        <3>3. accounts'[a].key \in {accounts[a].key, reqs[r].key}
            BY <1>7, <2>2, <3>2 DEF UpdateAccount, TypeInv, TablesOK, AccountRow
        <3> QED
            BY <1>3, <1>4, <2>1, <3>2, <3>3
    <2>3. CASE a # b
        BY <1>2, <1>3, <1>7, <2>3 DEF UpdateAccount, TypeInv, TablesOK
    <2> QED
        BY <2>2, <2>3
<1>8. ASSUME NEW r \in Request, NEW b \in Account, RemoveAccount(r, b)
      PROVE  keyOwner'[accounts'[a].key] # None
    <2>1. a # b /\ accounts'[a] = accounts[a]
        BY <1>2, <1>8 DEF RemoveAccount, TypeInv, TablesOK
    <2> QED
        BY <1>2, <1>3, <2>1
<1>9. ASSUME NEW r \in Request, ChangeCommit(r)
      PROVE  keyOwner'[accounts'[a].key] # None
    <2>1. reqs[r].user \in User /\ reqs[r].newKey \in Key
        BY <1>9 DEF ChangeCommit, TypeInv, RequestsOK, RequestOK, PastGuard
    <2>2. CASE a \in Listed(r)
        <3>1. accounts[a] \in AccountRow
            BY <1>9, <2>2 DEF ChangeCommit, TypeInv, TablesOK
        <3>2. accounts'[a].key = reqs[r].newKey
            BY <1>9, <2>2, <3>1 DEF ChangeCommit, Reencrypted, AccountRow
        <3>3. keyOwner'[reqs[r].newKey] = reqs[r].user
            BY <1>9, <2>1 DEF ChangeCommit, TypeInv, TablesOK
        <3> QED
            BY <2>1, <3>2, <3>3, NoneAssumption
    <2>3. CASE a \notin Listed(r)
        BY <1>2, <1>3, <1>9, <2>3 DEF ChangeCommit, Reencrypted
    <2> QED
        BY <2>2, <2>3
<1> QED
    BY <1>2, <1>3, <1>6, <1>7, <1>8, <1>9, TableWriters

(* Every response is sent with the request's own keys. *)
LEMMA Responses ==
    ASSUME TypeInv, NEW r \in Request,
           \/ GoogleStart(r) \/ (\E g \in Identity : GoogleCallback(r, g))
           \/ GoogleCallbackRejected(r) \/ SetupUnlock(r) \/ UnlockSetKey(r) \/ Lock(r) \/ Me(r)
           \/ Refuse(r) \/ Reject(r) \/ Finish(r) \/ ChangeSetKey(r) \/ SettingsApply(r)
           \/ (\E a \in Account, slot \in Slot, secret \in Secret : UpdateAccount(r, a, slot, secret))
           \/ (\E a \in Account : RemoveAccount(r, a))
           \/ IssueChallenge(r) \/ PasskeyRejected(r)
           \/ (\E d \in Device : RegisterDevice(r, d) \/ RemoveDevice(r, d))
    PROVE  \E q \in RequestState :
               q.key = reqs[r].key /\ q.rowKey = reqs[r].rowKey /\ Respond(r, q)
<1>1. reqs[r].pc # "idle"
    BY DEF GoogleStart, GoogleCallback, GoogleCallbackRejected, SetupUnlock, UnlockSetKey, Lock,
           Me, Refuse, Reject, Finish, ChangeSetKey, SettingsApply, UpdateAccount, RemoveAccount,
           IssueChallenge, PasskeyRejected, RegisterDevice, RemoveDevice, At, GuardedOps
<1>2. /\ reqs[r] \in RequestState /\ RequestOK(reqs[r]) /\ reqs[r].sess \in Session
    BY <1>1, InFlight DEF TypeInv
<1>3. ASSUME NEW session \in Session,
             \/ Respond(r, WithSession(r, session))
             \/ Respond(r, WithNonce(r, session))
             \/ Respond(r, reqs[r])
      PROVE  \E q \in RequestState :
                 q.key = reqs[r].key /\ q.rowKey = reqs[r].rowKey /\ Respond(r, q)
    BY <1>2, <1>3, WithSessionType DEF TypeInv
<1>4. /\ \A value \in {"yes", "no"} : [reqs[r].sess EXCEPT !.unlocked = value] \in Session
      /\ \A value \in BOOLEAN : /\ [reqs[r].sess EXCEPT !.oauthState = value] \in Session
                                /\ [reqs[r].sess EXCEPT !.challenge = value] \in Session
    BY <1>2 DEF Session
<1>5. CASE GoogleStart(r) \/ GoogleCallbackRejected(r) \/ UnlockSetKey(r) \/ Lock(r) \/ Me(r)
    BY <1>2, <1>3, <1>4, <1>5
    DEF GoogleStart, GoogleCallbackRejected, UnlockSetKey, Lock, Me
<1>6. ASSUME NEW g \in Identity, GoogleCallback(r, g)
      PROVE  \E session \in Session : Respond(r, WithSession(r, session))
    <2> DEFINE consumed == [reqs[r].sess EXCEPT !.oauthState = FALSE]
    <2>1. consumed \in Session
        BY <1>4
    <2>2. \A u \in User : [consumed EXCEPT !.userId = u, !.unlocked = "no"] \in Session
        BY <2>1 DEF Session
    <2>3. [consumed EXCEPT !.pendingGoogle = g] \in Session
        BY <2>1 DEF Session
    <2> QED
        BY <1>6, <2>2, <2>3 DEF GoogleCallback
<1>7. ASSUME SetupUnlock(r)
      PROVE  \E session \in Session : Respond(r, WithSession(r, session))
    <2>1. reqs[r].user \in User
        BY <1>2, <1>7 DEF SetupUnlock, At, RequestOK
    <2>2. [reqs[r].sess EXCEPT !.pendingGoogle = None, !.userId = reqs[r].user,
                               !.unlocked = "yes"] \in Session
        BY <1>2, <2>1 DEF Session
    <2> QED
        BY <1>7, <2>2 DEF SetupUnlock
<1>8. CASE Refuse(r) \/ Reject(r) \/ Finish(r) \/ ChangeSetKey(r) \/ SettingsApply(r)
    BY <1>2, <1>3, <1>4, <1>8 DEF Refuse, Reject, Finish, ChangeSetKey, SettingsApply
<1>9. CASE \/ \E a \in Account, slot \in Slot, secret \in Secret : UpdateAccount(r, a, slot, secret)
           \/ \E a \in Account : RemoveAccount(r, a)
    BY <1>2, <1>3, <1>9 DEF UpdateAccount, RemoveAccount
<1>10. CASE \/ IssueChallenge(r) \/ PasskeyRejected(r)
            \/ \E d \in Device : RegisterDevice(r, d) \/ RemoveDevice(r, d)
    BY <1>2, <1>3, <1>4, <1>10 DEF IssueChallenge, PasskeyRejected, RegisterDevice, RemoveDevice
<1> QED
    BY <1>3, <1>5, <1>6, <1>7, <1>8, <1>9, <1>10

(* The requests hold committed keys. *)
LEMMA RequestKeysStep ==
    ASSUME KeysInv, [Next]_vars
    PROVE  RequestKeys'
<1> USE DEF KeysInv
<1>1. \A k \in Key : Committed(k) => Committed(k)'
    BY CommittedStays
<1>2. IdleRequest.key = None /\ IdleRequest.rowKey = None /\ IdleRequest.pc = "idle"
    BY DEF IdleRequest
<1>3. \A r \in Request : reqs[r] \in RequestState
    BY DEF TypeInv, RequestsOK
<1>4. ASSUME NEW r \in Request,
             \E q \in RequestState :
                 q.key = reqs[r].key /\ q.rowKey = reqs[r].rowKey /\ Respond(r, q)
      PROVE  RequestKeys'
    BY <1>1, <1>4, RespondKeys
<1>5. ASSUME NEW r \in Request, AuthStep(r)
      PROVE  RequestKeys'
    <2>1. ASSUME NEW b \in Browser, NEW op \in Ops, Load(r, b, op)
          PROVE  RequestKeys'
        <3>1. PICK s \in Sid :
                  reqs' = [reqs EXCEPT ![r] =
                      [IdleRequest EXCEPT
                          !.op = op, !.pc = "loaded", !.browser = b, !.sid = s,
                          !.carried = CookieFound(b),
                          !.sess = IF CookieFound(b) THEN rows[s] ELSE NewSession]]
            BY <2>1 DEF Load
        <3> DEFINE q == [IdleRequest EXCEPT
                            !.op = op, !.pc = "loaded", !.browser = b, !.sid = s,
                            !.carried = CookieFound(b),
                            !.sess = IF CookieFound(b) THEN rows[s] ELSE NewSession]
        <3>2. q.key = None /\ q.rowKey = None /\ q.pc = "loaded"
            BY DEF IdleRequest
        <3>3. reqs' = [reqs EXCEPT ![r] = q]
            BY <3>1
        <3> HIDE DEF q
        <3> QED
            BY <1>1, <3>2, <3>3, SameRequestKeys
    <2>2. CASE EndRequest(r) \/ SaveLost(r) \/ Destroy(r)
        <3>1. reqs' = [reqs EXCEPT ![r] = IdleRequest]
            BY <2>2 DEF EndRequest, SaveLost, Destroy
        <3> QED
            BY <1>1, <1>2, <3>1, SameRequestKeys
    <2>3. ASSUME NEW u \in User, NEW k \in Key, SetupCreate(r, u, k)
          PROVE  RequestKeys'
        <3> DEFINE q == [reqs[r] EXCEPT !.pc = "setupDone", !.user = u, !.rowKey = k,
                                        !.minutes = DefaultMinutes]
        <3>1. q.key = reqs[r].key /\ q.rowKey = k /\ q.pc = "setupDone"
            BY <1>3 DEF RequestState
        <3>2. keyOwner'[k] # None
            BY <2>3, NoneAssumption DEF SetupCreate, TypeInv, TablesOK
        <3>3. reqs[r].key # None => keyOwner'[reqs[r].key] # None
            BY <1>1, <1>3 DEF RequestKeys, RequestState, Committed
        <3>4. reqs' = [reqs EXCEPT ![r] = q]
            BY <2>3 DEF SetupCreate
        <3> HIDE DEF q
        <3> QED
            BY <1>1, <3>1, <3>2, <3>3, <3>4, NewRequestKeys
    <2>4. CASE UnlockReadUser(r)
        <3> DEFINE u == reqs[r].sess.userId
                   q == [reqs[r] EXCEPT !.pc = "verify", !.user = u, !.rowKey = users[u].key,
                                        !.minutes = users[u].autoLockMinutes]
        <3>1. q.key = reqs[r].key /\ q.rowKey = users[u].key /\ q.pc = "verify"
            BY <1>3 DEF RequestState
        <3>2. u \in User /\ UserExists(u)
            BY <1>3, <2>4 DEF UnlockReadUser, RequestState, Session
        <3>3. Committed(users[u].key) /\ users[u].key \in Key
            BY <3>2 DEF UserKeys, UserExists, TypeInv, TablesOK, UserRow
        <3>4. reqs[r].key # None => keyOwner'[reqs[r].key] # None
            BY <1>1, <1>3 DEF RequestKeys, RequestState, Committed
        <3>5. reqs' = [reqs EXCEPT ![r] = q]
            BY <2>4 DEF UnlockReadUser
        <3>6. keyOwner'[users[u].key] # None
            BY <1>1, <3>3 DEF Committed
        <3> HIDE DEF q
        <3> QED
            BY <1>1, <3>1, <3>4, <3>5, <3>6, NewRequestKeys
    <2>5. CASE Admit(r)
        <3> DEFINE k == TouchedKey(reqs[r].sid)
                   q == [reqs[r] EXCEPT !.pc = reqs[r].op, !.user = reqs[r].sess.userId,
                                        !.key = k]
        <3>1. q.key = k /\ q.rowKey = reqs[r].rowKey /\ q.pc \in GuardedOps
            BY <1>3, <2>5 DEF RequestState, Admit
        <3>2. reqs[r].sid \in Sid
            BY <2>5, InFlight DEF Admit, TypeInv
        <3>3. HasEntry(reqs[r].sid) /\ k = entries[reqs[r].sid].key /\ k \in Key
            BY <2>5, <3>2, EntryCases DEF Admit, MayPass, TypeInv
        <3>4. keyOwner'[k] # None
            BY <1>1, <3>2, <3>3 DEF EntryKeys, Committed
        <3>5. reqs[r].rowKey # None => keyOwner'[reqs[r].rowKey] # None
            BY <1>1, <1>3 DEF RequestKeys, RequestState, Committed
        <3>6. reqs' = [reqs EXCEPT ![r] = q]
            BY <2>5 DEF Admit
        <3>7. q.pc # "changed"
            BY <3>1 DEF GuardedOps
        <3> HIDE DEF q, k
        <3> QED
            BY <1>1, <3>1, <3>4, <3>5, <3>6, <3>7, NewRequestKeys
    <2>6. CASE Logout(r)
        <3> DEFINE q == [reqs[r] EXCEPT !.pc = "destroy"]
        <3>1. q.key = reqs[r].key /\ q.rowKey = reqs[r].rowKey /\ q.pc = "destroy"
            BY <1>3 DEF RequestState
        <3>2. reqs' = [reqs EXCEPT ![r] = q]
            BY <2>6 DEF Logout
        <3> HIDE DEF q
        <3> QED
            BY <1>1, <3>1, <3>2, SameRequestKeys
    <2> QED
        BY <1>4, <1>5, <2>1, <2>2, <2>3, <2>4, <2>5, <2>6, Responses DEF AuthStep
<1>6. ASSUME NEW r \in Request, AccountStep(r)
      PROVE  RequestKeys'
    <2>1. ASSUME NEW a \in Account, NEW slot \in Slot, NEW secret \in Secret,
                 InsertAccount(r, a, slot, secret)
          PROVE  RequestKeys'
        <3> DEFINE q == [reqs[r] EXCEPT !.pc = IF @ = "create" THEN "end" ELSE @]
        <3>1. q.key = reqs[r].key /\ q.rowKey = reqs[r].rowKey /\ q.pc \in {"end", "import"}
            BY <1>3, <2>1 DEF RequestState, InsertAccount
        <3>2. reqs' = [reqs EXCEPT ![r] = q]
            BY <2>1 DEF InsertAccount
        <3> HIDE DEF q
        <3> QED
            BY <1>1, <3>1, <3>2, SameRequestKeys
    <2> QED
        BY <1>4, <1>6, <2>1, Responses DEF AccountStep
<1>7. ASSUME NEW r \in Request, ChangeStep(r)
      PROVE  RequestKeys'
    <2>1. CASE ChangeReadUser(r)
        <3> DEFINE u == reqs[r].user
                   q == [reqs[r] EXCEPT !.pc = "snapshot", !.rowKey = users[u].key,
                                        !.minutes = users[u].autoLockMinutes]
        <3>1. q.key = reqs[r].key /\ q.rowKey = users[u].key /\ q.pc = "snapshot"
            BY <1>3 DEF RequestState
        <3>2. u \in User /\ UserExists(u)
            BY <2>1 DEF ChangeReadUser, TypeInv, RequestsOK, RequestOK, PastGuard, GuardedOps
        <3>3. Committed(users[u].key) /\ users[u].key \in Key
            BY <3>2 DEF UserKeys, UserExists, TypeInv, TablesOK, UserRow
        <3>4. reqs[r].key # None => keyOwner'[reqs[r].key] # None
            BY <1>1, <1>3 DEF RequestKeys, RequestState, Committed
        <3>5. reqs' = [reqs EXCEPT ![r] = q]
            BY <2>1 DEF ChangeReadUser
        <3>6. keyOwner'[users[u].key] # None
            BY <1>1, <3>3 DEF Committed
        <3> HIDE DEF q
        <3> QED
            BY <1>1, <3>1, <3>4, <3>5, <3>6, NewRequestKeys
    <2>2. ASSUME NEW k \in Key, ChangeSnapshot(r, k)
          PROVE  RequestKeys'
        <3>1. PICK snapshot :
                  reqs' = [reqs EXCEPT ![r].pc = "commit", ![r].newKey = k,
                                       ![r].snapshot = snapshot]
            BY <2>2 DEF ChangeSnapshot
        <3> DEFINE q == [reqs[r] EXCEPT !.pc = "commit", !.newKey = k, !.snapshot = snapshot]
        <3>2. q.key = reqs[r].key /\ q.rowKey = reqs[r].rowKey /\ q.pc = "commit"
            BY <1>3 DEF RequestState
        <3>3. reqs' = [reqs EXCEPT ![r] = q]
            BY <3>1
        <3> HIDE DEF q
        <3> QED
            BY <1>1, <3>2, <3>3, SameRequestKeys
    <2>3. CASE ChangeCommit(r)
        <3> DEFINE q == [reqs[r] EXCEPT !.pc = "changed"]
        <3>1. /\ q.key = reqs[r].key /\ q.rowKey = reqs[r].rowKey
              /\ q.newKey = reqs[r].newKey
            BY <1>3 DEF RequestState
        <3>2. reqs[r].user \in User /\ reqs[r].newKey \in Key
            BY <2>3 DEF ChangeCommit, TypeInv, RequestsOK, RequestOK, PastGuard
        <3>3. keyOwner'[reqs[r].newKey] # None
            BY <2>3, <3>2, NoneAssumption DEF ChangeCommit, TypeInv, TablesOK
        <3>4. /\ reqs[r].key # None => keyOwner'[reqs[r].key] # None
              /\ reqs[r].rowKey # None => keyOwner'[reqs[r].rowKey] # None
            BY <1>1, <1>3 DEF RequestKeys, RequestState, Committed
        <3>5. reqs' = [reqs EXCEPT ![r] = q]
            BY <2>3 DEF ChangeCommit
        <3> HIDE DEF q
        <3> QED
            BY <1>1, <3>1, <3>3, <3>4, <3>5, NewRequestKeys
    <2>4. ASSUME NEW m \in Minutes, SettingsWrite(r, m)
          PROVE  RequestKeys'
        <3> DEFINE q == [reqs[r] EXCEPT !.pc = "apply", !.minutes = m]
        <3>1. q.key = reqs[r].key /\ q.rowKey = reqs[r].rowKey /\ q.pc = "apply"
            BY <1>3 DEF RequestState
        <3>2. reqs' = [reqs EXCEPT ![r] = q]
            BY <2>4 DEF SettingsWrite
        <3> HIDE DEF q
        <3> QED
            BY <1>1, <3>1, <3>2, SameRequestKeys
    <2> QED
        BY <1>4, <1>7, <2>1, <2>2, <2>3, <2>4, Responses DEF ChangeStep
<1>8. ASSUME NEW r \in Request, DeviceStep(r)
      PROVE  RequestKeys'
    <2>1. ASSUME NEW d \in Device, Authenticate(r, d)
          PROVE  RequestKeys'
        <3> DEFINE session == [reqs[r].sess EXCEPT !.challenge = FALSE,
                                                   !.userId = devices[d].owner]
                   q == [WithSession(r, session) EXCEPT !.pc = "readUser"]
        <3>1. q.key = reqs[r].key /\ q.rowKey = reqs[r].rowKey /\ q.pc = "readUser"
            BY <1>3 DEF WithSession, RequestState
        <3>2. reqs' = [reqs EXCEPT ![r] = q]
            BY <2>1 DEF Authenticate
        <3> HIDE DEF q
        <3> QED
            BY <1>1, <3>1, <3>2, SameRequestKeys
    <2> QED
        BY <1>4, <1>8, <2>1, Responses DEF DeviceStep
<1>9. CASE Restart
    BY <1>2, <1>9 DEF Restart, RequestKeys
<1>10. CASE Tick \/ UNCHANGED vars
    BY <1>10 DEF Tick, tables, vars, RequestKeys, Committed
<1> QED
    BY <1>5, <1>6, <1>7, <1>8, <1>9, <1>10 DEF Next

(* No key is ever in memory, in a request or under a password that no user *)
(* row has stood for: setup and change put a key in the key store only     *)
(* after the row that makes it good is committed, and a failure or restart *)
(* in between leaves the old keys alone.                                   *)
THEOREM KeysAreCommitted == Spec => []KeysCommitted
<1>1. Init => KeysInv
    <2> SUFFICES ASSUME Init PROVE KeysInv
        OBVIOUS
    <2> QED
        BY TypeInvInit
        DEF Init, KeyStoreInit, KeysInv, EntryKeys, UserKeys, AccountKeys, RequestKeys,
            HasEntry, UserExists, NoUser, StoredAccounts, IdleRequest
<1>2. KeysInv /\ [Next]_vars => KeysInv'
    BY TypeInvNext, EntryKeysStep, UserKeysStep, AccountKeysStep, RequestKeysStep DEF KeysInv
<1>3. KeysInv => KeysCommitted
    BY DEF KeysInv, KeysCommitted, EntryKeys, AccountKeys, RequestKeys, Committed
<1> QED
    BY <1>1, <1>2, <1>3, PTL DEF Spec

-----------------------------------------------------------------------------
(* Identities.  Only a setup gives a row its Google account, and it finds  *)
(* the account in no other row; a change of the master password and the    *)
(* auto-lock setting write other columns.                                  *)

Identities == TypeInv /\ OneVaultPerIdentity

LEMMA IdentityKept ==
    ASSUME TypeInv, NEW r \in Request, NEW u \in User,
           ChangeCommit(r) \/ \E m \in Minutes : SettingsWrite(r, m)
    PROVE  users'[u].googleSubId = users[u].googleSubId
<1>1. users \in [User -> UserRow]
    BY DEF TypeInv, TablesOK
<1>2. CASE ChangeCommit(r)
    BY <1>1, <1>2 DEF ChangeCommit, UserRow
<1>3. ASSUME NEW m \in Minutes, SettingsWrite(r, m)
      PROVE  users'[u].googleSubId = users[u].googleSubId
    BY <1>1, <1>3 DEF SettingsWrite, UserRow
<1> QED
    BY <1>2, <1>3

LEMMA SetupIdentity ==
    ASSUME TypeInv, OneVaultPerIdentity,
           NEW r \in Request, NEW w \in User, NEW k \in Key, SetupCreate(r, w, k)
    PROVE  OneVaultPerIdentity'
<1> DEFINE g == reqs[r].sess.pendingGoogle
<1>1. users \in [User -> UserRow] /\ g # None
    BY DEF TypeInv, TablesOK, SetupCreate
<1>2. \A u \in User : u # w => users'[u] = users[u]
    BY <1>1 DEF SetupCreate
<1>3. users'[w].googleSubId = g
    BY <1>1 DEF SetupCreate
<1>4. \A u \in User : users[u].googleSubId # g
    BY DEF SetupCreate, IdentityInUse
<1> HIDE DEF g
<1>5. SUFFICES ASSUME NEW u \in User, NEW v \in User, u # v,
                      users'[u].googleSubId # None
               PROVE  users'[u].googleSubId # users'[v].googleSubId
    BY DEF OneVaultPerIdentity
<1>6. CASE u # w /\ v # w
    BY <1>2, <1>5, <1>6 DEF OneVaultPerIdentity
<1>7. CASE u = w \/ v = w
    BY <1>2, <1>3, <1>4, <1>5, <1>7
<1> QED
    BY <1>6, <1>7

(* Two setups, in two browsers, that both found no user for their Google   *)
(* account leave one vault: whatever is in flight, no Google account ever  *)
(* has two user rows.                                                      *)
THEOREM IdentitiesAreUnique == Spec => []OneVaultPerIdentity
<1>1. Init => Identities
    <2> SUFFICES ASSUME Init PROVE Identities
        OBVIOUS
    <2> QED
        BY TypeInvInit DEF Init, Identities, OneVaultPerIdentity, NoUser
<1>2. Identities /\ [Next]_vars => Identities'
    <2> SUFFICES ASSUME Identities, [Next]_vars PROVE Identities'
        OBVIOUS
    <2>1. TypeInv'
        BY TypeInvNext DEF Identities
    <2>2. CASE UNCHANGED users
        BY <2>1, <2>2 DEF Identities, OneVaultPerIdentity
    <2>3. ASSUME NEW r \in Request, NEW u \in User, NEW k \in Key, SetupCreate(r, u, k)
          PROVE  Identities'
        BY <2>1, <2>3, SetupIdentity DEF Identities
    <2>4. ASSUME NEW r \in Request,
                 ChangeCommit(r) \/ \E m \in Minutes : SettingsWrite(r, m)
          PROVE  Identities'
        <3>1. \A u \in User : users'[u].googleSubId = users[u].googleSubId
            BY <2>4, IdentityKept DEF Identities
        <3> QED
            BY <2>1, <3>1 DEF Identities, OneVaultPerIdentity
    <2> QED
        BY <2>2, <2>3, <2>4, TableWriters
<1>3. Identities => OneVaultPerIdentity
    BY DEF Identities
<1> QED
    BY <1>1, <1>2, <1>3, PTL DEF Spec

=============================================================================
