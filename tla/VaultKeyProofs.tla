---------------------------- MODULE VaultKeyProofs ----------------------------
(***************************************************************************)
(* The vault's main theorems.  Under SerialSessions a session and its      *)
(* requests have keys of their own user only.  Under StableKeys as well,   *)
(* every key that is in memory, in a request, or under a password or a     *)
(* passkey is the one its user's master password derives now, and the      *)
(* vault implements SecretBook.  Under SerialSessions and StableSettings   *)
(* every key in memory has its user's auto-lock time.                      *)
(***************************************************************************)
EXTENDS VaultSerialProofs

SerialInv == KnownInv /\ LoginInv

LEMMA SerialInit == Init => SerialInv
    BY KnownInit, LoginInit DEF SerialInv

LEMMA SerialNext ==
    ASSUME SerialSessions
    PROVE  SerialInv /\ [Next]_vars => SerialInv'
    BY KnownNext, LoginNext DEF SerialInv

(* In one browser a request is alone, and only its session has a key. *)
LEMMA AloneInBrowser ==
    ASSUME OneBrowser, PrivateInv, NEW r \in Request, Active(r)
    PROVE  /\ \A q \in Request : Active(q) => q = r
           /\ reqs[r].carried /\ reqs[r].pc # "destroy" =>
                  \A s \in Sid : HasEntry(s) => s = reqs[r].sid
<1>1. \A q \in Request : Active(q) => reqs[q].browser \in Browser
    BY InFlight DEF Active, PrivateInv, TypeInv
<1>2. \A q \in Request : Active(q) => q = r
    BY <1>1 DEF OneBrowser, PrivateInv, OneCall
<1>3. ASSUME reqs[r].carried, reqs[r].pc # "destroy", NEW s \in Sid, HasEntry(s)
      PROVE  s = reqs[r].sid
    <2>1. PICK b \in Browser : cookie[b] = s
        BY <1>3 DEF PrivateInv, StoredEntries
    <2>2. cookie[reqs[r].browser] = reqs[r].sid
        BY <1>3 DEF PrivateInv, OwnSids, OwnSid
    <2> QED
        BY <1>1, <2>1, <2>2 DEF OneBrowser
<1> QED
    BY <1>2, <1>3

LEMMA ChangeIsAlone ==
    ASSUME StableKeys, PrivateInv, NEW r \in Request,
           reqs[r].pc \in {"change", "snapshot", "commit", "changed"}
    PROVE  /\ \A q \in Request : Active(q) => q = r
           /\ \A s \in Sid : HasEntry(s) => s = reqs[r].sid
<1>1. Active(r) /\ reqs[r].op = "change" /\ reqs[r].op \in Ops
    BY DEF Active, PrivateInv, OpsOK, OpOK, GuardedOps
<1>2. reqs[r].carried
    BY <1>1 DEF PrivateInv, OwnSids, OwnSid, Acting, PCs, GuardedOps
<1> QED
    BY <1>1, <1>2, AloneInBrowser DEF StableKeys

LEMMA SettingIsAlone ==
    ASSUME StableSettings, PrivateInv, NEW r \in Request, reqs[r].pc \in {"settings", "apply"}
    PROVE  /\ \A q \in Request : Active(q) => q = r
           /\ \A s \in Sid : HasEntry(s) => s = reqs[r].sid
<1>1. Active(r) /\ reqs[r].op = "settings" /\ reqs[r].op \in Ops
    BY DEF Active, PrivateInv, OpsOK, OpOK, GuardedOps
<1>2. reqs[r].carried
    BY <1>1 DEF PrivateInv, OwnSids, OwnSid, Acting, PCs, GuardedOps
<1> QED
    BY <1>1, <1>2, AloneInBrowser DEF StableSettings

(* A user's key changes when a change of the master password commits. *)
LEMMA KeyStays ==
    ASSUME TypeInv, [Next]_vars, NEW u \in User, UserExists(u),
           \A r \in Request : ~ChangeCommit(r)
    PROVE  users'[u].key = users[u].key
<1>1. ASSUME NEW r \in Request, NEW w \in User, NEW k \in Key, SetupCreate(r, w, k)
      PROVE  w # u
    BY <1>1 DEF SetupCreate
<1> QED
    BY <1>1, UserRowWrites

LEMMA MinutesStay ==
    ASSUME TypeInv, [Next]_vars, NEW u \in User, UserExists(u),
           \A r \in Request, m \in Minutes : ~SettingsWrite(r, m)
    PROVE  users'[u].autoLockMinutes = users[u].autoLockMinutes
<1>1. ASSUME NEW r \in Request, NEW w \in User, NEW k \in Key, SetupCreate(r, w, k)
      PROVE  w # u
    BY <1>1 DEF SetupCreate
<1> QED
    BY <1>1, UserRowWrites

(* What a step that is not the request's own may do to its entry. *)
LEMMA EntryLeft ==
    ASSUME TypeInv, [Next]_vars, NEW s \in Sid, entries'[s] # NoEntry,
           \A r \in Request : UnlockStep(r) => reqs[r].sid # s
    PROVE  /\ HasEntry(s)
           /\ entries'[s].key = entries[s].key
           /\ (\A r \in Request : SettingsApply(r) => reqs[r].sid # s) =>
                  entries'[s].autoLockMinutes = entries[s].autoLockMinutes
    BY EntryWrites

(* The request a step is of is the one that changes. *)
LEMMA ActorChanges ==
    ASSUME TypeInv, NEW r \in Request, Others(r), NEW q \in Request,
           UnlockStep(q) \/ SettingsApply(q) \/ ChangeCommit(q) \/ \E m \in Minutes : SettingsWrite(q, m)
    PROVE  q = r
<1>1. CASE UnlockStep(q) \/ SettingsApply(q)
    <2>1. reqs'[q].pc = "end"
        BY <1>1, SetupUnlockFields, SetKeyFields, PlainAnswers
        DEF UnlockStep, PlainAnswer, Answered
    <2>2. reqs[q].pc # "end"
        BY <1>1 DEF UnlockStep, SetupUnlock, UnlockSetKey, ChangeSetKey, SettingsApply, At
    <2> QED
        BY <2>1, <2>2 DEF Others
<1>2. CASE ChangeCommit(q)
    BY <1>2, ChangeCommitFields DEF Others, Proceeds
<1>3. ASSUME NEW m \in Minutes, SettingsWrite(q, m)
      PROVE  q = r
    BY <1>3, SettingsWriteFields DEF Others, Proceeds
<1> QED
    BY <1>1, <1>2, <1>3

(* Where the steps that keep the entries as they are start from. *)
LEMMA StartingPoints ==
    ASSUME NEW r \in Request
    PROVE  /\ PlainStep(r) => /\ reqs[r].pc # "changed"
                              /\ reqs[r].pc = "apply" => SettingsApply(r)
           /\ InsertStep(r) \/ ProceedStep(r) => reqs[r].pc \notin {"changed", "apply"}
<1>1. PlainStep(r) => /\ reqs[r].pc # "changed"
                      /\ reqs[r].pc = "apply" => SettingsApply(r)
    BY DEF PlainStep, GoogleStart, GoogleCallback, GoogleCallbackRejected, Lock,
           Me, Refuse, Reject, Finish, UpdateAccount, RemoveAccount, SettingsApply,
           IssueChallenge, PasskeyRejected, RegisterDevice, RemoveDevice, At, GuardedOps
<1>2. InsertStep(r) \/ ProceedStep(r) => reqs[r].pc \notin {"changed", "apply"}
    BY DEF InsertStep, InsertAccount, ProceedStep, SetupCreate, UnlockReadUser, Admit,
           ChangeReadUser, ChangeSnapshot, ChangeCommit, SettingsWrite, Authenticate, At, GuardedOps
<1> QED
    BY <1>1, <1>2

-----------------------------------------------------------------------------
(* Whose keys.  The key of a session, of a request, and of the user row a  *)
(* request has read belongs to the user the session is logged in as, also  *)
(* while the master password changes in other browsers: a key never        *)
(* changes hands, and a new one has none of them.                          *)

KeyOf(u) == users[u].key

OwnedKeys == \A u \in User : UserExists(u) => keyOwner[KeyOf(u)] = u

NewKeysDiffer ==
    \A q, r \in Request : q # r /\ reqs[q].pc = "commit" /\ reqs[r].pc = "commit" =>
        reqs[q].newKey # reqs[r].newKey

RowsOwnKey ==
    \A s \in Sid : rows[s].unlocked = "yes" /\ HasEntry(s) =>
        keyOwner[entries[s].key] = rows[s].userId

OwnsKey(r) ==
    /\ reqs[r].sess.unlocked = "yes" /\ HasEntry(reqs[r].sid) =>
           keyOwner[entries[reqs[r].sid].key] = reqs[r].sess.userId
    /\ reqs[r].pc \in {"verify", "setupDone"} => keyOwner[reqs[r].rowKey] = reqs[r].user
    /\ reqs[r].pc = "commit" => keyOwner[reqs[r].newKey] = None
    /\ reqs[r].pc = "changed" => keyOwner[reqs[r].newKey] = reqs[r].user
    /\ reqs[r].key # None => keyOwner[reqs[r].key] = reqs[r].user

RequestsOwnKey == \A r \in Request : Active(r) => OwnsKey(r)

OwnerInv == SerialInv /\ OwnedKeys /\ NewKeysDiffer /\ RowsOwnKey /\ RequestsOwnKey

LEMMA CommitPoints ==
    ASSUME TypeInv, [Next]_vars, NEW q \in Request, reqs'[q].pc = "commit", reqs'[q] # reqs[q]
    PROVE  \E k \in Key : ChangeSnapshot(q, k)
<1>1. ASSUME NEW r \in Request, Others(r), reqs'[r].pc # "commit"
      PROVE  FALSE
    BY <1>1 DEF Others
<1>2. ASSUME NEW r \in Request, \E b \in Browser, op \in Ops : Load(r, b, op)
      PROVE  FALSE
    BY <1>1, <1>2, LoadFields
<1>3. ASSUME NEW r \in Request, Closing(r) \/ Logout(r)
      PROVE  FALSE
    BY <1>1, <1>3, ClosingFields, LogoutFields DEF IdleRequest
<1>4. ASSUME NEW r \in Request, PlainStep(r) \/ UnlockStep(r) \/ InsertStep(r)
      PROVE  FALSE
    <2>1. Continues(r) /\ (reqs'[r].pc = "end" \/ reqs' = reqs)
        BY <1>4, PlainAnswers, SetupUnlockFields, SetKeyFields, InsertAccountFields
        DEF PlainStep, PlainAnswer, UnlockStep, Answered, InsertStep, Proceeds
    <2> QED
        BY <1>1, <2>1 DEF Continues
<1>5. ASSUME NEW r \in Request, ProceedStep(r)
      PROVE  \E k \in Key : ChangeSnapshot(q, k)
    <2>1. Others(r)
        BY <1>5, HandlerContinues DEF Continues
    <2>2. ASSUME NEW u \in User, NEW k \in Key, SetupCreate(r, u, k)
          PROVE  FALSE
        BY <1>1, <2>1, <2>2, SetupCreateFields DEF Proceeds
    <2>3. CASE UnlockReadUser(r) \/ Admit(r) \/ ChangeReadUser(r) \/ ChangeCommit(r)
        BY <1>1, <2>1, <2>3, UnlockReadUserFields, AdmitFields, ChangeReadUserFields,
           ChangeCommitFields
        DEF Proceeds, GuardedOps
    <2>4. ASSUME NEW k \in Key, ChangeSnapshot(r, k)
          PROVE  ChangeSnapshot(q, k)
        BY <2>1, <2>4 DEF Others
    <2>5. ASSUME NEW m \in Minutes, SettingsWrite(r, m)
          PROVE  FALSE
        BY <1>1, <2>1, <2>5, SettingsWriteFields DEF Proceeds
    <2>6. ASSUME NEW d \in Device, Authenticate(r, d)
          PROVE  FALSE
        BY <1>1, <2>1, <2>6, AuthenticateFields
    <2> QED
        BY <1>5, <2>2, <2>3, <2>4, <2>5, <2>6 DEF ProceedStep
<1>6. CASE Restart
    BY <1>6 DEF Restart, IdleRequest
<1>7. CASE Tick \/ UNCHANGED vars
    BY <1>7 DEF Tick, vars
<1> QED
    BY <1>2, <1>3, <1>4, <1>5, <1>6, <1>7, StepCases

LEMMA NewKeysDifferStep ==
    ASSUME OwnerInv, [Next]_vars
    PROVE  NewKeysDiffer'
<1> USE DEF OwnerInv, SerialInv, KnownInv
<1>1. ASSUME NEW q \in Request, NEW r \in Request, q # r, NEW k \in Key, ChangeSnapshot(q, k)
      PROVE  reqs'[q].newKey # reqs'[r].newKey
    <2>1. reqs'[q].newKey = k /\ Others(q)
        BY <1>1, ChangeSnapshotFields DEF Proceeds, Continues
    <2>2. reqs[r].newKey # k
        BY <1>1 DEF ChangeSnapshot, FreshKey
    <2> QED
        BY <1>1, <2>1, <2>2 DEF Others
<1>2. ASSUME NEW q \in Request, NEW r \in Request, q # r,
             reqs'[q].pc = "commit", reqs'[r].pc = "commit"
      PROVE  reqs'[q].newKey # reqs'[r].newKey
    <2>1. CASE reqs'[q] = reqs[q] /\ reqs'[r] = reqs[r]
        BY <1>2, <2>1 DEF NewKeysDiffer
    <2>2. CASE reqs'[q] # reqs[q]
        BY <1>1, <1>2, <2>2, CommitPoints
    <2>3. CASE reqs'[r] # reqs[r]
        BY <1>1, <1>2, <2>3, CommitPoints
    <2> QED
        BY <2>1, <2>2, <2>3
<1> QED
    BY <1>2 DEF NewKeysDiffer

(* A key never changes hands. *)
LEMMA OwnerStays ==
    ASSUME OwnerInv, [Next]_vars, NEW k \in Key, keyOwner[k] # None
    PROVE  keyOwner'[k] = keyOwner[k]
<1> USE DEF OwnerInv, SerialInv, KnownInv
<1>1. keyOwner \in [Key -> User \cup {None}]
    BY DEF TypeInv, TablesOK
<1>2. ASSUME NEW r \in Request, ChangeCommit(r)
      PROVE  keyOwner'[k] = keyOwner[k]
    <2>1. reqs[r].newKey \in Key /\ keyOwner[reqs[r].newKey] = None
        BY <1>2, ChangeCommitFields DEF RequestsOwnKey, OwnsKey, Active
    <2> QED
        BY <1>1, <1>2, <2>1 DEF ChangeCommit
<1>3. ASSUME NEW r \in Request, NEW u \in User, NEW j \in Key, SetupCreate(r, u, j)
      PROVE  keyOwner'[k] = keyOwner[k]
    BY <1>1, <1>3 DEF SetupCreate, FreshKey
<1> QED
    BY <1>2, <1>3, KeyOwnerWriters

(* The key of a change that is about to commit is nobody's. *)
LEMMA NewKeyIsFresh ==
    ASSUME OwnerInv, [Next]_vars, NEW q \in Request, reqs'[q].pc = "commit"
    PROVE  keyOwner'[reqs'[q].newKey] = None
<1> USE DEF OwnerInv, SerialInv, KnownInv
<1>1. CASE reqs'[q] # reqs[q]
    <2>1. PICK k \in Key : ChangeSnapshot(q, k)
        BY <1>1, CommitPoints
    <2> QED
        BY <2>1, ChangeSnapshotFields DEF ChangeSnapshot, FreshKey, tables
<1>2. CASE reqs'[q] = reqs[q]
    <2>1. /\ reqs[q].pc = "commit" /\ reqs[q].newKey \in Key /\ keyOwner[reqs[q].newKey] = None
          /\ keyOwner \in [Key -> User \cup {None}]
        BY <1>2 DEF RequestsOwnKey, OwnsKey, Active, TypeInv, TablesOK, RequestsOK, RequestOK
    <2>2. ASSUME NEW r \in Request, ChangeCommit(r)
          PROVE  keyOwner'[reqs[q].newKey] = None
        <3>1. reqs[r].pc = "commit" /\ reqs'[r].pc = "changed" /\ reqs[r].newKey \in Key
            BY <2>2, ChangeCommitFields DEF Proceeds
        <3>2. reqs[r].newKey # reqs[q].newKey
            BY <1>2, <2>1, <3>1 DEF NewKeysDiffer
        <3> QED
            BY <2>1, <2>2, <3>1, <3>2 DEF ChangeCommit
    <2>3. ASSUME NEW r \in Request, NEW u \in User, NEW k \in Key, SetupCreate(r, u, k)
          PROVE  keyOwner'[reqs[q].newKey] = None
        BY <2>1, <2>3 DEF SetupCreate, FreshKey
    <2> QED
        BY <1>2, <2>1, <2>2, <2>3, KeyOwnerWriters
<1> QED
    BY <1>1, <1>2

LEMMA OwnedKeysStep ==
    ASSUME OwnerInv, [Next]_vars
    PROVE  OwnedKeys'
<1> USE DEF OwnerInv, SerialInv, KnownInv
<1>1. SUFFICES ASSUME NEW u \in User, users'[u].key # None
               PROVE  keyOwner'[users'[u].key] = u
    BY DEF OwnedKeys, KeyOf, UserExists
<1>2. keyOwner \in [Key -> User \cup {None}] /\ users \in [User -> UserRow]
    BY DEF TypeInv, TablesOK
<1>3. ASSUME NEW k \in Key, NEW w \in User, keyOwner[k] = None,
             keyOwner' = [keyOwner EXCEPT ![k] = w],
             users'[w].key = k, u # w => users'[u].key = users[u].key
      PROVE  keyOwner'[users'[u].key] = u
    <2>1. CASE u = w
        BY <1>2, <1>3, <2>1
    <2>2. CASE u # w
        <3>1. keyOwner[users[u].key] = u /\ u # None /\ users[u].key \in Key
            BY <1>1, <1>2, <1>3, <2>2, NoneAssumption
            DEF OwnedKeys, KeyOf, UserExists, UserRow
        <3> QED
            BY <1>2, <1>3, <2>2, <3>1
    <2> QED
        BY <2>1, <2>2
<1>4. ASSUME NEW r \in Request, NEW w \in User, NEW k \in Key, SetupCreate(r, w, k)
      PROVE  keyOwner'[users'[u].key] = u
    BY <1>2, <1>3, <1>4 DEF SetupCreate, FreshKey
<1>5. ASSUME NEW r \in Request, ChangeCommit(r)
      PROVE  keyOwner'[users'[u].key] = u
    <2>1. reqs[r].user \in User /\ reqs[r].newKey \in Key /\ keyOwner[reqs[r].newKey] = None
        BY <1>5, ChangeCommitFields DEF RequestsOwnKey, OwnsKey, Active
    <2>2. /\ keyOwner' = [keyOwner EXCEPT ![reqs[r].newKey] = reqs[r].user]
          /\ users' = [users EXCEPT ![reqs[r].user].key = reqs[r].newKey]
        BY <1>5 DEF ChangeCommit
    <2>3. /\ users'[reqs[r].user].key = reqs[r].newKey
          /\ u # reqs[r].user => users'[u].key = users[u].key
        BY <1>2, <2>1, <2>2 DEF UserRow
    <2> QED
        BY <1>3, <2>1, <2>2, <2>3
<1>6. CASE UNCHANGED keyOwner /\ \A r \in Request : ~ChangeCommit(r)
    <2>1. ASSUME NEW r \in Request, NEW w \in User, NEW k \in Key, SetupCreate(r, w, k)
          PROVE  keyOwner'[users'[u].key] = u
        BY <1>4, <2>1
    <2>2. CASE users'[u].key = users[u].key
        BY <1>1, <1>6, <2>2 DEF OwnedKeys, KeyOf, UserExists
    <2> QED
        BY <1>6, <2>1, <2>2, UserRowWrites
<1> QED
    BY <1>4, <1>5, <1>6, KeyOwnerWriters

LEMMA RowsOwnKeyStep ==
    ASSUME OwnerInv, [Next]_vars
    PROVE  RowsOwnKey'
<1> USE DEF OwnerInv, SerialInv, KnownInv, LoginInv
<1>1. SUFFICES ASSUME NEW s \in Sid, rows'[s].unlocked = "yes", entries'[s] # NoEntry
               PROVE  keyOwner'[entries'[s].key] = rows'[s].userId
    BY DEF RowsOwnKey, HasEntry
<1>2. rows[s].unlocked = "yes" => rows[s].userId # None
    BY DEF RowsLoggedIn
<1>3. CASE \E r \in Request : UnlockStep(r) /\ reqs[r].sid = s
    <2>1. PICK r \in Request : UnlockStep(r) /\ reqs[r].sid = s
        BY <1>3
    <2>2. /\ Active(r) /\ OwnsKey(r) /\ ActsForLogin(r) /\ UNCHANGED <<rows, keyOwner>>
          /\ reqs[r].pc \in {"setupDone", "verify", "changed"}
          /\ ChangeSetKey(r) <=> reqs[r].pc = "changed"
        BY <2>1 DEF RequestsOwnKey, RequestsLoggedIn, Active, UnlockStep, SetupUnlock,
           UnlockSetKey, ChangeSetKey, At, sessionVars, tables
    <2>3. entries'[s].key = IF ChangeSetKey(r) THEN reqs[r].newKey ELSE reqs[r].rowKey
        BY <2>1 DEF UnlockStep, SetupUnlock, UnlockSetKey, ChangeSetKey, SetEntry, At, TypeInv,
           KeyStoreTypeOK
    <2>4. keyOwner'[entries'[s].key] = reqs[r].user
        BY <2>2, <2>3 DEF OwnsKey
    <2>5. rows[s].userId = reqs[r].sess.userId
        BY <1>1, <2>1, <2>2 DEF ActsForLogin, Acting, PCs
    <2>6. reqs[r].sess.userId = reqs[r].user
        BY <1>1, <1>2, <2>2, <2>5 DEF ActsForLogin, PastGuard
    <2> QED
        BY <2>2, <2>4, <2>5, <2>6
<1>4. CASE \A r \in Request : UnlockStep(r) => reqs[r].sid # s
    <2>1. HasEntry(s) /\ entries'[s].key = entries[s].key
        BY <1>1, <1>4, EntryLeft
    <2>2. entries[s].key \in Key
        BY <2>1 DEF HasEntry, TypeInv, KeyStoreTypeOK, UnlockEntry
    <2>3. CASE rows'[s] = rows[s]
        BY <1>1, <1>2, <2>1, <2>2, <2>3, OwnerStays DEF RowsOwnKey
    <2>4. ASSUME NEW r \in Request, EndRequest(r), reqs[r].sid = s, rows'[s] = reqs[r].sess
          PROVE  keyOwner'[entries'[s].key] = rows'[s].userId
        <3>1. Active(r) /\ OwnsKey(r) /\ ActsForLogin(r)
            BY <2>4 DEF EndRequest, Active, RequestsOwnKey, RequestsLoggedIn
        <3> QED
            BY <1>1, <2>1, <2>2, <2>4, <3>1, OwnerStays DEF OwnsKey, ActsForLogin
    <2>5. \/ rows'[s] = rows[s]
          \/ \E r \in Request : EndRequest(r) /\ reqs[r].sid = s /\ rows'[s] = reqs[r].sess
          \/ rows'[s] = NewSession
        BY RowWrites DEF TypeInv, SessionsTypeOK
    <2> QED
        BY <1>1, <2>3, <2>4, <2>5 DEF NewSession
<1> QED
    BY <1>3, <1>4

(* A request goes on owning its session's key, and the key it has from the *)
(* guard, as long as its copy of the session does not unlock or change     *)
(* hands.                                                                  *)
LEMMA OwnsOn ==
    ASSUME OwnerInv, [Next]_vars, NEW r \in Request, Active(r),
           reqs'[r].sid = reqs[r].sid,
           \A q \in Request : UnlockStep(q) => reqs[q].sid # reqs[r].sid,
           reqs'[r].sess.unlocked = "yes" => SameLogin(reqs'[r].sess, reqs[r].sess),
           reqs'[r].pc \in {"verify", "setupDone"} => keyOwner'[reqs'[r].rowKey] = reqs'[r].user,
           reqs'[r].pc = "changed" => keyOwner'[reqs'[r].newKey] = reqs'[r].user,
           \/ reqs'[r].key = reqs[r].key /\ (reqs[r].key # None => reqs'[r].user = reqs[r].user)
           \/ keyOwner'[reqs'[r].key] = reqs'[r].user
    PROVE  OwnsKey(r)'
<1> USE DEF OwnerInv, SerialInv, KnownInv, LoginInv
<1>1. OwnsKey(r) /\ ActsForLogin(r) /\ reqs[r].sid \in Sid /\ reqs[r] \in RequestState
    BY InFlight DEF RequestsOwnKey, RequestsLoggedIn, Active, TypeInv
<1>2. reqs'[r].sess.unlocked = "yes" /\ entries'[reqs'[r].sid] # NoEntry =>
          keyOwner'[entries'[reqs'[r].sid].key] = reqs'[r].sess.userId
    <2>1. entries'[reqs[r].sid] # NoEntry =>
              HasEntry(reqs[r].sid) /\ entries'[reqs[r].sid].key = entries[reqs[r].sid].key
        BY <1>1, EntryLeft
    <2>2. HasEntry(reqs[r].sid) => entries[reqs[r].sid].key \in Key
        BY <1>1 DEF HasEntry, TypeInv, KeyStoreTypeOK, UnlockEntry
    <2> QED
        BY <1>1, <2>1, <2>2, OwnerStays DEF OwnsKey, ActsForLogin, SameLogin
<1>3. reqs[r].key # None => keyOwner'[reqs[r].key] = reqs[r].user
    <2>1. reqs[r].key # None => reqs[r].key \in Key /\ reqs[r].user # None
        BY <1>1 DEF RequestState, PrivateInv, OpsOK, OpOK
    <2> QED
        BY <1>1, <2>1, OwnerStays DEF OwnsKey
<1>4. reqs'[r].pc = "commit" => keyOwner'[reqs'[r].newKey] = None
    BY NewKeyIsFresh
<1>5. reqs'[r].key # None => keyOwner'[reqs'[r].key] = reqs'[r].user
    BY <1>3
<1> QED
    BY <1>2, <1>4, <1>5 DEF OwnsKey, HasEntry

LEMMA OthersOwnKey ==
    ASSUME OwnerInv, [Next]_vars, NEW q \in Request, Active(q), reqs'[q] = reqs[q]
    PROVE  OwnsKey(q)'
<1> USE DEF OwnerInv, SerialInv, KnownInv, LoginInv
<1>1. OwnsKey(q) /\ RequestOK(reqs[q])
    BY DEF RequestsOwnKey, TypeInv, RequestsOK
<1>2. \A r \in Request : UnlockStep(r) => reqs[r].sid # reqs[q].sid
    BY OthersKeepOff
<1>3. reqs[q].pc \in {"verify", "setupDone"} => keyOwner'[reqs[q].rowKey] = reqs[q].user
    <2>1. reqs[q].pc \in {"verify", "setupDone"} =>
              reqs[q].rowKey \in Key /\ reqs[q].user \in User
        BY <1>1 DEF RequestOK, HoldsRow, RequestsLoggedIn, ActsForLogin
    <2> QED
        BY <1>1, <2>1, OwnerStays, NoneAssumption DEF OwnsKey
<1>4. reqs[q].pc = "changed" => keyOwner'[reqs[q].newKey] = reqs[q].user
    <2>1. reqs[q].pc = "changed" => reqs[q].newKey \in Key /\ reqs[q].user \in User
        BY <1>1 DEF RequestOK, PastGuard
    <2> QED
        BY <1>1, <2>1, OwnerStays, NoneAssumption DEF OwnsKey
<1> QED
    BY <1>2, <1>3, <1>4, OwnsOn DEF SameLogin

LEMMA AnsweredOwnsKey ==
    ASSUME OwnerInv, [Next]_vars, NEW r \in Request, PlainStep(r) \/ InsertStep(r),
           ~UnlockStep(r)
    PROVE  OwnsKey(r)'
<1> USE DEF OwnerInv, SerialInv, KnownInv
<1>1. /\ Continues(r) /\ Active(r)
      /\ reqs'[r].key = reqs[r].key /\ reqs'[r].user = reqs[r].user
      /\ reqs'[r].sess.unlocked = "yes" => SameLogin(reqs'[r].sess, reqs[r].sess)
    <2>1. CASE PlainStep(r)
        BY <2>1, PlainAnswers DEF PlainStep, PlainAnswer, Answered, Continues, Active
    <2>2. CASE InsertStep(r)
        BY <2>2, InsertAccountFields DEF InsertStep, Continues, Active, SameLogin
    <2> QED
        BY <2>1, <2>2
<1>2. reqs'[r].pc \notin {"verify", "setupDone", "changed"}
    <2>1. CASE PlainStep(r)
        BY <2>1, PlainAnswers DEF PlainStep, PlainAnswer, Answered
    <2>2. CASE InsertStep(r)
        BY <2>2, InsertAccountFields DEF InsertStep, Proceeds
    <2> QED
        BY <2>1, <2>2
<1>3. \A q \in Request : UnlockStep(q) => reqs[q].sid # reqs[r].sid
    BY <1>1, ActorChanges DEF Continues
<1> QED
    BY <1>1, <1>2, <1>3, OwnsOn DEF Continues

LEMMA UnlockedOwnsKey ==
    ASSUME OwnerInv, [Next]_vars, NEW r \in Request, UnlockStep(r)
    PROVE  OwnsKey(r)'
<1> USE DEF OwnerInv, SerialInv, KnownInv, LoginInv
<1>1. /\ Active(r) /\ OwnsKey(r) /\ ActsForLogin(r) /\ UNCHANGED keyOwner
      /\ reqs[r].pc \in {"setupDone", "verify", "changed"} /\ reqs[r].sid \in Sid
      /\ ChangeSetKey(r) <=> reqs[r].pc = "changed"
      /\ SetupUnlock(r) <=> reqs[r].pc = "setupDone"
    BY InFlight
    DEF RequestsOwnKey, RequestsLoggedIn, Active, TypeInv, UnlockStep, SetupUnlock, UnlockSetKey,
        ChangeSetKey, At, tables
<1>2. PICK session :
          /\ Answered(r, session)
          /\ session.userId = IF SetupUnlock(r) THEN reqs[r].user ELSE reqs[r].sess.userId
    BY SetupUnlockFields, SetKeyFields DEF UnlockStep
<1>3. session.userId = reqs[r].user
    BY <1>1, <1>2 DEF ActsForLogin, PastGuard
<1>4. entries'[reqs[r].sid].key = IF ChangeSetKey(r) THEN reqs[r].newKey ELSE reqs[r].rowKey
    BY <1>1 DEF UnlockStep, SetupUnlock, UnlockSetKey, ChangeSetKey, SetEntry, At, TypeInv,
        KeyStoreTypeOK
<1>5. keyOwner'[entries'[reqs[r].sid].key] = reqs[r].user
    BY <1>1, <1>4 DEF OwnsKey
<1>6. /\ reqs'[r].pc = "end" /\ reqs'[r].sid = reqs[r].sid /\ reqs'[r].sess.userId = reqs[r].user
      /\ reqs'[r].key = reqs[r].key /\ reqs'[r].user = reqs[r].user
    BY <1>2, <1>3 DEF Answered, Continues
<1> QED
    BY <1>1, <1>5, <1>6 DEF OwnsKey, HasEntry

LEMMA ProceedOwnsKey ==
    ASSUME SerialSessions, OwnerInv, [Next]_vars, NEW r \in Request, ProceedStep(r), ~UnlockStep(r)
    PROVE  OwnsKey(r)'
<1> USE DEF OwnerInv, SerialInv, KnownInv, LoginInv
<1>1. /\ Continues(r) /\ Active(r) /\ OwnsKey(r) /\ ActsForLogin(r)
      /\ reqs[r].sid \in Sid /\ reqs[r].sess \in Session
    BY HandlerContinues, InFlight
    DEF Active, Continues, RequestsOwnKey, RequestsLoggedIn, TypeInv
<1>2. \A q \in Request : UnlockStep(q) => reqs[q].sid # reqs[r].sid
    BY <1>1, ActorChanges DEF Continues
<1>3. ASSUME NEW pc, Proceeds(r, pc),
             pc \in {"verify", "setupDone"} => keyOwner'[reqs'[r].rowKey] = reqs'[r].user,
             pc = "changed" => keyOwner'[reqs'[r].newKey] = reqs'[r].user,
             \/ reqs'[r].key = reqs[r].key /\ (reqs[r].key # None => reqs'[r].user = reqs[r].user)
             \/ keyOwner'[reqs'[r].key] = reqs'[r].user
      PROVE  OwnsKey(r)'
    BY <1>1, <1>2, <1>3, OwnsOn DEF Proceeds, Continues, SameLogin
<1>4. reqs[r].pc \in {"loaded", "readUser"} => reqs[r].key = None
    BY DEF PrivateInv, OpsOK, OpOK
<1>5. ASSUME NEW u \in User, NEW k \in Key, SetupCreate(r, u, k)
      PROVE  OwnsKey(r)'
    <2>1. keyOwner'[k] = u
        BY <1>5 DEF SetupCreate, TypeInv, TablesOK
    <2> QED
        BY <1>3, <1>4, <1>5, <2>1, SetupCreateFields
<1>6. CASE UnlockReadUser(r)
    <2>1. reqs[r].pc \in {"loaded", "readUser"} /\ UNCHANGED keyOwner
        BY <1>6 DEF UnlockReadUser, At, tables
    <2> QED
        BY <1>3, <1>4, <1>6, <2>1, UnlockReadUserFields DEF OwnedKeys, KeyOf
<1>7. CASE Admit(r)
    <2>1. UNCHANGED keyOwner
        BY <1>7 DEF Admit, tables
    <2> QED
        BY <1>1, <1>3, <1>7, <2>1, AdmitFields DEF OwnsKey, GuardedOps
<1>8. CASE ChangeCommit(r)
    <2>1. reqs[r].newKey \in Key /\ keyOwner'[reqs[r].newKey] = reqs[r].user
        BY <1>8, ChangeCommitFields DEF ChangeCommit, TypeInv, TablesOK
    <2> QED
        BY <1>3, <1>8, <2>1, ChangeCommitFields
<1>9. ASSUME NEW k \in Key, ChangeSnapshot(r, k)
      PROVE  OwnsKey(r)'
    BY <1>3, <1>9, ChangeSnapshotFields
<1>10. ASSUME NEW m \in Minutes, SettingsWrite(r, m)
       PROVE  OwnsKey(r)'
    BY <1>3, <1>10, SettingsWriteFields
<1>11. CASE ChangeReadUser(r)
    BY <1>3, <1>11, ChangeReadUserFields
<1>12. ASSUME NEW d \in Device, Authenticate(r, d)
       PROVE  OwnsKey(r)'
    <2>1. reqs[r].op \in Ops
        BY <1>1 DEF PrivateInv, OpsOK, OpOK, Active
    <2>2. OneUser
        BY <1>12, <2>1, AuthenticateFields DEF SerialSessions
    <2>3. reqs[r].sess.unlocked = "yes" => devices[d].owner = reqs[r].sess.userId
        BY <1>1, <1>12, <2>2, AuthenticateFields DEF ActsForLogin, OneUser, Session
    <2> QED
        BY <1>1, <1>2, <1>12, <2>3, AuthenticateFields, OwnsOn DEF Continues, SameLogin
<1> QED
    BY <1>5, <1>6, <1>7, <1>8, <1>9, <1>10, <1>11, <1>12 DEF ProceedStep

LEMMA RequestsOwnKeyStep ==
    ASSUME SerialSessions, OwnerInv, [Next]_vars
    PROVE  RequestsOwnKey'
<1> USE DEF OwnerInv, SerialInv, KnownInv, LoginInv
<1>1. ASSUME NEW r \in Request, Others(r), Active(r)' => OwnsKey(r)'
      PROVE  RequestsOwnKey'
    BY <1>1, OthersOwnKey DEF Others, RequestsOwnKey, Active
<1>2. ASSUME NEW r \in Request, NEW b \in Browser, NEW op \in Ops, Load(r, b, op)
      PROVE  RequestsOwnKey'
    <2>1. PICK s \in Sid :
              /\ IF CookieFound(b) THEN s = cookie[b] ELSE FreshSid(s, b)
              /\ Others(r) /\ reqs'[r].pc = "loaded" /\ reqs'[r].sid = s /\ reqs'[r].key = None
              /\ reqs'[r].sess = IF CookieFound(b) THEN rows[s] ELSE NewSession
        BY <1>2, LoadFields
    <2>2. UNCHANGED <<entries, keyOwner>>
        BY <1>2 DEF Load, tables
    <2>3. OwnsKey(r)'
        BY <2>1, <2>2 DEF OwnsKey, RowsOwnKey, HasEntry, NewSession
    <2> QED
        BY <1>1, <2>1, <2>3
<1>3. ASSUME NEW r \in Request, Closing(r)
      PROVE  RequestsOwnKey'
    BY <1>1, <1>3, ClosingFields DEF Active, IdleRequest
<1>4. ASSUME NEW r \in Request, Logout(r)
      PROVE  RequestsOwnKey'
    <2>1. /\ Others(r) /\ reqs'[r].pc = "destroy" /\ reqs'[r].sid = reqs[r].sid
          /\ reqs'[r].key = reqs[r].key /\ reqs[r].key = None
        BY <1>4, LogoutFields DEF PrivateInv, OpsOK, OpOK
    <2>2. entries'[reqs[r].sid] = NoEntry
        BY <1>4, LogoutSessions
    <2> QED
        BY <1>1, <2>1, <2>2 DEF OwnsKey, HasEntry
<1>5. ASSUME NEW r \in Request,
             PlainStep(r) \/ InsertStep(r) \/ UnlockStep(r) \/ ProceedStep(r)
      PROVE  RequestsOwnKey'
    BY <1>1, <1>5, AnsweredOwnsKey, UnlockedOwnsKey, ProceedOwnsKey, HandlerContinues
    DEF Continues
<1>6. CASE Restart
    BY <1>6 DEF Restart, RequestsOwnKey, Active, IdleRequest
<1>7. CASE Tick \/ UNCHANGED vars
    <2>1. reqs' = reqs
        BY <1>7 DEF Tick, vars
    <2> QED
        BY <2>1, OthersOwnKey DEF RequestsOwnKey, Active
<1> QED
    BY <1>2, <1>3, <1>4, <1>5, <1>6, <1>7, StepCases

LEMMA OwnerInit == Init => OwnerInv
<1> SUFFICES ASSUME Init PROVE OwnerInv
    OBVIOUS
<1> QED
    BY SerialInit
    DEF Init, KeyStoreInit, NoUser, IdleRequest, UserExists, OwnerInv, OwnedKeys, NewKeysDiffer,
        RowsOwnKey, RequestsOwnKey, Active, HasEntry

LEMMA OwnerNext ==
    ASSUME SerialSessions
    PROVE  OwnerInv /\ [Next]_vars => OwnerInv'
    BY SerialNext, OwnedKeysStep, NewKeysDifferStep, RowsOwnKeyStep, RequestsOwnKeyStep
    DEF OwnerInv

(* An unlocked session that no request is at work on holds a key of the    *)
(* user it is logged in as, also while the master password changes in      *)
(* another browser: logging in as somebody else locks it                   *)
(* (auth.controller.ts, googleCallback and webauthnAuthenticate;           *)
(* unlocked.guard.ts).                                                     *)
THEOREM UnlockedSessionsOwnTheirKey ==
    ASSUME SerialSessions
    PROVE  Spec => []UnlockedSessionOwnsKey
<1>1. OwnerInv /\ [Next]_vars => OwnerInv'
    BY OwnerNext
<1>2. OwnerInv => UnlockedSessionOwnsKey
    BY DEF OwnerInv, RowsOwnKey, UnlockedSessionOwnsKey, Unlocked
<1> QED
    BY OwnerInit, <1>1, <1>2, PTL DEF Spec

(* No request ever has another user's key: what the guard hands to it, and *)
(* what its session has in memory while it is unlocked, belongs to the     *)
(* user it acts for, however the requests of several browsers interleave   *)
(* (unlocked.guard.ts; auth.service.ts, unlock and changeMasterPassword).  *)
THEOREM RequestsUseTheirUsersKey ==
    ASSUME SerialSessions
    PROVE  Spec => [](RequestsOwnKey /\ RowsOwnKey)
<1>1. OwnerInv /\ [Next]_vars => OwnerInv'
    BY OwnerNext
<1>2. OwnerInv => RequestsOwnKey /\ RowsOwnKey
    BY DEF OwnerInv
<1> QED
    BY OwnerInit, <1>1, <1>2, PTL DEF Spec

-----------------------------------------------------------------------------
(* Keys.  The row a request has read, the key the guard has given it and   *)
(* the entry of its session agree with the user row, at every point of     *)
(* every handler but between the commit of a change and the key store.     *)

Rotating(s) == \E r \in Request : reqs[r].sid = s /\ reqs[r].pc = "changed"

RowsHoldKey ==
    \A s \in Sid : rows[s].unlocked = "yes" /\ HasEntry(s) /\ ~Rotating(s) =>
        entries[s].key = KeyOf(rows[s].userId)

HoldsKey(r) ==
    /\ reqs[r].pc # "changed" /\ reqs[r].sess.unlocked = "yes" /\ HasEntry(reqs[r].sid) =>
           entries[reqs[r].sid].key = KeyOf(reqs[r].sess.userId)
    /\ reqs[r].pc \in {"verify", "setupDone"} => reqs[r].rowKey = KeyOf(reqs[r].user)
    /\ reqs[r].pc = "changed" => reqs[r].newKey = KeyOf(reqs[r].user)
    /\ reqs[r].key # None /\ reqs[r].op # "change" => reqs[r].key = KeyOf(reqs[r].user)

RequestsHoldKey == \A r \in Request : Active(r) => HoldsKey(r)

KeyInv == SerialInv /\ RowsHoldKey /\ RequestsHoldKey

(* A request that does nothing in a step goes on holding the keys. *)
LEMMA OthersHoldKey ==
    ASSUME StableKeys, KeyInv, [Next]_vars, NEW q \in Request, Active(q), reqs'[q] = reqs[q]
    PROVE  HoldsKey(q)'
<1> USE DEF KeyInv, SerialInv, KnownInv, LoginInv
<1>1. HoldsKey(q) /\ ActsForLogin(q) /\ reqs[q].sid \in Sid /\ reqs[q] \in RequestState
      /\ RequestOK(reqs[q]) /\ reqs[q].sess \in Session
    BY InFlight DEF RequestsHoldKey, RequestsLoggedIn, Active, TypeInv
<1>2. ASSUME NEW r \in Request, ChangeCommit(r)
      PROVE  FALSE
    <2>1. reqs[r].pc = "commit" /\ reqs'[r].pc = "changed"
        BY <1>2, ChangeCommitFields DEF Proceeds
    <2>2. q = r
        BY <2>1, ChangeIsAlone
    <2> QED
        BY <2>1, <2>2
<1>3. \A u \in User : UserExists(u) => users'[u].key = users[u].key
    BY <1>2, KeyStays
<1>4. /\ reqs[q].sess.userId # None => users'[reqs[q].sess.userId].key = users[reqs[q].sess.userId].key
      /\ reqs[q].user # None => users'[reqs[q].user].key = users[reqs[q].user].key
    BY <1>1, <1>3 DEF RequestsKnown, Known, RequestState, Session
<1>5. /\ reqs[q].pc \in {"verify", "setupDone", "changed"} => reqs[q].user # None
      /\ reqs[q].key # None => reqs[q].user # None
    BY <1>1, NoneAssumption DEF ActsForLogin, RequestOK, PastGuard, PrivateInv, OpsOK, OpOK
<1>6. entries'[reqs[q].sid] # NoEntry =>
          HasEntry(reqs[q].sid) /\ entries'[reqs[q].sid].key = entries[reqs[q].sid].key
    BY <1>1, EntryLeft, OthersKeepOff
<1>7. /\ reqs[q].pc # "changed" /\ reqs[q].sess.unlocked = "yes" /\ entries'[reqs[q].sid] # NoEntry =>
             entries'[reqs[q].sid].key = users'[reqs[q].sess.userId].key
      /\ reqs[q].pc \in {"verify", "setupDone"} => reqs[q].rowKey = users'[reqs[q].user].key
      /\ reqs[q].pc = "changed" => reqs[q].newKey = users'[reqs[q].user].key
      /\ reqs[q].key # None /\ reqs[q].op # "change" => reqs[q].key = users'[reqs[q].user].key
    BY <1>1, <1>4, <1>5, <1>6 DEF HoldsKey, ActsForLogin, KeyOf
<1>8. /\ reqs'[q].pc # "changed" /\ reqs'[q].sess.unlocked = "yes" /\ entries'[reqs'[q].sid] # NoEntry =>
             entries'[reqs'[q].sid].key = users'[reqs'[q].sess.userId].key
      /\ reqs'[q].pc \in {"verify", "setupDone"} => reqs'[q].rowKey = users'[reqs'[q].user].key
      /\ reqs'[q].pc = "changed" => reqs'[q].newKey = users'[reqs'[q].user].key
      /\ reqs'[q].key # None /\ reqs'[q].op # "change" => reqs'[q].key = users'[reqs'[q].user].key
    BY <1>7
<1> QED
    BY <1>8 DEF HoldsKey, KeyOf, HasEntry

LEMMA RowsHoldKeyStep ==
    ASSUME StableKeys, KeyInv, [Next]_vars
    PROVE  RowsHoldKey'
<1> USE DEF KeyInv, SerialInv, KnownInv, LoginInv
<1>1. SUFFICES ASSUME NEW s \in Sid, rows'[s].unlocked = "yes", entries'[s] # NoEntry,
                      \A r \in Request : ~(reqs'[r].sid = s /\ reqs'[r].pc = "changed")
               PROVE  entries'[s].key = users'[rows'[s].userId].key
    BY DEF RowsHoldKey, Rotating, HasEntry, KeyOf
<1>2. rows[s].unlocked = "yes" => rows[s].userId \in User /\ UserExists(rows[s].userId)
    BY DEF RowsLoggedIn, RowsKnown, Known, TypeInv, SessionsTypeOK, Session
<1>3. ASSUME rows'[s] = rows[s], HasEntry(s), entries'[s].key = entries[s].key, ~Rotating(s),
             \A r \in Request : ~ChangeCommit(r)
      PROVE  entries'[s].key = users'[rows'[s].userId].key
    BY <1>1, <1>2, <1>3, KeyStays DEF RowsHoldKey, KeyOf
<1>4. ASSUME NEW r \in Request, Others(r), ~UnlockStep(r), reqs[r].pc # "changed"
      PROVE  HasEntry(s) /\ entries'[s].key = entries[s].key /\ ~Rotating(s)
    <2>1. ~Rotating(s)
        BY <1>1, <1>4 DEF Others, Rotating
    <2>2. HasEntry(s) /\ entries'[s].key = entries[s].key
        BY <1>1, <1>4, ActorChanges, EntryLeft
    <2> QED
        BY <2>1, <2>2
<1>5. ASSUME NEW r \in Request, Others(r), ~UnlockStep(r), ~ChangeCommit(r),
             reqs[r].pc # "changed", UNCHANGED rows
      PROVE  entries'[s].key = users'[rows'[s].userId].key
    BY <1>3, <1>4, <1>5, ActorChanges
<1>6. ASSUME NEW r \in Request,
             Logout(r) \/ \E b \in Browser, op \in Ops : Load(r, b, op)
      PROVE  entries'[s].key = users'[rows'[s].userId].key
    <2>1. Others(r) /\ reqs[r].pc \in {"idle", "loaded"} /\ UNCHANGED rows
        <3>1. CASE Logout(r)
            BY <3>1, LogoutFields, LogoutSessions
        <3>2. ASSUME NEW b \in Browser, NEW op \in Ops, Load(r, b, op)
              PROVE  Others(r) /\ reqs[r].pc = "idle" /\ UNCHANGED rows
            <4>1. UNCHANGED rows
                BY <3>2 DEF Load, sessionVars
            <4> QED
                BY <3>2, <4>1, LoadFields
        <3> QED
            BY <1>6, <3>1, <3>2
    <2>2. ~UnlockStep(r) /\ ~ChangeCommit(r)
        BY <2>1 DEF UnlockStep, SetupUnlock, UnlockSetKey, ChangeSetKey, ChangeCommit, At
    <2> QED
        BY <1>5, <2>1, <2>2
<1>7. ASSUME NEW r \in Request, Closing(r)
      PROVE  entries'[s].key = users'[rows'[s].userId].key
    <2>1. /\ Others(r) /\ reqs[r].pc \in {"end", "destroy"} /\ Active(r)
          /\ reqs[r].sess \in Session /\ UNCHANGED <<entries, tables>>
        BY <1>7, ClosingFields DEF Active
    <2>2. ~UnlockStep(r) /\ ~ChangeCommit(r)
        BY <2>1 DEF UnlockStep, SetupUnlock, UnlockSetKey, ChangeSetKey, ChangeCommit, At
    <2>3. HasEntry(s) /\ entries'[s].key = entries[s].key /\ ~Rotating(s)
        BY <1>4, <2>1, <2>2
    <2>4. CASE rows'[s] = rows[s]
        BY <1>3, <2>1, <2>2, <2>3, <2>4, ActorChanges
    <2>5. ASSUME EndRequest(r), s = reqs[r].sid, rows'[s] = reqs[r].sess
          PROVE  entries'[s].key = users'[rows'[s].userId].key
        <3>1. reqs[r].pc = "end"
            BY <2>5 DEF EndRequest
        <3>2. entries[s].key = users[reqs[r].sess.userId].key
            BY <1>1, <2>1, <2>3, <2>5, <3>1 DEF RequestsHoldKey, HoldsKey, KeyOf
        <3> QED
            BY <2>1, <2>5, <3>2 DEF tables
    <2>6. rows'[s] = NewSession => FALSE
        BY <1>1 DEF NewSession
    <2>7. \/ rows'[s] = rows[s]
          \/ EndRequest(r) /\ s = reqs[r].sid /\ rows'[s] = reqs[r].sess
          \/ rows'[s] = NewSession
        BY <1>7 DEF Closing, EndRequest, SaveLost, Destroy, SaveSession, DestroySession, TypeInv,
            SessionsTypeOK
    <2> QED
        BY <2>4, <2>5, <2>6, <2>7
<1>8. ASSUME NEW r \in Request, PlainStep(r) \/ InsertStep(r) \/ ProceedStep(r),
             ~UnlockStep(r), ~ChangeCommit(r)
      PROVE  entries'[s].key = users'[rows'[s].userId].key
    <2>1. Continues(r) /\ reqs[r].pc # "changed"
        BY <1>8, HandlerContinues, StartingPoints
    <2> QED
        BY <1>5, <1>8, <2>1 DEF Continues, sessionVars
<1>9. ASSUME NEW r \in Request, ChangeCommit(r)
      PROVE  FALSE
    <2>1. reqs[r].pc = "commit" /\ Proceeds(r, "changed") /\ UNCHANGED entries
        BY <1>9, ChangeCommitFields DEF ChangeCommit
    <2>2. s = reqs[r].sid
        BY <1>1, <2>1, ChangeIsAlone DEF HasEntry
    <2> QED
        BY <1>1, <2>1, <2>2 DEF Proceeds, Continues
<1>10. ASSUME NEW r \in Request, UnlockStep(r)
       PROVE  entries'[s].key = users'[rows'[s].userId].key
    <2>1. /\ Continues(r) /\ Active(r) /\ reqs[r].pc \in {"setupDone", "verify", "changed"}
          /\ Others(r) /\ UNCHANGED <<rows, users>>
        BY <1>10, HandlerContinues
        DEF Continues, Active, sessionVars, UnlockStep, SetupUnlock, UnlockSetKey, ChangeSetKey,
            At, tables
    <2>2. CASE reqs[r].sid # s
        <3>1. ~Rotating(s)
            BY <1>1, <2>1, <2>2 DEF Others, Rotating
        <3>2. HasEntry(s) /\ entries'[s].key = entries[s].key
            BY <1>1, <2>1, <2>2, ActorChanges, EntryLeft
        <3> QED
            BY <1>3, <1>9, <2>1, <3>1, <3>2
    <2>3. CASE reqs[r].sid = s
        <3>1. rows[s].unlocked = "yes" /\ ActsForLogin(r) /\ HoldsKey(r)
            BY <1>1, <2>1 DEF RequestsLoggedIn, RequestsHoldKey
        <3>2. rows[s].userId = reqs[r].sess.userId /\ rows[s].userId # None
            BY <1>2, <2>1, <2>3, <3>1, NoneAssumption DEF ActsForLogin, Acting, PCs
        <3>3. entries'[s].key = IF ChangeSetKey(r) THEN reqs[r].newKey ELSE reqs[r].rowKey
            BY <2>3, <1>10 DEF UnlockStep, SetupUnlock, UnlockSetKey, ChangeSetKey, SetEntry,
               At, TypeInv, KeyStoreTypeOK
        <3>4. reqs[r].pc # "setupDone"
            BY <3>1, <3>2 DEF ActsForLogin
        <3>5. reqs[r].user = reqs[r].sess.userId
            BY <2>1, <3>1, <3>4 DEF ActsForLogin, PastGuard
        <3>6. ChangeSetKey(r) <=> reqs[r].pc = "changed"
            BY <1>10 DEF UnlockStep, SetupUnlock, UnlockSetKey, ChangeSetKey, At
        <3>7. entries'[s].key = KeyOf(reqs[r].user)
            BY <2>1, <3>1, <3>3, <3>4, <3>6 DEF HoldsKey
        <3> QED
            BY <2>1, <3>2, <3>5, <3>7 DEF KeyOf
    <2> QED
        BY <2>2, <2>3
<1>11. CASE Restart
    BY <1>1, <1>11 DEF Restart
<1>12. CASE Tick \/ UNCHANGED vars
    <2>1. reqs' = reqs /\ rows' = rows /\ UNCHANGED users
        BY <1>12 DEF Tick, vars, sessionVars, tables
    <2>2. \A r \in Request : ~UnlockStep(r)
        BY <2>1, SetupUnlockFields, SetKeyFields
        DEF UnlockStep, SetupUnlock, UnlockSetKey, ChangeSetKey, At, Answered
    <2>3. ~Rotating(s) /\ HasEntry(s) /\ entries'[s].key = entries[s].key
        BY <1>1, <2>1, <2>2, EntryLeft DEF Rotating
    <2> QED
        BY <1>3, <1>9, <2>1, <2>3
<1> QED
    BY <1>6, <1>7, <1>8, <1>9, <1>10, <1>11, <1>12, StepCases

(* The request a step is of.  Once it is answered only its session counts. *)
LEMMA AnsweredHoldsKey ==
    ASSUME SerialSessions, KeyInv, [Next]_vars, NEW r \in Request,
           PlainStep(r) \/ InsertStep(r), ~UnlockStep(r), ~ProceedStep(r)
    PROVE  HoldsKey(r)'
<1> USE DEF KeyInv, SerialInv, KnownInv, LoginInv
<1>1. /\ Continues(r) /\ Active(r) /\ HoldsKey(r) /\ ActsForLogin(r) /\ reqs[r].pc # "changed"
      /\ reqs[r].sid \in Sid /\ reqs[r].sess \in Session /\ reqs[r] \in RequestState
      /\ reqs'[r].sid = reqs[r].sid /\ reqs'[r].op = reqs[r].op /\ Others(r)
    BY HandlerContinues, StartingPoints, InFlight
    DEF Active, Continues, RequestsHoldKey, RequestsLoggedIn, TypeInv
<1>2. /\ reqs'[r].key = reqs[r].key /\ reqs'[r].user = reqs[r].user
      /\ reqs'[r].sess.unlocked = "yes" => SameLogin(reqs'[r].sess, reqs[r].sess)
      /\ reqs'[r].pc = "end" \/ reqs' = reqs
    <2>1. CASE PlainStep(r)
        BY <2>1, PlainAnswers DEF PlainStep, PlainAnswer, Answered
    <2>2. CASE InsertStep(r)
        BY <2>2, InsertAccountFields DEF InsertStep, Proceeds, SameLogin
    <2> QED
        BY <2>1, <2>2
<1>3. \A u \in User : UserExists(u) => users'[u].key = users[u].key
    <2>1. \A q \in Request : ~ChangeCommit(q)
        BY <1>1, ActorChanges DEF ProceedStep
    <2> QED
        BY <2>1, KeyStays
<1>4. /\ reqs[r].sess.userId # None =>
             users'[reqs[r].sess.userId].key = users[reqs[r].sess.userId].key
      /\ reqs[r].key # None => users'[reqs[r].user].key = users[reqs[r].user].key
    <2>1. reqs[r].key # None => reqs[r].user # None
        BY DEF PrivateInv, OpsOK, OpOK
    <2> QED
        BY <1>1, <1>3, <2>1 DEF RequestsKnown, Known, RequestState, Session
<1>5. entries'[reqs[r].sid] # NoEntry =>
          HasEntry(reqs[r].sid) /\ entries'[reqs[r].sid].key = entries[reqs[r].sid].key
    BY <1>1, EntryLeft, ActorChanges
<1>6. reqs'[r].sess.unlocked = "yes" /\ entries'[reqs'[r].sid] # NoEntry =>
          entries'[reqs'[r].sid].key = users'[reqs'[r].sess.userId].key
    BY <1>1, <1>2, <1>4, <1>5 DEF HoldsKey, ActsForLogin, SameLogin, KeyOf
<1>7. reqs'[r].key # None /\ reqs'[r].op # "change" => reqs'[r].key = users'[reqs'[r].user].key
    BY <1>1, <1>2, <1>4 DEF HoldsKey, KeyOf
<1>8. reqs'[r].pc \notin {"verify", "setupDone", "changed"}
    <2>1. CASE reqs'[r].pc = "end"
        BY <2>1
    <2>2. CASE InsertStep(r) /\ reqs' = reqs
        BY <2>2, InsertAccountFields DEF InsertStep
    <2>3. PlainStep(r) => reqs'[r].pc = "end"
        BY PlainAnswers DEF PlainStep, PlainAnswer, Answered
    <2> QED
        BY <1>2, <2>1, <2>2, <2>3
<1> QED
    BY <1>6, <1>7, <1>8 DEF HoldsKey, KeyOf, HasEntry

LEMMA UnlockedHoldsKey ==
    ASSUME SerialSessions, KeyInv, [Next]_vars, NEW r \in Request, UnlockStep(r)
    PROVE  HoldsKey(r)'
<1> USE DEF KeyInv, SerialInv, KnownInv, LoginInv
<1>1. /\ Active(r) /\ HoldsKey(r) /\ ActsForLogin(r)
      /\ reqs[r].pc \in {"setupDone", "verify", "changed"} /\ UNCHANGED users
      /\ reqs[r].sid \in Sid
      /\ ChangeSetKey(r) <=> reqs[r].pc = "changed"
      /\ SetupUnlock(r) <=> reqs[r].pc = "setupDone"
    BY InFlight
    DEF RequestsHoldKey, RequestsLoggedIn, Active, TypeInv, UnlockStep, SetupUnlock, UnlockSetKey,
        ChangeSetKey, At, tables
<1>2. PICK session :
          /\ Answered(r, session)
          /\ session.userId = IF SetupUnlock(r) THEN reqs[r].user ELSE reqs[r].sess.userId
    BY SetupUnlockFields, SetKeyFields DEF UnlockStep
<1>3. session.userId = reqs[r].user
    BY <1>1, <1>2 DEF ActsForLogin, PastGuard
<1>4. entries'[reqs[r].sid].key = IF ChangeSetKey(r) THEN reqs[r].newKey ELSE reqs[r].rowKey
    BY <1>1 DEF UnlockStep, SetupUnlock, UnlockSetKey, ChangeSetKey, SetEntry, At, TypeInv,
        KeyStoreTypeOK
<1>5. entries'[reqs[r].sid].key = KeyOf(reqs[r].user)
    BY <1>1, <1>4 DEF HoldsKey
<1>6. /\ reqs'[r].pc = "end" /\ reqs'[r].sid = reqs[r].sid /\ reqs'[r].sess.userId = reqs[r].user
      /\ reqs'[r].op = reqs[r].op /\ reqs'[r].key = reqs[r].key /\ reqs'[r].user = reqs[r].user
    BY <1>2, <1>3 DEF Answered, Continues
<1> QED
    BY <1>1, <1>5, <1>6 DEF HoldsKey, KeyOf, HasEntry

LEMMA ProceedHoldsKey ==
    ASSUME SerialSessions, StableKeys, KeyInv, [Next]_vars, NEW r \in Request,
           ProceedStep(r), ~UnlockStep(r)
    PROVE  HoldsKey(r)'
<1> USE DEF KeyInv, SerialInv, KnownInv, LoginInv
<1>1. /\ Continues(r) /\ Active(r) /\ HoldsKey(r) /\ ActsForLogin(r) /\ reqs[r].pc # "changed"
      /\ reqs[r].sid \in Sid /\ reqs[r].sess \in Session /\ reqs[r] \in RequestState
      /\ reqs'[r].sid = reqs[r].sid /\ reqs'[r].op = reqs[r].op /\ Others(r)
    BY HandlerContinues, StartingPoints, InFlight
    DEF Active, Continues, RequestsHoldKey, RequestsLoggedIn, TypeInv
<1>2. entries'[reqs[r].sid] # NoEntry =>
          HasEntry(reqs[r].sid) /\ entries'[reqs[r].sid].key = entries[reqs[r].sid].key
    BY <1>1, EntryLeft, ActorChanges
<1>3. reqs[r].sess.userId # None =>
          reqs[r].sess.userId \in User /\ UserExists(reqs[r].sess.userId)
    BY <1>1 DEF RequestsKnown, Known, Session
<1>4. CASE ChangeCommit(r)
    <2>1. /\ Proceeds(r, "changed") /\ reqs[r].user \in User /\ reqs[r].newKey \in Key
          /\ reqs'[r].user = reqs[r].user /\ reqs'[r].newKey = reqs[r].newKey
          /\ reqs[r].op = "change"
        BY <1>4, ChangeCommitFields DEF PrivateInv, OpsOK, OpOK
    <2>2. users'[reqs[r].user].key = reqs[r].newKey
        BY <1>4, <2>1 DEF ChangeCommit, TypeInv, TablesOK, UserRow
    <2> QED
        BY <1>1, <2>1, <2>2 DEF Proceeds, HoldsKey, KeyOf
<1>5. ASSUME ~ChangeCommit(r), NEW pc, Continues(r), reqs'[r].pc = pc,
             pc \notin {"idle", "changed"},
             reqs'[r].sess.unlocked = reqs[r].sess.unlocked,
             reqs'[r].sess.unlocked = "yes" => reqs'[r].sess.userId = reqs[r].sess.userId,
             pc \in {"verify", "setupDone"} => reqs'[r].rowKey = users'[reqs'[r].user].key,
             reqs'[r].key # None /\ reqs'[r].op # "change" =>
                 reqs'[r].key = users'[reqs'[r].user].key
      PROVE  HoldsKey(r)'
    <2>1. \A u \in User : UserExists(u) => users'[u].key = users[u].key
        BY <1>1, <1>5, ActorChanges, KeyStays
    <2>2. reqs'[r].sess.unlocked = "yes" /\ entries'[reqs'[r].sid] # NoEntry =>
              entries'[reqs'[r].sid].key = users'[reqs'[r].sess.userId].key
        BY <1>1, <1>2, <1>3, <1>5, <2>1 DEF HoldsKey, ActsForLogin, KeyOf
    <2> QED
        BY <1>5, <2>2 DEF HoldsKey, KeyOf, HasEntry
<1>6. reqs[r].pc \in {"loaded", "readUser", "setupDone", "verify"} => reqs[r].key = None
    BY DEF PrivateInv, OpsOK, OpOK
<1>7. ASSUME NEW u \in User, NEW k \in Key, SetupCreate(r, u, k)
      PROVE  HoldsKey(r)'
    <2>1. ~ChangeCommit(r) /\ users'[u].key = k
        BY <1>7 DEF SetupCreate, ChangeCommit, At, TypeInv, TablesOK
    <2> QED
        BY <1>1, <1>5, <1>6, <1>7, <2>1, SetupCreateFields DEF Proceeds
<1>8. CASE UnlockReadUser(r)
    <2>1. /\ ~ChangeCommit(r) /\ UNCHANGED users /\ reqs[r].pc \in {"loaded", "readUser"}
        BY <1>8 DEF UnlockReadUser, ChangeCommit, At, tables
    <2> QED
        BY <1>1, <1>5, <1>6, <1>8, <2>1, UnlockReadUserFields DEF Proceeds
<1>9. CASE Admit(r)
    <2>1. ~ChangeCommit(r) /\ UNCHANGED users
        BY <1>9 DEF Admit, ChangeCommit, tables
    <2>2. entries[reqs[r].sid].key = users'[reqs[r].sess.userId].key
        BY <1>1, <1>9, <2>1, AdmitFields DEF HoldsKey, KeyOf
    <2> QED
        BY <1>1, <1>5, <1>9, <2>1, <2>2, AdmitFields DEF Proceeds, GuardedOps
<1>10. CASE ChangeReadUser(r)
    <2>1. ~ChangeCommit(r) /\ reqs[r].op = "change"
        BY <1>10 DEF ChangeReadUser, ChangeCommit, PrivateInv, OpsOK, OpOK, GuardedOps
    <2> QED
        BY <1>1, <1>5, <1>10, <2>1, ChangeReadUserFields DEF Proceeds
<1>11. ASSUME NEW k \in Key, ChangeSnapshot(r, k)
       PROVE  HoldsKey(r)'
    <2>1. ~ChangeCommit(r) /\ reqs[r].op = "change"
        BY <1>11 DEF ChangeSnapshot, ChangeCommit, PrivateInv, OpsOK, OpOK
    <2> QED
        BY <1>1, <1>5, <1>11, <2>1, ChangeSnapshotFields DEF Proceeds
<1>12. ASSUME NEW m \in Minutes, SettingsWrite(r, m)
       PROVE  HoldsKey(r)'
    <2>1. ~ChangeCommit(r) /\ reqs[r].user \in User
        BY <1>12, SettingsWriteFields DEF ChangeCommit
    <2>2. users'[reqs[r].user].key = users[reqs[r].user].key
        BY <1>12, <2>1 DEF SettingsWrite, TypeInv, TablesOK, UserRow
    <2> QED
        BY <1>1, <1>5, <1>12, <2>1, <2>2, SettingsWriteFields DEF Proceeds, HoldsKey, KeyOf
<1>13. ASSUME NEW d \in Device, Authenticate(r, d)
       PROVE  HoldsKey(r)'
    <2>1. ~ChangeCommit(r) /\ reqs[r].op \in Ops
        BY <1>1, <1>13 DEF Authenticate, ChangeCommit, At, PrivateInv, OpsOK, OpOK, Active
    <2>2. OneUser
        BY <1>13, <2>1, AuthenticateFields DEF SerialSessions
    <2>3. reqs[r].sess.unlocked = "yes" => devices[d].owner = reqs[r].sess.userId
        BY <1>1, <1>3, <1>13, <2>2, AuthenticateFields DEF ActsForLogin, OneUser
    <2> QED
        BY <1>1, <1>5, <1>6, <1>13, <2>1, <2>3, AuthenticateFields
<1> QED
    BY <1>4, <1>7, <1>8, <1>9, <1>10, <1>11, <1>12, <1>13 DEF ProceedStep

LEMMA RequestsHoldKeyStep ==
    ASSUME SerialSessions, StableKeys, KeyInv, [Next]_vars
    PROVE  RequestsHoldKey'
<1> USE DEF KeyInv, SerialInv, KnownInv, LoginInv
<1>1. ASSUME NEW r \in Request, Others(r), Active(r)' => HoldsKey(r)'
      PROVE  RequestsHoldKey'
    BY <1>1, OthersHoldKey DEF Others, RequestsHoldKey, Active
<1>2. ASSUME NEW r \in Request, NEW b \in Browser, NEW op \in Ops, Load(r, b, op)
      PROVE  RequestsHoldKey'
    <2>1. PICK s \in Sid :
              /\ IF CookieFound(b) THEN s = cookie[b] ELSE FreshSid(s, b)
              /\ Others(r) /\ reqs'[r].pc = "loaded" /\ reqs'[r].sid = s /\ reqs'[r].key = None
              /\ reqs'[r].sess = IF CookieFound(b) THEN rows[s] ELSE NewSession
              /\ reqs'[r].browser = b /\ reqs[r].pc = "idle"
        BY <1>2, LoadFields
    <2>2. UNCHANGED <<entries, users>>
        BY <1>2 DEF Load, tables
    <2>3. reqs'[r].sess = rows[s]
        BY <2>1 DEF PrivateInv, UnusedRows, FreshSid
    <2>4. ~Rotating(s)
        <3>1. OneCall'
            BY OneCallStep DEF SerialSessions
        <3>2. ASSUME NEW q \in Request, reqs[q].sid = s, reqs[q].pc = "changed"
              PROVE  FALSE
            BY <2>1, <3>1, <3>2 DEF OneCall, Active, Others
        <3> QED
            BY <3>2 DEF Rotating
    <2>5. HoldsKey(r)'
        BY <2>1, <2>2, <2>3, <2>4 DEF HoldsKey, RowsHoldKey, HasEntry, KeyOf
    <2> QED
        BY <1>1, <2>1, <2>5
<1>3. ASSUME NEW r \in Request, Closing(r)
      PROVE  RequestsHoldKey'
    BY <1>1, <1>3, ClosingFields DEF Active, IdleRequest
<1>4. ASSUME NEW r \in Request, Logout(r)
      PROVE  RequestsHoldKey'
    <2>1. /\ Others(r) /\ Active(r) /\ reqs'[r].pc = "destroy" /\ reqs'[r].sid = reqs[r].sid
          /\ reqs'[r].key = reqs[r].key /\ reqs[r].pc = "loaded"
        BY <1>4, LogoutFields DEF Active
    <2>2. reqs[r].key = None
        BY <2>1 DEF PrivateInv, OpsOK, OpOK
    <2>3. entries'[reqs[r].sid] = NoEntry
        BY <1>4, LogoutSessions
    <2> QED
        BY <1>1, <2>1, <2>2, <2>3 DEF HoldsKey, HasEntry
<1>5. ASSUME NEW r \in Request,
             PlainStep(r) \/ InsertStep(r) \/ UnlockStep(r) \/ ProceedStep(r)
      PROVE  RequestsHoldKey'
    BY <1>1, <1>5, AnsweredHoldsKey, UnlockedHoldsKey, ProceedHoldsKey, HandlerContinues
    DEF Continues
<1>6. CASE Restart
    BY <1>6 DEF Restart, RequestsHoldKey, Active, IdleRequest
<1>7. CASE Tick \/ UNCHANGED vars
    <2>1. reqs' = reqs
        BY <1>7 DEF Tick, vars
    <2> QED
        BY <2>1, OthersHoldKey DEF RequestsHoldKey, Active
<1> QED
    BY <1>2, <1>3, <1>4, <1>5, <1>6, <1>7, StepCases

LEMMA KeyInit == Init => KeyInv
<1> SUFFICES ASSUME Init PROVE KeyInv
    OBVIOUS
<1> QED
    BY SerialInit
    DEF Init, KeyStoreInit, NoUser, IdleRequest, UserExists, KeyInv, RowsHoldKey,
        RequestsHoldKey, Active, HasEntry

LEMMA KeyNext ==
    ASSUME SerialSessions, StableKeys
    PROVE  KeyInv /\ [Next]_vars => KeyInv'
    BY SerialNext, RowsHoldKeyStep, RequestsHoldKeyStep DEF KeyInv

-----------------------------------------------------------------------------
(* What the keys stand for: passwords and passkeys. *)

(* At the commit of a change the list made before it is still the vault. *)
SnapshotsCurrent ==
    \A r \in Request : reqs[r].pc = "commit" =>
        \A a \in Account :
            reqs[r].snapshot[a] =
                IF accounts[a].owner = reqs[r].user
                THEN [key |-> accounts[a].key, secret |-> accounts[a].secret]
                ELSE NoCiphertext

VaultInv == KeyInv /\ SnapshotsCurrent /\ AllReadable /\ PasskeysHoldCurrentPassword

LEMMA SnapshotsCurrentStep ==
    ASSUME StableKeys, PrivateInv, SnapshotsCurrent, [Next]_vars
    PROVE  SnapshotsCurrent'
<1> USE DEF PrivateInv
<1>1. SUFFICES ASSUME NEW q \in Request, reqs'[q].pc = "commit", NEW a \in Account
               PROVE  reqs'[q].snapshot[a] =
                          IF accounts'[a].owner = reqs'[q].user
                          THEN [key |-> accounts'[a].key, secret |-> accounts'[a].secret]
                          ELSE NoCiphertext
    BY DEF SnapshotsCurrent
<1>2. CASE reqs'[q] = reqs[q]
    <2>1. \A r \in Request : Active(r) => r = q
        BY <1>1, <1>2, ChangeIsAlone
    <2>2. ASSUME NEW r \in Request, reqs[r].pc \in {"create", "import", "update", "remove"}
          PROVE  FALSE
        BY <1>1, <1>2, <2>1, <2>2 DEF Active
    <2>3. ASSUME NEW r \in Request, ChangeCommit(r)
          PROVE  FALSE
        BY <1>1, <1>2, <2>1, <2>3, ChangeCommitFields DEF Active, Proceeds
    <2>4. ASSUME NEW r \in Request, NEW b \in Account, NEW slot \in Slot, NEW secret \in Secret,
                 \/ InsertAccount(r, b, slot, secret) \/ UpdateAccount(r, b, slot, secret)
                 \/ RemoveAccount(r, b)
          PROVE  FALSE
        BY <2>2, <2>4 DEF InsertAccount, UpdateAccount, RemoveAccount
    <2>5. ASSUME NEW r \in Request, NEW b \in Account, RemoveAccount(r, b)
          PROVE  FALSE
        BY <2>2, <2>5 DEF RemoveAccount
    <2>6. UNCHANGED accounts
        BY <2>3, <2>4, <2>5, TableWriters
    <2> QED
        BY <1>1, <1>2, <2>6 DEF SnapshotsCurrent
<1>3. CASE reqs'[q] # reqs[q]
    <2>1. PICK k \in Key : ChangeSnapshot(q, k)
        BY <1>1, <1>3, CommitPoints
    <2>2. UNCHANGED accounts
        BY <2>1 DEF ChangeSnapshot, tables
    <2>3. /\ reqs'[q].user = reqs[q].user
          /\ reqs'[q].snapshot = [b \in Account |->
                 IF accounts[b].owner = reqs[q].user
                 THEN [key |-> accounts[b].key, secret |-> accounts[b].secret]
                 ELSE NoCiphertext]
        BY <2>1, ChangeSnapshotFields
    <2>4. reqs'[q].snapshot[a] =
              IF accounts[a].owner = reqs[q].user
              THEN [key |-> accounts[a].key, secret |-> accounts[a].secret]
              ELSE NoCiphertext
        BY <2>3
    <2> QED
        BY <2>2, <2>3, <2>4
<1> QED
    BY <1>2, <1>3

(* The list holds what the user has. *)
LEMMA ListedAccounts ==
    ASSUME TypeInv, SnapshotsCurrent, NEW r \in Request, reqs[r].pc = "commit", NEW a \in Account
    PROVE  /\ a \in Listed(r) <=> accounts[a].owner = reqs[r].user
           /\ a \in Listed(r) => /\ accounts[a] \in AccountRow
                                 /\ reqs[r].snapshot[a].secret = accounts[a].secret
<1>1. reqs[r].user \in User /\ NoAccount.owner = None /\ None \notin User \cup Key
    BY NoneAssumption DEF TypeInv, RequestsOK, RequestOK, PastGuard, NoAccount
<1>2. CASE accounts[a].owner = reqs[r].user
    <2>1. accounts[a] \in AccountRow
        BY <1>1, <1>2 DEF TypeInv, TablesOK
    <2>2. reqs[r].snapshot[a] = [key |-> accounts[a].key, secret |-> accounts[a].secret]
        BY <1>2 DEF SnapshotsCurrent
    <2>3. accounts[a].key # None
        BY <1>1, <2>1 DEF AccountRow
    <2>4. reqs[r].snapshot[a] # NoCiphertext
        BY <2>2, <2>3 DEF NoCiphertext
    <2> QED
        BY <1>2, <2>1, <2>2, <2>4 DEF Listed
<1>3. CASE accounts[a].owner # reqs[r].user
    BY <1>3 DEF SnapshotsCurrent, Listed
<1> QED
    BY <1>2, <1>3

LEMMA AllReadableStep ==
    ASSUME VaultInv, [Next]_vars
    PROVE  AllReadable'
<1> USE DEF VaultInv, KeyInv, SerialInv, KnownInv, LoginInv, PrivateInv
<1>1. SUFFICES ASSUME NEW a \in Account, accounts'[a] # NoAccount
               PROVE  accounts'[a].key = users'[accounts'[a].owner].key
    BY DEF AllReadable, StoredAccounts, Readable
<1>2. accounts[a] \in AccountRow =>
          /\ accounts[a].key = users[accounts[a].owner].key
          /\ accounts[a].owner \in User /\ UserExists(accounts[a].owner)
    <2>1. accounts[a] \in AccountRow => accounts[a] # NoAccount
        BY NoneAssumption DEF AccountRow, NoAccount
    <2> QED
        BY <2>1 DEF AllReadable, AccountsKnown, StoredAccounts, Readable, AccountRow
<1>3. ASSUME NEW r \in Request, ChangeCommit(r)
      PROVE  accounts'[a].key = users'[accounts'[a].owner].key
    <2>1. reqs[r].pc = "commit" /\ reqs[r].user \in User /\ reqs[r].newKey \in Key
        BY <1>3, ChangeCommitFields
    <2>2. /\ users'[reqs[r].user].key = reqs[r].newKey
          /\ \A u \in User \ {reqs[r].user} : users'[u] = users[u]
        <3>1. users' = [users EXCEPT ![reqs[r].user].key = reqs[r].newKey]
            BY <1>3 DEF ChangeCommit
        <3> QED
            BY <2>1, <3>1 DEF TypeInv, TablesOK, UserRow
    <2>3. CASE a \in Listed(r)
        <3>1. accounts[a] \in AccountRow /\ accounts[a].owner = reqs[r].user
            BY <2>1, <2>3, ListedAccounts
        <3>2. accounts'[a] = [accounts[a] EXCEPT !.key = reqs[r].newKey,
                                                 !.secret = reqs[r].snapshot[a].secret]
            BY <1>3, <2>3 DEF ChangeCommit, Reencrypted
        <3> QED
            BY <2>2, <3>1, <3>2 DEF AccountRow
    <2>4. CASE a \notin Listed(r)
        <3>1. accounts'[a] = accounts[a]
            BY <1>3, <2>4 DEF ChangeCommit, Reencrypted
        <3>2. accounts[a] \in AccountRow /\ accounts[a].owner # reqs[r].user
            BY <1>1, <2>1, <2>4, <3>1, ListedAccounts DEF TypeInv, TablesOK
        <3> QED
            BY <1>2, <2>2, <3>1, <3>2
    <2> QED
        BY <2>3, <2>4
<1>4. CASE \A r \in Request : ~ChangeCommit(r)
    <2>1. CASE accounts[a] \in AccountRow /\ accounts'[a].owner = accounts[a].owner
               /\ accounts'[a].key = accounts[a].key
        BY <1>2, <1>4, <2>1, KeyStays
    <2>2. ASSUME NEW r \in Request, reqs[r].pc \in {"create", "import", "update"},
                 reqs[r].key \in Key, UNCHANGED users,
                 accounts'[a].owner = reqs[r].user, accounts'[a].key = reqs[r].key
          PROVE  accounts'[a].key = users'[accounts'[a].owner].key
        BY <2>2, NoneAssumption DEF OpsOK, OpOK, GuardedOps, RequestsHoldKey, HoldsKey, Active,
           KeyOf
    <2>3. accounts'[a] = accounts[a] => accounts[a] \in AccountRow
        BY <1>1 DEF TypeInv, TablesOK
    <2> QED
        BY <1>1, <1>4, <2>1, <2>2, <2>3, AccountWrites
<1> QED
    BY <1>3, <1>4

LEMMA PasskeysStep ==
    ASSUME VaultInv, [Next]_vars
    PROVE  PasskeysHoldCurrentPassword'
<1> USE DEF VaultInv, KeyInv, SerialInv, KnownInv, LoginInv, PrivateInv
<1>1. SUFFICES ASSUME NEW d \in Device, devices'[d] # NoDevice
               PROVE  devices'[d].key = users'[devices'[d].owner].key
    BY DEF PasskeysHoldCurrentPassword
<1>2. ASSUME devices'[d] = devices[d],
             \A r \in Request : ChangeCommit(r) => devices[d].owner # reqs[r].user
      PROVE  devices'[d].key = users'[devices'[d].owner].key
    <2>1. devices[d].owner \in User /\ UserExists(devices[d].owner)
          /\ devices[d].key = users[devices[d].owner].key
        BY <1>1, <1>2
        DEF DevicesKnown, PasskeysHoldCurrentPassword, TypeInv, TablesOK, DeviceRow
    <2>2. ASSUME NEW r \in Request, ChangeCommit(r)
          PROVE  users'[devices[d].owner].key = users[devices[d].owner].key
        BY <1>2, <2>1, <2>2, UserRowWrites DEF ChangeCommit, TypeInv, TablesOK, UserRow
    <2> QED
        BY <1>2, <2>1, <2>2, KeyStays
<1>3. ASSUME NEW r \in Request, reqs[r].pc = "register", reqs[r].key \in Key, UNCHANGED users,
             devices'[d] = [owner |-> reqs[r].user, key |-> reqs[r].key]
      PROVE  devices'[d].key = users'[devices'[d].owner].key
    BY <1>3, NoneAssumption DEF OpsOK, OpOK, GuardedOps, RequestsHoldKey, HoldsKey, Active, KeyOf
<1> QED
    BY <1>1, <1>2, <1>3, DeviceWrites

LEMMA VaultInit == Init => VaultInv
    BY KeyInit
    DEF Init, IdleRequest, VaultInv, SnapshotsCurrent, AllReadable, StoredAccounts,
        PasskeysHoldCurrentPassword

LEMMA VaultNext ==
    ASSUME SerialSessions, StableKeys
    PROVE  VaultInv /\ [Next]_vars => VaultInv'
    BY KeyNext, SnapshotsCurrentStep, AllReadableStep, PasskeysStep
    DEF VaultInv, KeyInv, SerialInv, LoginInv

(* Passwords stay readable: at any time every stored password is encrypted *)
(* under the key its owner's master password derives now, whatever         *)
(* requests are in flight, fail, are cut off by a restart or lose their    *)
(* session, when a user's master password changes in one browser that      *)
(* waits for its answers (accounts.service.ts, create and update;          *)
(* auth.service.ts, changeMasterPassword).  The run vault_otherSession     *)
(* shows that the second condition is needed.                              *)
THEOREM PasswordsStayReadable ==
    ASSUME SerialSessions, StableKeys
    PROVE  Spec => []AllReadable
<1>1. VaultInv /\ [Next]_vars => VaultInv'
    BY VaultNext
<1>2. VaultInv => AllReadable
    BY DEF VaultInv
<1> QED
    BY VaultInit, <1>1, <1>2, PTL DEF Spec

(* A passkey unlocks: the master password a trusted device has wrapped is  *)
(* the current one, since a change removes the user's devices in the       *)
(* transaction that changes the key (auth.service.ts, changeMasterPassword;*)
(* webauthn.service.ts, verifyRegistration).                               *)
THEOREM PasskeysStayCurrent ==
    ASSUME SerialSessions, StableKeys
    PROVE  Spec => []PasskeysHoldCurrentPassword
<1>1. VaultInv /\ [Next]_vars => VaultInv'
    BY VaultNext
<1>2. VaultInv => PasskeysHoldCurrentPassword
    BY DEF VaultInv
<1> QED
    BY VaultInit, <1>1, <1>2, PTL DEF Spec

(* The key the guard has handed to a request opens the vault of the user   *)
(* the request acts for, for as long as the request runs                   *)
(* (unlocked.guard.ts; accounts.controller.ts).                            *)
THEOREM AdmittedKeysOpenTheVault ==
    ASSUME SerialSessions, StableKeys
    PROVE  Spec => []AdmittedKeyOpensVault
<1>1. KeyInv /\ [Next]_vars => KeyInv'
    BY KeyNext
<1>2. KeyInv => AdmittedKeyOpensVault
    <2> SUFFICES ASSUME KeyInv, NEW r \in Request, reqs[r].key # None, reqs[r].op # "change"
                 PROVE  reqs[r].key = users[reqs[r].user].key
        BY DEF AdmittedKeyOpensVault
    <2>1. OpOK(reqs[r]) /\ IdleRequest.key = None
        BY DEF KeyInv, SerialInv, LoginInv, PrivateInv, OpsOK, IdleRequest
    <2>2. Active(r)
        BY <2>1 DEF OpOK, Active
    <2> QED
        BY <2>2 DEF KeyInv, RequestsHoldKey, HoldsKey, KeyOf
<1> QED
    BY KeyInit, <1>1, <1>2, PTL DEF Spec

(* Changing the master password loses no password: the transaction writes  *)
(* back, under the new key, the secrets of all accounts of the user as     *)
(* they are at the commit (auth.service.ts, changeMasterPassword).         *)
THEOREM RotationKeepsPasswords ==
    ASSUME SerialSessions, StableKeys
    PROVE  Spec => RotationPreservesPlaintext
<1> DEFINE Kept == \A u \in User : users[u].key # None /\ users'[u].key # users[u].key =>
                       \A a \in Account : accounts[a].owner = u =>
                           accounts'[a].owner = u /\ accounts'[a].secret = accounts[a].secret
<1>1. VaultInv /\ [Next]_vars => VaultInv'
    BY VaultNext
<1>2. VaultInv /\ [Next]_vars => Kept
    <2> SUFFICES ASSUME VaultInv, [Next]_vars, NEW u \in User, UserExists(u),
                        users'[u].key # users[u].key, NEW a \in Account, accounts[a].owner = u
                 PROVE  accounts'[a].owner = u /\ accounts'[a].secret = accounts[a].secret
        BY DEF UserExists
    <2> USE DEF VaultInv, KeyInv, SerialInv, KnownInv
    <2>1. PICK r \in Request : ChangeCommit(r)
        BY KeyStays
    <2>2. reqs[r].pc = "commit" /\ reqs[r].user \in User
        BY <2>1, ChangeCommitFields
    <2>3. users' = [users EXCEPT ![reqs[r].user].key = reqs[r].newKey]
        BY <2>1 DEF ChangeCommit
    <2>4. u = reqs[r].user
        BY <2>2, <2>3 DEF TypeInv, TablesOK
    <2>5. a \in Listed(r) /\ accounts[a] \in AccountRow
          /\ reqs[r].snapshot[a].secret = accounts[a].secret
        BY <2>2, <2>4, ListedAccounts
    <2>6. accounts'[a] = [accounts[a] EXCEPT !.key = reqs[r].newKey,
                                             !.secret = reqs[r].snapshot[a].secret]
        BY <2>1, <2>5 DEF ChangeCommit, Reencrypted
    <2> QED
        BY <2>5, <2>6 DEF AccountRow
<1>3. VaultInv /\ [Next]_vars => [Kept]_vars
    BY <1>2
<1> QED
    BY VaultInit, <1>1, <1>3, PTL DEF Spec, RotationPreservesPlaintext

-----------------------------------------------------------------------------
(* The vault keeps the promises of SecretBook. *)

StoredSecret(a) == IF accounts[a] = NoAccount THEN None ELSE accounts[a].secret

(* With every password readable the book is the table. *)
LEMMA BookIsTable ==
    ASSUME AllReadable
    PROVE  BookSecrets = [a \in Account |-> StoredSecret(a)]
    BY DEF AllReadable, BookSecrets, StoredAccounts, StoredSecret

LEMMA BookIsTableNext ==
    ASSUME AllReadable'
    PROVE  BookSecrets' = [a \in Account |-> StoredSecret(a)']
    BY DEF AllReadable, BookSecrets, StoredAccounts, Readable, StoredSecret

(* A handler that passed the guard keeps the book open. *)
LEMMA StaysOpen ==
    ASSUME NEW r \in Request, reqs[r].key # None, reqs'[r].key = reqs[r].key
    PROVE  BookOpen /\ BookOpen'
    BY DEF BookOpen

(* A step writes or strikes out one secret for a request that has a key,   *)
(* or leaves them all.                                                     *)
LEMMA SecretWrites ==
    ASSUME VaultInv, [Next]_vars
    PROVE  \/ \A b \in Account : StoredSecret(b)' = StoredSecret(b)
           \/ \E r \in Request, a \in Account :
                  /\ reqs[r].key # None /\ reqs'[r].key = reqs[r].key
                  /\ StoredSecret(a)' \in Secret \cup {None}
                  /\ \A b \in Account \ {a} : StoredSecret(b)' = StoredSecret(b)
<1> USE DEF VaultInv, KeyInv, SerialInv, KnownInv
<1>1. accounts \in [Account -> AccountRow \cup {NoAccount}] /\ None \notin Secret
    BY VaultAssumption DEF TypeInv, TablesOK
<1>2. \A row \in AccountRow : row # NoAccount
    BY NoneAssumption DEF AccountRow, NoAccount
<1>3. ASSUME NEW r \in Request, reqs[r].pc \in {"create", "import", "update", "remove"}
      PROVE  reqs[r].key # None /\ reqs[r].user \in User
    BY <1>3, NoneAssumption DEF TypeInv, RequestsOK, RequestOK, PastGuard, GuardedOps
<1>4. ASSUME NEW r \in Request, NEW a \in Account, NEW slot \in Slot, NEW secret \in Secret,
             InsertAccount(r, a, slot, secret)
      PROVE  /\ reqs[r].key # None /\ reqs'[r].key = reqs[r].key
             /\ StoredSecret(a)' \in Secret \cup {None}
             /\ \A b \in Account \ {a} : StoredSecret(b)' = StoredSecret(b)
    <2>1. reqs[r].pc \in {"create", "import"} /\ reqs'[r].key = reqs[r].key
        BY <1>4, InsertAccountFields
    <2>2. accounts' = [accounts EXCEPT ![a] =
              [owner |-> reqs[r].user, slot |-> slot, key |-> reqs[r].key, secret |-> secret]]
        BY <1>4 DEF InsertAccount
    <2>3. StoredSecret(a)' \in {secret, None}
        BY <1>1, <2>2 DEF StoredSecret
    <2>4. \A b \in Account \ {a} : StoredSecret(b)' = StoredSecret(b)
        BY <1>1, <2>2 DEF StoredSecret
    <2> QED
        BY <1>3, <2>1, <2>3, <2>4
<1>5. ASSUME NEW r \in Request, NEW a \in Account, NEW slot \in Slot, NEW secret \in Secret,
             UpdateAccount(r, a, slot, secret)
      PROVE  /\ reqs[r].key # None /\ reqs'[r].key = reqs[r].key
             /\ StoredSecret(a)' \in Secret \cup {None}
             /\ \A b \in Account \ {a} : StoredSecret(b)' = StoredSecret(b)
    <2>1. reqs'[r].key = reqs[r].key
        BY <1>5, PlainAnswers DEF PlainAnswer, Answered
    <2>2. reqs[r].pc = "update" /\ accounts[a].owner = reqs[r].user
        BY <1>5 DEF UpdateAccount
    <2>3. accounts[a] \in AccountRow
        BY <1>1, <1>3, <2>2, NoneAssumption DEF NoAccount
    <2>4. \E row \in AccountRow : accounts' = [accounts EXCEPT ![a] = row]
        <3>1. \/ accounts' = [accounts EXCEPT ![a] = [accounts[a] EXCEPT !.slot = slot]]
              \/ accounts' = [accounts EXCEPT ![a] =
                     [accounts[a] EXCEPT !.slot = slot, !.key = reqs[r].key, !.secret = secret]]
            BY <1>1, <1>5 DEF UpdateAccount
        <3>2. reqs[r].key \in Key
            BY <2>2 DEF TypeInv, RequestsOK, RequestOK, PastGuard, GuardedOps
        <3> QED
            BY <2>3, <3>1, <3>2 DEF AccountRow
    <2>5. PICK row \in AccountRow : accounts' = [accounts EXCEPT ![a] = row]
        BY <2>4
    <2>6. StoredSecret(a)' \in Secret \cup {None}
        BY <1>1, <2>5 DEF StoredSecret, AccountRow
    <2>7. \A b \in Account \ {a} : StoredSecret(b)' = StoredSecret(b)
        BY <1>1, <2>5 DEF StoredSecret
    <2> QED
        BY <1>3, <2>1, <2>2, <2>6, <2>7
<1>6. ASSUME NEW r \in Request, NEW a \in Account, RemoveAccount(r, a)
      PROVE  /\ reqs[r].key # None /\ reqs'[r].key = reqs[r].key
             /\ StoredSecret(a)' \in Secret \cup {None}
             /\ \A b \in Account \ {a} : StoredSecret(b)' = StoredSecret(b)
    <2>1. reqs'[r].key = reqs[r].key
        BY <1>6, PlainAnswers DEF PlainAnswer, Answered
    <2>2. reqs[r].pc = "remove" /\ accounts' = [accounts EXCEPT ![a] = NoAccount]
        BY <1>6 DEF RemoveAccount
    <2> QED
        BY <1>1, <1>3, <2>1, <2>2 DEF StoredSecret
<1>7. ASSUME NEW r \in Request, ChangeCommit(r), NEW b \in Account
      PROVE  StoredSecret(b)' = StoredSecret(b)
    <2>1. reqs[r].pc = "commit" /\ reqs[r].user \in User
        BY <1>7, ChangeCommitFields
    <2>2. CASE b \in Listed(r)
        <3>1. accounts[b] \in AccountRow /\ reqs[r].snapshot[b].secret = accounts[b].secret
            BY <2>1, <2>2, ListedAccounts
        <3>2. accounts'[b] = [accounts[b] EXCEPT !.key = reqs[r].newKey,
                                                 !.secret = reqs[r].snapshot[b].secret]
            BY <1>7, <2>2 DEF ChangeCommit, Reencrypted
        <3>3. accounts'[b].owner = accounts[b].owner /\ accounts'[b].secret = accounts[b].secret
            BY <3>1, <3>2 DEF AccountRow
        <3>4. accounts'[b] # NoAccount /\ accounts[b] # NoAccount
            BY <3>1, <3>3, NoneAssumption DEF AccountRow, NoAccount
        <3> QED
            BY <3>3, <3>4 DEF StoredSecret
    <2>3. CASE b \notin Listed(r)
        BY <1>7, <2>3 DEF ChangeCommit, Reencrypted, StoredSecret
    <2> QED
        BY <2>2, <2>3
<1>8. CASE UNCHANGED accounts
    BY <1>8 DEF StoredSecret
<1> QED
    BY <1>4, <1>5, <1>6, <1>7, <1>8, TableWriters

(* Passwords change one at a time, only while a key is in memory, and      *)
(* survive locking, logging out, restarting and changing the master        *)
(* password (accounts.service.ts; auth.service.ts, changeMasterPassword;   *)
(* unlock-key-store.service.ts).                                           *)
THEOREM VaultKeepsTheBook ==
    ASSUME SerialSessions, StableKeys
    PROVE  Spec => PromisesSecretBook
<1>1. Init => Book!BookInit
    <2> SUFFICES ASSUME Init
                 PROVE  Book!BookInit
        OBVIOUS
    <2>1. BookSecrets = [a \in Account |-> None]
        BY DEF Init, BookSecrets, StoredAccounts
    <2>2. \A s \in Sid : ~HasEntry(s)
        BY DEF Init, KeyStoreInit, HasEntry
    <2>3. \A r \in Request : reqs[r].key = None
        BY DEF Init, IdleRequest
    <2>4. BookOpen = FALSE
        BY <2>2, <2>3 DEF BookOpen
    <2> QED
        BY <2>1, <2>4 DEF Book!BookInit
<1>2. ASSUME VaultInv, [Next]_vars, VaultInv'
      PROVE  [Book!BookNext]_(Book!bookVars)
    <2>1. /\ BookSecrets = [a \in Account |-> StoredSecret(a)]
          /\ BookSecrets' = [a \in Account |-> StoredSecret(a)']
        BY <1>2, BookIsTable, BookIsTableNext DEF VaultInv
    <2>2. BookOpen \in BOOLEAN /\ BookOpen' \in BOOLEAN
        BY DEF BookOpen
    <2>3. CASE \A b \in Account : StoredSecret(b)' = StoredSecret(b)
        <3>1. BookSecrets' = BookSecrets
            BY <2>1, <2>3
        <3> QED
            BY <2>2, <3>1 DEF Book!BookNext, Book!OpenBook, Book!CloseBook, Book!bookVars
    <2>4. ASSUME NEW r \in Request, reqs[r].key # None, reqs'[r].key = reqs[r].key,
                 NEW a \in Account, StoredSecret(a)' \in Secret \cup {None},
                 \A b \in Account \ {a} : StoredSecret(b)' = StoredSecret(b)
          PROVE  Book!BookNext
        <3>1. BookOpen /\ BookOpen'
            BY <2>4, StaysOpen
        <3>2. BookSecrets' = [BookSecrets EXCEPT ![a] = StoredSecret(a)']
            BY <2>1, <2>4
        <3>3. CASE StoredSecret(a)' \in Secret
            BY <3>1, <3>2, <3>3 DEF Book!BookNext, Book!WriteSecret
        <3>4. CASE StoredSecret(a)' = None
            BY <3>1, <3>2, <3>4 DEF Book!BookNext, Book!StrikeSecret
        <3> QED
            BY <2>4, <3>3, <3>4
    <2> QED
        BY <1>2, <2>3, <2>4, SecretWrites
<1>3. VaultInv /\ [Next]_vars => VaultInv'
    BY VaultNext
<1>4. VaultInv /\ VaultInv' /\ [Next]_vars => [Book!BookNext]_(Book!bookVars)
    BY <1>2
<1> QED
    BY VaultInit, <1>1, <1>3, <1>4, PTL DEF Spec, PromisesSecretBook, Book!BookSpec

-----------------------------------------------------------------------------
(* The auto-lock setting: the entry of a session has the time its user has *)
(* set last, at every point but between the write of a new setting and the *)
(* key store.                                                              *)

MinutesOf(u) == users[u].autoLockMinutes

Setting(s) == \E r \in Request : reqs[r].sid = s /\ reqs[r].pc = "apply"

RowsHoldMinutes ==
    \A s \in Sid : rows[s].unlocked = "yes" /\ HasEntry(s) /\ ~Setting(s) =>
        entries[s].autoLockMinutes = MinutesOf(rows[s].userId)

HoldsMinutes(r) ==
    /\ reqs[r].pc # "apply" /\ reqs[r].sess.unlocked = "yes" /\ HasEntry(reqs[r].sid) =>
           entries[reqs[r].sid].autoLockMinutes = MinutesOf(reqs[r].sess.userId)
    /\ reqs[r].pc \in HoldsRow \cup {"apply"} => reqs[r].minutes = MinutesOf(reqs[r].user)

RequestsHoldMinutes == \A r \in Request : Active(r) => HoldsMinutes(r)

MinutesInv == SerialInv /\ RowsHoldMinutes /\ RequestsHoldMinutes

(* A request that does nothing in a step goes on holding the setting. *)
LEMMA OthersHoldMinutes ==
    ASSUME StableSettings, MinutesInv, [Next]_vars,
           NEW q \in Request, Active(q), reqs'[q] = reqs[q]
    PROVE  HoldsMinutes(q)'
<1> USE DEF MinutesInv, SerialInv, KnownInv, LoginInv
<1>1. HoldsMinutes(q) /\ ActsForLogin(q) /\ reqs[q].sid \in Sid /\ reqs[q] \in RequestState
      /\ RequestOK(reqs[q]) /\ reqs[q].sess \in Session
    BY InFlight DEF RequestsHoldMinutes, RequestsLoggedIn, Active, TypeInv
<1>2. ASSUME NEW r \in Request, NEW m \in Minutes, SettingsWrite(r, m)
      PROVE  FALSE
    <2>1. reqs[r].pc = "settings" /\ reqs'[r].pc = "apply"
        BY <1>2, SettingsWriteFields DEF Proceeds
    <2>2. q = r
        BY <2>1, SettingIsAlone
    <2> QED
        BY <2>1, <2>2
<1>3. \A u \in User : UserExists(u) => users'[u].autoLockMinutes = users[u].autoLockMinutes
    BY <1>2, MinutesStay
<1>4. /\ reqs[q].sess.userId # None =>
             users'[reqs[q].sess.userId].autoLockMinutes = users[reqs[q].sess.userId].autoLockMinutes
      /\ reqs[q].user # None =>
             users'[reqs[q].user].autoLockMinutes = users[reqs[q].user].autoLockMinutes
    BY <1>1, <1>3 DEF RequestsKnown, Known, RequestState, Session
<1>5. reqs[q].pc \in HoldsRow \cup {"apply"} => reqs[q].user # None
    BY <1>1, NoneAssumption DEF ActsForLogin, RequestOK, PastGuard, HoldsRow
<1>6. entries'[reqs[q].sid] # NoEntry =>
          /\ HasEntry(reqs[q].sid)
          /\ entries'[reqs[q].sid].autoLockMinutes = entries[reqs[q].sid].autoLockMinutes
    BY <1>1, EntryLeft, OthersKeepOff
<1>7. /\ reqs[q].pc # "apply" /\ reqs[q].sess.unlocked = "yes" /\ entries'[reqs[q].sid] # NoEntry =>
             entries'[reqs[q].sid].autoLockMinutes = users'[reqs[q].sess.userId].autoLockMinutes
      /\ reqs[q].pc \in HoldsRow \cup {"apply"} =>
             reqs[q].minutes = users'[reqs[q].user].autoLockMinutes
    BY <1>1, <1>4, <1>5, <1>6 DEF HoldsMinutes, ActsForLogin, MinutesOf
<1>8. /\ reqs'[q].pc # "apply" /\ reqs'[q].sess.unlocked = "yes" /\ entries'[reqs'[q].sid] # NoEntry =>
             entries'[reqs'[q].sid].autoLockMinutes = users'[reqs'[q].sess.userId].autoLockMinutes
      /\ reqs'[q].pc \in HoldsRow \cup {"apply"} =>
             reqs'[q].minutes = users'[reqs'[q].user].autoLockMinutes
    BY <1>7
<1> QED
    BY <1>8 DEF HoldsMinutes, MinutesOf, HasEntry

LEMMA RowsHoldMinutesStep ==
    ASSUME StableSettings, MinutesInv, [Next]_vars
    PROVE  RowsHoldMinutes'
<1> USE DEF MinutesInv, SerialInv, KnownInv, LoginInv
<1>1. SUFFICES ASSUME NEW s \in Sid, rows'[s].unlocked = "yes", entries'[s] # NoEntry,
                      \A r \in Request : ~(reqs'[r].sid = s /\ reqs'[r].pc = "apply")
               PROVE  entries'[s].autoLockMinutes = users'[rows'[s].userId].autoLockMinutes
    BY DEF RowsHoldMinutes, Setting, HasEntry, MinutesOf
<1>2. rows[s].unlocked = "yes" => rows[s].userId \in User /\ UserExists(rows[s].userId)
    BY DEF RowsLoggedIn, RowsKnown, Known, TypeInv, SessionsTypeOK, Session
<1>3. ASSUME rows'[s] = rows[s], HasEntry(s),
             entries'[s].autoLockMinutes = entries[s].autoLockMinutes, ~Setting(s),
             \A r \in Request, m \in Minutes : ~SettingsWrite(r, m)
      PROVE  entries'[s].autoLockMinutes = users'[rows'[s].userId].autoLockMinutes
    BY <1>1, <1>2, <1>3, MinutesStay DEF RowsHoldMinutes, MinutesOf
<1>4. ASSUME NEW r \in Request, Others(r), ~UnlockStep(r), reqs[r].pc # "apply"
      PROVE  HasEntry(s) /\ entries'[s].autoLockMinutes = entries[s].autoLockMinutes /\ ~Setting(s)
    <2>1. ~Setting(s)
        BY <1>1, <1>4 DEF Others, Setting
    <2>2. ~SettingsApply(r)
        BY <1>4 DEF SettingsApply
    <2>3. HasEntry(s) /\ entries'[s].autoLockMinutes = entries[s].autoLockMinutes
        BY <1>1, <1>4, <2>2, ActorChanges, EntryLeft
    <2> QED
        BY <2>1, <2>3
<1>5. ASSUME NEW r \in Request, Others(r), ~UnlockStep(r),
             \A m \in Minutes : ~SettingsWrite(r, m), reqs[r].pc # "apply", UNCHANGED rows
      PROVE  entries'[s].autoLockMinutes = users'[rows'[s].userId].autoLockMinutes
    BY <1>3, <1>4, <1>5, ActorChanges
<1>6. ASSUME NEW r \in Request,
             Logout(r) \/ \E b \in Browser, op \in Ops : Load(r, b, op)
      PROVE  entries'[s].autoLockMinutes = users'[rows'[s].userId].autoLockMinutes
    <2>1. Others(r) /\ reqs[r].pc \in {"idle", "loaded"} /\ UNCHANGED rows
        <3>1. CASE Logout(r)
            BY <3>1, LogoutFields, LogoutSessions
        <3>2. ASSUME NEW b \in Browser, NEW op \in Ops, Load(r, b, op)
              PROVE  Others(r) /\ reqs[r].pc = "idle" /\ UNCHANGED rows
            <4>1. UNCHANGED rows
                BY <3>2 DEF Load, sessionVars
            <4> QED
                BY <3>2, <4>1, LoadFields
        <3> QED
            BY <1>6, <3>1, <3>2
    <2>2. ~UnlockStep(r) /\ \A m \in Minutes : ~SettingsWrite(r, m)
        BY <2>1 DEF UnlockStep, SetupUnlock, UnlockSetKey, ChangeSetKey, SettingsWrite, At
    <2> QED
        BY <1>5, <2>1, <2>2
<1>7. ASSUME NEW r \in Request, Closing(r)
      PROVE  entries'[s].autoLockMinutes = users'[rows'[s].userId].autoLockMinutes
    <2>1. /\ Others(r) /\ reqs[r].pc \in {"end", "destroy"} /\ Active(r)
          /\ reqs[r].sess \in Session /\ UNCHANGED <<entries, tables>>
        BY <1>7, ClosingFields DEF Active
    <2>2. ~UnlockStep(r) /\ \A m \in Minutes : ~SettingsWrite(r, m)
        BY <2>1 DEF UnlockStep, SetupUnlock, UnlockSetKey, ChangeSetKey, SettingsWrite, At
    <2>3. HasEntry(s) /\ entries'[s].autoLockMinutes = entries[s].autoLockMinutes /\ ~Setting(s)
        BY <1>4, <2>1, <2>2
    <2>4. CASE rows'[s] = rows[s]
        BY <1>3, <2>1, <2>2, <2>3, <2>4, ActorChanges
    <2>5. ASSUME EndRequest(r), s = reqs[r].sid, rows'[s] = reqs[r].sess
          PROVE  entries'[s].autoLockMinutes = users'[rows'[s].userId].autoLockMinutes
        <3>1. reqs[r].pc = "end"
            BY <2>5 DEF EndRequest
        <3>2. entries[s].autoLockMinutes = users[reqs[r].sess.userId].autoLockMinutes
            BY <1>1, <2>1, <2>3, <2>5, <3>1 DEF RequestsHoldMinutes, HoldsMinutes, MinutesOf
        <3> QED
            BY <2>1, <2>5, <3>2 DEF tables
    <2>6. rows'[s] = NewSession => FALSE
        BY <1>1 DEF NewSession
    <2>7. \/ rows'[s] = rows[s]
          \/ EndRequest(r) /\ s = reqs[r].sid /\ rows'[s] = reqs[r].sess
          \/ rows'[s] = NewSession
        BY <1>7 DEF Closing, EndRequest, SaveLost, Destroy, SaveSession, DestroySession,
            PrivateInv, TypeInv, SessionsTypeOK
    <2> QED
        BY <2>4, <2>5, <2>6, <2>7
<1>8. ASSUME NEW r \in Request, NEW m \in Minutes, SettingsWrite(r, m)
      PROVE  FALSE
    <2>1. reqs[r].pc = "settings" /\ Proceeds(r, "apply") /\ UNCHANGED entries
        BY <1>8, SettingsWriteFields DEF SettingsWrite
    <2>2. s = reqs[r].sid
        BY <1>1, <2>1, SettingIsAlone DEF HasEntry
    <2> QED
        BY <1>1, <2>1, <2>2 DEF Proceeds, Continues
<1>9. ASSUME NEW r \in Request, PlainStep(r) \/ InsertStep(r) \/ ProceedStep(r),
             ~UnlockStep(r), ~SettingsApply(r)
      PROVE  entries'[s].autoLockMinutes = users'[rows'[s].userId].autoLockMinutes
    <2>1. Continues(r) /\ reqs[r].pc # "apply"
        BY <1>9, HandlerContinues, StartingPoints
    <2> QED
        BY <1>5, <1>8, <1>9, <2>1 DEF Continues, sessionVars
<1>10. ASSUME NEW r \in Request, UnlockStep(r) \/ SettingsApply(r)
       PROVE  entries'[s].autoLockMinutes = users'[rows'[s].userId].autoLockMinutes
    <2>1. /\ Continues(r) /\ Active(r)
          /\ reqs[r].pc \in {"setupDone", "verify", "changed", "apply"}
          /\ Others(r) /\ UNCHANGED <<rows, users>>
        BY <1>10, HandlerContinues
        DEF Continues, Active, sessionVars, PlainStep, UnlockStep, SetupUnlock, UnlockSetKey,
            ChangeSetKey, SettingsApply, At, tables
    <2>2. CASE reqs[r].sid # s
        <3>1. ~Setting(s)
            BY <1>1, <2>1, <2>2 DEF Others, Setting
        <3>2. HasEntry(s) /\ entries'[s].autoLockMinutes = entries[s].autoLockMinutes
            BY <1>1, <2>1, <2>2, ActorChanges, EntryLeft
        <3> QED
            BY <1>3, <1>8, <2>1, <3>1, <3>2
    <2>3. CASE reqs[r].sid = s
        <3>1. rows[s].unlocked = "yes" /\ ActsForLogin(r) /\ HoldsMinutes(r)
            BY <1>1, <2>1 DEF RequestsLoggedIn, RequestsHoldMinutes
        <3>2. rows[s].userId = reqs[r].sess.userId /\ rows[s].userId # None
            BY <1>2, <2>1, <2>3, <3>1, NoneAssumption DEF ActsForLogin, Acting, PCs
        <3>3. entries'[s].autoLockMinutes = reqs[r].minutes
            BY <1>1, <2>1, <2>3, <1>10
            DEF UnlockStep, SetupUnlock, UnlockSetKey, ChangeSetKey, SetEntry, SettingsApply,
                UpdateEntryMinutes, HasEntry, UnlockEntry, At, PrivateInv, TypeInv, KeyStoreTypeOK
        <3>4. reqs[r].pc # "setupDone"
            BY <3>1, <3>2 DEF ActsForLogin
        <3>5. reqs[r].user = reqs[r].sess.userId
            BY <2>1, <3>1, <3>4 DEF ActsForLogin, PastGuard
        <3>6. reqs[r].minutes = MinutesOf(reqs[r].user)
            BY <2>1, <3>1 DEF HoldsMinutes, HoldsRow
        <3> QED
            BY <2>1, <3>2, <3>3, <3>5, <3>6 DEF MinutesOf
    <2> QED
        BY <2>2, <2>3
<1>11. CASE Restart
    BY <1>1, <1>11 DEF Restart
<1>12. CASE Tick \/ UNCHANGED vars
    <2>1. reqs' = reqs /\ rows' = rows
        BY <1>12 DEF Tick, vars, sessionVars
    <2>2. \A r \in Request : ~UnlockStep(r) /\ ~SettingsApply(r)
        BY <2>1, SetupUnlockFields, SetKeyFields, PlainAnswers
        DEF UnlockStep, SetupUnlock, UnlockSetKey, ChangeSetKey, At, Answered, PlainAnswer,
            SettingsApply
    <2>3. ~Setting(s) /\ HasEntry(s) /\ entries'[s].autoLockMinutes = entries[s].autoLockMinutes
        BY <1>1, <2>1, <2>2, EntryLeft DEF Setting
    <2> QED
        BY <1>3, <1>8, <2>1, <2>3
<1> QED
    BY <1>6, <1>7, <1>9, <1>10, <1>11, <1>12, StepCases

LEMMA AnsweredHoldsMinutes ==
    ASSUME SerialSessions, MinutesInv, [Next]_vars, NEW r \in Request,
           PlainStep(r) \/ InsertStep(r), ~UnlockStep(r), ~ProceedStep(r)
    PROVE  HoldsMinutes(r)'
<1> USE DEF MinutesInv, SerialInv, KnownInv, LoginInv
<1>1. /\ Continues(r) /\ Active(r) /\ HoldsMinutes(r) /\ ActsForLogin(r)
      /\ reqs[r].pc = "apply" => SettingsApply(r)
      /\ reqs[r].sid \in Sid /\ reqs[r].sess \in Session /\ reqs[r] \in RequestState
      /\ reqs'[r].sid = reqs[r].sid /\ Others(r)
    BY HandlerContinues, StartingPoints, InFlight
    DEF Active, Continues, RequestsHoldMinutes, RequestsLoggedIn, TypeInv
<1>2. /\ reqs'[r].sess.unlocked = "yes" => SameLogin(reqs'[r].sess, reqs[r].sess)
      /\ reqs'[r].pc = "end" \/ reqs' = reqs
    <2>1. CASE PlainStep(r)
        BY <2>1, PlainAnswers DEF PlainStep, PlainAnswer, Answered
    <2>2. CASE InsertStep(r)
        BY <2>2, InsertAccountFields DEF InsertStep, Proceeds, SameLogin
    <2> QED
        BY <2>1, <2>2
<1>3. \A u \in User : UserExists(u) => users'[u].autoLockMinutes = users[u].autoLockMinutes
    <2>1. \A q \in Request, m \in Minutes : ~SettingsWrite(q, m)
        BY <1>1, ActorChanges DEF ProceedStep
    <2> QED
        BY <2>1, MinutesStay
<1>4. reqs[r].sess.userId # None =>
          users'[reqs[r].sess.userId].autoLockMinutes = users[reqs[r].sess.userId].autoLockMinutes
    BY <1>1, <1>3 DEF RequestsKnown, Known, Session
<1>5. entries'[reqs[r].sid] # NoEntry =>
          /\ HasEntry(reqs[r].sid)
          /\ ~SettingsApply(r) =>
                 entries'[reqs[r].sid].autoLockMinutes = entries[reqs[r].sid].autoLockMinutes
    BY <1>1, EntryLeft, ActorChanges
<1>6. SettingsApply(r) /\ entries'[reqs[r].sid] # NoEntry =>
          entries'[reqs[r].sid].autoLockMinutes = MinutesOf(reqs[r].sess.userId)
    <2>1. ASSUME SettingsApply(r), entries'[reqs[r].sid] # NoEntry
          PROVE  entries'[reqs[r].sid].autoLockMinutes = reqs[r].minutes
        BY <1>1, <1>5, <2>1 DEF SettingsApply, UpdateEntryMinutes, HasEntry, UnlockEntry, TypeInv,
           KeyStoreTypeOK
    <2>2. SettingsApply(r) => /\ reqs[r].minutes = MinutesOf(reqs[r].user)
                              /\ reqs[r].user = reqs[r].sess.userId
        BY <1>1 DEF SettingsApply, HoldsMinutes, ActsForLogin, PastGuard
    <2> QED
        BY <2>1, <2>2
<1>7. ~SettingsApply(r) /\ reqs'[r].sess.unlocked = "yes" /\ entries'[reqs[r].sid] # NoEntry =>
          entries'[reqs[r].sid].autoLockMinutes = MinutesOf(reqs[r].sess.userId)
    BY <1>1, <1>2, <1>5 DEF HoldsMinutes, SameLogin
<1>8. reqs'[r].sess.unlocked = "yes" /\ entries'[reqs'[r].sid] # NoEntry =>
          entries'[reqs'[r].sid].autoLockMinutes = users'[reqs'[r].sess.userId].autoLockMinutes
    BY <1>1, <1>2, <1>4, <1>6, <1>7 DEF ActsForLogin, SameLogin, MinutesOf
<1>9. reqs'[r].pc \notin HoldsRow \cup {"apply"}
    <2>1. CASE reqs'[r].pc = "end"
        BY <2>1 DEF HoldsRow
    <2>2. CASE InsertStep(r) /\ reqs' = reqs
        BY <2>2, InsertAccountFields DEF InsertStep, HoldsRow
    <2>3. PlainStep(r) => reqs'[r].pc = "end"
        BY PlainAnswers DEF PlainStep, PlainAnswer, Answered
    <2> QED
        BY <1>2, <2>1, <2>2, <2>3
<1> QED
    BY <1>8, <1>9 DEF HoldsMinutes, MinutesOf, HasEntry

LEMMA UnlockedHoldsMinutes ==
    ASSUME SerialSessions, MinutesInv, [Next]_vars, NEW r \in Request, UnlockStep(r)
    PROVE  HoldsMinutes(r)'
<1> USE DEF MinutesInv, SerialInv, KnownInv, LoginInv
<1>1. /\ Active(r) /\ HoldsMinutes(r) /\ ActsForLogin(r)
      /\ reqs[r].pc \in {"setupDone", "verify", "changed"} /\ UNCHANGED users
      /\ reqs[r].sid \in Sid
      /\ SetupUnlock(r) <=> reqs[r].pc = "setupDone"
    BY InFlight
    DEF RequestsHoldMinutes, RequestsLoggedIn, Active, TypeInv, UnlockStep, SetupUnlock,
        UnlockSetKey, ChangeSetKey, At, tables
<1>2. PICK session :
          /\ Answered(r, session)
          /\ session.userId = IF SetupUnlock(r) THEN reqs[r].user ELSE reqs[r].sess.userId
    BY SetupUnlockFields, SetKeyFields DEF UnlockStep
<1>3. session.userId = reqs[r].user
    BY <1>1, <1>2 DEF ActsForLogin, PastGuard
<1>4. entries'[reqs[r].sid].autoLockMinutes = reqs[r].minutes
    BY <1>1 DEF UnlockStep, SetupUnlock, UnlockSetKey, ChangeSetKey, SetEntry, TypeInv,
        KeyStoreTypeOK
<1>5. reqs[r].minutes = MinutesOf(reqs[r].user)
    BY <1>1 DEF HoldsMinutes, HoldsRow
<1>6. reqs'[r].pc = "end" /\ reqs'[r].sid = reqs[r].sid /\ reqs'[r].sess.userId = reqs[r].user
    BY <1>2, <1>3 DEF Answered, Continues
<1> QED
    BY <1>1, <1>4, <1>5, <1>6 DEF HoldsMinutes, MinutesOf, HasEntry, HoldsRow

LEMMA ProceedHoldsMinutes ==
    ASSUME SerialSessions, StableSettings, MinutesInv, [Next]_vars, NEW r \in Request,
           ProceedStep(r), ~UnlockStep(r), ~SettingsApply(r)
    PROVE  HoldsMinutes(r)'
<1> USE DEF MinutesInv, SerialInv, KnownInv, LoginInv
<1>1. /\ Continues(r) /\ Active(r) /\ HoldsMinutes(r) /\ ActsForLogin(r) /\ reqs[r].pc # "apply"
      /\ reqs[r].sid \in Sid /\ reqs[r].sess \in Session /\ reqs[r] \in RequestState
      /\ RequestOK(reqs[r])
      /\ reqs'[r].sid = reqs[r].sid /\ Others(r)
    BY HandlerContinues, StartingPoints, InFlight
    DEF Active, Continues, RequestsHoldMinutes, RequestsLoggedIn, TypeInv
<1>2. entries'[reqs[r].sid] # NoEntry =>
          /\ HasEntry(reqs[r].sid)
          /\ entries'[reqs[r].sid].autoLockMinutes = entries[reqs[r].sid].autoLockMinutes
    BY <1>1, EntryLeft, ActorChanges
<1>3. reqs[r].sess.userId # None =>
          reqs[r].sess.userId \in User /\ UserExists(reqs[r].sess.userId)
    BY <1>1 DEF RequestsKnown, Known, Session
<1>4. ASSUME NEW m \in Minutes, SettingsWrite(r, m)
      PROVE  HoldsMinutes(r)'
    <2>1. /\ Proceeds(r, "apply") /\ reqs[r].user \in User
          /\ reqs'[r].user = reqs[r].user /\ reqs'[r].minutes = m
        BY <1>4, SettingsWriteFields
    <2>2. users'[reqs[r].user].autoLockMinutes = m
        BY <1>4, <2>1 DEF SettingsWrite, TypeInv, TablesOK, UserRow
    <2> QED
        BY <1>1, <2>1, <2>2 DEF Proceeds, HoldsMinutes, MinutesOf
<1>5. ASSUME \A m \in Minutes : ~SettingsWrite(r, m), NEW pc, reqs'[r].pc = pc, pc # "apply",
             reqs'[r].sess.unlocked = reqs[r].sess.unlocked,
             reqs'[r].sess.unlocked = "yes" => reqs'[r].sess.userId = reqs[r].sess.userId,
             pc \in HoldsRow => reqs'[r].minutes = users'[reqs'[r].user].autoLockMinutes
      PROVE  HoldsMinutes(r)'
    <2>1. \A u \in User : UserExists(u) => users'[u].autoLockMinutes = users[u].autoLockMinutes
        BY <1>1, <1>5, ActorChanges, MinutesStay
    <2>2. reqs'[r].sess.unlocked = "yes" /\ entries'[reqs'[r].sid] # NoEntry =>
              entries'[reqs'[r].sid].autoLockMinutes = users'[reqs'[r].sess.userId].autoLockMinutes
        BY <1>1, <1>2, <1>3, <1>5, <2>1 DEF HoldsMinutes, ActsForLogin, MinutesOf
    <2> QED
        BY <1>5, <2>2 DEF HoldsMinutes, MinutesOf, HasEntry
<1>6. ASSUME NEW u \in User, NEW k \in Key, SetupCreate(r, u, k)
      PROVE  HoldsMinutes(r)'
    <2>1. /\ \A m \in Minutes : ~SettingsWrite(r, m)
          /\ users'[u].autoLockMinutes = DefaultMinutes
        BY <1>6 DEF SetupCreate, SettingsWrite, At, TypeInv, TablesOK
    <2> QED
        BY <1>1, <1>5, <1>6, <2>1, SetupCreateFields DEF Proceeds
<1>7. CASE UnlockReadUser(r)
    <2>1. (\A m \in Minutes : ~SettingsWrite(r, m)) /\ UNCHANGED users
        BY <1>7 DEF UnlockReadUser, SettingsWrite, At, tables
    <2> QED
        BY <1>1, <1>5, <1>7, <2>1, UnlockReadUserFields DEF Proceeds
<1>8. CASE Admit(r)
    <2>1. \A m \in Minutes : ~SettingsWrite(r, m)
        BY <1>8 DEF Admit, SettingsWrite
    <2> QED
        BY <1>1, <1>5, <1>8, <2>1, AdmitFields DEF Proceeds, GuardedOps, HoldsRow
<1>9. CASE ChangeReadUser(r)
    <2>1. (\A m \in Minutes : ~SettingsWrite(r, m)) /\ UNCHANGED users
        BY <1>9 DEF ChangeReadUser, SettingsWrite, tables
    <2> QED
        BY <1>1, <1>5, <1>9, <2>1, ChangeReadUserFields DEF Proceeds
<1>10. ASSUME NEW k \in Key, ChangeSnapshot(r, k)
       PROVE  HoldsMinutes(r)'
    <2>1. (\A m \in Minutes : ~SettingsWrite(r, m)) /\ UNCHANGED users
        BY <1>10 DEF ChangeSnapshot, SettingsWrite, tables
    <2>2. reqs[r].pc \in HoldsRow
        BY <1>10 DEF ChangeSnapshot, HoldsRow
    <2> QED
        BY <1>1, <1>5, <1>10, <2>1, <2>2, ChangeSnapshotFields DEF Proceeds, HoldsMinutes, MinutesOf
<1>11. CASE ChangeCommit(r)
    <2>1. (\A m \in Minutes : ~SettingsWrite(r, m)) /\ reqs[r].pc \in HoldsRow
        BY <1>11 DEF ChangeCommit, SettingsWrite, HoldsRow
    <2>2. users'[reqs[r].user].autoLockMinutes = users[reqs[r].user].autoLockMinutes
        BY <1>11, ChangeCommitFields DEF ChangeCommit, TypeInv, TablesOK, UserRow
    <2> QED
        BY <1>1, <1>5, <1>11, <2>1, <2>2, ChangeCommitFields DEF Proceeds, HoldsMinutes, MinutesOf
<1>12. ASSUME NEW d \in Device, Authenticate(r, d)
       PROVE  HoldsMinutes(r)'
    <2>1. (\A m \in Minutes : ~SettingsWrite(r, m)) /\ reqs[r].op \in Ops
        BY <1>1, <1>12 DEF Authenticate, SettingsWrite, At, PrivateInv, OpsOK, OpOK, Active
    <2>2. OneUser
        BY <1>12, <2>1, AuthenticateFields DEF SerialSessions
    <2>3. reqs[r].sess.unlocked = "yes" => devices[d].owner = reqs[r].sess.userId
        BY <1>1, <1>3, <1>12, <2>2, AuthenticateFields DEF ActsForLogin, OneUser
    <2> QED
        BY <1>1, <1>5, <1>12, <2>1, <2>3, AuthenticateFields DEF HoldsRow
<1> QED
    BY <1>4, <1>6, <1>7, <1>8, <1>9, <1>10, <1>11, <1>12 DEF ProceedStep

LEMMA RequestsHoldMinutesStep ==
    ASSUME SerialSessions, StableSettings, MinutesInv, [Next]_vars
    PROVE  RequestsHoldMinutes'
<1> USE DEF MinutesInv, SerialInv, KnownInv, LoginInv
<1>1. ASSUME NEW r \in Request, Others(r), Active(r)' => HoldsMinutes(r)'
      PROVE  RequestsHoldMinutes'
    BY <1>1, OthersHoldMinutes DEF Others, RequestsHoldMinutes, Active
<1>2. ASSUME NEW r \in Request, NEW b \in Browser, NEW op \in Ops, Load(r, b, op)
      PROVE  RequestsHoldMinutes'
    <2>1. PICK s \in Sid :
              /\ IF CookieFound(b) THEN s = cookie[b] ELSE FreshSid(s, b)
              /\ Others(r) /\ reqs'[r].pc = "loaded" /\ reqs'[r].sid = s
              /\ reqs'[r].sess = IF CookieFound(b) THEN rows[s] ELSE NewSession
              /\ reqs'[r].browser = b /\ reqs[r].pc = "idle"
        BY <1>2, LoadFields
    <2>2. UNCHANGED <<entries, users>>
        BY <1>2 DEF Load, tables
    <2>3. reqs'[r].sess = rows[s]
        BY <2>1 DEF PrivateInv, UnusedRows, FreshSid
    <2>4. ~Setting(s)
        <3>1. OneCall'
            BY OneCallStep DEF SerialSessions
        <3>2. ASSUME NEW q \in Request, reqs[q].sid = s, reqs[q].pc = "apply"
              PROVE  FALSE
            BY <2>1, <3>1, <3>2 DEF OneCall, Active, Others
        <3> QED
            BY <3>2 DEF Setting
    <2>5. HoldsMinutes(r)'
        BY <2>1, <2>2, <2>3, <2>4 DEF HoldsMinutes, RowsHoldMinutes, HasEntry, MinutesOf, HoldsRow
    <2> QED
        BY <1>1, <2>1, <2>5
<1>3. ASSUME NEW r \in Request, Closing(r)
      PROVE  RequestsHoldMinutes'
    BY <1>1, <1>3, ClosingFields DEF Active, IdleRequest
<1>4. ASSUME NEW r \in Request, Logout(r)
      PROVE  RequestsHoldMinutes'
    BY <1>1, <1>4, LogoutFields, LogoutSessions DEF HoldsMinutes, HasEntry, HoldsRow
<1>5. ASSUME NEW r \in Request,
             PlainStep(r) \/ InsertStep(r) \/ UnlockStep(r) \/ ProceedStep(r)
      PROVE  RequestsHoldMinutes'
    <2>1. ProceedStep(r) => ~SettingsApply(r)
        BY StartingPoints DEF SettingsApply
    <2> QED
        BY <1>1, <1>5, <2>1, AnsweredHoldsMinutes, UnlockedHoldsMinutes, ProceedHoldsMinutes,
           HandlerContinues
        DEF Continues
<1>6. CASE Restart
    BY <1>6 DEF Restart, RequestsHoldMinutes, Active, IdleRequest
<1>7. CASE Tick \/ UNCHANGED vars
    <2>1. reqs' = reqs
        BY <1>7 DEF Tick, vars
    <2> QED
        BY <2>1, OthersHoldMinutes DEF RequestsHoldMinutes, Active
<1> QED
    BY <1>2, <1>3, <1>4, <1>5, <1>6, <1>7, StepCases

LEMMA MinutesInit == Init => MinutesInv
    BY SerialInit
    DEF Init, KeyStoreInit, IdleRequest, MinutesInv, RowsHoldMinutes, RequestsHoldMinutes, Active,
        HasEntry

LEMMA MinutesNext ==
    ASSUME SerialSessions, StableSettings
    PROVE  MinutesInv /\ [Next]_vars => MinutesInv'
    BY SerialNext, RowsHoldMinutesStep, RequestsHoldMinutesStep DEF MinutesInv

(* The guard is the only one that gives a request a key. *)
LEMMA KeyFromGuard ==
    ASSUME PrivateInv, [Next]_vars, NEW q \in Request, reqs[q].key = None, reqs'[q].key # None
    PROVE  Admit(q)
<1> USE DEF PrivateInv
<1>1. ASSUME NEW r \in Request, Others(r), reqs'[r].key = None \/ reqs'[r].key = reqs[r].key
      PROVE  FALSE
    BY <1>1 DEF Others
<1>2. ASSUME NEW r \in Request, \E b \in Browser, op \in Ops : Load(r, b, op)
      PROVE  FALSE
    BY <1>1, <1>2, LoadFields
<1>3. ASSUME NEW r \in Request, Closing(r) \/ Logout(r)
      PROVE  FALSE
    BY <1>1, <1>3, ClosingFields, LogoutFields DEF IdleRequest
<1>4. ASSUME NEW r \in Request, PlainStep(r) \/ UnlockStep(r) \/ InsertStep(r)
      PROVE  FALSE
    <2>1. Continues(r) /\ reqs'[r].key = reqs[r].key
        BY <1>4, PlainAnswers, SetupUnlockFields, SetKeyFields, InsertAccountFields
        DEF PlainStep, PlainAnswer, UnlockStep, Answered, InsertStep
    <2> QED
        BY <1>1, <2>1 DEF Continues
<1>5. ASSUME NEW r \in Request, ProceedStep(r)
      PROVE  Admit(q)
    <2>1. Others(r)
        BY <1>5, HandlerContinues DEF Continues
    <2>2. ASSUME NEW u \in User, NEW k \in Key, SetupCreate(r, u, k)
          PROVE  FALSE
        BY <1>1, <2>1, <2>2, SetupCreateFields
    <2>3. CASE UnlockReadUser(r) \/ ChangeReadUser(r) \/ ChangeCommit(r)
        BY <1>1, <2>1, <2>3, UnlockReadUserFields, ChangeReadUserFields, ChangeCommitFields
    <2>4. CASE Admit(r)
        BY <2>1, <2>4 DEF Others
    <2>5. ASSUME NEW k \in Key, ChangeSnapshot(r, k)
          PROVE  FALSE
        BY <1>1, <2>1, <2>5, ChangeSnapshotFields
    <2>6. ASSUME NEW m \in Minutes, SettingsWrite(r, m)
          PROVE  FALSE
        BY <1>1, <2>1, <2>6, SettingsWriteFields
    <2>7. ASSUME NEW d \in Device, Authenticate(r, d)
          PROVE  FALSE
        BY <1>1, <2>1, <2>7, AuthenticateFields
    <2> QED
        BY <1>5, <2>2, <2>3, <2>4, <2>5, <2>6, <2>7 DEF ProceedStep
<1>6. CASE Restart
    BY <1>6 DEF Restart, IdleRequest
<1>7. CASE Tick \/ UNCHANGED vars
    BY <1>7 DEF Tick, vars
<1> QED
    BY <1>2, <1>3, <1>4, <1>5, <1>6, <1>7, StepCases

(* When nothing is in flight, an unlocked session locks after the time its *)
(* user has set last, whichever session the user has since logged in to    *)
(* (auth.service.ts, updateAutoLockMinutes, unlock and                     *)
(* changeMasterPassword, which take the time from the row they read).      *)
THEOREM SettingsReachTheSession ==
    ASSUME SerialSessions, StableSettings
    PROVE  Spec => []SettingReachesSession
<1>1. MinutesInv /\ [Next]_vars => MinutesInv'
    BY MinutesNext
<1>2. MinutesInv => SettingReachesSession
    <2> SUFFICES ASSUME MinutesInv, Quiescent, NEW s \in Sid, Unlocked(s)
                 PROVE  entries[s].autoLockMinutes = users[rows[s].userId].autoLockMinutes
        BY DEF SettingReachesSession
    <2>1. ~Setting(s)
        BY DEF Quiescent, Setting
    <2> QED
        BY <2>1 DEF MinutesInv, RowsHoldMinutes, Unlocked, MinutesOf
<1> QED
    BY MinutesInit, <1>1, <1>2, PTL DEF Spec

(* The times of an entry are numbers.                                       *)
LEMMA EntryNumbers ==
    ASSUME NEW e \in UnlockEntry
    PROVE  e.idle \in Nat /\ e.autoLockMinutes \in Nat
<1>1. e.idle \in 0..IdleCap /\ e.autoLockMinutes \in Minutes
    BY DEF UnlockEntry
<1>2. e.idle \in Nat
    BY <1>1, IdleAssumption
<1>3. e.autoLockMinutes \in Nat
    BY <1>1, IdleAssumption
<1> QED
    BY <1>2, <1>3

(* The guard lets a request through only in a session that has been idle   *)
(* for no longer than its user's setting of that moment                    *)
(* (unlock-key-store.service.ts, touch; unlocked.guard.ts).                *)
THEOREM IdleSessionsLock ==
    ASSUME SerialSessions, StableSettings
    PROVE  Spec => IdleSessionsAreLocked
<1> DEFINE Guarded ==
        \A r \in Request : reqs[r].key = None /\ reqs'[r].key # None =>
            entries[reqs[r].sid].idle <= users[reqs'[r].user].autoLockMinutes
<1>1. MinutesInv /\ [Next]_vars => MinutesInv'
    BY MinutesNext
<1>2. MinutesInv /\ [Next]_vars => Guarded
    <2> SUFFICES ASSUME MinutesInv, [Next]_vars, NEW r \in Request,
                        reqs[r].key = None, reqs'[r].key # None
                 PROVE  entries[reqs[r].sid].idle <= users[reqs'[r].user].autoLockMinutes
        OBVIOUS
    <2> USE DEF MinutesInv, SerialInv, KnownInv, LoginInv, PrivateInv
    <2>1. Admit(r)
        BY KeyFromGuard
    <2>2. /\ reqs[r].pc = "loaded" /\ reqs[r].sid \in Sid
          /\ reqs[r].sess.unlocked = "yes" /\ reqs'[r].user = reqs[r].sess.userId
          /\ HasEntry(reqs[r].sid) /\ ~Expired(reqs[r].sid)
        BY <2>1, AdmitFields, InFlight DEF TypeInv
    <2>3. entries[reqs[r].sid].autoLockMinutes = users[reqs'[r].user].autoLockMinutes
        BY <2>2 DEF RequestsHoldMinutes, HoldsMinutes, Active, MinutesOf
    <2>4. entries[reqs[r].sid] \in UnlockEntry
        BY <2>2, EntryCases DEF TypeInv
    <2>5. entries[reqs[r].sid].idle <= entries[reqs[r].sid].autoLockMinutes
        <3>1. entries[reqs[r].sid].idle \in Nat /\ entries[reqs[r].sid].autoLockMinutes \in Nat
            BY <2>4, EntryNumbers
        <3>2. ~(entries[reqs[r].sid].idle > entries[reqs[r].sid].autoLockMinutes)
            BY <2>2 DEF Expired
        <3> QED
            BY <3>1, <3>2
    <2> QED
        BY <2>3, <2>5
<1>3. MinutesInv /\ [Next]_vars => [Guarded]_vars
    BY <1>2
<1> QED
    BY MinutesInit, <1>1, <1>3, PTL DEF Spec, IdleSessionsAreLocked

=============================================================================
