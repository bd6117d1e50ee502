-------------------------------- MODULE Vault --------------------------------
(***************************************************************************)
(* The authentication and password-vault part of the API: HTTP requests    *)
(* that interleave, at their awaits, in one Node process, over the session *)
(* layer (Sessions), the key store in memory (UnlockKeyStore) and four     *)
(* Postgres tables.                                                        *)
(*                                                                         *)
(* Everything between two awaits that reach the database or Google is one  *)
(* step.  What a handler reads or writes in its own copy of the session is *)
(* private to the request, so such a check is part of the step that        *)
(* follows it.  A password is modelled by the outcome of its verification; *)
(* password, hash and salt of a user are the key they derive.              *)
(***************************************************************************)
EXTENDS UnlockKeyStore, Sessions, FiniteSets

CONSTANTS
    Account,         \* ids of account rows, never used twice
    Slot,            \* (urlOrAppName, loginId) pairs
    Secret,          \* the account passwords users store
    Device,          \* WebAuthn credentials
    Request,         \* requests the process can have in flight
    PerBrowser,      \* how many of them one browser has at a time
    DefaultMinutes,  \* autoLockMinutes of a new user
    Ops,             \* the routes the browsers call
    Events           \* what may happen besides requests

OpNames ==
    {"googleStart", "googleCallback", "setup", "unlock", "lock", "logout", "me",
     "authenticateOptions", "authenticate",
     "change", "settings", "registerOptions", "register", "removeDevice",
     "create", "update", "remove", "read", "import"}

EventNames == {"tick", "restart", "saveLost"}

ASSUME VaultAssumption ==
    /\ DefaultMinutes \in Minutes
    /\ IsFiniteSet(Request)
    /\ PerBrowser \in Nat
    /\ Ops \subseteq OpNames
    /\ Events \subseteq EventNames
    /\ None \notin Account \cup Slot \cup Secret \cup Device

VARIABLES
    users,     \* user id -> row of the User table
    accounts,  \* account id -> row of the Account table
    created,   \* account ids that have been handed out
    devices,   \* credential -> row of the TrustedDevice table
    keyOwner,  \* history: key -> the user whose row has stood for it, or None
    reqs       \* the requests in flight

tables == <<users, accounts, created, devices, keyOwner>>
vars == <<entries, rows, status, cookie, tables, reqs>>

UserRow ==
    [googleSubId: Identity \cup {None}, key: Key \cup {None}, autoLockMinutes: Minutes]
NoUser == [googleSubId |-> None, key |-> None, autoLockMinutes |-> DefaultMinutes]

AccountRow == [owner: User, slot: Slot, key: Key, secret: Secret]
NoAccount == [owner |-> None, slot |-> None, key |-> None, secret |-> None]

(* key is history: the key of the session that registered the device, which *)
(* stands for the master password the browser has wrapped for it.          *)
DeviceRow == [owner: User, key: Key]
NoDevice == [owner |-> None, key |-> None]

Ciphertext == [key: Key, secret: Secret]
NoCiphertext == [key |-> None, secret |-> None]
NoSnapshot == [a \in Account |-> NoCiphertext]

(* Routes behind UnlockedGuard. *)
GuardedOps ==
    {"change", "settings", "registerOptions", "register", "removeDevice",
     "create", "update", "remove", "read", "import"}

PCs == {"idle", "loaded", "setupDone", "readUser", "verify", "snapshot", "commit",
        "changed", "apply", "destroy", "end"} \cup GuardedOps

RequestState ==
    [op      : OpNames \cup {"none"},
     pc      : PCs,
     browser : Browser \cup {None},
     sid     : Sid \cup {None},
     carried : BOOLEAN,               \* the session was loaded from a row
     sess    : Session,               \* the request's copy of the session
     dirty   : BOOLEAN,               \* the copy differs from what was loaded
     user    : User \cup {None},      \* @CurrentUserId()
     key     : Key \cup {None},       \* @EncryptionKey()
     rowKey  : Key \cup {None},       \* key of the user row it has read
     minutes : Minutes \cup {None},   \* autoLockMinutes of that row, or to set
     newKey  : Key \cup {None},
     snapshot: [Account -> Ciphertext \cup {NoCiphertext}]]

IdleRequest ==
    [op |-> "none", pc |-> "idle", browser |-> None, sid |-> None, carried |-> FALSE,
     sess |-> NewSession, dirty |-> FALSE, user |-> None, key |-> None, rowKey |-> None,
     minutes |-> None, newKey |-> None, snapshot |-> NoSnapshot]

TypeOK ==
    /\ KeyStoreTypeOK
    /\ SessionsTypeOK
    /\ users \in [User -> UserRow]
    /\ accounts \in [Account -> AccountRow \cup {NoAccount}]
    /\ created \subseteq Account
    /\ devices \in [Device -> DeviceRow \cup {NoDevice}]
    /\ keyOwner \in [Key -> User \cup {None}]
    /\ reqs \in [Request -> RequestState]

Init ==
    /\ KeyStoreInit
    /\ SessionsInit
    /\ users = [u \in User |-> NoUser]
    /\ accounts = [a \in Account |-> NoAccount]
    /\ created = {}
    /\ devices = [d \in Device |-> NoDevice]
    /\ keyOwner = [k \in Key |-> None]
    /\ reqs = [r \in Request |-> IdleRequest]

-----------------------------------------------------------------------------
(* Requests and their copy of the session *)

At(r, op, pc) == reqs[r].op = op /\ reqs[r].pc = pc

(* The request with its copy of the session replaced. *)
WithSession(r, session) ==
    [reqs[r] EXCEPT !.sess = session, !.dirty = @ \/ session # reqs[r].sess]

(* A nonce is random: storing one always changes the session. *)
WithNonce(r, session) == [reqs[r] EXCEPT !.sess = session, !.dirty = TRUE]

Respond(r, request) == reqs' = [reqs EXCEPT ![r] = [request EXCEPT !.pc = "end"]]

(* A new random session id for browser b: one that nothing refers to, but  *)
(* perhaps the cookie this response may replace.                           *)
FreshSid(s, b) ==
    /\ status[s] # "stored"
    /\ entries[s] = NoEntry
    /\ \A c \in Browser \ {b} : cookie[c] # s
    /\ \A q \in Request : reqs[q].sid # s

(* A new random salt derives a key that nothing has seen. *)
FreshKey(k) == keyOwner[k] = None /\ \A q \in Request : reqs[q].newKey # k

UserExists(u) == users[u].key # None

(* The session middleware loads the session and passes the request on. *)
Load(r, b, op) ==
    /\ reqs[r].pc = "idle"
    /\ Cardinality({q \in Request : reqs[q].browser = b}) < PerBrowser
    /\ \E s \in Sid :
        /\ IF CookieFound(b) THEN s = cookie[b] ELSE FreshSid(s, b)
        /\ reqs' = [reqs EXCEPT ![r] =
               [IdleRequest EXCEPT
                   !.op = op, !.pc = "loaded", !.browser = b, !.sid = s,
                   !.carried = CookieFound(b),
                   !.sess = IF CookieFound(b) THEN rows[s] ELSE NewSession]]
    /\ UNCHANGED <<entries, sessionVars, tables>>

(* The end of a response: a modified session is stored, the cookie is set  *)
(* again for a session the browser had or now gets.                        *)
EndRequest(r) ==
    /\ reqs[r].pc = "end"
    /\ IF reqs[r].dirty THEN SaveSession(reqs[r].sid, reqs[r].sess)
                        ELSE UNCHANGED <<rows, status>>
    /\ cookie' = IF reqs[r].dirty \/ reqs[r].carried
                 THEN [cookie EXCEPT ![reqs[r].browser] = reqs[r].sid]
                 ELSE cookie
    /\ reqs' = [reqs EXCEPT ![r] = IdleRequest]
    /\ UNCHANGED <<entries, tables>>

(* The store fails to write or to delete the session; the response is sent *)
(* all the same.                                                           *)
SaveLost(r) ==
    /\ "saveLost" \in Events
    /\ (reqs[r].pc = "end" /\ reqs[r].dirty) \/ reqs[r].pc = "destroy"
    /\ cookie' = IF reqs[r].pc = "end" /\ reqs[r].carried
                 THEN [cookie EXCEPT ![reqs[r].browser] = reqs[r].sid]
                 ELSE cookie
    /\ reqs' = [reqs EXCEPT ![r] = IdleRequest]
    /\ UNCHANGED <<entries, rows, status, tables>>

-----------------------------------------------------------------------------
(* Google login and the first master password *)

GoogleStart(r) ==
    /\ At(r, "googleStart", "loaded")
    /\ Respond(r, WithNonce(r, [reqs[r].sess EXCEPT !.oauthState = TRUE]))
    /\ UNCHANGED <<entries, sessionVars, tables>>

(* Faulty variant: a login leaves the session unlocked. *)
GoogleCallbackUnlocked(r, g) ==
    /\ At(r, "googleCallback", "loaded")
    /\ LET known == {u \in User : users[u].googleSubId = g} IN
        \/ \E u \in known : Respond(r, WithSession(r, [reqs[r].sess EXCEPT !.userId = u]))
        \/ known = {} /\ Respond(r, WithSession(r, [reqs[r].sess EXCEPT !.pendingGoogle = g]))
    /\ UNCHANGED <<entries, sessionVars, tables>>

(* The profile exchanged for the code is g's: log its user in, locked, or  *)
(* keep the profile until a master password is set.                        *)
GoogleCallback(r, g) ==
    /\ At(r, "googleCallback", "loaded")
    /\ reqs[r].sess.oauthState
    /\ LET consumed == [reqs[r].sess EXCEPT !.oauthState = FALSE] IN
        \/ \E u \in User :
            /\ users[u].googleSubId = g
            /\ Respond(r, WithSession(r, [consumed EXCEPT !.userId = u, !.unlocked = "no"]))
        \/ /\ \A u \in User : users[u].googleSubId # g
           /\ Respond(r, WithSession(r, [consumed EXCEPT !.pendingGoogle = g]))
    /\ UNCHANGED <<entries, sessionVars, tables>>

(* A state that does not match is left in the session, a code that Google  *)
(* refuses finds it already deleted.                                       *)
GoogleCallbackRejected(r) ==
    /\ At(r, "googleCallback", "loaded")
    /\ \/ Respond(r, reqs[r])
       \/ Respond(r, WithSession(r, [reqs[r].sess EXCEPT !.oauthState = FALSE]))
    /\ UNCHANGED <<entries, sessionVars, tables>>

(* Faulty variant: no unique constraint. *)
IdentityNeverInUse(g) == FALSE

(* googleSubId is unique. *)
IdentityInUse(g) == \E v \in User : users[v].googleSubId = g

SetupCreate(r, u, k) ==
    /\ At(r, "setup", "loaded")
    /\ reqs[r].sess.userId = None
    /\ reqs[r].sess.pendingGoogle # None
    /\ ~IdentityInUse(reqs[r].sess.pendingGoogle)
    /\ ~UserExists(u)
    /\ FreshKey(k)
    /\ users' = [users EXCEPT ![u] =
           [googleSubId |-> reqs[r].sess.pendingGoogle, key |-> k,
            autoLockMinutes |-> DefaultMinutes]]
    /\ keyOwner' = [keyOwner EXCEPT ![k] = u]
    /\ reqs' = [reqs EXCEPT ![r].pc = "setupDone", ![r].user = u, ![r].rowKey = k,
                            ![r].minutes = DefaultMinutes]
    /\ UNCHANGED <<entries, sessionVars, accounts, created, devices>>

SetupUnlock(r) ==
    /\ At(r, "setup", "setupDone")
    /\ SetEntry(reqs[r].sid, reqs[r].rowKey, reqs[r].minutes)
    /\ Respond(r, WithSession(r, [reqs[r].sess EXCEPT
           !.pendingGoogle = None, !.userId = reqs[r].user, !.unlocked = "yes"]))
    /\ UNCHANGED <<sessionVars, tables>>

-----------------------------------------------------------------------------
(* Unlock, lock, logout, me *)

UnlockReadUser(r) ==
    /\ \/ At(r, "unlock", "loaded")
       \/ At(r, "authenticate", "readUser")
    /\ LET u == reqs[r].sess.userId IN
        /\ u # None
        /\ UserExists(u)
        /\ reqs' = [reqs EXCEPT ![r].pc = "verify", ![r].user = u,
                                ![r].rowKey = users[u].key,
                                ![r].minutes = users[u].autoLockMinutes]
    /\ UNCHANGED <<entries, sessionVars, tables>>

(* The password verifies against the row that was read. *)
UnlockSetKey(r) ==
    /\ reqs[r].pc = "verify"
    /\ SetEntry(reqs[r].sid, reqs[r].rowKey, reqs[r].minutes)
    /\ Respond(r, WithSession(r, [reqs[r].sess EXCEPT !.unlocked = "yes"]))
    /\ UNCHANGED <<sessionVars, tables>>

(* Faulty variant: a lock is a logout that keeps the session. *)
LockAsLogout(r) ==
    /\ At(r, "lock", "loaded")
    /\ reqs[r].sess.userId # None
    /\ DeleteEntry(reqs[r].sid)
    /\ Respond(r, WithSession(r, [reqs[r].sess EXCEPT !.unlocked = "no", !.userId = None]))
    /\ UNCHANGED <<sessionVars, tables>>

Lock(r) ==
    /\ At(r, "lock", "loaded")
    /\ reqs[r].sess.userId # None
    /\ DeleteEntry(reqs[r].sid)
    /\ Respond(r, WithSession(r, [reqs[r].sess EXCEPT !.unlocked = "no"]))
    /\ UNCHANGED <<sessionVars, tables>>

(* The response does not wait for the DELETE of the session row. *)
Logout(r) ==
    /\ At(r, "logout", "loaded")
    /\ DeleteEntry(reqs[r].sid)
    /\ cookie' = [cookie EXCEPT ![reqs[r].browser] = None]
    /\ reqs' = [reqs EXCEPT ![r].pc = "destroy"]
    /\ UNCHANGED <<rows, status, tables>>

Destroy(r) ==
    /\ reqs[r].pc = "destroy"
    /\ IF reqs[r].carried THEN DestroySession(reqs[r].sid) ELSE UNCHANGED <<rows, status>>
    /\ reqs' = [reqs EXCEPT ![r] = IdleRequest]
    /\ UNCHANGED <<entries, cookie, tables>>

(* /auth/me: checkStillUnlocked *)
Me(r) ==
    /\ At(r, "me", "loaded")
    /\ reqs[r].sess.userId # None
    /\ \/ /\ reqs[r].sess.unlocked # "yes"
          /\ Respond(r, reqs[r])
          /\ UNCHANGED entries
       \/ /\ reqs[r].sess.unlocked = "yes"
          /\ Touch(reqs[r].sid)
          /\ Respond(r, IF TouchedKey(reqs[r].sid) = None
                        THEN WithSession(r, [reqs[r].sess EXCEPT !.unlocked = "no"])
                        ELSE reqs[r])
    /\ UNCHANGED <<sessionVars, tables>>

-----------------------------------------------------------------------------
(* UnlockedGuard *)

(* Faulty variant: the flag in the session is not looked at. *)
MayPassByKey(r) == reqs[r].sess.userId # None /\ TouchedKey(reqs[r].sid) # None

(* Logged in, marked as unlocked, and the key is there. *)
MayPass(r) ==
    /\ reqs[r].sess.userId # None
    /\ reqs[r].sess.unlocked = "yes"
    /\ TouchedKey(reqs[r].sid) # None

Admit(r) ==
    /\ reqs[r].pc = "loaded"
    /\ reqs[r].op \in GuardedOps
    /\ MayPass(r)
    /\ Touch(reqs[r].sid)
    /\ reqs' = [reqs EXCEPT ![r].pc = reqs[r].op,
                            ![r].user = reqs[r].sess.userId,
                            ![r].key = TouchedKey(reqs[r].sid)]
    /\ UNCHANGED <<sessionVars, tables>>

(* touch() runs before the flag is looked at. *)
Refuse(r) ==
    /\ reqs[r].pc = "loaded"
    /\ reqs[r].op \in GuardedOps
    /\ \/ /\ reqs[r].sess.userId = None
          /\ Respond(r, reqs[r])
          /\ UNCHANGED entries
       \/ /\ reqs[r].sess.userId # None
          /\ ~MayPass(r)
          /\ Touch(reqs[r].sid)
          /\ Respond(r, WithSession(r, [reqs[r].sess EXCEPT !.unlocked = "no"]))
    /\ UNCHANGED <<sessionVars, tables>>

-----------------------------------------------------------------------------
(* Accounts: the key is the one the guard captured *)

(* The unique constraint on (userId, urlOrAppName, loginId). *)
SlotFree(u, slot, a) ==
    \A b \in Account \ {a} : ~(accounts[b].owner = u /\ accounts[b].slot = slot)

(* create(), for POST /accounts and for each entry of an import. *)
InsertAccount(r, a, slot, secret) ==
    /\ reqs[r].pc \in {"create", "import"}
    /\ a \notin created
    /\ SlotFree(reqs[r].user, slot, a)
    /\ accounts' = [accounts EXCEPT ![a] =
           [owner |-> reqs[r].user, slot |-> slot, key |-> reqs[r].key, secret |-> secret]]
    /\ created' = created \cup {a}
    /\ reqs' = [reqs EXCEPT ![r].pc = IF @ = "create" THEN "end" ELSE @]
    /\ UNCHANGED <<entries, sessionVars, users, devices, keyOwner>>

(* update(): without a password the ciphertext stays as it is. *)
UpdateAccount(r, a, slot, secret) ==
    /\ reqs[r].pc = "update"
    /\ accounts[a].owner = reqs[r].user
    /\ SlotFree(reqs[r].user, slot, a)
    /\ \/ accounts' = [accounts EXCEPT ![a].slot = slot]
       \/ accounts' = [accounts EXCEPT ![a].slot = slot, ![a].key = reqs[r].key,
                                       ![a].secret = secret]
    /\ Respond(r, reqs[r])
    /\ UNCHANGED <<entries, sessionVars, users, created, devices, keyOwner>>

RemoveAccount(r, a) ==
    /\ reqs[r].pc = "remove"
    /\ accounts[a].owner = reqs[r].user
    /\ accounts' = [accounts EXCEPT ![a] = NoAccount]
    /\ Respond(r, reqs[r])
    /\ UNCHANGED <<entries, sessionVars, users, created, devices, keyOwner>>

(* A read or an export has been answered, an import has run out of entries. *)
Finish(r) ==
    /\ reqs[r].pc \in {"read", "import"}
    /\ Respond(r, reqs[r])
    /\ UNCHANGED <<entries, sessionVars, tables>>

-----------------------------------------------------------------------------
(* Changing the master password *)

ChangeReadUser(r) ==
    /\ reqs[r].pc = "change"
    /\ UserExists(reqs[r].user)
    /\ reqs' = [reqs EXCEPT ![r].pc = "snapshot",
                            ![r].rowKey = users[reqs[r].user].key,
                            ![r].minutes = users[reqs[r].user].autoLockMinutes]
    /\ UNCHANGED <<entries, sessionVars, tables>>

(* Faulty variant: the key store gets the new key before the commit. *)
ChangeSnapshotEager(r, k) ==
    /\ reqs[r].pc = "snapshot"
    /\ FreshKey(k)
    /\ SetEntry(reqs[r].sid, k, reqs[r].minutes)
    /\ reqs' = [reqs EXCEPT ![r].pc = "commit", ![r].newKey = k]
    /\ UNCHANGED <<sessionVars, tables>>

(* account.findMany, outside the transaction; the new key is ready. *)
ChangeSnapshot(r, k) ==
    /\ reqs[r].pc = "snapshot"
    /\ FreshKey(k)
    /\ reqs' = [reqs EXCEPT
           ![r].pc = "commit",
           ![r].newKey = k,
           ![r].snapshot = [a \in Account |->
               IF accounts[a].owner = reqs[r].user
               THEN [key |-> accounts[a].key, secret |-> accounts[a].secret]
               ELSE NoCiphertext]]
    /\ UNCHANGED <<entries, sessionVars, tables>>

Listed(r) == {a \in Account : reqs[r].snapshot[a] # NoCiphertext}

(* Faulty variants: only the user row changes; the wrong rows are deleted. *)
UserRowOnly(r) == accounts
ListedDeleted(r) == [a \in Account |-> IF a \in Listed(r) THEN NoAccount ELSE accounts[a]]

(* Each listed row gets the secret of the snapshot, under the new key. *)
Reencrypted(r) ==
    [a \in Account |->
        IF a \in Listed(r)
        THEN [accounts[a] EXCEPT !.key = reqs[r].newKey,
                                 !.secret = reqs[r].snapshot[a].secret]
        ELSE accounts[a]]

(* Faulty variant: the devices stay. *)
DevicesKept(u) == devices

DevicesRevoked(u) ==
    [d \in Device |-> IF devices[d].owner = u THEN NoDevice ELSE devices[d]]

(* The transaction: every listed row still exists and decrypts under the   *)
(* old key, or it is rolled back (Reject).                                 *)
ChangeCommit(r) ==
    /\ reqs[r].pc = "commit"
    /\ \A a \in Listed(r) :
        /\ accounts[a] # NoAccount
        /\ reqs[r].snapshot[a].key = reqs[r].rowKey
    /\ accounts' = Reencrypted(r)
    /\ users' = [users EXCEPT ![reqs[r].user].key = reqs[r].newKey]
    /\ keyOwner' = [keyOwner EXCEPT ![reqs[r].newKey] = reqs[r].user]
    /\ devices' = DevicesRevoked(reqs[r].user)
    /\ reqs' = [reqs EXCEPT ![r].pc = "changed"]
    /\ UNCHANGED <<entries, sessionVars, created>>

(* Faulty variant: the session keeps the old key. *)
ChangeKeepOldKey(r) ==
    /\ reqs[r].pc = "changed"
    /\ Respond(r, reqs[r])
    /\ UNCHANGED <<entries, sessionVars, tables>>

ChangeSetKey(r) ==
    /\ reqs[r].pc = "changed"
    /\ SetEntry(reqs[r].sid, reqs[r].newKey, reqs[r].minutes)
    /\ Respond(r, WithSession(r, [reqs[r].sess EXCEPT !.unlocked = "yes"]))
    /\ UNCHANGED <<sessionVars, tables>>

-----------------------------------------------------------------------------
(* The auto-lock setting *)

SettingsWrite(r, m) ==
    /\ reqs[r].pc = "settings"
    /\ users' = [users EXCEPT ![reqs[r].user].autoLockMinutes = m]
    /\ reqs' = [reqs EXCEPT ![r].pc = "apply", ![r].minutes = m]
    /\ UNCHANGED <<entries, sessionVars, accounts, created, devices, keyOwner>>

(* Faulty variant: the setting waits for the next unlock. *)
SettingsLater(r) ==
    /\ reqs[r].pc = "apply"
    /\ Respond(r, reqs[r])
    /\ UNCHANGED <<entries, sessionVars, tables>>

SettingsApply(r) ==
    /\ reqs[r].pc = "apply"
    /\ UpdateEntryMinutes(reqs[r].sid, reqs[r].minutes)
    /\ Respond(r, reqs[r])
    /\ UNCHANGED <<sessionVars, tables>>

-----------------------------------------------------------------------------
(* WebAuthn *)

(* One challenge slot per session, shared by registration and login. *)
IssueChallenge(r) ==
    /\ reqs[r].pc = "registerOptions" \/ At(r, "authenticateOptions", "loaded")
    /\ Respond(r, WithNonce(r, [reqs[r].sess EXCEPT !.challenge = TRUE]))
    /\ UNCHANGED <<entries, sessionVars, tables>>

(* The credential id is unique among trusted devices. *)
RegisterDevice(r, d) ==
    /\ reqs[r].pc = "register"
    /\ reqs[r].sess.challenge
    /\ devices[d] = NoDevice
    /\ devices' = [devices EXCEPT ![d] = [owner |-> reqs[r].user, key |-> reqs[r].key]]
    /\ Respond(r, WithSession(r, [reqs[r].sess EXCEPT !.challenge = FALSE]))
    /\ UNCHANGED <<entries, sessionVars, users, accounts, created, keyOwner>>

RemoveDevice(r, d) ==
    /\ reqs[r].pc = "removeDevice"
    /\ devices[d].owner = reqs[r].user
    /\ devices' = [devices EXCEPT ![d] = NoDevice]
    /\ Respond(r, reqs[r])
    /\ UNCHANGED <<entries, sessionVars, users, accounts, created, keyOwner>>

(* The device decides whose session this is, before unlock() verifies the  *)
(* password.                                                               *)
Authenticate(r, d) ==
    /\ At(r, "authenticate", "loaded")
    /\ reqs[r].sess.challenge
    /\ devices[d] # NoDevice
    /\ reqs' = [reqs EXCEPT ![r] =
           [WithSession(r, [reqs[r].sess EXCEPT !.challenge = FALSE,
                                                !.userId = devices[d].owner])
               EXCEPT !.pc = "readUser"]]
    /\ UNCHANGED <<entries, sessionVars, tables>>

(* A challenge is consumed whether or not the response verifies. *)
PasskeyRejected(r) ==
    /\ reqs[r].pc = "register" \/ At(r, "authenticate", "loaded")
    /\ Respond(r, WithSession(r, [reqs[r].sess EXCEPT !.challenge = FALSE]))
    /\ UNCHANGED <<entries, sessionVars, tables>>

-----------------------------------------------------------------------------
(* Failure *)

(* A missing login, a bad input, a wrong password, a constraint, a row that *)
(* is gone or a failed query: the handler throws, what it has done stays.   *)
Reject(r) ==
    /\ \/ /\ reqs[r].pc = "loaded"
          /\ reqs[r].op \in {"setup", "unlock"}
       \/ /\ reqs[r].pc = "loaded"
          /\ reqs[r].op \in {"lock", "me"}
          /\ reqs[r].sess.userId = None
       \/ reqs[r].pc \in {"readUser", "verify", "snapshot", "commit"}
       \/ reqs[r].pc \in GuardedOps \ {"register"}
    /\ Respond(r, reqs[r])
    /\ UNCHANGED <<entries, sessionVars, tables>>

(* The process restarts: memory is lost, tables and cookies are not. *)
Restart ==
    /\ "restart" \in Events
    /\ entries' = [s \in Sid |-> NoEntry]
    /\ reqs' = [r \in Request |-> IdleRequest]
    /\ UNCHANGED <<sessionVars, tables>>

Tick ==
    /\ "tick" \in Events
    /\ Age
    /\ UNCHANGED <<sessionVars, tables, reqs>>

-----------------------------------------------------------------------------

(* The session layer and the routes of AuthController. *)
AuthStep(r) ==
    \/ \E b \in Browser, op \in Ops : Load(r, b, op)
    \/ EndRequest(r)
    \/ SaveLost(r)
    \/ GoogleStart(r)
    \/ \E g \in Identity : GoogleCallback(r, g)
    \/ GoogleCallbackRejected(r)
    \/ \E u \in User, k \in Key : SetupCreate(r, u, k)
    \/ SetupUnlock(r)
    \/ UnlockReadUser(r)
    \/ UnlockSetKey(r)
    \/ Lock(r)
    \/ Logout(r)
    \/ Destroy(r)
    \/ Me(r)
    \/ Admit(r)
    \/ Refuse(r)
    \/ Reject(r)

AccountStep(r) ==
    \/ \E a \in Account, slot \in Slot, secret \in Secret :
        InsertAccount(r, a, slot, secret) \/ UpdateAccount(r, a, slot, secret)
    \/ \E a \in Account : RemoveAccount(r, a)
    \/ Finish(r)

ChangeStep(r) ==
    \/ ChangeReadUser(r)
    \/ \E k \in Key : ChangeSnapshot(r, k)
    \/ ChangeCommit(r)
    \/ ChangeSetKey(r)
    \/ \E m \in Minutes : SettingsWrite(r, m)
    \/ SettingsApply(r)

DeviceStep(r) ==
    \/ IssueChallenge(r)
    \/ \E d \in Device : RegisterDevice(r, d) \/ RemoveDevice(r, d) \/ Authenticate(r, d)
    \/ PasskeyRejected(r)

Next ==
    \/ \E r \in Request :
        AuthStep(r) \/ AccountStep(r) \/ ChangeStep(r) \/ DeviceStep(r)
    \/ Restart
    \/ Tick

Spec == Init /\ [][Next]_vars

=============================================================================
