--------------------------- MODULE VaultSerialProofs ---------------------------
(***************************************************************************)
(* Theorems about the vault under the conditions that its handlers are     *)
(* written for: a browser waits for the answer to a request before it      *)
(* sends the next (SerialSessions), and the master password or the         *)
(* auto-lock setting of a user is changed in one browser only (StableKeys, *)
(* StableSettings), or never.  Any number of users, browsers, sessions,    *)
(* keys, accounts and devices, in any order of requests, restarts, lost    *)
(* session writes and ticks of the clock.                                  *)
(***************************************************************************)
EXTENDS VaultProofs, FiniteSetTheorems

OneBrowser == \A b, c \in Browser : b = c

OneUser == \A u, v \in User : u = v

(* A browser has one request in flight.  A passkey login that fails leaves *)
(* a session to the device's user, unlocked as it was: with passkeys there *)
(* is one user.                                                            *)
SerialSessions == PerBrowser = 1 /\ (OneUser \/ "authenticate" \notin Ops)

StableKeys == OneBrowser \/ "change" \notin Ops

StableSettings == OneBrowser \/ "settings" \notin Ops

-----------------------------------------------------------------------------
(* What a handler's step does to its request. *)

Active(r) == reqs[r].pc # "idle"

(* Between the guard, if there is one, and the answer. *)
Acting == PCs \ {"idle", "loaded", "end", "destroy"}

Others(r) == \A q \in Request \ {r} : reqs'[q] = reqs[q]

SameLogin(session, other) ==
    session.userId = other.userId /\ session.unlocked = other.unlocked

(* The request goes on, or is answered. *)
Continues(r) ==
    /\ reqs[r].pc \notin {"idle", "end", "destroy"}
    /\ Others(r)
    /\ reqs'[r].op = reqs[r].op
    /\ reqs'[r].browser = reqs[r].browser
    /\ reqs'[r].sid = reqs[r].sid
    /\ reqs'[r].carried = reqs[r].carried
    /\ UNCHANGED sessionVars

Answered(r, session) ==
    /\ Continues(r)
    /\ reqs'[r].pc = "end"
    /\ reqs'[r].sess = session
    /\ reqs'[r].user = reqs[r].user
    /\ reqs'[r].key = reqs[r].key

(* An answer keeps the login as it was, or locks it. *)
PlainAnswer(r) ==
    \E session \in Session :
        /\ Answered(r, session)
        /\ session.unlocked = "yes" => SameLogin(session, reqs[r].sess)
        /\ \/ session.userId = reqs[r].sess.userId
           \/ \E u \in User : session.userId = u /\ users[u].googleSubId # None

LEMMA RespondFields ==
    ASSUME TypeInv, NEW r \in Request, NEW q \in RequestState, Respond(r, q),
           reqs[r].pc \notin {"idle", "end", "destroy"},
           q.op = reqs[r].op, q.browser = reqs[r].browser, q.sid = reqs[r].sid,
           q.carried = reqs[r].carried, q.user = reqs[r].user, q.key = reqs[r].key,
           UNCHANGED sessionVars
    PROVE  Answered(r, q.sess)
<1> DEFINE a == [q EXCEPT !.pc = "end"]
<1>1. /\ a.pc = "end" /\ a.sess = q.sess /\ a.op = q.op /\ a.browser = q.browser
      /\ a.sid = q.sid /\ a.carried = q.carried /\ a.user = q.user /\ a.key = q.key
    BY DEF RequestState
<1>2. reqs'[r] = a /\ Others(r)
    BY DEF Respond, Others, TypeInv, RequestsOK
<1> QED
    BY <1>1, <1>2 DEF Answered, Continues

LEMMA AnswerWith ==
    ASSUME TypeInv, NEW r \in Request, NEW session \in Session,
           reqs[r].pc \notin {"idle", "end", "destroy"},
           Respond(r, WithSession(r, session)) \/ Respond(r, WithNonce(r, session)),
           UNCHANGED sessionVars
    PROVE  Answered(r, session)
<1>1. reqs[r] \in RequestState
    BY DEF TypeInv, RequestsOK
<1>2. ASSUME NEW q, q = WithSession(r, session) \/ q = WithNonce(r, session), Respond(r, q)
      PROVE  Answered(r, session)
    <2>1. /\ q \in RequestState /\ q.op = reqs[r].op /\ q.browser = reqs[r].browser
          /\ q.sid = reqs[r].sid /\ q.carried = reqs[r].carried /\ q.user = reqs[r].user
          /\ q.key = reqs[r].key /\ q.sess = session
        BY <1>1, <1>2 DEF RequestState, WithSession, WithNonce
    <2> QED
        BY <1>2, <2>1, RespondFields
<1> QED
    BY <1>2

LEMMA AnswerAsIs ==
    ASSUME TypeInv, NEW r \in Request, reqs[r].pc \notin {"idle", "end", "destroy"},
           Respond(r, reqs[r]), UNCHANGED sessionVars
    PROVE  Answered(r, reqs[r].sess)
    BY RespondFields DEF TypeInv, RequestsOK

(* Everything but an unlocking answers plainly. *)
LEMMA PlainAnswers ==
    ASSUME TypeInv, NEW r \in Request,
           \/ GoogleStart(r) \/ (\E g \in Identity : GoogleCallback(r, g))
           \/ GoogleCallbackRejected(r) \/ Lock(r) \/ Me(r)
           \/ Refuse(r) \/ Reject(r) \/ Finish(r) \/ SettingsApply(r)
           \/ (\E a \in Account, slot \in Slot, secret \in Secret : UpdateAccount(r, a, slot, secret))
           \/ (\E a \in Account : RemoveAccount(r, a))
           \/ IssueChallenge(r) \/ PasskeyRejected(r)
           \/ (\E d \in Device : RegisterDevice(r, d) \/ RemoveDevice(r, d))
    PROVE  PlainAnswer(r)
<1>1. reqs[r].pc \notin {"idle", "end", "destroy"} /\ UNCHANGED sessionVars
    BY DEF GoogleStart, GoogleCallback, GoogleCallbackRejected, Lock,
           Me, Refuse, Reject, Finish, SettingsApply, UpdateAccount, RemoveAccount,
           IssueChallenge, PasskeyRejected, RegisterDevice, RemoveDevice, At, GuardedOps
<1>2. /\ reqs[r] \in RequestState /\ reqs[r].sess \in Session
    BY <1>1, InFlight DEF TypeInv
<1>3. ASSUME NEW session \in Session,
             \/ Respond(r, WithSession(r, session))
             \/ Respond(r, WithNonce(r, session)),
             session.unlocked = "yes" => SameLogin(session, reqs[r].sess),
             \/ session.userId = reqs[r].sess.userId
             \/ \E u \in User : session.userId = u /\ users[u].googleSubId # None
      PROVE  PlainAnswer(r)
    BY <1>1, <1>3, AnswerWith DEF PlainAnswer
<1>4. ASSUME Respond(r, reqs[r])
      PROVE  PlainAnswer(r)
    BY <1>1, <1>2, <1>4, AnswerAsIs DEF PlainAnswer, SameLogin
<1>5. ASSUME NEW session \in Session,
             \/ session = [reqs[r].sess EXCEPT !.oauthState = TRUE]
             \/ session = [reqs[r].sess EXCEPT !.oauthState = FALSE]
             \/ session = [reqs[r].sess EXCEPT !.challenge = TRUE]
             \/ session = [reqs[r].sess EXCEPT !.challenge = FALSE]
             \/ session = [reqs[r].sess EXCEPT !.unlocked = "no"]
      PROVE  /\ session.unlocked = "yes" => SameLogin(session, reqs[r].sess)
             /\ session.userId = reqs[r].sess.userId
    BY <1>2, <1>5 DEF Session, SameLogin
<1>6. /\ [reqs[r].sess EXCEPT !.unlocked = "no"] \in Session
      /\ [reqs[r].sess EXCEPT !.oauthState = TRUE] \in Session
      /\ [reqs[r].sess EXCEPT !.oauthState = FALSE] \in Session
      /\ [reqs[r].sess EXCEPT !.challenge = TRUE] \in Session
      /\ [reqs[r].sess EXCEPT !.challenge = FALSE] \in Session
    BY <1>2 DEF Session
<1>7. ASSUME NEW g \in Identity, GoogleCallback(r, g)
      PROVE  PlainAnswer(r)
    <2> DEFINE consumed == [reqs[r].sess EXCEPT !.oauthState = FALSE]
    <2>1. consumed \in Session /\ SameLogin(consumed, reqs[r].sess)
        BY <1>2 DEF Session, SameLogin
    <2> HIDE DEF consumed
    <2>2. ASSUME NEW u \in User, users[u].googleSubId = g,
                 Respond(r, WithSession(r, [consumed EXCEPT !.userId = u, !.unlocked = "no"]))
          PROVE  PlainAnswer(r)
        <3> DEFINE session == [consumed EXCEPT !.userId = u, !.unlocked = "no"]
        <3>1. session \in Session /\ session.userId = u /\ session.unlocked = "no"
            BY <2>1 DEF Session
        <3>2. g # None
            BY NoneAssumption
        <3> HIDE DEF session
        <3>3. Respond(r, WithSession(r, session))
            BY <2>2 DEF session
        <3> QED
            BY <1>3, <2>2, <3>1, <3>2, <3>3
    <2>3. ASSUME Respond(r, WithSession(r, [consumed EXCEPT !.pendingGoogle = g]))
          PROVE  PlainAnswer(r)
        <3> DEFINE session == [consumed EXCEPT !.pendingGoogle = g]
        <3>1. session \in Session /\ SameLogin(session, reqs[r].sess)
            BY <2>1 DEF Session, SameLogin
        <3> HIDE DEF session
        <3>2. Respond(r, WithSession(r, session))
            BY <2>3 DEF session
        <3> QED
            BY <1>3, <3>1, <3>2 DEF SameLogin
    <2> QED
        BY <1>7, <2>2, <2>3 DEF GoogleCallback, consumed
<1>8. CASE GoogleStart(r) \/ GoogleCallbackRejected(r)
    BY <1>3, <1>4, <1>5, <1>6, <1>8 DEF GoogleStart, GoogleCallbackRejected
<1>9. CASE Lock(r) \/ Me(r) \/ Refuse(r)
    BY <1>3, <1>4, <1>5, <1>6, <1>9 DEF Lock, Me, Refuse
<1>10. CASE \/ Reject(r) \/ Finish(r) \/ SettingsApply(r)
            \/ (\E a \in Account, slot \in Slot, secret \in Secret :
                    UpdateAccount(r, a, slot, secret))
            \/ (\E a \in Account : RemoveAccount(r, a))
    BY <1>4, <1>10 DEF Reject, Finish, SettingsApply, UpdateAccount, RemoveAccount
<1>11. CASE \/ IssueChallenge(r) \/ PasskeyRejected(r)
            \/ \E d \in Device : RegisterDevice(r, d) \/ RemoveDevice(r, d)
    BY <1>3, <1>4, <1>5, <1>6, <1>11
    DEF IssueChallenge, PasskeyRejected, RegisterDevice, RemoveDevice
<1> QED
    BY <1>7, <1>8, <1>9, <1>10, <1>11

(* Unlocking ends in a session that is unlocked. *)
LEMMA SetupUnlockFields ==
    ASSUME TypeInv, NEW r \in Request, SetupUnlock(r)
    PROVE  \E session \in Session :
               /\ Answered(r, session)
               /\ session.unlocked = "yes"
               /\ session.userId = reqs[r].user
<1>1. /\ reqs[r].pc = "setupDone" /\ UNCHANGED sessionVars
      /\ reqs[r] \in RequestState /\ RequestOK(reqs[r]) /\ reqs[r].sess \in Session
    BY InFlight DEF SetupUnlock, At, TypeInv
<1>2. reqs[r].user \in User
    BY <1>1 DEF RequestOK
<1> DEFINE session == [reqs[r].sess EXCEPT !.pendingGoogle = None, !.userId = reqs[r].user,
                                           !.unlocked = "yes"]
<1>3. session \in Session /\ session.unlocked = "yes" /\ session.userId = reqs[r].user
    BY <1>1, <1>2 DEF Session
<1>4. Respond(r, WithSession(r, session))
    BY DEF SetupUnlock
<1> HIDE DEF session
<1> QED
    BY <1>1, <1>3, <1>4, AnswerWith

LEMMA SetKeyFields ==
    ASSUME TypeInv, NEW r \in Request, UnlockSetKey(r) \/ ChangeSetKey(r)
    PROVE  \E session \in Session :
               /\ Answered(r, session)
               /\ session.unlocked = "yes"
               /\ session.userId = reqs[r].sess.userId
<1>1. /\ reqs[r].pc \notin {"idle", "end", "destroy"} /\ UNCHANGED sessionVars
      /\ reqs[r] \in RequestState /\ reqs[r].sess \in Session
    BY InFlight DEF UnlockSetKey, ChangeSetKey, TypeInv
<1> DEFINE session == [reqs[r].sess EXCEPT !.unlocked = "yes"]
<1>2. session \in Session /\ session.unlocked = "yes" /\ session.userId = reqs[r].sess.userId
    BY <1>1 DEF Session
<1>3. Respond(r, WithSession(r, session))
    BY DEF UnlockSetKey, ChangeSetKey
<1> HIDE DEF session
<1> QED
    BY <1>1, <1>2, <1>3, AnswerWith

(* The request goes on to pc with its copy of the session as it was. *)
Proceeds(r, pc) ==
    /\ Continues(r)
    /\ reqs'[r].pc = pc
    /\ reqs'[r].sess = reqs[r].sess

LEMMA UnlockReadUserFields ==
    ASSUME TypeInv, NEW r \in Request, UnlockReadUser(r)
    PROVE  LET u == reqs[r].sess.userId IN
               /\ Proceeds(r, "verify")
               /\ u \in User /\ UserExists(u)
               /\ reqs'[r].user = u
               /\ reqs'[r].key = reqs[r].key
               /\ reqs'[r].rowKey = users[u].key
               /\ reqs'[r].minutes = users[u].autoLockMinutes
<1> DEFINE u == reqs[r].sess.userId
<1>1. reqs[r].pc \in {"loaded", "readUser"} /\ reqs[r] \in RequestState /\ reqs[r].sess \in Session
    BY InFlight DEF UnlockReadUser, At, TypeInv
<1>2. u \in User /\ UserExists(u)
    BY <1>1 DEF UnlockReadUser, Session
<1>3. Others(r) /\ reqs'[r] = [reqs[r] EXCEPT !.pc = "verify", !.user = u, !.rowKey = users[u].key,
                                               !.minutes = users[u].autoLockMinutes]
    BY DEF UnlockReadUser, TypeInv, RequestsOK, Others
<1> HIDE DEF u
<1>4. UNCHANGED sessionVars
    BY DEF UnlockReadUser
<1> QED
    BY <1>1, <1>2, <1>3, <1>4 DEF u, Proceeds, Continues, RequestState

LEMMA AdmitFields ==
    ASSUME TypeInv, NEW r \in Request, Admit(r)
    PROVE  /\ Proceeds(r, reqs[r].op)
           /\ reqs[r].pc = "loaded"
           /\ reqs[r].op \in GuardedOps
           /\ reqs[r].sess.userId \in User
           /\ reqs[r].sess.unlocked = "yes"
           /\ reqs'[r].user = reqs[r].sess.userId
           /\ reqs'[r].key = entries[reqs[r].sid].key
           /\ HasEntry(reqs[r].sid)
           /\ ~Expired(reqs[r].sid)
<1>1. /\ reqs[r].pc = "loaded" /\ reqs[r].op \in GuardedOps
      /\ reqs[r] \in RequestState /\ reqs[r].sess \in Session /\ reqs[r].sid \in Sid
    BY InFlight DEF Admit, TypeInv
<1>2. /\ TouchedKey(reqs[r].sid) = entries[reqs[r].sid].key
      /\ HasEntry(reqs[r].sid) /\ ~Expired(reqs[r].sid)
    BY <1>1, EntryCases DEF Admit, MayPass, TypeInv, TouchedKey
<1>3. reqs[r].sess.userId \in User /\ reqs[r].sess.unlocked = "yes"
    BY <1>1 DEF Admit, MayPass, Session
<1>4. /\ Others(r)
      /\ reqs'[r] = [reqs[r] EXCEPT !.pc = reqs[r].op, !.user = reqs[r].sess.userId,
                                     !.key = entries[reqs[r].sid].key]
    BY <1>2 DEF Admit, TypeInv, RequestsOK, Others
<1>5. UNCHANGED sessionVars
    BY DEF Admit
<1> QED
    BY <1>1, <1>2, <1>3, <1>4, <1>5 DEF Proceeds, Continues, RequestState

LEMMA SetupCreateFields ==
    ASSUME TypeInv, NEW r \in Request, NEW u \in User, NEW k \in Key, SetupCreate(r, u, k)
    PROVE  /\ Proceeds(r, "setupDone")
           /\ reqs[r].pc = "loaded" /\ reqs[r].op = "setup"
           /\ reqs[r].sess.userId = None /\ reqs[r].sess.pendingGoogle # None
           /\ reqs'[r].user = u
           /\ reqs'[r].key = reqs[r].key
           /\ reqs'[r].rowKey = k
           /\ reqs'[r].minutes = DefaultMinutes
<1>1. /\ reqs[r].pc = "loaded" /\ reqs[r].op = "setup" /\ reqs[r] \in RequestState
      /\ reqs[r].sess.userId = None /\ reqs[r].sess.pendingGoogle # None
    BY DEF SetupCreate, At, TypeInv, RequestsOK
<1>2. Others(r) /\ reqs'[r] = [reqs[r] EXCEPT !.pc = "setupDone", !.user = u, !.rowKey = k,
                                               !.minutes = DefaultMinutes]
    BY DEF SetupCreate, TypeInv, RequestsOK, Others
<1>3. UNCHANGED sessionVars
    BY DEF SetupCreate
<1> QED
    BY <1>1, <1>2, <1>3 DEF Proceeds, Continues, RequestState

LEMMA ChangeReadUserFields ==
    ASSUME TypeInv, NEW r \in Request, ChangeReadUser(r)
    PROVE  /\ Proceeds(r, "snapshot")
           /\ reqs[r].pc = "change"
           /\ reqs'[r].user = reqs[r].user
           /\ reqs'[r].key = reqs[r].key
           /\ reqs'[r].minutes = users[reqs[r].user].autoLockMinutes
<1>1. reqs[r].pc = "change" /\ reqs[r] \in RequestState /\ UNCHANGED sessionVars
    BY DEF ChangeReadUser, TypeInv, RequestsOK
<1>2. /\ Others(r)
      /\ reqs'[r] = [reqs[r] EXCEPT !.pc = "snapshot", !.rowKey = users[reqs[r].user].key,
                                     !.minutes = users[reqs[r].user].autoLockMinutes]
    BY DEF ChangeReadUser, TypeInv, RequestsOK, Others
<1> QED
    BY <1>1, <1>2 DEF Proceeds, Continues, RequestState

LEMMA ChangeSnapshotFields ==
    ASSUME TypeInv, NEW r \in Request, NEW k \in Key, ChangeSnapshot(r, k)
    PROVE  /\ Proceeds(r, "commit")
           /\ reqs[r].pc = "snapshot"
           /\ reqs'[r].user = reqs[r].user
           /\ reqs'[r].key = reqs[r].key
           /\ reqs'[r].minutes = reqs[r].minutes
           /\ reqs'[r].newKey = k
           /\ reqs'[r].snapshot = [a \in Account |->
                  IF accounts[a].owner = reqs[r].user
                  THEN [key |-> accounts[a].key, secret |-> accounts[a].secret]
                  ELSE NoCiphertext]
<1>1. reqs[r].pc = "snapshot" /\ reqs[r] \in RequestState /\ UNCHANGED sessionVars
    BY DEF ChangeSnapshot, TypeInv, RequestsOK
<1> DEFINE snapshot == [a \in Account |->
                  IF accounts[a].owner = reqs[r].user
                  THEN [key |-> accounts[a].key, secret |-> accounts[a].secret]
                  ELSE NoCiphertext]
<1>2. /\ Others(r)
      /\ reqs'[r] = [reqs[r] EXCEPT !.pc = "commit", !.newKey = k, !.snapshot = snapshot]
    BY DEF ChangeSnapshot, TypeInv, RequestsOK, Others
<1> HIDE DEF snapshot
<1>3. /\ Proceeds(r, "commit")
      /\ reqs'[r].user = reqs[r].user /\ reqs'[r].key = reqs[r].key
      /\ reqs'[r].minutes = reqs[r].minutes /\ reqs'[r].newKey = k
      /\ reqs'[r].snapshot = snapshot
    BY <1>1, <1>2 DEF Proceeds, Continues, RequestState
<1> QED
    BY <1>1, <1>3 DEF snapshot

LEMMA ChangeCommitFields ==
    ASSUME TypeInv, NEW r \in Request, ChangeCommit(r)
    PROVE  /\ Proceeds(r, "changed")
           /\ reqs[r].pc = "commit"
           /\ reqs[r].user \in User /\ reqs[r].newKey \in Key
           /\ reqs'[r].user = reqs[r].user
           /\ reqs'[r].key = reqs[r].key
           /\ reqs'[r].minutes = reqs[r].minutes
           /\ reqs'[r].newKey = reqs[r].newKey
<1>1. /\ reqs[r].pc = "commit" /\ reqs[r] \in RequestState /\ RequestOK(reqs[r])
      /\ UNCHANGED sessionVars
    BY DEF ChangeCommit, TypeInv, RequestsOK
<1>2. reqs[r].user \in User /\ reqs[r].newKey \in Key
    BY <1>1 DEF RequestOK, PastGuard
<1>3. Others(r) /\ reqs'[r] = [reqs[r] EXCEPT !.pc = "changed"]
    BY DEF ChangeCommit, TypeInv, RequestsOK, Others
<1> QED
    BY <1>1, <1>2, <1>3 DEF Proceeds, Continues, RequestState

LEMMA SettingsWriteFields ==
    ASSUME TypeInv, NEW r \in Request, NEW m \in Minutes, SettingsWrite(r, m)
    PROVE  /\ Proceeds(r, "apply")
           /\ reqs[r].pc = "settings"
           /\ reqs[r].user \in User
           /\ reqs'[r].user = reqs[r].user
           /\ reqs'[r].key = reqs[r].key
           /\ reqs'[r].minutes = m
<1>1. /\ reqs[r].pc = "settings" /\ reqs[r] \in RequestState /\ RequestOK(reqs[r])
      /\ UNCHANGED sessionVars
    BY DEF SettingsWrite, TypeInv, RequestsOK
<1>2. reqs[r].user \in User
    BY <1>1 DEF RequestOK, PastGuard, GuardedOps
<1>3. Others(r) /\ reqs'[r] = [reqs[r] EXCEPT !.pc = "apply", !.minutes = m]
    BY DEF SettingsWrite, TypeInv, RequestsOK, Others
<1> QED
    BY <1>1, <1>2, <1>3 DEF Proceeds, Continues, RequestState

LEMMA AuthenticateFields ==
    ASSUME TypeInv, NEW r \in Request, NEW d \in Device, Authenticate(r, d)
    PROVE  /\ Continues(r)
           /\ reqs[r].pc = "loaded" /\ reqs[r].op = "authenticate"
           /\ reqs[r].sess.challenge
           /\ devices[d] # NoDevice /\ devices[d].owner \in User
           /\ reqs'[r].pc = "readUser"
           /\ reqs'[r].sess.userId = devices[d].owner
           /\ reqs'[r].sess.unlocked = reqs[r].sess.unlocked
           /\ reqs'[r].user = reqs[r].user
           /\ reqs'[r].key = reqs[r].key
<1>1. /\ reqs[r].pc = "loaded" /\ reqs[r].op = "authenticate" /\ reqs[r] \in RequestState
      /\ reqs[r].sess \in Session /\ reqs[r].sess.challenge /\ devices[d] # NoDevice
      /\ UNCHANGED sessionVars
    BY InFlight DEF Authenticate, At, TypeInv
<1>2. devices[d].owner \in User
    BY <1>1 DEF TypeInv, TablesOK, DeviceRow
<1> DEFINE session == [reqs[r].sess EXCEPT !.challenge = FALSE, !.userId = devices[d].owner]
<1>3. /\ session \in Session /\ session.userId = devices[d].owner
      /\ session.unlocked = reqs[r].sess.unlocked
    BY <1>1, <1>2 DEF Session
<1>4. Others(r) /\ reqs'[r] = [WithSession(r, session) EXCEPT !.pc = "readUser"]
    BY DEF Authenticate, TypeInv, RequestsOK, Others
<1> HIDE DEF session
<1>5. /\ Continues(r) /\ reqs'[r].pc = "readUser" /\ reqs'[r].sess = session
      /\ reqs'[r].user = reqs[r].user /\ reqs'[r].key = reqs[r].key
    BY <1>1, <1>3, <1>4 DEF Continues, RequestState, WithSession
<1> QED
    BY <1>1, <1>2, <1>3, <1>5

LEMMA InsertAccountFields ==
    ASSUME TypeInv, NEW r \in Request, NEW a \in Account, NEW slot \in Slot,
           NEW secret \in Secret, InsertAccount(r, a, slot, secret)
    PROVE  /\ reqs[r].pc \in {"create", "import"}
           /\ Proceeds(r, "end") \/ reqs' = reqs
           /\ Continues(r)
           /\ reqs[r].user \in User /\ reqs[r].key \in Key
           /\ reqs'[r].user = reqs[r].user
           /\ reqs'[r].key = reqs[r].key
           /\ reqs'[r].sess = reqs[r].sess
<1>1. /\ reqs[r].pc \in {"create", "import"} /\ reqs[r] \in RequestState
      /\ RequestOK(reqs[r]) /\ UNCHANGED sessionVars
    BY DEF InsertAccount, TypeInv, RequestsOK
<1>2. reqs[r].user \in User /\ reqs[r].key \in Key
    BY <1>1 DEF RequestOK, PastGuard, GuardedOps
<1>3. reqs' = [reqs EXCEPT ![r].pc = IF reqs[r].pc = "create" THEN "end" ELSE reqs[r].pc]
    BY DEF InsertAccount
<1>4. CASE reqs[r].pc = "create"
    <2>1. Others(r) /\ reqs'[r] = [reqs[r] EXCEPT !.pc = "end"]
        BY <1>3, <1>4 DEF TypeInv, RequestsOK, Others
    <2> QED
        BY <1>1, <1>2, <2>1 DEF Proceeds, Continues, RequestState
<1>5. CASE reqs[r].pc # "create"
    <2>1. [reqs[r] EXCEPT !.pc = reqs[r].pc] = reqs[r]
        BY <1>1 DEF RequestState
    <2>2. reqs' = reqs
        BY <1>3, <1>5, <2>1 DEF TypeInv, RequestsOK
    <2> QED
        BY <1>1, <1>2, <2>2 DEF Continues, Others
<1> QED
    BY <1>4, <1>5

LEMMA LogoutFields ==
    ASSUME TypeInv, NEW r \in Request, Logout(r)
    PROVE  /\ reqs[r].pc = "loaded" /\ reqs[r].op = "logout"
           /\ Others(r)
           /\ reqs'[r].pc = "destroy"
           /\ reqs'[r].op = reqs[r].op
           /\ reqs'[r].browser = reqs[r].browser /\ reqs'[r].browser \in Browser
           /\ reqs'[r].sid = reqs[r].sid /\ reqs'[r].sid \in Sid
           /\ reqs'[r].carried = reqs[r].carried
           /\ reqs'[r].sess = reqs[r].sess
           /\ reqs'[r].user = reqs[r].user
           /\ reqs'[r].key = reqs[r].key
<1>1. /\ reqs[r].pc = "loaded" /\ reqs[r].op = "logout" /\ reqs[r] \in RequestState
      /\ reqs[r].browser \in Browser /\ reqs[r].sid \in Sid
    BY InFlight DEF Logout, At, TypeInv
<1>2. Others(r) /\ reqs'[r] = [reqs[r] EXCEPT !.pc = "destroy"]
    BY DEF Logout, TypeInv, RequestsOK, Others
<1> QED
    BY <1>1, <1>2 DEF RequestState

LEMMA LoadFields ==
    ASSUME TypeInv, NEW r \in Request, NEW b \in Browser, NEW op \in Ops, Load(r, b, op)
    PROVE  \E s \in Sid :
               /\ IF CookieFound(b) THEN s = cookie[b] ELSE FreshSid(s, b)
               /\ reqs[r].pc = "idle"
               /\ Others(r)
               /\ reqs'[r].pc = "loaded"
               /\ reqs'[r].op = op
               /\ reqs'[r].browser = b
               /\ reqs'[r].sid = s
               /\ reqs'[r].carried = CookieFound(b)
               /\ reqs'[r].sess = IF CookieFound(b) THEN rows[s] ELSE NewSession
               /\ reqs'[r].user = None
               /\ reqs'[r].key = None
<1>1. PICK s \in Sid :
          /\ IF CookieFound(b) THEN s = cookie[b] ELSE FreshSid(s, b)
          /\ reqs' = [reqs EXCEPT ![r] =
                 [IdleRequest EXCEPT
                     !.op = op, !.pc = "loaded", !.browser = b, !.sid = s,
                     !.carried = CookieFound(b),
                     !.sess = IF CookieFound(b) THEN rows[s] ELSE NewSession]]
    BY DEF Load
<1> DEFINE session == IF CookieFound(b) THEN rows[s] ELSE NewSession
           q == [IdleRequest EXCEPT !.op = op, !.pc = "loaded", !.browser = b, !.sid = s,
                                    !.carried = CookieFound(b), !.sess = session]
<1>2. /\ q.pc = "loaded" /\ q.op = op /\ q.browser = b /\ q.sid = s
      /\ q.carried = CookieFound(b) /\ q.sess = session /\ q.user = None /\ q.key = None
    BY DEF IdleRequest
<1>3. reqs' = [reqs EXCEPT ![r] = q]
    BY <1>1
<1> HIDE DEF q
<1>4. Others(r) /\ reqs'[r] = q
    BY <1>3 DEF TypeInv, RequestsOK, Others
<1>5. reqs[r].pc = "idle"
    BY DEF Load
<1> QED
    BY <1>1, <1>2, <1>4, <1>5

(* The end of a response leaves the request idle. *)
Closing(r) == EndRequest(r) \/ SaveLost(r) \/ Destroy(r)

LEMMA ClosingFields ==
    ASSUME TypeInv, NEW r \in Request, Closing(r)
    PROVE  /\ reqs[r].pc \in {"end", "destroy"}
           /\ Others(r)
           /\ reqs'[r] = IdleRequest
           /\ reqs[r].sid \in Sid /\ reqs[r].browser \in Browser /\ reqs[r].sess \in Session
           /\ UNCHANGED <<entries, tables>>
<1>1. reqs[r].pc \in {"end", "destroy"}
    BY DEF Closing, EndRequest, SaveLost, Destroy
<1>2. reqs' = [reqs EXCEPT ![r] = IdleRequest] /\ UNCHANGED <<entries, tables>>
    BY DEF Closing, EndRequest, SaveLost, Destroy
<1>3. Others(r) /\ reqs'[r] = IdleRequest
    BY <1>2 DEF TypeInv, RequestsOK, Others
<1> QED
    BY <1>1, <1>2, <1>3, InFlight DEF TypeInv

-----------------------------------------------------------------------------
(* The steps, by what they do to their request. *)

PlainStep(r) ==
    \/ GoogleStart(r) \/ (\E g \in Identity : GoogleCallback(r, g))
    \/ GoogleCallbackRejected(r) \/ Lock(r) \/ Me(r)
    \/ Refuse(r) \/ Reject(r) \/ Finish(r) \/ SettingsApply(r)
    \/ (\E a \in Account, slot \in Slot, secret \in Secret : UpdateAccount(r, a, slot, secret))
    \/ (\E a \in Account : RemoveAccount(r, a))
    \/ IssueChallenge(r) \/ PasskeyRejected(r)
    \/ (\E d \in Device : RegisterDevice(r, d) \/ RemoveDevice(r, d))

InsertStep(r) ==
    \E a \in Account, slot \in Slot, secret \in Secret : InsertAccount(r, a, slot, secret)

UnlockStep(r) == SetupUnlock(r) \/ UnlockSetKey(r) \/ ChangeSetKey(r)

ProceedStep(r) ==
    \/ \E u \in User, k \in Key : SetupCreate(r, u, k)
    \/ UnlockReadUser(r)
    \/ Admit(r)
    \/ ChangeReadUser(r)
    \/ \E k \in Key : ChangeSnapshot(r, k)
    \/ ChangeCommit(r)
    \/ \E m \in Minutes : SettingsWrite(r, m)
    \/ \E d \in Device : Authenticate(r, d)

LEMMA StepCases ==
    ASSUME [Next]_vars
    PROVE  \/ \E r \in Request :
                  \/ \E b \in Browser, op \in Ops : Load(r, b, op)
                  \/ Closing(r)
                  \/ Logout(r)
                  \/ PlainStep(r)
                  \/ InsertStep(r)
                  \/ UnlockStep(r)
                  \/ ProceedStep(r)
           \/ Restart
           \/ Tick
           \/ UNCHANGED vars
<1>1. ASSUME NEW r \in Request, AuthStep(r)
      PROVE  \/ \E b \in Browser, op \in Ops : Load(r, b, op)
             \/ Closing(r) \/ Logout(r) \/ PlainStep(r) \/ UnlockStep(r) \/ ProceedStep(r)
    BY <1>1 DEF AuthStep, Closing, PlainStep, UnlockStep, ProceedStep
<1>2. ASSUME NEW r \in Request, AccountStep(r)
      PROVE  PlainStep(r) \/ InsertStep(r)
    BY <1>2 DEF AccountStep, PlainStep, InsertStep
<1>3. ASSUME NEW r \in Request, ChangeStep(r)
      PROVE  PlainStep(r) \/ UnlockStep(r) \/ ProceedStep(r)
    BY <1>3 DEF ChangeStep, PlainStep, UnlockStep, ProceedStep
<1>4. ASSUME NEW r \in Request, DeviceStep(r)
      PROVE  PlainStep(r) \/ ProceedStep(r)
    BY <1>4 DEF DeviceStep, PlainStep, ProceedStep
<1> QED
    BY <1>1, <1>2, <1>3, <1>4 DEF Next

(* A handler's step is one of its request alone. *)
LEMMA HandlerContinues ==
    ASSUME TypeInv, NEW r \in Request,
           PlainStep(r) \/ InsertStep(r) \/ UnlockStep(r) \/ ProceedStep(r)
    PROVE  Continues(r)
<1>1. CASE PlainStep(r)
    BY <1>1, PlainAnswers DEF PlainStep, PlainAnswer, Answered
<1>2. CASE InsertStep(r)
    BY <1>2, InsertAccountFields DEF InsertStep
<1>3. CASE UnlockStep(r)
    BY <1>3, SetupUnlockFields, SetKeyFields DEF UnlockStep, Answered
<1>4. CASE ProceedStep(r)
    BY <1>4, SetupCreateFields, UnlockReadUserFields, AdmitFields, ChangeReadUserFields,
       ChangeSnapshotFields, ChangeCommitFields, SettingsWriteFields, AuthenticateFields
    DEF ProceedStep, Proceeds
<1> QED
    BY <1>1, <1>2, <1>3, <1>4

-----------------------------------------------------------------------------
(* Users.  There is no way to delete one, and whatever names a user, in a  *)
(* table, a session or a request, names one whose setup has been committed.*)

Known(u) == u # None => UserExists(u)

UsersKnown == \A u \in User : users[u].googleSubId # None => UserExists(u)

RowsKnown == \A s \in Sid : Known(rows[s].userId)

AccountsKnown == \A a \in StoredAccounts : UserExists(accounts[a].owner)

DevicesKnown == \A d \in Device : devices[d] # NoDevice => UserExists(devices[d].owner)

RequestsKnown == \A r \in Request : Known(reqs[r].sess.userId) /\ Known(reqs[r].user)

KnownInv ==
    TypeInv /\ UsersKnown /\ RowsKnown /\ AccountsKnown /\ DevicesKnown /\ RequestsKnown

(* A step writes at most one user row: a new one, its key or its setting. *)
LEMMA UserRowWrites ==
    ASSUME TypeInv, [Next]_vars
    PROVE  \/ UNCHANGED users
           \/ \E r \in Request, w \in User, k \in Key :
                  /\ SetupCreate(r, w, k)
                  /\ users'[w].key = k /\ users'[w].autoLockMinutes = DefaultMinutes
                  /\ \A u \in User \ {w} : users'[u] = users[u]
           \/ \E r \in Request, m \in Minutes :
                  /\ SettingsWrite(r, m)
                  /\ \A u \in User :
                         /\ users'[u].key = users[u].key
                         /\ users'[u].googleSubId = users[u].googleSubId
                         /\ users'[u].autoLockMinutes =
                                IF u = reqs[r].user THEN m ELSE users[u].autoLockMinutes
           \/ \E r \in Request :
                  /\ ChangeCommit(r)
                  /\ \A u \in User :
                         /\ users'[u].key =
                                IF u = reqs[r].user THEN reqs[r].newKey ELSE users[u].key
                         /\ users'[u].googleSubId = users[u].googleSubId
                         /\ users'[u].autoLockMinutes = users[u].autoLockMinutes
<1>1. users \in [User -> UserRow]
    BY DEF TypeInv, TablesOK
<1>2. ASSUME NEW r \in Request, NEW w \in User, NEW k \in Key, SetupCreate(r, w, k)
      PROVE  /\ users'[w].key = k /\ users'[w].autoLockMinutes = DefaultMinutes
             /\ \A u \in User \ {w} : users'[u] = users[u]
    BY <1>1, <1>2 DEF SetupCreate
<1>3. ASSUME NEW r \in Request, NEW m \in Minutes, SettingsWrite(r, m), NEW u \in User
      PROVE  /\ users'[u].key = users[u].key
             /\ users'[u].googleSubId = users[u].googleSubId
             /\ users'[u].autoLockMinutes = IF u = reqs[r].user THEN m ELSE users[u].autoLockMinutes
    BY <1>1, <1>3 DEF SettingsWrite, UserRow
<1>4. ASSUME NEW r \in Request, ChangeCommit(r), NEW u \in User
      PROVE  /\ users'[u].key = IF u = reqs[r].user THEN reqs[r].newKey ELSE users[u].key
             /\ users'[u].googleSubId = users[u].googleSubId
             /\ users'[u].autoLockMinutes = users[u].autoLockMinutes
    BY <1>1, <1>4 DEF ChangeCommit, UserRow
<1> QED
    BY <1>2, <1>3, <1>4, TableWriters

(* A user that exists goes on existing. *)
LEMMA UserStays ==
    ASSUME TypeInv, [Next]_vars, NEW u \in User, UserExists(u)
    PROVE  UserExists(u)'
<1>1. CASE UNCHANGED users
    BY <1>1 DEF UserExists
<1>2. ASSUME NEW w \in User, NEW k \in Key, users'[w].key = k,
             \A v \in User \ {w} : users'[v] = users[v]
      PROVE  UserExists(u)'
    BY <1>2, NoneAssumption DEF UserExists
<1>3. ASSUME NEW r \in Request, ChangeCommit(r),
             \A v \in User : users'[v].key = IF v = reqs[r].user THEN reqs[r].newKey ELSE users[v].key
      PROVE  UserExists(u)'
    <2>1. reqs[r].newKey # None
        BY <1>3, ChangeCommitFields, NoneAssumption
    <2> QED
        BY <1>3, <2>1 DEF UserExists
<1>4. CASE \A v \in User : users'[v].key = users[v].key
    BY <1>4 DEF UserExists
<1> QED
    BY <1>1, <1>2, <1>3, <1>4, UserRowWrites

LEMMA UsersKnownStep ==
    ASSUME KnownInv, [Next]_vars
    PROVE  UsersKnown'
<1> USE DEF KnownInv
<1>1. \A u \in User : UserExists(u) => UserExists(u)'
    BY UserStays
<1>2. ASSUME NEW w \in User, NEW k \in Key, users'[w].key = k,
             \A v \in User \ {w} : users'[v] = users[v]
      PROVE  UsersKnown'
    BY <1>2, NoneAssumption DEF UserExists, UsersKnown
<1>3. CASE \A u \in User : users'[u].googleSubId = users[u].googleSubId
    BY <1>1, <1>3 DEF UsersKnown
<1> QED
    BY <1>2, <1>3, UserRowWrites

(* Sessions are written at the end of a response. *)
LEMMA RowWrites ==
    ASSUME TypeInv, [Next]_vars
    PROVE  \/ UNCHANGED <<rows, status>>
           \/ \E r \in Request :
                  /\ EndRequest(r) /\ reqs[r].dirty
                  /\ rows' = [rows EXCEPT ![reqs[r].sid] = reqs[r].sess]
                  /\ status' = [status EXCEPT ![reqs[r].sid] = "stored"]
           \/ \E r \in Request :
                  /\ Destroy(r) /\ reqs[r].carried
                  /\ rows' = [rows EXCEPT ![reqs[r].sid] = NewSession]
                  /\ status' = [status EXCEPT ![reqs[r].sid] = "destroyed"]
<1>1. ASSUME NEW r \in Request,
             PlainStep(r) \/ InsertStep(r) \/ UnlockStep(r) \/ ProceedStep(r)
      PROVE  UNCHANGED <<rows, status>>
    BY <1>1, HandlerContinues DEF Continues, sessionVars
<1>2. ASSUME NEW r \in Request, Closing(r)
      PROVE  \/ UNCHANGED <<rows, status>>
             \/ /\ EndRequest(r) /\ reqs[r].dirty
                /\ rows' = [rows EXCEPT ![reqs[r].sid] = reqs[r].sess]
                /\ status' = [status EXCEPT ![reqs[r].sid] = "stored"]
             \/ /\ Destroy(r) /\ reqs[r].carried
                /\ rows' = [rows EXCEPT ![reqs[r].sid] = NewSession]
                /\ status' = [status EXCEPT ![reqs[r].sid] = "destroyed"]
    BY <1>2 DEF Closing, EndRequest, SaveLost, Destroy, SaveSession, DestroySession
<1>3. ASSUME NEW r \in Request, Logout(r) \/ \E b \in Browser, op \in Ops : Load(r, b, op)
      PROVE  UNCHANGED <<rows, status>>
    BY <1>3 DEF Logout, Load, sessionVars
<1>4. CASE Restart \/ Tick \/ UNCHANGED vars
    BY <1>4 DEF Restart, Tick, vars, sessionVars
<1> QED
    BY <1>1, <1>2, <1>3, <1>4, StepCases

LEMMA RowsKnownStep ==
    ASSUME KnownInv, [Next]_vars
    PROVE  RowsKnown'
<1> USE DEF KnownInv
<1>1. \A u \in User : UserExists(u) => users'[u].key # None
    BY UserStays DEF UserExists
<1>2. SUFFICES ASSUME NEW s \in Sid, rows'[s].userId # None
               PROVE  users'[rows'[s].userId].key # None
    BY DEF RowsKnown, Known, UserExists
<1>3. CASE rows'[s] = rows[s]
    <2>1. rows[s].userId \in User /\ UserExists(rows[s].userId)
        BY <1>2, <1>3 DEF RowsKnown, Known, TypeInv, SessionsTypeOK, Session
    <2> QED
        BY <1>1, <1>3, <2>1
<1>4. ASSUME NEW r \in Request, EndRequest(r),
             rows' = [rows EXCEPT ![reqs[r].sid] = reqs[r].sess]
      PROVE  users'[rows'[s].userId].key # None
    <2>1. CASE s = reqs[r].sid
        <3>1. rows'[s] = reqs[r].sess /\ reqs[r].sess \in Session
            BY <1>4, <2>1, ClosingFields DEF Closing, TypeInv, SessionsTypeOK
        <3>2. rows'[s].userId \in User /\ UserExists(rows'[s].userId)
            BY <1>2, <3>1 DEF RequestsKnown, Known, Session
        <3> QED
            BY <1>1, <3>2
    <2>2. CASE s # reqs[r].sid
        BY <1>3, <1>4, <2>2 DEF TypeInv, SessionsTypeOK
    <2> QED
        BY <2>1, <2>2
<1>5. ASSUME NEW r \in Request, rows' = [rows EXCEPT ![reqs[r].sid] = NewSession]
      PROVE  users'[rows'[s].userId].key # None
    BY <1>2, <1>3, <1>5 DEF NewSession, TypeInv, SessionsTypeOK
<1> QED
    BY <1>3, <1>4, <1>5, RowWrites

(* What becomes of one account: it goes, it is written by a request that   *)
(* passed the guard, it gets another slot, or a change re-encrypts it.     *)
LEMMA AccountWrites ==
    ASSUME TypeInv, [Next]_vars, NEW a \in Account
    PROVE  \/ accounts'[a] = accounts[a]
           \/ accounts'[a] = NoAccount
           \/ /\ UNCHANGED users
              /\ accounts'[a] \in AccountRow
              /\ \E r \in Request :
                     /\ reqs[r].pc \in {"create", "import", "update"}
                     /\ reqs[r].user \in User /\ reqs[r].key \in Key
                     /\ accounts'[a].owner = reqs[r].user
                     /\ accounts'[a].key = reqs[r].key
           \/ /\ UNCHANGED users
              /\ accounts[a] \in AccountRow
              /\ accounts'[a].owner = accounts[a].owner
              /\ accounts'[a].key = accounts[a].key
           \/ \E r \in Request :
                  /\ ChangeCommit(r)
                  /\ a \in Listed(r)
                  /\ accounts[a] \in AccountRow
                  /\ accounts'[a].owner = accounts[a].owner
                  /\ accounts'[a].key = reqs[r].newKey
                  /\ accounts'[a].secret = reqs[r].snapshot[a].secret
<1>1. accounts \in [Account -> AccountRow \cup {NoAccount}]
    BY DEF TypeInv, TablesOK
<1>2. ASSUME NEW r \in Request, reqs[r].pc \in {"create", "import", "update"}
      PROVE  reqs[r].user \in User /\ reqs[r].key \in Key
    BY <1>2 DEF TypeInv, RequestsOK, RequestOK, PastGuard, GuardedOps
<1>3. ASSUME NEW r \in Request, NEW b \in Account, NEW slot \in Slot, NEW secret \in Secret,
             InsertAccount(r, b, slot, secret)
      PROVE  \/ accounts'[a] = accounts[a]
             \/ /\ UNCHANGED users
                /\ accounts'[a] \in AccountRow
                /\ reqs[r].pc \in {"create", "import", "update"}
                /\ accounts'[a].owner = reqs[r].user
                /\ accounts'[a].key = reqs[r].key
    <2>1. reqs[r].pc \in {"create", "import"} /\ reqs[r].user \in User /\ reqs[r].key \in Key
        BY <1>2, <1>3 DEF InsertAccount
    <2>2. a = b => accounts'[a] = [owner |-> reqs[r].user, slot |-> slot, key |-> reqs[r].key,
                                   secret |-> secret]
        BY <1>1, <1>3 DEF InsertAccount
    <2>3. a # b => accounts'[a] = accounts[a]
        BY <1>1, <1>3 DEF InsertAccount
    <2>4. UNCHANGED users
        BY <1>3 DEF InsertAccount
    <2> QED
        BY <2>1, <2>2, <2>3, <2>4 DEF AccountRow
<1>4. ASSUME NEW r \in Request, NEW b \in Account, NEW slot \in Slot, NEW secret \in Secret,
             UpdateAccount(r, b, slot, secret)
      PROVE  \/ accounts'[a] = accounts[a]
             \/ /\ UNCHANGED users
                /\ accounts[a] \in AccountRow
                /\ accounts'[a] \in AccountRow
                /\ reqs[r].pc \in {"create", "import", "update"}
                /\ accounts'[a].owner = accounts[a].owner
                /\ \/ accounts'[a].key = accounts[a].key
                   \/ accounts'[a].owner = reqs[r].user /\ accounts'[a].key = reqs[r].key
    <2>1. reqs[r].pc = "update" /\ reqs[r].user \in User /\ reqs[r].key \in Key
        BY <1>2, <1>4 DEF UpdateAccount
    <2>2. CASE a = b
        <3>1. NoAccount.owner \notin User
            BY NoneAssumption DEF NoAccount
        <3>2. accounts[a].owner = reqs[r].user /\ accounts[a] \in AccountRow
            BY <1>1, <1>4, <2>1, <2>2, <3>1 DEF UpdateAccount
        <3>3. \/ accounts'[a] = [accounts[a] EXCEPT !.slot = slot]
              \/ accounts'[a] = [accounts[a] EXCEPT !.slot = slot, !.key = reqs[r].key,
                                                    !.secret = secret]
            BY <1>1, <1>4, <2>2 DEF UpdateAccount
        <3>4. UNCHANGED users
            BY <1>4 DEF UpdateAccount
        <3> QED
            BY <2>1, <3>2, <3>3, <3>4 DEF AccountRow
    <2>3. CASE a # b
        BY <1>1, <1>4, <2>3 DEF UpdateAccount
    <2> QED
        BY <2>2, <2>3
<1>5. ASSUME NEW r \in Request, NEW b \in Account, RemoveAccount(r, b)
      PROVE  accounts'[a] = accounts[a] \/ accounts'[a] = NoAccount
    BY <1>1, <1>5 DEF RemoveAccount
<1>6. ASSUME NEW r \in Request, ChangeCommit(r)
      PROVE  \/ accounts'[a] = accounts[a]
             \/ /\ a \in Listed(r)
                /\ accounts[a] \in AccountRow
                /\ accounts'[a].owner = accounts[a].owner
                /\ accounts'[a].key = reqs[r].newKey
                /\ accounts'[a].secret = reqs[r].snapshot[a].secret
    <2>1. CASE a \in Listed(r)
        <3>1. accounts[a] \in AccountRow
            BY <1>1, <1>6, <2>1 DEF ChangeCommit
        <3>2. accounts'[a] = [accounts[a] EXCEPT !.key = reqs[r].newKey,
                                                 !.secret = reqs[r].snapshot[a].secret]
            BY <1>6, <2>1 DEF ChangeCommit, Reencrypted
        <3> QED
            BY <2>1, <3>1, <3>2 DEF AccountRow
    <2>2. CASE a \notin Listed(r)
        BY <1>6, <2>2 DEF ChangeCommit, Reencrypted
    <2> QED
        BY <2>1, <2>2
<1>7. \/ UNCHANGED accounts
      \/ \E r \in Request, b \in Account, slot \in Slot, secret \in Secret :
             InsertAccount(r, b, slot, secret) \/ UpdateAccount(r, b, slot, secret)
      \/ \E r \in Request, b \in Account : RemoveAccount(r, b)
      \/ \E r \in Request : ChangeCommit(r)
    BY TableWriters
<1> QED
    BY <1>2, <1>3, <1>4, <1>5, <1>6, <1>7

LEMMA AccountsKnownStep ==
    ASSUME KnownInv, [Next]_vars
    PROVE  AccountsKnown'
<1> USE DEF KnownInv
<1>1. \A u \in User : UserExists(u) => users'[u].key # None
    BY UserStays DEF UserExists
<1>2. SUFFICES ASSUME NEW a \in Account, accounts'[a] # NoAccount
               PROVE  users'[accounts'[a].owner].key # None
    BY DEF AccountsKnown, StoredAccounts, UserExists
<1>3. CASE accounts[a] # NoAccount /\ accounts'[a].owner = accounts[a].owner
    BY <1>1, <1>3 DEF AccountsKnown, StoredAccounts, TypeInv, TablesOK, AccountRow
<1>4. ASSUME NEW r \in Request, reqs[r].user \in User, accounts'[a].owner = reqs[r].user
      PROVE  users'[accounts'[a].owner].key # None
    BY <1>1, <1>4, NoneAssumption DEF RequestsKnown, Known
<1>5. accounts[a] \in AccountRow => accounts[a] # NoAccount
    BY NoneAssumption DEF AccountRow, NoAccount
<1> QED
    BY <1>2, <1>3, <1>4, <1>5, AccountWrites

(* A device is removed, or registered by a request that passed the guard. *)
LEMMA DeviceWrites ==
    ASSUME TypeInv, [Next]_vars, NEW d \in Device
    PROVE  \/ devices'[d] = NoDevice
           \/ devices'[d] = devices[d] /\ \A r \in Request : ChangeCommit(r) =>
                  devices[d].owner # reqs[r].user
           \/ /\ UNCHANGED users
              /\ \E r \in Request :
                     /\ reqs[r].pc = "register"
                     /\ reqs[r].user \in User /\ reqs[r].key \in Key
                     /\ devices'[d] = [owner |-> reqs[r].user, key |-> reqs[r].key]
<1>1. devices \in [Device -> DeviceRow \cup {NoDevice}]
    BY DEF TypeInv, TablesOK
<1>2. ASSUME NEW r \in Request, ChangeCommit(r)
      PROVE  \/ devices'[d] = NoDevice
             \/ devices'[d] = devices[d] /\ devices[d].owner # reqs[r].user
    BY <1>2 DEF ChangeCommit, DevicesRevoked
<1>3. ASSUME NEW r \in Request, NEW e \in Device, RegisterDevice(r, e)
      PROVE  \/ devices'[d] = devices[d]
             \/ /\ UNCHANGED users
                /\ reqs[r].pc = "register"
                /\ reqs[r].user \in User /\ reqs[r].key \in Key
                /\ devices'[d] = [owner |-> reqs[r].user, key |-> reqs[r].key]
    <2>1. reqs[r].pc = "register" /\ UNCHANGED users
        BY <1>3 DEF RegisterDevice
    <2>2. reqs[r].user \in User /\ reqs[r].key \in Key
        BY <2>1 DEF TypeInv, RequestsOK, RequestOK, PastGuard, GuardedOps
    <2> QED
        BY <1>1, <1>3, <2>1, <2>2 DEF RegisterDevice
<1>4. ASSUME NEW r \in Request, NEW e \in Device, RemoveDevice(r, e)
      PROVE  devices'[d] = devices[d] \/ devices'[d] = NoDevice
    BY <1>1, <1>4 DEF RemoveDevice
<1>5. \/ UNCHANGED devices
      \/ \E r \in Request : ChangeCommit(r)
      \/ \E r \in Request, e \in Device : RegisterDevice(r, e) \/ RemoveDevice(r, e)
    <2>1. ASSUME NEW r \in Request, AuthStep(r) \/ AccountStep(r)
          PROVE  UNCHANGED devices
        BY <2>1 DEF AuthStep, Load, EndRequest, SaveLost, GoogleStart, GoogleCallback,
            GoogleCallbackRejected, SetupCreate, SetupUnlock, UnlockReadUser, UnlockSetKey, Lock,
            Logout, Destroy, Me, Admit, Refuse, Reject, AccountStep, InsertAccount,
            UpdateAccount, RemoveAccount, Finish, tables
    <2>2. ASSUME NEW r \in Request, ChangeStep(r)
          PROVE  UNCHANGED devices \/ ChangeCommit(r)
        BY <2>2 DEF ChangeStep, ChangeReadUser, ChangeSnapshot, ChangeSetKey, SettingsWrite,
            SettingsApply, tables
    <2>3. ASSUME NEW r \in Request, DeviceStep(r)
          PROVE  UNCHANGED devices \/ \E e \in Device : RegisterDevice(r, e) \/ RemoveDevice(r, e)
        BY <2>3 DEF DeviceStep, IssueChallenge, PasskeyRejected, Authenticate, tables
    <2>4. CASE Restart \/ Tick \/ UNCHANGED vars
        BY <2>4 DEF Restart, Tick, vars, tables
    <2> QED
        BY <2>1, <2>2, <2>3, <2>4 DEF Next
<1> QED
    BY <1>2, <1>3, <1>4, <1>5

LEMMA DevicesKnownStep ==
    ASSUME KnownInv, [Next]_vars
    PROVE  DevicesKnown'
<1> USE DEF KnownInv
<1>1. \A u \in User : UserExists(u) => users'[u].key # None
    BY UserStays DEF UserExists
<1>2. SUFFICES ASSUME NEW d \in Device, devices'[d] # NoDevice
               PROVE  users'[devices'[d].owner].key # None
    BY DEF DevicesKnown, UserExists
<1>3. CASE devices'[d] = devices[d]
    BY <1>1, <1>2, <1>3 DEF DevicesKnown, TypeInv, TablesOK, DeviceRow
<1>4. ASSUME NEW r \in Request, reqs[r].user \in User,
             devices'[d] = [owner |-> reqs[r].user, key |-> reqs[r].key]
      PROVE  users'[devices'[d].owner].key # None
    BY <1>1, <1>4, NoneAssumption DEF RequestsKnown, Known
<1> QED
    BY <1>2, <1>3, <1>4, DeviceWrites

LEMMA OneRequestKnown ==
    ASSUME TypeInv, RequestsKnown, [Next]_vars, NEW r \in Request, Others(r),
           reqs'[r].sess.userId # None => users'[reqs'[r].sess.userId].key # None,
           reqs'[r].user # None => users'[reqs'[r].user].key # None
    PROVE  RequestsKnown'
<1>1. \A u \in User : UserExists(u) => users'[u].key # None
    BY UserStays DEF UserExists
<1>2. ASSUME NEW q \in Request, q # r
      PROVE  /\ reqs'[q].sess.userId # None => users'[reqs'[q].sess.userId].key # None
             /\ reqs'[q].user # None => users'[reqs'[q].user].key # None
    <2>1. reqs'[q] = reqs[q] /\ reqs[q].sess.userId \in User \cup {None}
          /\ reqs[q].user \in User \cup {None}
        BY <1>2 DEF Others, TypeInv, RequestsOK, RequestState, Session
    <2> QED
        BY <1>1, <2>1 DEF RequestsKnown, Known
<1> QED
    BY <1>2 DEF RequestsKnown, Known, UserExists

LEMMA RequestsKnownStep ==
    ASSUME KnownInv, [Next]_vars
    PROVE  RequestsKnown'
<1> USE DEF KnownInv
<1>1. \A u \in User : UserExists(u) => users'[u].key # None
    BY UserStays DEF UserExists
<1>2. \A r \in Request : /\ reqs[r].sess.userId \in User \cup {None}
                         /\ reqs[r].user \in User \cup {None}
    BY DEF TypeInv, RequestsOK, RequestState, Session
<1>3. ASSUME NEW r \in Request, Others(r),
             \/ reqs'[r].sess.userId \in {None, reqs[r].sess.userId, reqs[r].user}
             \/ \E u \in User : reqs'[r].sess.userId = u /\ UserExists(u),
             \/ reqs'[r].user \in {None, reqs[r].sess.userId, reqs[r].user}
             \/ users'[reqs'[r].user].key # None
      PROVE  RequestsKnown'
    <2>1. /\ reqs[r].sess.userId # None => users'[reqs[r].sess.userId].key # None
          /\ reqs[r].user # None => users'[reqs[r].user].key # None
        BY <1>1, <1>2 DEF RequestsKnown, Known
    <2>2. reqs'[r].sess.userId # None => users'[reqs'[r].sess.userId].key # None
        BY <1>1, <1>3, <2>1
    <2>3. reqs'[r].user # None => users'[reqs'[r].user].key # None
        BY <1>3, <2>1
    <2> QED
        BY <1>3, <2>2, <2>3, OneRequestKnown
<1>4. IdleRequest.user = None /\ IdleRequest.sess.userId = None
    BY DEF IdleRequest, NewSession
<1>5. ASSUME NEW r \in Request, NEW b \in Browser, NEW op \in Ops, Load(r, b, op)
      PROVE  RequestsKnown'
    <2>1. PICK s \in Sid :
              /\ Others(r) /\ reqs'[r].user = None
              /\ reqs'[r].sess = IF CookieFound(b) THEN rows[s] ELSE NewSession
        BY <1>5, LoadFields
    <2>2. rows[s].userId \in User \cup {None} /\ Known(rows[s].userId)
        BY DEF RowsKnown, TypeInv, SessionsTypeOK, Session
    <2>3. \/ reqs'[r].sess.userId = None
          \/ \E u \in User : reqs'[r].sess.userId = u /\ UserExists(u)
        BY <2>1, <2>2 DEF NewSession, Known
    <2> QED
        BY <1>3, <2>1, <2>3
<1>6. ASSUME NEW r \in Request, Closing(r)
      PROVE  RequestsKnown'
    BY <1>3, <1>4, <1>6, ClosingFields
<1>7. ASSUME NEW r \in Request, Logout(r)
      PROVE  RequestsKnown'
    BY <1>3, <1>7, LogoutFields
<1>8. ASSUME NEW r \in Request, PlainStep(r)
      PROVE  RequestsKnown'
    <2>1. PICK session \in Session :
              /\ Answered(r, session)
              /\ \/ session.userId = reqs[r].sess.userId
                 \/ \E u \in User : session.userId = u /\ users[u].googleSubId # None
        BY <1>8, PlainAnswers DEF PlainStep, PlainAnswer
    <2> QED
        BY <1>3, <2>1 DEF Answered, Continues, UsersKnown
<1>9. ASSUME NEW r \in Request, UnlockStep(r) \/ InsertStep(r)
      PROVE  RequestsKnown'
    <2>1. CASE SetupUnlock(r)
        BY <1>3, <2>1, SetupUnlockFields DEF Answered, Continues
    <2>2. CASE UnlockSetKey(r) \/ ChangeSetKey(r)
        BY <1>3, <2>2, SetKeyFields DEF Answered, Continues
    <2>3. CASE InsertStep(r)
        BY <1>3, <2>3, InsertAccountFields DEF InsertStep, Continues
    <2> QED
        BY <1>9, <2>1, <2>2, <2>3 DEF UnlockStep
<1>10. ASSUME NEW r \in Request, ProceedStep(r)
       PROVE  RequestsKnown'
    <2>1. ASSUME NEW u \in User, NEW k \in Key, SetupCreate(r, u, k)
          PROVE  RequestsKnown'
        <3>1. users'[u].key # None
            BY <2>1, NoneAssumption DEF SetupCreate, TypeInv, TablesOK
        <3> QED
            BY <1>3, <2>1, <3>1, SetupCreateFields DEF Proceeds, Continues
    <2>2. CASE UnlockReadUser(r) \/ Admit(r) \/ ChangeReadUser(r) \/ ChangeCommit(r)
        BY <1>3, <2>2, UnlockReadUserFields, AdmitFields, ChangeReadUserFields,
           ChangeCommitFields
        DEF Proceeds, Continues
    <2>3. ASSUME NEW k \in Key, ChangeSnapshot(r, k)
          PROVE  RequestsKnown'
        BY <1>3, <2>3, ChangeSnapshotFields DEF Proceeds, Continues
    <2>4. ASSUME NEW m \in Minutes, SettingsWrite(r, m)
          PROVE  RequestsKnown'
        BY <1>3, <2>4, SettingsWriteFields DEF Proceeds, Continues
    <2>5. ASSUME NEW d \in Device, Authenticate(r, d)
          PROVE  RequestsKnown'
        BY <1>3, <2>5, AuthenticateFields DEF Continues, DevicesKnown
    <2> QED
        BY <1>10, <2>1, <2>2, <2>3, <2>4, <2>5 DEF ProceedStep
<1>11. CASE Restart
    BY <1>4, <1>11 DEF Restart, RequestsKnown, Known
<1>12. CASE Tick \/ UNCHANGED vars
    BY <1>12 DEF Tick, vars, tables, RequestsKnown, Known, UserExists
<1> QED
    BY <1>5, <1>6, <1>7, <1>8, <1>9, <1>10, <1>11, <1>12, StepCases

LEMMA KnownInit == Init => KnownInv
<1> SUFFICES ASSUME Init PROVE KnownInv
    OBVIOUS
<1> QED
    BY TypeInvInit
    DEF Init, SessionsInit, NewSession, IdleRequest, NoUser, KnownInv, UsersKnown, RowsKnown,
        AccountsKnown, DevicesKnown, RequestsKnown, Known, StoredAccounts

LEMMA KnownNext == KnownInv /\ [Next]_vars => KnownInv'
    BY TypeInvNext, UsersKnownStep, RowsKnownStep, AccountsKnownStep, DevicesKnownStep,
       RequestsKnownStep
    DEF KnownInv

-----------------------------------------------------------------------------
(* Sessions belong to one browser, and a browser has one request at a      *)
(* time: whoever holds a session id is alone with its row and its entry.   *)

OpOK(q) ==
    /\ q.pc = "idle" => q = IdleRequest
    /\ q.pc # "idle" => q.op \in Ops
    /\ q.pc \in GuardedOps => q.op = q.pc
    /\ q.pc \in {"snapshot", "commit", "changed"} => q.op = "change"
    /\ q.pc = "apply" => q.op = "settings"
    /\ q.pc = "destroy" => q.op = "logout"
    /\ q.pc \in {"loaded", "readUser", "setupDone", "verify"} => q.key = None
    /\ q.key # None => q.user # None

OpsOK == \A r \in Request : OpOK(reqs[r])

OneCall ==
    \A q, r \in Request : q # r /\ Active(q) /\ Active(r) =>
        reqs[q].browser # reqs[r].browser /\ reqs[q].sid # reqs[r].sid

OwnCookies == \A b, c \in Browser : b # c /\ cookie[b] # None => cookie[b] # cookie[c]

(* Only a session that was loaded from a row gets past the first step. *)
OwnSid(r) ==
    /\ \A b \in Browser \ {reqs[r].browser} : cookie[b] # reqs[r].sid
    /\ reqs[r].pc \in Acting => reqs[r].carried
    /\ reqs[r].pc = "loaded" /\ ~reqs[r].carried => reqs[r].sess = NewSession
    /\ reqs[r].carried => status[reqs[r].sid] = "stored"
    /\ reqs[r].carried /\ reqs[r].pc # "destroy" => cookie[reqs[r].browser] = reqs[r].sid
    /\ ~reqs[r].carried => ~CookieFound(reqs[r].browser)
    /\ reqs[r].pc = "destroy" => cookie[reqs[r].browser] = None

OwnSids == \A r \in Request : Active(r) => OwnSid(r)

StoredEntries ==
    \A s \in Sid : HasEntry(s) => status[s] = "stored" /\ \E b \in Browser : cookie[b] = s

UnusedRows == \A s \in Sid : status[s] # "stored" => rows[s] = NewSession

PrivateInv ==
    TypeInv /\ OpsOK /\ OneCall /\ OwnCookies /\ OwnSids /\ StoredEntries /\ UnusedRows

(* Where a handler's step leads. *)
LEMMA HandlerPoints ==
    ASSUME TypeInv, NEW r \in Request,
           PlainStep(r) \/ InsertStep(r) \/ UnlockStep(r) \/ ProceedStep(r)
    PROVE  /\ reqs'[r].pc \in Acting \cup {"end"}
           /\ reqs[r].pc = "loaded" \/ reqs[r].pc \in Acting
           /\ reqs[r].pc = "loaded" /\ reqs'[r].pc \in Acting => reqs[r].sess # NewSession
<1>1. Continues(r) /\ reqs[r].pc \in PCs
    BY HandlerContinues DEF TypeInv, RequestsOK, RequestState
<1>2. reqs[r].pc = "loaded" \/ reqs[r].pc \in Acting
    BY <1>1 DEF Continues, Acting
<1>3. "end" \notin Acting
    BY DEF Acting
<1>4. CASE PlainStep(r)
    BY <1>2, <1>3, <1>4, PlainAnswers DEF PlainStep, PlainAnswer, Answered
<1>5. CASE UnlockStep(r)
    BY <1>2, <1>3, <1>5, SetupUnlockFields, SetKeyFields DEF UnlockStep, Answered
<1>6. CASE InsertStep(r)
    <2>1. reqs[r].pc \in {"create", "import"} /\ (reqs'[r].pc = "end" \/ reqs' = reqs)
        BY <1>6, InsertAccountFields DEF InsertStep, Proceeds
    <2> QED
        BY <1>2, <1>3, <2>1 DEF Acting
<1>7. CASE ProceedStep(r)
    <2>1. /\ NewSession.userId = None /\ NewSession.pendingGoogle = None
          /\ NewSession.challenge = FALSE
        BY DEF NewSession
    <2>2. {"setupDone", "verify", "snapshot", "commit", "changed", "apply", "readUser"}
              \cup GuardedOps \subseteq Acting
        BY DEF Acting, PCs, GuardedOps
    <2>3. CASE UnlockReadUser(r)
        BY <1>2, <2>1, <2>2, <2>3, UnlockReadUserFields, NoneAssumption DEF Proceeds
    <2>4. CASE Admit(r)
        BY <1>2, <2>1, <2>2, <2>4, AdmitFields, NoneAssumption DEF Proceeds
    <2>5. ASSUME NEW u \in User, NEW k \in Key, SetupCreate(r, u, k)
          PROVE  reqs'[r].pc \in Acting /\ reqs[r].sess # NewSession
        BY <2>1, <2>2, <2>5, SetupCreateFields DEF Proceeds
    <2>6. ASSUME NEW d \in Device, Authenticate(r, d)
          PROVE  reqs'[r].pc \in Acting /\ reqs[r].sess # NewSession
        BY <2>1, <2>2, <2>6, AuthenticateFields
    <2>7. ASSUME ChangeReadUser(r) \/ ChangeCommit(r) \/ (\E k \in Key : ChangeSnapshot(r, k))
                 \/ \E m \in Minutes : SettingsWrite(r, m)
          PROVE  reqs'[r].pc \in Acting /\ reqs[r].pc # "loaded"
        BY <2>2, <2>7, ChangeReadUserFields, ChangeSnapshotFields, ChangeCommitFields,
           SettingsWriteFields DEF Proceeds
    <2> QED
        BY <1>2, <1>7, <2>3, <2>4, <2>5, <2>6, <2>7 DEF ProceedStep
<1> QED
    BY <1>4, <1>5, <1>6, <1>7

(* What becomes of one entry of the key store. *)
LEMMA EntryWrites ==
    ASSUME TypeInv, [Next]_vars, NEW s \in Sid
    PROVE  \/ entries'[s] = NoEntry
           \/ /\ HasEntry(s)
              /\ entries'[s].key = entries[s].key
              /\ \A r \in Request : UnlockStep(r) => reqs[r].sid # s
              /\ \/ /\ entries'[s].autoLockMinutes = entries[s].autoLockMinutes
                    /\ \A r \in Request : SettingsApply(r) => reqs[r].sid # s
                 \/ \E r \in Request :
                        /\ SettingsApply(r) /\ reqs[r].sid = s
                        /\ entries'[s].autoLockMinutes = reqs[r].minutes
           \/ \E r \in Request :
                  /\ UnlockStep(r) /\ reqs[r].sid = s
                  /\ entries'[s].key = IF ChangeSetKey(r) THEN reqs[r].newKey ELSE reqs[r].rowKey
                  /\ entries'[s].autoLockMinutes = reqs[r].minutes
<1>1. entries \in [Sid -> UnlockEntry \cup {NoEntry}]
    BY DEF TypeInv, KeyStoreTypeOK
<1>2. HasEntry(s) => entries[s] \in UnlockEntry
    BY EntryCases DEF TypeInv
<1>3. ASSUME NEW r \in Request, UnlockStep(r)
      PROVE  \/ /\ reqs[r].sid = s
                /\ entries'[s].key = IF ChangeSetKey(r) THEN reqs[r].newKey ELSE reqs[r].rowKey
                /\ entries'[s].autoLockMinutes = reqs[r].minutes
             \/ reqs[r].sid # s /\ entries'[s] = entries[s]
    <2>1. reqs[r].pc = "changed" <=> ChangeSetKey(r)
        BY <1>3 DEF UnlockStep, SetupUnlock, UnlockSetKey, ChangeSetKey, At
    <2>2. entries' = [entries EXCEPT ![reqs[r].sid] =
              [key |-> IF ChangeSetKey(r) THEN reqs[r].newKey ELSE reqs[r].rowKey,
               autoLockMinutes |-> reqs[r].minutes, idle |-> 0]]
        BY <1>3, <2>1 DEF UnlockStep, SetupUnlock, UnlockSetKey, ChangeSetKey, SetEntry, At
    <2> QED
        BY <1>1, <2>2
<1>4. ASSUME NEW r \in Request, SettingsApply(r)
      PROVE  /\ HasEntry(s) \/ entries'[s] = NoEntry
             /\ entries'[s].key = entries[s].key
             /\ \/ /\ entries'[s].autoLockMinutes = entries[s].autoLockMinutes
                   /\ reqs[r].sid # s
                \/ /\ reqs[r].sid = s
                   /\ HasEntry(s) => entries'[s].autoLockMinutes = reqs[r].minutes
             /\ \A q \in Request : ~UnlockStep(q)
    <2>1. entries' = IF HasEntry(reqs[r].sid)
                     THEN [entries EXCEPT ![reqs[r].sid].autoLockMinutes = reqs[r].minutes]
                     ELSE entries
        BY <1>4 DEF SettingsApply, UpdateEntryMinutes
    <2>2. ASSUME NEW q \in Request, UnlockStep(q)
          PROVE  FALSE
        <3>1. reqs[r].pc = "apply" /\ reqs'[r].pc = "end"
            BY <1>4, PlainAnswers DEF SettingsApply, PlainAnswer, Answered
        <3>2. reqs[q].pc # "apply" /\ Others(q)
            BY <2>2, SetupUnlockFields, SetKeyFields
            DEF UnlockStep, SetupUnlock, UnlockSetKey, ChangeSetKey, At, Answered, Continues
        <3> QED
            BY <3>1, <3>2 DEF Others
    <2>3. CASE reqs[r].sid = s /\ HasEntry(s)
        BY <1>1, <1>2, <2>1, <2>2, <2>3 DEF UnlockEntry
    <2>4. CASE ~(reqs[r].sid = s /\ HasEntry(s))
        BY <1>1, <2>1, <2>2, <2>4 DEF HasEntry
    <2> QED
        BY <2>3, <2>4
<1>5. CASE \E r \in Request : UnlockStep(r)
    BY <1>3, <1>4, <1>5 DEF HasEntry
<1>6. CASE \E r \in Request : SettingsApply(r)
    BY <1>4, <1>6
<1>7. ASSUME \/ UNCHANGED entries \/ Restart \/ Tick
             \/ \E r \in Request : Lock(r) \/ Logout(r) \/ Me(r) \/ Admit(r) \/ Refuse(r)
      PROVE  \/ entries'[s] = NoEntry
             \/ /\ HasEntry(s)
                /\ entries'[s].key = entries[s].key
                /\ entries'[s].autoLockMinutes = entries[s].autoLockMinutes
    <2>1. CASE UNCHANGED entries \/ Restart
        BY <2>1 DEF Restart, HasEntry
    <2>2. CASE Tick
        BY <1>2, <2>2 DEF Tick, Age, HasEntry, UnlockEntry
    <2>3. ASSUME NEW t, DeleteEntry(t) \/ Touch(t)
          PROVE  \/ entries'[s] = NoEntry
                 \/ /\ HasEntry(s)
                    /\ entries'[s].key = entries[s].key
                    /\ entries'[s].autoLockMinutes = entries[s].autoLockMinutes
        BY <1>1, <1>2, <2>3 DEF DeleteEntry, Touch, HasEntry, UnlockEntry
    <2>4. ASSUME NEW r \in Request, Lock(r) \/ Logout(r) \/ Me(r) \/ Admit(r) \/ Refuse(r)
          PROVE  UNCHANGED entries \/ \E t : DeleteEntry(t) \/ Touch(t)
        BY <2>4 DEF Lock, Logout, Me, Admit, Refuse
    <2> QED
        BY <1>7, <2>1, <2>2, <2>3, <2>4
<1> QED
    BY <1>5, <1>6, <1>7, EntryWriters DEF UnlockStep

(* With one request per browser, the one that is loaded is alone. *)
LEMMA LoadIsAlone ==
    ASSUME PerBrowser = 1, NEW r \in Request, NEW b \in Browser, NEW op \in Ops,
           Load(r, b, op), NEW q \in Request
    PROVE  reqs[q].browser # b
<1> DEFINE calls == {p \in Request : reqs[p].browser = b}
<1>1. IsFiniteSet(calls)
    BY VaultAssumption, FS_Subset
<1>2. Cardinality(calls) \in Nat /\ (Cardinality(calls) = 0 <=> calls = {})
    BY <1>1, FS_CardinalityType, FS_EmptySet
<1>3. Cardinality(calls) < 1
    BY DEF Load
<1>4. calls = {}
    <2> HIDE DEF calls
    <2> QED
        BY <1>2, <1>3
<1> QED
    BY <1>4

LEMMA OpsStep ==
    ASSUME TypeInv, OpsOK, [Next]_vars
    PROVE  OpsOK'
<1>1. ASSUME NEW r \in Request, Others(r), OpOK(reqs'[r])
      PROVE  OpsOK'
    BY <1>1 DEF Others, OpsOK, OpOK
<1>2. ASSUME NEW r \in Request, Continues(r), reqs'[r].pc # "idle",
             reqs'[r].pc \in GuardedOps => reqs[r].op = reqs'[r].pc,
             reqs'[r].pc \in {"snapshot", "commit", "changed"} => reqs[r].op = "change",
             reqs'[r].pc = "apply" => reqs[r].op = "settings",
             reqs'[r].pc # "destroy",
             reqs'[r].pc \in {"loaded", "readUser", "setupDone", "verify"} => reqs'[r].key = None,
             reqs'[r].key # None => reqs'[r].user # None
      PROVE  OpsOK'
    BY <1>1, <1>2 DEF Continues, OpsOK, OpOK
<1>3. ASSUME NEW r \in Request, NEW b \in Browser, NEW op \in Ops, Load(r, b, op)
      PROVE  OpsOK'
    <2>1. /\ Others(r) /\ reqs'[r].pc = "loaded" /\ reqs'[r].op = op /\ reqs'[r].key = None
        BY <1>3, LoadFields
    <2> QED
        BY <1>1, <2>1 DEF OpOK, GuardedOps
<1>4. ASSUME NEW r \in Request, Closing(r)
      PROVE  OpsOK'
    <2>1. Others(r) /\ reqs'[r] = IdleRequest
        BY <1>4, ClosingFields
    <2>2. IdleRequest.pc = "idle" /\ IdleRequest.key = None
        BY DEF IdleRequest
    <2> QED
        BY <1>1, <2>1, <2>2 DEF OpOK, GuardedOps
<1>5. ASSUME NEW r \in Request, Logout(r)
      PROVE  OpsOK'
    <2>1. /\ Others(r) /\ reqs'[r].pc = "destroy" /\ reqs[r].pc = "loaded"
          /\ reqs'[r].op = reqs[r].op /\ reqs[r].op = "logout"
          /\ reqs'[r].key = reqs[r].key
        BY <1>5, LogoutFields
    <2> QED
        BY <1>1, <2>1 DEF OpsOK, OpOK, GuardedOps
<1>6. \A r \in Request : reqs[r].key # None => reqs[r].user # None
    BY DEF OpsOK, OpOK
<1>7. ASSUME NEW r \in Request, PlainStep(r) \/ UnlockStep(r)
      PROVE  OpsOK'
    <2>1. \E session : Answered(r, session)
        BY <1>7, PlainAnswers, SetupUnlockFields, SetKeyFields
        DEF PlainStep, PlainAnswer, UnlockStep
    <2> QED
        BY <1>2, <1>6, <2>1 DEF Answered, GuardedOps
<1>8. ASSUME NEW r \in Request, InsertStep(r)
      PROVE  OpsOK'
    <2>1. CASE reqs' = reqs
        BY <2>1 DEF OpsOK, OpOK
    <2>2. CASE reqs' # reqs
        BY <1>2, <1>6, <1>8, <2>2, InsertAccountFields DEF InsertStep, Proceeds, GuardedOps
    <2> QED
        BY <2>1, <2>2
<1>9. ASSUME NEW r \in Request, ProceedStep(r)
      PROVE  OpsOK'
    <2>1. /\ reqs[r].pc \in GuardedOps => reqs[r].op = reqs[r].pc
          /\ reqs[r].pc \in {"snapshot", "commit", "changed"} => reqs[r].op = "change"
          /\ reqs[r].pc \in {"loaded", "readUser", "setupDone", "verify"} => reqs[r].key = None
        BY DEF OpsOK, OpOK
    <2>2. ASSUME NEW u \in User, NEW k \in Key, SetupCreate(r, u, k)
          PROVE  OpsOK'
        BY <1>2, <2>1, <2>2, SetupCreateFields DEF Proceeds, GuardedOps
    <2>3. CASE UnlockReadUser(r)
        <3>1. reqs[r].pc \in {"loaded", "readUser"}
            BY <2>3 DEF UnlockReadUser, At
        <3> QED
            BY <1>2, <2>1, <2>3, <3>1, UnlockReadUserFields DEF Proceeds, GuardedOps
    <2>4. CASE Admit(r)
        BY <1>2, <2>4, AdmitFields, NoneAssumption DEF Proceeds, GuardedOps
    <2>5. CASE ChangeReadUser(r)
        BY <1>2, <1>6, <2>1, <2>5, ChangeReadUserFields DEF Proceeds, GuardedOps
    <2>6. CASE ChangeCommit(r)
        BY <1>2, <1>6, <2>1, <2>6, ChangeCommitFields DEF Proceeds, GuardedOps
    <2>7. ASSUME NEW k \in Key, ChangeSnapshot(r, k)
          PROVE  OpsOK'
        BY <1>2, <1>6, <2>1, <2>7, ChangeSnapshotFields DEF Proceeds, GuardedOps
    <2>8. ASSUME NEW m \in Minutes, SettingsWrite(r, m)
          PROVE  OpsOK'
        BY <1>2, <1>6, <2>1, <2>8, SettingsWriteFields DEF Proceeds, GuardedOps
    <2>9. ASSUME NEW d \in Device, Authenticate(r, d)
          PROVE  OpsOK'
        BY <1>2, <1>6, <2>1, <2>9, AuthenticateFields DEF GuardedOps
    <2> QED
        BY <1>9, <2>2, <2>3, <2>4, <2>5, <2>6, <2>7, <2>8, <2>9 DEF ProceedStep
<1>10. CASE Restart
    BY <1>10 DEF Restart, OpsOK, OpOK, IdleRequest, GuardedOps
<1>11. CASE Tick \/ UNCHANGED vars
    BY <1>11 DEF Tick, vars, OpsOK, OpOK
<1> QED
    BY <1>3, <1>4, <1>5, <1>7, <1>8, <1>9, <1>10, <1>11, StepCases

(* The steps, by what they do to the sessions. *)
LEMMA SessionCases ==
    ASSUME TypeInv, [Next]_vars
    PROVE  \/ \E r \in Request :
                  \/ \E b \in Browser, op \in Ops : Load(r, b, op)
                  \/ Closing(r)
                  \/ Logout(r)
                  \/ /\ Continues(r)
                     /\ reqs'[r].pc \in Acting \cup {"end"}
                     /\ reqs'[r].pc \in Acting /\ reqs[r].pc \notin Acting =>
                            reqs[r].pc = "loaded" /\ reqs[r].sess # NewSession
           \/ Restart
           \/ UNCHANGED <<sessionVars, reqs>>
<1>1. ASSUME NEW r \in Request,
             PlainStep(r) \/ InsertStep(r) \/ UnlockStep(r) \/ ProceedStep(r)
      PROVE  /\ Continues(r)
             /\ reqs'[r].pc \in Acting \cup {"end"}
             /\ reqs'[r].pc \in Acting /\ reqs[r].pc \notin Acting =>
                    reqs[r].pc = "loaded" /\ reqs[r].sess # NewSession
    BY <1>1, HandlerContinues, HandlerPoints
<1>2. Tick \/ UNCHANGED vars => UNCHANGED <<sessionVars, reqs>>
    BY DEF Tick, vars, sessionVars
<1> QED
    BY <1>1, <1>2, StepCases

(* What the end of a response does to the sessions. *)
LEMMA ClosingSessions ==
    ASSUME TypeInv, NEW r \in Request, Closing(r)
    PROVE  /\ \A t \in Sid \ {reqs[r].sid} : rows'[t] = rows[t] /\ status'[t] = status[t]
           /\ \A b \in Browser \ {reqs[r].browser} : cookie'[b] = cookie[b]
           /\ \/ cookie'[reqs[r].browser] = cookie[reqs[r].browser]
              \/ /\ cookie'[reqs[r].browser] = reqs[r].sid
                 /\ reqs[r].pc = "end"
           /\ \/ UNCHANGED <<rows, status>>
              \/ reqs[r].pc = "end" /\ status'[reqs[r].sid] = "stored"
              \/ /\ reqs[r].pc = "destroy" /\ reqs[r].carried
                 /\ status'[reqs[r].sid] = "destroyed"
                 /\ rows'[reqs[r].sid] = NewSession
                 /\ UNCHANGED cookie
<1>1. /\ reqs[r].sid \in Sid /\ reqs[r].browser \in Browser
      /\ rows \in [Sid -> Session] /\ status \in [Sid -> {"unused", "stored", "destroyed"}]
      /\ cookie \in [Browser -> Sid \cup {None}]
    BY ClosingFields DEF TypeInv, SessionsTypeOK
<1>2. CASE EndRequest(r)
    BY <1>1, <1>2 DEF EndRequest, SaveSession
<1>3. CASE SaveLost(r)
    BY <1>1, <1>3 DEF SaveLost
<1>4. CASE Destroy(r)
    BY <1>1, <1>4 DEF Destroy, DestroySession
<1> QED
    BY <1>2, <1>3, <1>4 DEF Closing

LEMMA LogoutSessions ==
    ASSUME TypeInv, NEW r \in Request, Logout(r)
    PROVE  /\ UNCHANGED <<rows, status>>
           /\ reqs[r].browser \in Browser
           /\ cookie'[reqs[r].browser] = None
           /\ \A b \in Browser \ {reqs[r].browser} : cookie'[b] = cookie[b]
           /\ entries'[reqs[r].sid] = NoEntry
<1>1. reqs[r].browser \in Browser /\ reqs[r].sid \in Sid
    BY LogoutFields
<1> QED
    BY <1>1 DEF Logout, DeleteEntry, TypeInv, SessionsTypeOK, KeyStoreTypeOK

LEMMA OneCallStep ==
    ASSUME PerBrowser = 1, PrivateInv, [Next]_vars
    PROVE  OneCall'
<1> USE DEF PrivateInv
<1>1. IdleRequest.pc = "idle"
    BY DEF IdleRequest
<1>2. ASSUME NEW r \in Request, Others(r),
             reqs'[r].pc # "idle" => /\ reqs[r].pc # "idle"
                                     /\ reqs'[r].browser = reqs[r].browser
                                     /\ reqs'[r].sid = reqs[r].sid
      PROVE  OneCall'
    BY <1>2 DEF Others, OneCall, Active
<1>3. ASSUME NEW r \in Request, NEW b \in Browser, NEW op \in Ops, Load(r, b, op)
      PROVE  OneCall'
    <2>1. PICK s \in Sid :
              /\ IF CookieFound(b) THEN s = cookie[b] ELSE FreshSid(s, b)
              /\ Others(r) /\ reqs'[r].browser = b /\ reqs'[r].sid = s
        BY <1>3, LoadFields
    <2>2. ASSUME NEW q \in Request, q # r, reqs[q].pc # "idle"
          PROVE  reqs[q].browser # b /\ reqs[q].sid # s
        <3>1. reqs[q].browser # b
            BY <1>3, LoadIsAlone
        <3>2. cookie[b] # reqs[q].sid
            BY <2>2, <3>1 DEF OwnSids, OwnSid, Active
        <3> QED
            BY <2>1, <3>1, <3>2 DEF FreshSid
    <2> QED
        BY <2>1, <2>2 DEF Others, OneCall, Active
<1>4. ASSUME NEW r \in Request, Closing(r)
      PROVE  OneCall'
    BY <1>1, <1>2, <1>4, ClosingFields
<1>5. ASSUME NEW r \in Request, Logout(r)
      PROVE  OneCall'
    BY <1>2, <1>5, LogoutFields
<1>6. ASSUME NEW r \in Request, Continues(r)
      PROVE  OneCall'
    BY <1>2, <1>6 DEF Continues
<1>7. CASE Restart
    BY <1>1, <1>7 DEF Restart, OneCall, Active
<1>8. CASE UNCHANGED reqs
    BY <1>8 DEF OneCall, Active
<1> QED
    BY <1>3, <1>4, <1>5, <1>6, <1>7, <1>8, SessionCases

LEMMA OwnCookiesStep ==
    ASSUME PrivateInv, [Next]_vars
    PROVE  OwnCookies'
<1> USE DEF PrivateInv
<1>1. ASSUME NEW r \in Request, Closing(r)
      PROVE  OwnCookies'
    <2>1. /\ reqs[r].browser \in Browser
          /\ \A b \in Browser \ {reqs[r].browser} :
                 cookie[b] # reqs[r].sid /\ cookie'[b] = cookie[b]
          /\ \/ cookie'[reqs[r].browser] = cookie[reqs[r].browser]
             \/ cookie'[reqs[r].browser] = reqs[r].sid
        BY <1>1, ClosingFields, ClosingSessions DEF OwnSids, OwnSid, Active
    <2> QED
        BY <2>1 DEF OwnCookies
<1>2. ASSUME NEW r \in Request, Logout(r)
      PROVE  OwnCookies'
    BY <1>2, LogoutSessions DEF OwnCookies
<1>3. UNCHANGED cookie => OwnCookies'
    BY DEF OwnCookies
<1>4. ASSUME NEW r \in Request, NEW b \in Browser, NEW op \in Ops, Load(r, b, op)
      PROVE  UNCHANGED cookie
    BY <1>4 DEF Load, sessionVars
<1> QED
    BY <1>1, <1>2, <1>3, <1>4, SessionCases DEF Continues, Restart, sessionVars

LEMMA UnusedRowsStep ==
    ASSUME PrivateInv, [Next]_vars
    PROVE  UnusedRows'
<1> USE DEF PrivateInv
<1>1. CASE UNCHANGED <<rows, status>>
    BY <1>1 DEF UnusedRows
<1>2. ASSUME NEW r \in Request,
             \/ status' = [status EXCEPT ![reqs[r].sid] = "stored"]
                /\ rows' = [rows EXCEPT ![reqs[r].sid] = reqs[r].sess]
             \/ rows' = [rows EXCEPT ![reqs[r].sid] = NewSession]
                /\ status' = [status EXCEPT ![reqs[r].sid] = "destroyed"]
      PROVE  UnusedRows'
    BY <1>2 DEF UnusedRows, TypeInv, SessionsTypeOK
<1> QED
    BY <1>1, <1>2, RowWrites

LEMMA StoredEntriesStep ==
    ASSUME PrivateInv, [Next]_vars
    PROVE  StoredEntries'
<1> USE DEF PrivateInv
<1>1. SUFFICES ASSUME NEW s \in Sid, entries'[s] # NoEntry
               PROVE  status'[s] = "stored" /\ \E b \in Browser : cookie'[b] = s
    BY DEF StoredEntries, HasEntry
<1>2. cookie \in [Browser -> Sid \cup {None}]
    BY DEF TypeInv, SessionsTypeOK
<1>3. ASSUME NEW r \in Request, UnlockStep(r), reqs[r].sid = s
      PROVE  status'[s] = "stored" /\ \E b \in Browser : cookie'[b] = s
    <2>1. UNCHANGED sessionVars /\ reqs[r].pc \in {"setupDone", "verify", "changed"}
        BY <1>3 DEF UnlockStep, SetupUnlock, UnlockSetKey, ChangeSetKey, At
    <2>2. reqs[r].browser \in Browser
        BY <2>1, InFlight DEF TypeInv
    <2>3. status[s] = "stored" /\ cookie[reqs[r].browser] = s
        BY <1>3, <2>1 DEF OwnSids, OwnSid, Active, Acting, PCs
    <2> QED
        BY <2>1, <2>2, <2>3 DEF sessionVars
<1>4. CASE HasEntry(s)
    <2>1. PICK b \in Browser : status[s] = "stored" /\ cookie[b] = s
        BY <1>4 DEF StoredEntries
    <2>2. s # None /\ CookieFound(b)
        BY <2>1, NoneAssumption DEF CookieFound
    <2>3. ASSUME UNCHANGED sessionVars
          PROVE  status'[s] = "stored" /\ \E c \in Browser : cookie'[c] = s
        BY <2>1, <2>3 DEF sessionVars
    <2>4. ASSUME NEW r \in Request, Closing(r)
          PROVE  status'[s] = "stored" /\ \E c \in Browser : cookie'[c] = s
        <3>1. Active(r) /\ OwnSid(r) /\ reqs[r].sid \in Sid
            BY <2>4, ClosingFields DEF OwnSids, Active
        <3>2. b = reqs[r].browser => reqs[r].carried /\ reqs[r].pc # "destroy" /\ s = reqs[r].sid
            BY <2>1, <2>2, <3>1, NoneAssumption DEF OwnSid
        <3>3. b # reqs[r].browser => s # reqs[r].sid
            BY <2>1, <3>1 DEF OwnSid
        <3>4. cookie'[b] = s
            BY <2>1, <2>4, <3>2, ClosingSessions
        <3>5. status'[s] = "stored"
            BY <2>1, <2>4, <3>2, <3>3, ClosingSessions
        <3> QED
            BY <3>4, <3>5
    <2>5. ASSUME NEW r \in Request, Logout(r)
          PROVE  status'[s] = "stored" /\ \E c \in Browser : cookie'[c] = s
        <3>1. Active(r) /\ OwnSid(r) /\ reqs[r].pc = "loaded"
            BY <2>5, LogoutFields DEF OwnSids, Active
        <3>2. b # reqs[r].browser
            BY <1>1, <2>1, <2>2, <2>5, <3>1, LogoutSessions DEF OwnSid
        <3> QED
            BY <2>1, <2>5, <3>2, LogoutSessions
    <2>6. ASSUME NEW r \in Request, NEW c \in Browser, NEW op \in Ops, Load(r, c, op)
          PROVE  UNCHANGED sessionVars
        BY <2>6 DEF Load
    <2> QED
        BY <2>3, <2>4, <2>5, <2>6, SessionCases DEF Continues, Restart
<1> QED
    BY <1>1, <1>3, <1>4, EntryWrites

LEMMA OwnSidsStep ==
    ASSUME PerBrowser = 1, PrivateInv, [Next]_vars
    PROVE  OwnSids'
<1> USE DEF PrivateInv
<1>1. ASSUME NEW r \in Request, NEW b \in Browser, NEW op \in Ops, Load(r, b, op)
      PROVE  OwnSids'
    <2>1. PICK s \in Sid :
              /\ IF CookieFound(b) THEN s = cookie[b] ELSE FreshSid(s, b)
              /\ Others(r)
              /\ reqs'[r].pc = "loaded" /\ reqs'[r].browser = b /\ reqs'[r].sid = s
              /\ reqs'[r].carried = CookieFound(b)
              /\ reqs'[r].sess = IF CookieFound(b) THEN rows[s] ELSE NewSession
        BY <1>1, LoadFields
    <2>2. UNCHANGED <<status, cookie>>
        BY <1>1 DEF Load, sessionVars
    <2>3. \A c \in Browser \ {b} : cookie[c] # s
        BY <2>1 DEF FreshSid, OwnCookies, CookieFound
    <2>4. OwnSid(r)'
        BY <2>1, <2>2, <2>3 DEF OwnSid, CookieFound, Acting
    <2>5. ASSUME NEW q \in Request, q # r, reqs[q].pc # "idle"
          PROVE  OwnSid(q)'
        BY <2>1, <2>2, <2>5 DEF OwnSids, OwnSid, Active, Others, CookieFound
    <2> QED
        BY <2>1, <2>4, <2>5 DEF OwnSids, Active, Others
<1>2. ASSUME NEW r \in Request, Closing(r)
      PROVE  OwnSids'
    <2>1. /\ Active(r) /\ OwnSid(r) /\ reqs[r].sid \in Sid /\ reqs[r].browser \in Browser
          /\ reqs'[r].pc = "idle" /\ Others(r)
        BY <1>2, ClosingFields DEF OwnSids, Active, IdleRequest
    <2>2. ASSUME NEW q \in Request, q # r, reqs[q].pc # "idle"
          PROVE  OwnSid(q)'
        <3>1. /\ reqs[q].browser # reqs[r].browser /\ reqs[q].sid # reqs[r].sid
              /\ reqs[q].browser \in Browser /\ reqs[q].sid \in Sid
              /\ OwnSid(q) /\ reqs'[q] = reqs[q]
            BY <2>1, <2>2, InFlight DEF OneCall, OwnSids, Active, Others, TypeInv
        <3>2. \A c \in Browser \ {reqs[q].browser} : cookie'[c] # reqs[q].sid
            BY <1>2, <3>1, ClosingSessions DEF OwnSid
        <3>3. status'[reqs[q].sid] = status[reqs[q].sid]
              /\ cookie'[reqs[q].browser] = cookie[reqs[q].browser]
            BY <1>2, <3>1, ClosingSessions
        <3>4. cookie[reqs[q].browser] # reqs[r].sid
            BY <2>1, <3>1 DEF OwnSid
        <3>5. CookieFound(reqs[q].browser)' => CookieFound(reqs[q].browser)
            <4>1. cookie[reqs[q].browser] # None =>
                      status'[cookie[reqs[q].browser]] = status[cookie[reqs[q].browser]]
                BY <1>2, <3>1, <3>4, ClosingSessions DEF TypeInv, SessionsTypeOK
            <4> QED
                BY <3>1, <3>3, <4>1 DEF CookieFound
        <3> QED
            BY <3>1, <3>2, <3>3, <3>5 DEF OwnSid, CookieFound
    <2> QED
        BY <2>1, <2>2 DEF OwnSids, Active, Others
<1>3. ASSUME NEW r \in Request, Logout(r)
      PROVE  OwnSids'
    <2>1. /\ Active(r) /\ OwnSid(r) /\ Others(r)
          /\ reqs'[r].pc = "destroy" /\ reqs'[r].browser = reqs[r].browser
          /\ reqs'[r].sid = reqs[r].sid /\ reqs[r].sid \in Sid /\ reqs'[r].carried = reqs[r].carried
        BY <1>3, LogoutFields DEF OwnSids, Active
    <2>2. /\ UNCHANGED status /\ cookie'[reqs[r].browser] = None
          /\ \A b \in Browser \ {reqs[r].browser} : cookie'[b] = cookie[b]
        BY <1>3, LogoutSessions
    <2>3. OwnSid(r)'
        BY <2>1, <2>2 DEF OwnSid, CookieFound, Acting
    <2>4. ASSUME NEW q \in Request, q # r, reqs[q].pc # "idle"
          PROVE  OwnSid(q)'
        <3>1. /\ reqs[q].browser # reqs[r].browser /\ reqs[q].browser \in Browser
              /\ reqs[q].sid \in Sid /\ OwnSid(q) /\ reqs'[q] = reqs[q]
            BY <2>1, <2>4, InFlight DEF OneCall, OwnSids, Active, Others, TypeInv
        <3>2. cookie'[reqs[q].browser] = cookie[reqs[q].browser]
            BY <2>2, <3>1
        <3>3. \A c \in Browser \ {reqs[q].browser} : cookie'[c] # reqs[q].sid
            BY <2>2, <3>1, NoneAssumption DEF OwnSid
        <3> QED
            BY <2>2, <3>1, <3>2, <3>3 DEF OwnSid, CookieFound
    <2> QED
        BY <2>1, <2>3, <2>4 DEF OwnSids, Active, Others
<1>4. ASSUME NEW r \in Request, Continues(r), reqs'[r].pc \in Acting \cup {"end"},
             reqs'[r].pc \in Acting /\ reqs[r].pc \notin Acting =>
                 reqs[r].pc = "loaded" /\ reqs[r].sess # NewSession
      PROVE  OwnSids'
    <2>1. OwnSid(r) /\ Others(r) /\ UNCHANGED <<status, cookie>>
        BY <1>4 DEF OwnSids, Active, Continues, sessionVars
    <2>2. OwnSid(r)'
        BY <1>4, <2>1 DEF OwnSid, CookieFound, Acting, Continues
    <2>3. ASSUME NEW q \in Request, q # r, reqs[q].pc # "idle"
          PROVE  OwnSid(q)'
        BY <2>1, <2>3 DEF OwnSids, OwnSid, Active, Others, CookieFound
    <2> QED
        BY <2>1, <2>2, <2>3 DEF OwnSids, Active, Others
<1>5. CASE Restart
    BY <1>5 DEF Restart, OwnSids, Active, IdleRequest
<1>6. CASE UNCHANGED <<sessionVars, reqs>>
    BY <1>6 DEF OwnSids, OwnSid, Active, CookieFound, sessionVars
<1> QED
    BY <1>1, <1>2, <1>3, <1>4, <1>5, <1>6, SessionCases

LEMMA PrivateInit == Init => PrivateInv
<1> SUFFICES ASSUME Init PROVE PrivateInv
    OBVIOUS
<1>1. OpOK(IdleRequest)
    BY DEF OpOK, IdleRequest, GuardedOps
<1> QED
    BY <1>1, TypeInvInit
    DEF Init, SessionsInit, KeyStoreInit, IdleRequest, PrivateInv, OpsOK, OneCall, OwnCookies,
        OwnSids, StoredEntries, UnusedRows, Active, HasEntry

LEMMA PrivateNext ==
    ASSUME PerBrowser = 1
    PROVE  PrivateInv /\ [Next]_vars => PrivateInv'
    BY TypeInvNext, OpsStep, OneCallStep, OwnCookiesStep, OwnSidsStep, StoredEntriesStep,
       UnusedRowsStep
    DEF PrivateInv

(* As long as every browser waits for its answers, a session belongs to    *)
(* one browser and to one request at a time, and a key is in memory only   *)
(* for a session that the store has and some browser's cookie names        *)
(* (unlock-key-store.service.ts is keyed by the session id alone; the      *)
(* session and its cookie are express-session's, main.ts).                 *)
THEOREM SessionsArePrivate ==
    ASSUME PerBrowser = 1
    PROVE  Spec => [](OneCall /\ OwnCookies /\ StoredEntries)
<1>1. PrivateInv /\ [Next]_vars => PrivateInv'
    BY PrivateNext
<1>2. PrivateInv => OneCall /\ OwnCookies /\ StoredEntries
    BY DEF PrivateInv
<1> QED
    BY PrivateInit, <1>1, <1>2, PTL DEF Spec

(* A request that does nothing in a step has its session to itself. *)
LEMMA OthersKeepOff ==
    ASSUME PrivateInv, [Next]_vars, NEW q \in Request, Active(q), reqs'[q] = reqs[q]
    PROVE  /\ rows'[reqs[q].sid] = rows[reqs[q].sid]
           /\ \A r \in Request : UnlockStep(r) \/ SettingsApply(r) => reqs[r].sid # reqs[q].sid
<1> USE DEF PrivateInv
<1>1. reqs[q].sid \in Sid
    BY InFlight DEF Active, TypeInv
<1>2. ASSUME NEW r \in Request, reqs[r].pc # "idle", reqs'[r].pc # reqs[r].pc
      PROVE  reqs[r].sid # reqs[q].sid
    BY <1>2 DEF OneCall, Active
<1>3. ASSUME NEW r \in Request, EndRequest(r) \/ Destroy(r)
      PROVE  reqs[r].sid # reqs[q].sid
    <2>1. reqs[r].pc # "idle" /\ reqs'[r].pc = "idle"
        BY <1>3, ClosingFields DEF Closing, IdleRequest
    <2> QED
        BY <1>2, <2>1
<1>4. ASSUME NEW r \in Request, UnlockStep(r) \/ SettingsApply(r)
      PROVE  reqs[r].sid # reqs[q].sid
    <2>1. reqs'[r].pc = "end"
        BY <1>4, SetupUnlockFields, SetKeyFields, PlainAnswers
        DEF UnlockStep, PlainAnswer, Answered
    <2>2. reqs[r].pc \notin {"idle", "end"}
        BY <1>4 DEF UnlockStep, SetupUnlock, UnlockSetKey, ChangeSetKey, SettingsApply, At
    <2> QED
        BY <1>2, <2>1, <2>2
<1>5. rows'[reqs[q].sid] = rows[reqs[q].sid]
    BY <1>1, <1>3, RowWrites DEF TypeInv, SessionsTypeOK
<1> QED
    BY <1>4, <1>5

-----------------------------------------------------------------------------
(* Whose session it is.  An unlocked session has a user, the request that  *)
(* passed the guard acts for the user of its session, and no request takes *)
(* the session of an unlocked row to another user before it answers.       *)

RowsLoggedIn == \A s \in Sid : rows[s].unlocked = "yes" => rows[s].userId # None

ActsForLogin(r) ==
    /\ reqs[r].sess.unlocked = "yes" => reqs[r].sess.userId # None
    /\ reqs[r].pc \in Acting \cup {"loaded"} /\ rows[reqs[r].sid].unlocked = "yes" =>
           rows[reqs[r].sid].userId = reqs[r].sess.userId
    /\ reqs[r].pc \in PastGuard \cup {"verify"} =>
           reqs[r].user \in User /\ reqs[r].user = reqs[r].sess.userId
    /\ reqs[r].pc \in PastGuard => reqs[r].sess.unlocked = "yes"
    /\ reqs[r].pc = "setupDone" => reqs[r].sess.userId = None

RequestsLoggedIn == \A r \in Request : Active(r) => ActsForLogin(r)

LoginInv == PrivateInv /\ RowsLoggedIn /\ RequestsLoggedIn

LEMMA RowsLoggedInStep ==
    ASSUME LoginInv, [Next]_vars
    PROVE  RowsLoggedIn'
<1> USE DEF LoginInv, PrivateInv
<1>1. CASE UNCHANGED rows
    BY <1>1 DEF RowsLoggedIn
<1>2. ASSUME NEW r \in Request, EndRequest(r),
             rows' = [rows EXCEPT ![reqs[r].sid] = reqs[r].sess]
      PROVE  RowsLoggedIn'
    <2>1. reqs[r].sess.unlocked = "yes" => reqs[r].sess.userId # None
        BY <1>2 DEF EndRequest, RequestsLoggedIn, ActsForLogin, Active
    <2> QED
        BY <1>2, <2>1 DEF RowsLoggedIn, TypeInv, SessionsTypeOK
<1>3. ASSUME NEW r \in Request, rows' = [rows EXCEPT ![reqs[r].sid] = NewSession]
      PROVE  RowsLoggedIn'
    BY <1>3 DEF RowsLoggedIn, NewSession, TypeInv, SessionsTypeOK
<1> QED
    BY <1>1, <1>2, <1>3, RowWrites

LEMMA ProceedLogin ==
    ASSUME SerialSessions, LoginInv, [Next]_vars, NEW r \in Request, ProceedStep(r)
    PROVE  ActsForLogin(r)'
<1> USE DEF LoginInv, PrivateInv
<1>1. /\ Continues(r) /\ Active(r) /\ ActsForLogin(r)
      /\ reqs[r].pc \in Acting \cup {"loaded"}
      /\ reqs'[r].sid = reqs[r].sid /\ UNCHANGED rows
    BY HandlerContinues, HandlerPoints DEF Active, RequestsLoggedIn, Continues, sessionVars
<1>2. /\ "setupDone" \notin PastGuard \cup {"verify"}
      /\ "readUser" \notin PastGuard \cup {"verify", "setupDone"}
      /\ "verify" \notin PastGuard \cup {"setupDone"}
      /\ "setupDone" \notin GuardedOps
      /\ GuardedOps \cup {"snapshot", "commit", "changed", "apply"} = PastGuard
    BY DEF PastGuard, GuardedOps
<1>3. ASSUME NEW pc, Proceeds(r, pc), pc \in PastGuard, reqs[r].pc \in PastGuard,
             reqs'[r].user = reqs[r].user
      PROVE  ActsForLogin(r)'
    BY <1>1, <1>2, <1>3 DEF Proceeds, ActsForLogin
<1>4. ASSUME NEW u \in User, NEW k \in Key, SetupCreate(r, u, k)
      PROVE  ActsForLogin(r)'
    BY <1>1, <1>2, <1>4, SetupCreateFields DEF Proceeds, ActsForLogin
<1>5. CASE UnlockReadUser(r)
    BY <1>1, <1>2, <1>5, UnlockReadUserFields DEF Proceeds, ActsForLogin
<1>6. CASE Admit(r)
    BY <1>1, <1>2, <1>6, AdmitFields, NoneAssumption DEF Proceeds, ActsForLogin
<1>7. CASE ChangeReadUser(r) \/ ChangeCommit(r)
    BY <1>2, <1>3, <1>7, ChangeReadUserFields, ChangeCommitFields DEF GuardedOps
<1>8. ASSUME NEW k \in Key, ChangeSnapshot(r, k)
      PROVE  ActsForLogin(r)'
    BY <1>2, <1>3, <1>8, ChangeSnapshotFields
<1>9. ASSUME NEW m \in Minutes, SettingsWrite(r, m)
      PROVE  ActsForLogin(r)'
    BY <1>2, <1>3, <1>9, SettingsWriteFields DEF GuardedOps
<1>10. ASSUME NEW d \in Device, Authenticate(r, d)
       PROVE  ActsForLogin(r)'
    <2>1. /\ reqs[r].op = "authenticate" /\ reqs'[r].pc = "readUser"
          /\ devices[d].owner \in User /\ reqs'[r].sess.userId = devices[d].owner
        BY <1>10, AuthenticateFields
    <2>2. OneUser
        BY <1>1, <2>1 DEF SerialSessions, OpsOK, OpOK, Active
    <2>3. rows[reqs[r].sid].unlocked = "yes" => rows[reqs[r].sid].userId = devices[d].owner
        <3>1. reqs[r].sid \in Sid
            BY <1>1, InFlight DEF TypeInv, Active
        <3>2. rows[reqs[r].sid].unlocked = "yes" => rows[reqs[r].sid].userId \in User
            BY <3>1 DEF RowsLoggedIn, TypeInv, SessionsTypeOK, Session
        <3> QED
            BY <2>1, <2>2, <3>2 DEF OneUser
    <2> QED
        BY <1>1, <1>2, <2>1, <2>3, NoneAssumption DEF ActsForLogin
<1> QED
    BY <1>4, <1>5, <1>6, <1>7, <1>8, <1>9, <1>10 DEF ProceedStep

LEMMA RequestsLoggedInStep ==
    ASSUME SerialSessions, LoginInv, [Next]_vars
    PROVE  RequestsLoggedIn'
<1> USE DEF LoginInv, PrivateInv
<1>1. ASSUME NEW q \in Request, Active(q), reqs'[q] = reqs[q]
      PROVE  ActsForLogin(q)'
    BY <1>1, OthersKeepOff DEF RequestsLoggedIn, ActsForLogin
<1>2. ASSUME NEW r \in Request, Others(r), Active(r)' => ActsForLogin(r)'
      PROVE  RequestsLoggedIn'
    BY <1>1, <1>2 DEF Others, RequestsLoggedIn, Active
<1>3. ASSUME NEW r \in Request, NEW b \in Browser, NEW op \in Ops, Load(r, b, op)
      PROVE  RequestsLoggedIn'
    <2>1. PICK s \in Sid :
              /\ IF CookieFound(b) THEN s = cookie[b] ELSE FreshSid(s, b)
              /\ Others(r) /\ reqs'[r].pc = "loaded" /\ reqs'[r].sid = s
              /\ reqs'[r].sess = IF CookieFound(b) THEN rows[s] ELSE NewSession
        BY <1>3, LoadFields
    <2>2. UNCHANGED rows
        BY <1>3 DEF Load, sessionVars
    <2>3. reqs'[r].sess = rows[s]
        BY <2>1 DEF UnusedRows, FreshSid
    <2>4. ActsForLogin(r)'
        BY <2>1, <2>2, <2>3 DEF ActsForLogin, RowsLoggedIn, PastGuard, GuardedOps
    <2> QED
        BY <1>2, <2>1, <2>4
<1>4. ASSUME NEW r \in Request, Closing(r)
      PROVE  RequestsLoggedIn'
    BY <1>2, <1>4, ClosingFields DEF Active, IdleRequest
<1>5. ASSUME NEW r \in Request, Logout(r)
      PROVE  RequestsLoggedIn'
    <2>1. /\ Others(r) /\ Active(r) /\ reqs'[r].pc = "destroy" /\ reqs'[r].sess = reqs[r].sess
        BY <1>5, LogoutFields DEF Active
    <2> QED
        BY <1>2, <2>1 DEF RequestsLoggedIn, ActsForLogin, Acting, PastGuard, GuardedOps
<1>6. ASSUME NEW r \in Request, PlainStep(r) \/ UnlockStep(r)
      PROVE  RequestsLoggedIn'
    <2>1. Active(r) /\ ActsForLogin(r)
        BY <1>6, HandlerContinues DEF Active, RequestsLoggedIn, Continues
    <2>2. UnlockStep(r) => /\ SetupUnlock(r) => reqs[r].user \in User
                           /\ ~SetupUnlock(r) => reqs[r].sess.userId \in User
        BY <2>1 DEF UnlockStep, SetupUnlock, UnlockSetKey, ChangeSetKey, At, TypeInv, RequestsOK,
            RequestOK, ActsForLogin, PastGuard
    <2>3. PICK session : /\ Answered(r, session)
                         /\ session.unlocked = "yes" => session.userId # None
        <3>1. CASE PlainStep(r)
            BY <2>1, <3>1, PlainAnswers DEF PlainStep, PlainAnswer, SameLogin, ActsForLogin
        <3>2. CASE UnlockStep(r)
            BY <2>2, <3>2, SetupUnlockFields, SetKeyFields, NoneAssumption DEF UnlockStep
        <3> QED
            BY <1>6, <3>1, <3>2
    <2>4. ActsForLogin(r)'
        BY <2>3 DEF Answered, ActsForLogin, Acting, PastGuard, GuardedOps
    <2> QED
        BY <1>2, <2>3, <2>4 DEF Answered, Continues
<1>7. ASSUME NEW r \in Request, InsertStep(r)
      PROVE  RequestsLoggedIn'
    <2>1. /\ Continues(r) /\ Active(r) /\ ActsForLogin(r)
          /\ reqs'[r].sess = reqs[r].sess
          /\ reqs' = reqs \/ reqs'[r].pc = "end"
        BY <1>7, InsertAccountFields, HandlerContinues
        DEF InsertStep, Active, RequestsLoggedIn, Continues, Proceeds
    <2>2. CASE reqs' = reqs
        BY <1>1, <2>2 DEF RequestsLoggedIn, Active
    <2>3. CASE reqs'[r].pc = "end"
        BY <1>2, <2>1, <2>3 DEF Continues, ActsForLogin, Acting, PastGuard, GuardedOps
    <2> QED
        BY <2>1, <2>2, <2>3
<1>8. ASSUME NEW r \in Request, ProceedStep(r)
      PROVE  RequestsLoggedIn'
    BY <1>2, <1>8, ProceedLogin, HandlerContinues DEF Continues
<1>9. CASE Restart
    BY <1>9 DEF Restart, RequestsLoggedIn, Active, IdleRequest
<1>10. CASE Tick \/ UNCHANGED vars
    <2>1. reqs' = reqs
        BY <1>10 DEF Tick, vars
    <2> QED
        BY <1>1, <2>1 DEF RequestsLoggedIn, Active
<1> QED
    BY <1>3, <1>4, <1>5, <1>6, <1>7, <1>8, <1>9, <1>10, StepCases

LEMMA LoginInit == Init => LoginInv
    BY PrivateInit
    DEF Init, SessionsInit, NewSession, IdleRequest, LoginInv, RowsLoggedIn, RequestsLoggedIn,
        Active

LEMMA LoginNext ==
    ASSUME SerialSessions
    PROVE  LoginInv /\ [Next]_vars => LoginInv'
    BY PrivateNext, RowsLoggedInStep, RequestsLoggedInStep DEF LoginInv, SerialSessions

=============================================================================
