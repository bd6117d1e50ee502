------------------------------- MODULE Client -------------------------------
(***************************************************************************)
(* The browser side of unlocking the vault: the login page, the settings   *)
(* page and the lock and logout buttons, with the passkey of the machine's *)
(* authenticator and the master password that IndexedDB keeps, wrapped,    *)
(* for each credential.  A browser has one tab, whose page sends one       *)
(* request at a time to the API (Vault) and goes on with its answer.       *)
(*                                                                         *)
(* A master password is modelled by the key it derives in the vault of its *)
(* user; Typo is a password that opens no vault.                           *)
(***************************************************************************)
EXTENDS Vault

CONSTANT Typo

ASSUME TypoAssumption == Typo \notin Key \cup {None}

VARIABLES
    page,     \* browser -> the page it shows
    flow,     \* browser -> the handler that runs in the page
    wrapped,  \* browser -> credential -> the password in IndexedDB, or None
    passkey   \* browser -> user -> the credential in the authenticator, or None

clientVars == <<page, flow, wrapped, passkey>>
allVars == <<vars, clientVars>>

Password == Key \cup {Typo}

Pages == {"login", "setup", "unlock", "app"}

(* task: the call the handler awaits, "none", or something else it awaits: *)
(* the consent page, a prompt of the authenticator, the next page.         *)
(* answer: what the API has answered, the page to go to where that depends.*)
Flow ==
    [task  : OpNames \cup {"none", "consent", "attest", "prime", "assert", "enter"},
     device: Device \cup {None},
     typed : Password \cup {None},
     answer: {"none", "ok", "failed"} \cup Pages]

NoFlow == [task |-> "none", device |-> None, typed |-> None, answer |-> "none"]

ClientTypeOK ==
    /\ page \in [Browser -> Pages]
    /\ flow \in [Browser -> Flow]
    /\ wrapped \in [Browser -> [Device -> Password \cup {None}]]
    /\ passkey \in [Browser -> [User -> Device \cup {None}]]

ClientInit ==
    /\ Init
    /\ page = [b \in Browser |-> "login"]
    /\ flow = [b \in Browser |-> NoFlow]
    /\ wrapped = [b \in Browser |-> [d \in Device |-> None]]
    /\ passkey = [b \in Browser |-> [u \in User |-> None]]

-----------------------------------------------------------------------------
(* Sending a request *)

Idle(b) == flow[b].task = "none"

(* apiFetch: the page awaits the answer to op. *)
Call(b, op, device, typed) ==
    /\ op \in Ops
    /\ \E r \in Request : Load(r, b, op)
    /\ flow' = [flow EXCEPT ![b] =
           [task |-> op, device |-> device, typed |-> typed, answer |-> "none"]]
    /\ UNCHANGED <<page, wrapped, passkey>>

(* The handler goes on without a request. *)
Proceed(b, task) ==
    /\ flow' = [flow EXCEPT ![b] = IF task = "none" THEN NoFlow ELSE [@ EXCEPT !.task = task]]
    /\ UNCHANGED vars

(* What somebody at the keyboard types for the master password. *)
Typed == {Typo} \cup {users[u].key : u \in {v \in User : UserExists(v)}}

-----------------------------------------------------------------------------
(* What the user does on a page *)

ClickGoogle(b) == Idle(b) /\ page[b] = "login" /\ Call(b, "googleStart", None, None)

SubmitSetup(b) == Idle(b) /\ page[b] = "setup" /\ Call(b, "setup", None, None)

SubmitPassword(b, typed) ==
    Idle(b) /\ page[b] = "unlock" /\ Call(b, "unlock", None, typed)

(* The button is there when IndexedDB has an entry, for any credential. *)
ClickBiometric(b) ==
    /\ Idle(b)
    /\ page[b] = "unlock"
    /\ \E d \in Device : wrapped[b][d] # None
    /\ Call(b, "authenticateOptions", None, None)

SubmitRegistration(b, typed) ==
    Idle(b) /\ page[b] = "app" /\ Call(b, "registerOptions", None, typed)

(* The list shows the devices of the user, other browsers' too. *)
ClickRemove(b, d) ==
    /\ Idle(b)
    /\ page[b] = "app"
    /\ devices[d] # NoDevice
    /\ Call(b, "removeDevice", d, None)

SubmitChange(b, typed) == Idle(b) /\ page[b] = "app" /\ Call(b, "change", None, typed)

SubmitSettings(b) == Idle(b) /\ page[b] = "app" /\ Call(b, "settings", None, None)

(* handleLock, handleLogout: the page is left even if the call is lost. *)
ClickLeave(b, op) ==
    /\ Idle(b)
    /\ page[b] = "app"
    /\ op \in {"lock", "logout"}
    /\ \/ Call(b, op, None, None)
       \/ /\ page' = [page EXCEPT ![b] = IF op = "lock" THEN "unlock" ELSE "login"]
          /\ UNCHANGED <<vars, flow, wrapped, passkey>>

(* A link or the address bar: proxy.ts looks at the session first. *)
Navigate(b) ==
    /\ Idle(b)
    /\ Proceed(b, "enter")
    /\ UNCHANGED <<page, wrapped, passkey>>

-----------------------------------------------------------------------------
(* What a handler goes on with *)

(* proxy.ts: without an answer of /auth/me the session counts as missing. *)
Enter(b) ==
    /\ flow[b].task = "enter"
    /\ \/ Call(b, "me", None, None)
       \/ /\ Proceed(b, "none")
          /\ page' = [page EXCEPT ![b] = "login"]
          /\ UNCHANGED <<wrapped, passkey>>

(* Google sends the browser back with a code, or the user comes back. *)
Consent(b) ==
    /\ flow[b].task = "consent"
    /\ \/ Call(b, "googleCallback", None, None)
       \/ Proceed(b, "none") /\ UNCHANGED <<page, wrapped, passkey>>

(* The credential d is new, for this user a replacement in the             *)
(* authenticator; one the API has excluded is not replaced.                *)
NewCredential(b, u, d) ==
    /\ passkey[b][u] # None => devices[passkey[b][u]].owner # u
    /\ devices[d] = NoDevice
    /\ \A c \in Browser : wrapped[c][d] = None /\ \A v \in User : passkey[c][v] # d

(* startRegistration, then the call that registers the credential, if it   *)
(* is not lost.                                                            *)
CreateCredential(b, d) ==
    /\ flow[b].task = "attest"
    /\ CookieFound(b)
    /\ LET u == rows[cookie[b]].userId IN
        /\ u # None
        /\ NewCredential(b, u, d)
        /\ passkey' = [passkey EXCEPT ![b][u] = d]
    /\ \/ /\ "register" \in Ops
          /\ \E r \in Request : Load(r, b, "register")
          /\ flow' = [flow EXCEPT ![b].task = "register", ![b].device = d]
       \/ Proceed(b, "none")
    /\ UNCHANGED <<page, wrapped>>

(* The assertion after the registration gives the key that wraps what was  *)
(* typed; nobody has verified it.                                          *)
SaveWrapped(b) ==
    /\ flow[b].task = "prime"
    /\ wrapped' = [wrapped EXCEPT ![b][flow[b].device] = flow[b].typed]
    /\ Proceed(b, "none")
    /\ UNCHANGED <<page, passkey>>

(* authenticateWithStoredDevice: the user picks a passkey, IndexedDB has   *)
(* the password for it, and both go to the API.                            *)
Assert(b, u) ==
    /\ flow[b].task = "assert"
    /\ LET d == passkey[b][u] IN
        /\ d # None
        /\ wrapped[b][d] # None
        /\ Call(b, "authenticate", d, wrapped[b][d])

(* A prompt is cancelled, PRF is not supported, nothing is stored. *)
GiveUp(b) ==
    /\ flow[b].task \in {"attest", "prime", "assert"}
    /\ Proceed(b, "none")
    /\ UNCHANGED <<page, wrapped, passkey>>

-----------------------------------------------------------------------------
(* The API at work, and its answers *)

Answer(b, answer) == flow' = [flow EXCEPT ![b].answer = answer]

(* A password is verified against the row the API has read. *)
Verifies(r) == flow[reqs[r].browser].typed = reqs[r].rowKey

(* An await within a handler of the API. *)
Serve(r) ==
    /\ LET f == flow[reqs[r].browser] IN
        \/ \E u \in User, k \in Key : SetupCreate(r, u, k)
        \/ UnlockReadUser(r)
        \/ Authenticate(r, f.device)
        \/ Admit(r)
        \/ ChangeReadUser(r) /\ f.typed = users[reqs[r].user].key
        \/ \E k \in Key : ChangeSnapshot(r, k)
        \/ ChangeCommit(r)
        \/ \E m \in Minutes : SettingsWrite(r, m)
    /\ UNCHANGED clientVars

(* A handler of the API returns. *)
Succeed(r) ==
    LET b == reqs[r].browser IN
    /\ \/ /\ \/ GoogleStart(r)
             \/ SetupUnlock(r)
             \/ UnlockSetKey(r) /\ Verifies(r)
             \/ Lock(r)
             \/ Logout(r)
             \/ ChangeSetKey(r)
             \/ SettingsApply(r)
             \/ IssueChallenge(r)
             \/ RegisterDevice(r, flow[b].device)
             \/ RemoveDevice(r, flow[b].device)
          /\ Answer(b, "ok")
       \/ \E g \in Identity :
            GoogleCallback(r, g) /\ Answer(b, IF IdentityInUse(g) THEN "unlock" ELSE "setup")
       \/ /\ Me(r)
          /\ Answer(b, IF reqs'[r].sess.unlocked = "yes" THEN "app" ELSE "unlock")
    /\ UNCHANGED <<page, wrapped, passkey>>

(* A handler of the API throws, or its guard does. *)
Fail(r) ==
    /\ \/ Refuse(r)
       \/ PasskeyRejected(r)
       \/ GoogleCallbackRejected(r)
       \/ Reject(r) /\ ~(reqs[r].pc = "verify" /\ Verifies(r))
    /\ Answer(reqs[r].browser, "failed")
    /\ UNCHANGED <<page, wrapped, passkey>>

(* What the handler in the page of b does next. *)
NextTask(b, answer) ==
    IF answer = "failed" THEN "none"
    ELSE CASE flow[b].task = "googleStart" -> "consent"
           [] flow[b].task \in {"setup", "unlock", "authenticate"} -> "enter"
           [] flow[b].task = "registerOptions" -> "attest"
           [] flow[b].task = "register" -> "prime"
           [] flow[b].task = "authenticateOptions" -> "assert"
           [] OTHER -> "none"

(* The page that b shows next. *)
NextPage(b, answer) ==
    CASE flow[b].task = "lock" -> "unlock"
      [] flow[b].task = "logout" -> "login"
      [] flow[b].task \in {"me", "googleCallback"} ->
            IF answer = "failed" THEN "login" ELSE answer
      [] OTHER -> page[b]

(* handleRemove forgets the password once the API has removed the device.  *)
WrappedAfter(b, answer) ==
    IF flow[b].task = "removeDevice" /\ answer = "ok"
    THEN [wrapped[b] EXCEPT ![flow[b].device] = None]
    ELSE wrapped[b]

(* Each page with an answer to its call goes on with it. *)
Receive(answers) ==
    LET waiting == {b \in Browser : answers[b] # "none"}
        after(b) == NextTask(b, answers[b]) IN
    /\ flow' = [b \in Browser |->
           IF b \notin waiting THEN flow[b]
           ELSE IF after(b) = "none" THEN NoFlow
           ELSE [IF after(b) = "enter" THEN NoFlow ELSE flow[b]
                    EXCEPT !.task = after(b), !.answer = "none"]]
    /\ page' = [b \in Browser |-> IF b \in waiting THEN NextPage(b, answers[b]) ELSE page[b]]
    /\ wrapped' = [b \in Browser |->
           IF b \in waiting THEN WrappedAfter(b, answers[b]) ELSE wrapped[b]]
    /\ UNCHANGED passkey

Deliver(r) ==
    /\ EndRequest(r) \/ Destroy(r)
    /\ Receive([b \in Browser |->
           IF b = reqs[r].browser THEN flow[b].answer ELSE "none"])

(* The API restarts: every call in flight fails. *)
ApiRestart ==
    /\ Restart
    /\ Receive([b \in Browser |-> IF flow[b].task \in OpNames THEN "failed" ELSE "none"])

TimePasses == Tick /\ UNCHANGED clientVars

-----------------------------------------------------------------------------

UserStep(b) ==
    \/ ClickGoogle(b)
    \/ SubmitSetup(b)
    \/ \E typed \in Typed :
        SubmitPassword(b, typed) \/ SubmitRegistration(b, typed) \/ SubmitChange(b, typed)
    \/ ClickBiometric(b)
    \/ \E d \in Device : ClickRemove(b, d)
    \/ SubmitSettings(b)
    \/ \E op \in Ops : ClickLeave(b, op)
    \/ Navigate(b)

PageStep(b) ==
    \/ Enter(b)
    \/ Consent(b)
    \/ \E d \in Device : CreateCredential(b, d)
    \/ SaveWrapped(b)
    \/ \E u \in User : Assert(b, u)
    \/ GiveUp(b)

ApiStep(r) == Serve(r) \/ Succeed(r) \/ Fail(r) \/ Deliver(r)

ClientNext ==
    \/ \E b \in Browser : UserStep(b) \/ PageStep(b)
    \/ \E r \in Request : ApiStep(r)
    \/ ApiRestart
    \/ TimePasses

(* The user of b tries the right password again and again, and the query   *)
(* for the row it is verified against does not fail each time.             *)
TypeRight(b) == \E u \in User : UserExists(u) /\ SubmitPassword(b, users[u].key)
ReadRight(r) == Serve(r) /\ UnlockReadUser(r) /\ flow[reqs[r].browser].typed \in Key

Fairness ==
    /\ \A b \in Browser : WF_allVars(PageStep(b)) /\ SF_allVars(TypeRight(b))
    /\ \A r \in Request : WF_allVars(ApiStep(r)) /\ SF_allVars(ReadRight(r))

ClientSpec == ClientInit /\ [][ClientNext]_allVars /\ Fairness

-----------------------------------------------------------------------------
(* What the browser side has to guarantee *)

(* The password that a browser has wrapped for a trusted device of the     *)
(* vault is the master password of its owner now, unless it was mistyped   *)
(* (auth.service.ts, changeMasterPassword removes the devices but leaves   *)
(* IndexedDB alone; webauthn.ts, registerThisDevice wraps what was typed). *)
WrappedPasswordIsCurrent ==
    \A b \in Browser, d \in Device :
        devices[d] # NoDevice /\ wrapped[b][d] \in Key =>
            wrapped[b][d] = users[devices[d].owner].key

(* A restart that costs something: a key, or a request half-way. *)
Interruption ==
    /\ ApiRestart
    /\ entries' # entries \/ \E r \in Request : reqs[r].pc \notin {"idle", "end", "destroy"}

(* A page that asks for the master password opens for whoever knows it,    *)
(* once the API stays up and the user is quicker than the auto-lock: no    *)
(* failed passkey, lost call, expired key or restart has left the session  *)
(* in a state from which typing does not help (login/page.tsx,             *)
(* handlePasswordSubmit; auth.service.ts, lock and unlock).                *)
TypingOpens ==
    <>[][~(Interruption \/ TimePasses)]_allVars =>
        \A b \in Browser : page[b] = "unlock" ~> page[b] # "unlock"

=============================================================================
