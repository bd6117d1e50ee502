----------------------------- MODULE ClientProofs -----------------------------
(***************************************************************************)
(* Proofs about the browser side: the pages send one request at a time,    *)
(* and all they do is a behaviour of Vault; for a vault with one user      *)
(* whose master password is changed in one browser only, or never, what    *)
(* IndexedDB keeps for a trusted device is the master password of now, or  *)
(* a mistyped one.                                                         *)
(***************************************************************************)
EXTENDS Client, VaultKeyProofs

(* The key of some user's master password. *)
OwnersKey(p) == \E u \in User : UserExists(u) /\ p = users[u].key

ClientTypes ==
    /\ flow \in [Browser -> Flow]
    /\ wrapped \in [Browser -> [Device -> Password \cup {None}]]
    /\ passkey \in [Browser -> [User -> Device \cup {None}]]

(* A page awaits the answer to the request its browser has in flight. *)
CallsAwaited == \A r \in Request : Active(r) => flow[reqs[r].browser].task = reqs[r].op

(* A browser has one request in flight, whatever Vault allows it. *)
PagesWait ==
    \A q, r \in Request : q # r /\ Active(q) /\ Active(r) => reqs[q].browser # reqs[r].browser

PagesInv == TypeInv /\ OpsOK /\ PagesWait

Naming == {"register", "prime", "authenticate", "removeDevice"}

DevicesNamed == \A b \in Browser : flow[b].task \in Naming => flow[b].device \in Device

Registering == {"registerOptions", "attest", "register", "prime"}

(* What was typed for a registration is still right at its end. *)
TypedCurrent ==
    \A b \in Browser : flow[b].task \in Registering /\ flow[b].typed \in Key =>
        OwnersKey(flow[b].typed)

WrappedCurrent ==
    \A b \in Browser, d \in Device :
        wrapped[b][d] \in Key /\ (devices[d] # NoDevice \/ "change" \notin Ops) =>
            OwnersKey(wrapped[b][d])

(* A credential about to be registered has no password from earlier. *)
NewIsUnwrapped ==
    "change" \in Ops =>
        \A b, c \in Browser : flow[b].task = "register" => wrapped[c][flow[b].device] = None

ClientInv ==
    ClientTypes /\ CallsAwaited /\ DevicesNamed /\ TypedCurrent /\ WrappedCurrent /\ NewIsUnwrapped

-----------------------------------------------------------------------------
(* The steps, by what they do to the page that takes them. *)

(* The page sends a request. *)
Sends ==
    \E b \in Browser, f \in Flow :
        /\ \E r \in Request : Load(r, b, f.task)
        /\ flow' = [flow EXCEPT ![b] = f]
        /\ f.task \in Ops
        /\ flow[b].task \notin OpNames
        /\ f.task \in Naming => f.device \in Device
        /\ f.task = "registerOptions" /\ f.typed \in Key => OwnersKey(f.typed)
        /\ f.task = "register" =>
               /\ flow[b].task = "attest" /\ f.typed = flow[b].typed
               /\ \A c \in Browser : wrapped[c][f.device] = None
        /\ UNCHANGED wrapped

(* The handler in the page ends, or goes on without a request. *)
Rests ==
    \E b \in Browser, f \in Flow :
        /\ UNCHANGED vars
        /\ flow[b].task \notin OpNames
        /\ f.task \in {"none", "enter"}
        /\ flow' = [flow EXCEPT ![b] = f]
        /\ \/ UNCHANGED wrapped
           \/ /\ flow[b].task = "prime"
              /\ wrapped' = [wrapped EXCEPT ![b][flow[b].device] = flow[b].typed]

Answers == {"none", "ok", "failed"} \cup Pages

(* The API is at work on a request. *)
Served(r) ==
    /\ Continues(r) \/ Logout(r)
    /\ UNCHANGED wrapped
    /\ \/ UNCHANGED flow
       \/ \E answer \in Answers : flow' = [flow EXCEPT ![reqs[r].browser].answer = answer]

(* A request is over, or all of them are. *)
Delivers ==
    \E answers \in [Browser -> Answers] :
        /\ Receive(answers)
        /\ \/ \A r \in Request : ~Active(r)'
           \/ \E r \in Request :
                  Closing(r) /\ \A b \in Browser \ {reqs[r].browser} : answers[b] = "none"

LEMMA TypedIsAKey ==
    ASSUME TypeInv, NEW typed \in Typed
    PROVE  typed \in Password /\ (typed \in Key => OwnersKey(typed))
<1>1. \A u \in User : UserExists(u) => users[u].key \in Key
    BY DEF TypeInv, TablesOK, UserRow, UserExists
<1> QED
    BY <1>1, TypoAssumption DEF Typed, Password, OwnersKey

LEMMA CallSends ==
    ASSUME NEW b \in Browser, flow[b].task \notin OpNames, NEW op, NEW device \in Device \cup {None},
           NEW typed \in Password \cup {None}, Call(b, op, device, typed),
           op \in Naming => device \in Device,
           op = "registerOptions" /\ typed \in Key => OwnersKey(typed), op # "register"
    PROVE  Sends
<1> DEFINE f == [task |-> op, device |-> device, typed |-> typed, answer |-> "none"]
<1>1. /\ f \in Flow /\ f.task = op /\ f.device = device /\ f.typed = typed
      /\ flow' = [flow EXCEPT ![b] = f]
    BY VaultAssumption DEF Call, Flow
<1> HIDE DEF f
<1> QED
    BY <1>1 DEF Call, Sends

LEMMA NoFlowOK == NoFlow \in Flow /\ NoFlow.task = "none"
    BY DEF NoFlow, Flow

LEMMA ProceedRests ==
    ASSUME ClientTypes, NEW b \in Browser, NEW task \in {"none", "enter"}, Proceed(b, task)
    PROVE  /\ UNCHANGED vars
           /\ \E f \in Flow : f.task \in {"none", "enter"} /\ flow' = [flow EXCEPT ![b] = f]
<1>1. CASE task = "none"
    BY <1>1, NoFlowOK DEF Proceed
<1>2. CASE task = "enter"
    <2>1. flow' = [flow EXCEPT ![b] = [flow[b] EXCEPT !.task = "enter"]]
        BY <1>2 DEF Proceed, ClientTypes
    <2>2. /\ [flow[b] EXCEPT !.task = "enter"] \in Flow
          /\ [flow[b] EXCEPT !.task = "enter"].task = "enter"
        BY DEF ClientTypes, Flow
    <2> QED
        BY <1>2, <2>1, <2>2 DEF Proceed
<1> QED
    BY <1>1, <1>2

LEMMA UserSteps ==
    ASSUME TypeInv, ClientTypes, NEW b \in Browser, UserStep(b)
    PROVE  Sends \/ Rests \/ UNCHANGED <<vars, flow, wrapped, passkey>>
<1>1. Idle(b) => flow[b].task \notin OpNames
    BY DEF Idle, OpNames
<1>2. None \notin Key
    BY NoneAssumption
<1>3. ASSUME NEW op, Idle(b), Call(b, op, None, None), op \notin Naming
      PROVE  Sends
    BY CallSends, <1>1, <1>2, <1>3 DEF Naming
<1>4. ASSUME NEW typed \in Typed,
             SubmitPassword(b, typed) \/ SubmitRegistration(b, typed) \/ SubmitChange(b, typed)
      PROVE  Sends
    <2>1. typed \in Password \cup {None} /\ (typed \in Key => OwnersKey(typed))
        BY TypedIsAKey
    <2>2. Idle(b) /\ \E op \in {"unlock", "registerOptions", "change"} : Call(b, op, None, typed)
        BY <1>4 DEF SubmitPassword, SubmitRegistration, SubmitChange
    <2> QED
        BY CallSends, <1>1, <2>1, <2>2 DEF Naming
<1>5. ASSUME NEW d \in Device, ClickRemove(b, d)
      PROVE  Sends
    <2>1. Idle(b) /\ Call(b, "removeDevice", d, None)
        BY <1>5 DEF ClickRemove
    <2> QED
        BY CallSends, <1>1, <1>2, <2>1
<1>6. ASSUME NEW op \in Ops, ClickLeave(b, op)
      PROVE  Sends \/ UNCHANGED <<vars, flow, wrapped, passkey>>
    BY <1>3, <1>6 DEF ClickLeave, Naming
<1>7. CASE Navigate(b)
    <2>1. flow[b].task \notin OpNames
        BY <1>1, <1>7 DEF Navigate
    <2> QED
        BY <1>7, <2>1, ProceedRests DEF Navigate, Rests
<1>8. CASE ClickGoogle(b) \/ SubmitSetup(b) \/ ClickBiometric(b) \/ SubmitSettings(b)
    BY <1>3, <1>8 DEF ClickGoogle, SubmitSetup, ClickBiometric, SubmitSettings, Naming
<1> QED
    BY <1>4, <1>5, <1>6, <1>7, <1>8 DEF UserStep

LEMMA PageSteps ==
    ASSUME TypeInv, ClientTypes, NEW b \in Browser, PageStep(b)
    PROVE  Sends \/ Rests
<1> USE NoneAssumption, VaultAssumption
<1>1. ASSUME NEW op, Call(b, op, None, None), op \notin Naming, flow[b].task \notin OpNames
      PROVE  Sends
    BY CallSends, <1>1 DEF Naming
<1>2. ASSUME Proceed(b, "none"), flow[b].task \notin OpNames,
             \/ UNCHANGED wrapped
             \/ /\ flow[b].task = "prime"
                /\ wrapped' = [wrapped EXCEPT ![b][flow[b].device] = flow[b].typed]
      PROVE  Rests
    BY <1>2, ProceedRests DEF Rests
<1>3. CASE Enter(b)
    BY <1>1, <1>2, <1>3 DEF Enter, OpNames, Naming
<1>4. CASE Consent(b)
    BY <1>1, <1>2, <1>4 DEF Consent, OpNames, Naming
<1>5. ASSUME NEW d \in Device, CreateCredential(b, d)
      PROVE  Sends \/ Rests
    <2>1. /\ flow[b].task = "attest" /\ flow[b].task \notin OpNames /\ UNCHANGED wrapped
          /\ \A c \in Browser : wrapped[c][d] = None
        BY <1>5 DEF CreateCredential, NewCredential, OpNames
    <2>2. CASE Proceed(b, "none")
        BY <1>2, <2>1, <2>2
    <2>3. ASSUME "register" \in Ops, NEW r \in Request, Load(r, b, "register"),
                 flow' = [flow EXCEPT ![b].task = "register", ![b].device = d]
          PROVE  Sends
        <3> DEFINE f == [flow[b] EXCEPT !.task = "register", !.device = d]
        <3>1. f \in Flow /\ f.task = "register" /\ f.device = d /\ f.typed = flow[b].typed
            <4>1. flow[b] \in Flow /\ "register" \in OpNames
                BY DEF ClientTypes, OpNames
            <4> QED
                BY <4>1 DEF Flow
        <3>2. flow' = [flow EXCEPT ![b] = f]
            BY <2>3 DEF ClientTypes
        <3> HIDE DEF f
        <3>3. \E q \in Request : Load(q, b, f.task)
            BY <2>3, <3>1
        <3>4. \A c \in Browser : wrapped[c][f.device] = None
            BY <2>1, <3>1
        <3> QED
            BY <2>1, <2>3, <3>1, <3>2, <3>3, <3>4 DEF Sends
    <2> QED
        BY <1>5, <2>2, <2>3 DEF CreateCredential
<1>6. CASE SaveWrapped(b)
    BY <1>2, <1>6 DEF SaveWrapped, OpNames
<1>7. ASSUME NEW u \in User, Assert(b, u)
      PROVE  Sends
    <2>1. passkey[b][u] \in Device /\ wrapped[b][passkey[b][u]] \in Password
        BY <1>7 DEF Assert, ClientTypes
    <2>2. /\ flow[b].task \notin OpNames
          /\ Call(b, "authenticate", passkey[b][u], wrapped[b][passkey[b][u]])
        BY <1>7 DEF Assert, OpNames
    <2> QED
        BY CallSends, <2>1, <2>2
<1>8. CASE GiveUp(b)
    BY <1>2, <1>8 DEF GiveUp, OpNames
<1> QED
    BY <1>3, <1>4, <1>5, <1>6, <1>7, <1>8 DEF PageStep

(* The handlers of the API find the credential they are called with. *)
LEMMA CalledDevice ==
    ASSUME TypeInv, OpsOK, CallsAwaited, DevicesNamed, NEW r \in Request,
           reqs[r].pc \in {"register", "removeDevice"} \/ At(r, "authenticate", "loaded")
    PROVE  flow[reqs[r].browser].device \in Device
<1>1. Active(r) /\ reqs[r].op \in Naming
    BY DEF Active, At, OpsOK, OpOK, GuardedOps, Naming
<1>2. reqs[r].browser \in Browser
    BY <1>1, InFlight DEF Active, TypeInv
<1> QED
    BY <1>1, <1>2 DEF CallsAwaited, DevicesNamed

LEMMA HandlerSteps ==
    ASSUME TypeInv, OpsOK, CallsAwaited, DevicesNamed, NEW r \in Request,
           Serve(r) \/ Succeed(r) \/ Fail(r)
    PROVE  PlainStep(r) \/ UnlockStep(r) \/ ProceedStep(r) \/ Logout(r)
<1> DEFINE device == flow[reqs[r].browser].device
<1>1. CASE Serve(r)
    <2>1. Authenticate(r, device) => device \in Device
        BY CalledDevice DEF Authenticate
    <2> QED
        BY <1>1, <2>1 DEF Serve, ProceedStep
<1>2. CASE Succeed(r)
    <2>1. RegisterDevice(r, device) \/ RemoveDevice(r, device) => device \in Device
        BY CalledDevice DEF RegisterDevice, RemoveDevice
    <2> HIDE DEF device
    <2>2. \/ GoogleStart(r) \/ SetupUnlock(r) \/ UnlockSetKey(r) \/ Lock(r) \/ Logout(r)
          \/ ChangeSetKey(r) \/ SettingsApply(r) \/ IssueChallenge(r)
          \/ RegisterDevice(r, device) \/ RemoveDevice(r, device)
          \/ (\E g \in Identity : GoogleCallback(r, g)) \/ Me(r)
        BY <1>2 DEF Succeed, device
    <2> QED
        BY <2>1, <2>2 DEF PlainStep, UnlockStep
<1>3. CASE Fail(r)
    BY <1>3 DEF Fail, PlainStep
<1> QED
    BY <1>1, <1>2, <1>3

LEMMA HandlersAreServed ==
    ASSUME TypeInv, OpsOK, CallsAwaited, DevicesNamed, NEW r \in Request,
           Serve(r) \/ Succeed(r) \/ Fail(r)
    PROVE  Served(r)
<1>1. Continues(r) \/ Logout(r)
    BY HandlerSteps, HandlerContinues
<1>2. UNCHANGED wrapped
    BY DEF Serve, Succeed, Fail, clientVars
<1>3. UNCHANGED flow \/ \E answer \in Answers : flow' = [flow EXCEPT ![reqs[r].browser].answer = answer]
    BY DEF Serve, Succeed, Fail, clientVars, Answer, Answers, Pages
<1> QED
    BY <1>1, <1>2, <1>3 DEF Served

LEMMA DeliverDelivers ==
    ASSUME TypeInv, ClientTypes, NEW r \in Request, Deliver(r)
    PROVE  Delivers
<1> DEFINE answers == [b \in Browser |-> IF b = reqs[r].browser THEN flow[b].answer ELSE "none"]
<1>1. answers \in [Browser -> Answers]
    BY DEF ClientTypes, Flow, Answers
<1>2. Receive(answers) /\ Closing(r)
    BY DEF Deliver, Closing
<1>3. \A b \in Browser \ {reqs[r].browser} : answers[b] = "none"
    OBVIOUS
<1> HIDE DEF answers
<1> QED
    BY <1>1, <1>2, <1>3 DEF Delivers

LEMMA RestartDelivers ==
    ASSUME TypeInv, ApiRestart
    PROVE  Delivers
<1> DEFINE answers == [b \in Browser |-> IF flow[b].task \in OpNames THEN "failed" ELSE "none"]
<1>1. answers \in [Browser -> Answers] /\ Receive(answers)
    BY DEF ApiRestart, Answers
<1>2. \A r \in Request : ~Active(r)'
    BY DEF ApiRestart, Restart, Active, IdleRequest
<1> HIDE DEF answers
<1> QED
    BY <1>1, <1>2 DEF Delivers

LEMMA ClientSteps ==
    ASSUME TypeInv, OpsOK, ClientTypes, CallsAwaited, DevicesNamed, [ClientNext]_allVars
    PROVE  \/ Sends \/ Rests \/ (\E r \in Request : Served(r)) \/ Delivers
           \/ UNCHANGED <<reqs, flow, wrapped>>
<1>1. ASSUME NEW r \in Request, ApiStep(r)
      PROVE  Served(r) \/ Delivers
    BY <1>1, HandlersAreServed, DeliverDelivers DEF ApiStep
<1>2. CASE TimePasses \/ UNCHANGED allVars
    BY <1>2 DEF TimePasses, Tick, clientVars, allVars, vars
<1>3. ASSUME NEW b \in Browser, UserStep(b) \/ PageStep(b)
      PROVE  Sends \/ Rests \/ UNCHANGED <<reqs, flow, wrapped>>
    BY <1>3, UserSteps, PageSteps DEF vars
<1> QED
    BY <1>1, <1>2, <1>3, RestartDelivers DEF ClientNext

(* The browsers drive the vault as Vault allows it. *)
LEMMA VaultSteps ==
    ASSUME TypeInv, OpsOK, ClientTypes, CallsAwaited, DevicesNamed, [ClientNext]_allVars
    PROVE  [Next]_vars
<1>1. ASSUME NEW r \in Request, PlainStep(r) \/ UnlockStep(r) \/ ProceedStep(r) \/ Logout(r)
      PROVE  Next
    BY <1>1 DEF PlainStep, UnlockStep, ProceedStep, Next, AuthStep, AccountStep, ChangeStep,
       DeviceStep
<1>2. ASSUME NEW r \in Request, EndRequest(r) \/ Destroy(r)
      PROVE  Next
    BY <1>2 DEF Next, AuthStep
<1>3. ASSUME NEW r \in Request, ApiStep(r)
      PROVE  Next
    BY <1>1, <1>2, <1>3, HandlerSteps DEF ApiStep, Deliver
<1>4. Sends => Next
    <2> SUFFICES ASSUME NEW b \in Browser, NEW f \in Flow, f.task \in Ops,
                        NEW r \in Request, Load(r, b, f.task)
                 PROVE  Next
        BY DEF Sends
    <2> QED
        BY DEF Next, AuthStep
<1>5. Rests \/ UNCHANGED <<vars, flow, wrapped, passkey>> => UNCHANGED vars
    BY DEF Rests
<1>6. CASE ApiRestart \/ TimePasses \/ UNCHANGED allVars
    BY <1>6 DEF ApiRestart, TimePasses, allVars, Next
<1>7. ASSUME NEW b \in Browser, UserStep(b) \/ PageStep(b)
      PROVE  Sends \/ UNCHANGED vars
    BY <1>5, <1>7, UserSteps, PageSteps
<1> QED
    BY <1>3, <1>4, <1>6, <1>7 DEF ClientNext

-----------------------------------------------------------------------------
(* What an answer does to a page *)

LEMMA NextTasks ==
    ASSUME NEW b, NEW answer
    PROVE  \/ NextTask(b, answer) \in {"none", "consent", "enter", "assert"}
           \/ NextTask(b, answer) = "attest" /\ flow[b].task = "registerOptions"
           \/ NextTask(b, answer) = "prime" /\ flow[b].task = "register"
    BY DEF NextTask

LEMMA ReceiveFields ==
    ASSUME ClientTypes, NEW answers, Receive(answers)
    PROVE  /\ flow' \in [Browser -> Flow]
           /\ wrapped' \in [Browser -> [Device -> Password \cup {None}]]
           /\ UNCHANGED passkey
           /\ \A b \in Browser : answers[b] = "none" => flow'[b] = flow[b]
           /\ \A b \in Browser :
                  \/ flow'[b] = flow[b]
                  \/ flow'[b].task \in {"none", "consent", "enter", "assert"}
                  \/ /\ \/ flow'[b].task = "attest" /\ flow[b].task = "registerOptions"
                        \/ flow'[b].task = "prime" /\ flow[b].task = "register"
                     /\ flow'[b].typed = flow[b].typed /\ flow'[b].device = flow[b].device
           /\ \A b \in Browser, d \in Device : wrapped'[b][d] \in {wrapped[b][d], None}
<1> DEFINE after(b) == NextTask(b, answers[b])
           left(b) == [IF after(b) = "enter" THEN NoFlow ELSE flow[b]
                          EXCEPT !.task = after(b), !.answer = "none"]
           next(b) == IF answers[b] = "none" THEN flow[b]
                      ELSE IF after(b) = "none" THEN NoFlow ELSE left(b)
<1>1. flow' = [b \in Browser |-> next(b)]
    BY DEF Receive
<1>2. ASSUME NEW b \in Browser
      PROVE  /\ next(b) \in Flow
             /\ answers[b] = "none" => next(b) = flow[b]
             /\ \/ next(b) = flow[b]
                \/ next(b).task \in {"none", "consent", "enter", "assert"}
                \/ /\ \/ next(b).task = "attest" /\ flow[b].task = "registerOptions"
                      \/ next(b).task = "prime" /\ flow[b].task = "register"
                   /\ next(b).typed = flow[b].typed /\ next(b).device = flow[b].device
    <2>1. \/ after(b) \in {"none", "consent", "enter", "assert"}
          \/ after(b) = "attest" /\ flow[b].task = "registerOptions"
          \/ after(b) = "prime" /\ flow[b].task = "register"
        BY NextTasks
    <2> HIDE DEF after
    <2>2. flow[b] \in Flow /\ NoFlow \in Flow
        BY NoFlowOK DEF ClientTypes
    <2>3. left(b) \in Flow /\ left(b).task = after(b)
        BY <2>1, <2>2 DEF Flow
    <2>4. after(b) # "enter" => left(b).typed = flow[b].typed /\ left(b).device = flow[b].device
        BY <2>2 DEF Flow
    <2> HIDE DEF left
    <2> QED
        BY <2>1, <2>2, <2>3, <2>4, NoFlowOK
<1>3. ASSUME NEW b \in Browser
      PROVE  /\ WrappedAfter(b, answers[b]) \in [Device -> Password \cup {None}]
             /\ \A d \in Device : WrappedAfter(b, answers[b])[d] \in {wrapped[b][d], None}
    BY DEF WrappedAfter, ClientTypes
<1>4. wrapped' = [b \in Browser |-> IF answers[b] # "none" THEN WrappedAfter(b, answers[b])
                                                         ELSE wrapped[b]]
    BY DEF Receive
<1>5. wrapped' \in [Browser -> [Device -> Password \cup {None}]]
    BY <1>3, <1>4 DEF ClientTypes
<1>6. \A b \in Browser, d \in Device : wrapped'[b][d] \in {wrapped[b][d], None}
    BY <1>3, <1>4 DEF ClientTypes
<1>7. UNCHANGED passkey
    BY DEF Receive
<1> HIDE DEF next, left, after
<1>8. flow' \in [Browser -> Flow] /\ \A b \in Browser : flow'[b] = next(b)
    BY <1>1, <1>2
<1> QED
    BY <1>2, <1>5, <1>6, <1>7, <1>8

(* The record of an answer leaves the rest of the page's handler. *)
LEMMA AnswerFields ==
    ASSUME ClientTypes, NEW r \in Request, Served(r)
    PROVE  /\ flow' \in [Browser -> Flow]
           /\ \A b \in Browser : /\ flow'[b].task = flow[b].task
                                 /\ flow'[b].device = flow[b].device
                                 /\ flow'[b].typed = flow[b].typed
<1>1. CASE UNCHANGED flow
    BY <1>1 DEF ClientTypes
<1>2. ASSUME NEW answer \in Answers, flow' = [flow EXCEPT ![reqs[r].browser].answer = answer]
      PROVE  /\ flow' \in [Browser -> Flow]
             /\ \A b \in Browser : /\ flow'[b].task = flow[b].task
                                   /\ flow'[b].device = flow[b].device
                                   /\ flow'[b].typed = flow[b].typed
    <2>1. \A f \in Flow : /\ [f EXCEPT !.answer = answer] \in Flow
                          /\ [f EXCEPT !.answer = answer].task = f.task
                          /\ [f EXCEPT !.answer = answer].device = f.device
                          /\ [f EXCEPT !.answer = answer].typed = f.typed
        BY DEF Flow, Answers
    <2>2. \A b \in Browser : flow'[b] \in {flow[b], [flow[b] EXCEPT !.answer = answer]}
        BY <1>2 DEF ClientTypes
    <2>3. flow' \in [Browser -> Flow]
        BY <1>2, <2>1 DEF ClientTypes
    <2> QED
        BY <2>1, <2>2, <2>3 DEF ClientTypes
<1> QED
    BY <1>1, <1>2 DEF Served

-----------------------------------------------------------------------------
(* The invariant *)

LEMMA ClientTypesNext ==
    ASSUME TypeInv, OpsOK, ClientTypes, CallsAwaited, DevicesNamed, [ClientNext]_allVars
    PROVE  ClientTypes'
<1>1. passkey' \in [Browser -> [User -> Device \cup {None}]]
    <2>1. ASSUME NEW b \in Browser, NEW d \in Device, CreateCredential(b, d)
          PROVE  passkey' \in [Browser -> [User -> Device \cup {None}]]
        BY <2>1 DEF CreateCredential, ClientTypes
    <2>2. ASSUME NEW b \in Browser, PageStep(b), \A d \in Device : ~CreateCredential(b, d)
          PROVE  UNCHANGED passkey
        BY <2>2 DEF PageStep, Enter, Consent, SaveWrapped, Assert, GiveUp, Call
    <2>3. ASSUME NEW b \in Browser, UserStep(b)
          PROVE  UNCHANGED passkey
        BY <2>3 DEF UserStep, ClickGoogle, SubmitSetup, SubmitPassword, ClickBiometric,
           SubmitRegistration, ClickRemove, SubmitChange, SubmitSettings, ClickLeave, Navigate, Call
    <2>4. ASSUME NEW r \in Request, ApiStep(r)
          PROVE  UNCHANGED passkey
        BY <2>4 DEF ApiStep, Serve, Succeed, Fail, Deliver, Receive, clientVars
    <2>5. ApiRestart \/ TimePasses \/ UNCHANGED allVars => UNCHANGED passkey
        BY DEF ApiRestart, Receive, TimePasses, clientVars, allVars
    <2> QED
        BY <2>1, <2>2, <2>3, <2>4, <2>5 DEF ClientNext, ClientTypes
<1>2. CASE Sends
    BY <1>1, <1>2 DEF Sends, ClientTypes
<1>3. CASE Rests
    <2>1. PICK b \in Browser, f \in Flow :
              /\ flow' = [flow EXCEPT ![b] = f]
              /\ \/ UNCHANGED wrapped
                 \/ wrapped' = [wrapped EXCEPT ![b][flow[b].device] = flow[b].typed]
        BY <1>3 DEF Rests
    <2>2. flow[b].typed \in Password \cup {None}
        BY DEF ClientTypes, Flow
    <2>3. wrapped' \in [Browser -> [Device -> Password \cup {None}]]
        <3> DEFINE w == [wrapped[b] EXCEPT ![flow[b].device] = flow[b].typed]
        <3>1. w \in [Device -> Password \cup {None}]
            BY <2>2 DEF ClientTypes
        <3>2. wrapped' = wrapped \/ wrapped' = [wrapped EXCEPT ![b] = w]
            BY <2>1
        <3> HIDE DEF w
        <3> QED
            BY <3>1, <3>2 DEF ClientTypes
    <2> QED
        BY <1>1, <2>1, <2>3 DEF ClientTypes
<1>4. ASSUME NEW r \in Request, Served(r)
      PROVE  ClientTypes'
    BY <1>1, <1>4, AnswerFields DEF Served, ClientTypes
<1>5. CASE Delivers
    BY <1>5, ReceiveFields DEF Delivers, ClientTypes
<1>6. CASE UNCHANGED <<reqs, flow, wrapped>>
    BY <1>1, <1>6 DEF ClientTypes
<1> QED
    BY <1>2, <1>3, <1>4, <1>5, <1>6, ClientSteps

LEMMA CallsAwaitedNext ==
    ASSUME PagesInv, ClientTypes, CallsAwaited, DevicesNamed,
           [ClientNext]_allVars
    PROVE  CallsAwaited'
<1> USE DEF PagesInv
<1> SUFFICES ASSUME NEW q \in Request, reqs'[q].pc # "idle"
             PROVE  flow'[reqs'[q].browser].task = reqs'[q].op
    BY DEF CallsAwaited, Active
<1>1. Active(q) => /\ reqs[q].browser \in Browser
                   /\ reqs[q].op \in OpNames
                   /\ flow[reqs[q].browser].task = reqs[q].op
    BY InFlight, VaultAssumption DEF Active, TypeInv, OpsOK, OpOK, CallsAwaited
<1>2. CASE Sends
    <2>1. PICK b \in Browser, f \in Flow, r \in Request :
              /\ Load(r, b, f.task) /\ f.task \in Ops /\ flow[b].task \notin OpNames
              /\ flow' = [flow EXCEPT ![b] = f]
        BY <1>2 DEF Sends
    <2>2. Others(r) /\ reqs'[r].browser = b /\ reqs'[r].op = f.task
        BY <2>1, LoadFields
    <2>3. q # r => reqs'[q] = reqs[q] /\ reqs[q].browser # b
        BY <1>1, <2>1, <2>2 DEF Others, Active
    <2> QED
        BY <1>1, <2>1, <2>2, <2>3 DEF ClientTypes, Active
<1>3. CASE Rests
    <2>1. PICK b \in Browser : /\ flow[b].task \notin OpNames /\ reqs' = reqs
                               /\ \E f \in Flow : flow' = [flow EXCEPT ![b] = f]
        BY <1>3 DEF Rests, vars
    <2> QED
        BY <1>1, <2>1 DEF ClientTypes, Active
<1>4. ASSUME NEW r \in Request, Served(r)
      PROVE  flow'[reqs'[q].browser].task = reqs'[q].op
    <2>1. /\ Active(r) /\ Others(r)
          /\ reqs'[r].op = reqs[r].op /\ reqs'[r].browser = reqs[r].browser
        BY <1>4, LogoutFields DEF Served, Continues, Active
    <2>2. reqs'[q].op = reqs[q].op /\ reqs'[q].browser = reqs[q].browser /\ Active(q)
        BY <2>1 DEF Others, Active
    <2> QED
        BY <1>1, <1>4, <2>2, AnswerFields
<1>5. CASE Delivers
    <2>1. PICK answers \in [Browser -> Answers], r \in Request :
              Receive(answers) /\ Closing(r) /\ \A b \in Browser \ {reqs[r].browser} : answers[b] = "none"
        BY <1>5 DEF Delivers, Active
    <2>2. Others(r) /\ reqs'[r].pc = "idle" /\ Active(r)
        BY <2>1, ClosingFields DEF IdleRequest, Active
    <2>3. q # r /\ reqs'[q] = reqs[q] /\ Active(q)
        BY <2>2 DEF Others, Active
    <2>4. reqs[q].browser # reqs[r].browser
        BY <2>2, <2>3 DEF PagesWait
    <2>5. flow'[reqs[q].browser] = flow[reqs[q].browser]
        BY <1>1, <2>1, <2>3, <2>4, ReceiveFields
    <2> QED
        BY <1>1, <2>3, <2>5
<1>6. CASE UNCHANGED <<reqs, flow, wrapped>>
    BY <1>1, <1>6 DEF Active
<1> QED
    BY <1>2, <1>3, <1>4, <1>5, <1>6, ClientSteps

(* A page whose handler awaits an answer sends nothing. *)
LEMMA PagesWaitNext ==
    ASSUME PagesInv, ClientTypes, CallsAwaited, DevicesNamed, [ClientNext]_allVars
    PROVE  PagesWait'
<1> USE DEF PagesInv
<1>1. ASSUME NEW r \in Request, Others(r),
             reqs'[r].pc # "idle" => Active(r) /\ reqs'[r].browser = reqs[r].browser
      PROVE  PagesWait'
    BY <1>1 DEF Others, PagesWait, Active
<1>2. CASE Sends
    <2>1. PICK b \in Browser, r \in Request :
              flow[b].task \notin OpNames /\ \E op \in Ops : Load(r, b, op)
        BY <1>2 DEF Sends
    <2>2. Others(r) /\ reqs'[r].browser = b
        BY <2>1, LoadFields
    <2>3. \A q \in Request : Active(q) => reqs[q].op \in OpNames
        BY VaultAssumption DEF OpsOK, OpOK, Active
    <2>4. \A q \in Request : Active(q) => reqs[q].browser # b
        BY <2>1, <2>3 DEF CallsAwaited
    <2> QED
        BY <2>2, <2>4 DEF Others, PagesWait, Active
<1>3. CASE Rests
    BY <1>3 DEF Rests, vars, PagesWait, Active
<1>4. ASSUME NEW r \in Request, Served(r)
      PROVE  PagesWait'
    BY <1>1, <1>4, LogoutFields DEF Served, Continues, Active
<1>5. ASSUME NEW r \in Request, Closing(r)
      PROVE  PagesWait'
    BY <1>1, <1>5, ClosingFields DEF IdleRequest
<1>6. CASE Delivers
    BY <1>5, <1>6 DEF Delivers, PagesWait, Active
<1>7. CASE UNCHANGED <<reqs, flow, wrapped>>
    BY <1>7 DEF PagesWait, Active
<1> QED
    BY <1>2, <1>3, <1>4, <1>6, <1>7, ClientSteps

(* Where a page's handler comes from. *)
LEMMA TaskComesFrom ==
    ASSUME PagesInv, ClientTypes, CallsAwaited, DevicesNamed, [ClientNext]_allVars,
           NEW b \in Browser
    PROVE  \/ flow'[b].task \in {"none", "consent", "enter", "assert"}
           \/ /\ flow'[b].device = flow[b].device /\ flow'[b].typed = flow[b].typed
              /\ \/ flow'[b].task = flow[b].task
                 \/ flow'[b].task = "attest" /\ flow[b].task = "registerOptions"
                 \/ flow'[b].task = "prime" /\ flow[b].task = "register"
           \/ /\ flow'[b].task \in Ops
              /\ flow'[b].task \in Naming => flow'[b].device \in Device
              /\ flow'[b].task = "registerOptions" /\ flow'[b].typed \in Key =>
                     OwnersKey(flow'[b].typed)
              /\ flow'[b].task = "register" =>
                     /\ flow[b].task = "attest" /\ flow'[b].typed = flow[b].typed
                     /\ \A c \in Browser : wrapped[c][flow'[b].device] = None
              /\ \A r \in Request : ~ChangeCommit(r)
              /\ UNCHANGED wrapped
<1> USE DEF PagesInv
<1>1. CASE Sends
    <2>1. PICK e \in Browser, f \in Flow :
              /\ \E r \in Request : Load(r, e, f.task)
              /\ flow' = [flow EXCEPT ![e] = f]
              /\ f.task \in Ops
              /\ f.task \in Naming => f.device \in Device
              /\ f.task = "registerOptions" /\ f.typed \in Key => OwnersKey(f.typed)
              /\ f.task = "register" =>
                     /\ flow[e].task = "attest" /\ f.typed = flow[e].typed
                     /\ \A c \in Browser : wrapped[c][f.device] = None
              /\ UNCHANGED wrapped
        BY <1>1 DEF Sends
    <2>2. PICK r \in Request : Load(r, e, f.task)
        BY <2>1
    <2>3. Others(r) /\ reqs[r].pc = "idle" /\ reqs'[r].pc = "loaded"
        BY <2>1, <2>2, LoadFields
    <2>4. \A q \in Request : ChangeCommit(q) => reqs[q].pc = "commit" /\ reqs'[q].pc = "changed"
        BY ChangeCommitFields DEF Proceeds
    <2>5. \A q \in Request : ~ChangeCommit(q)
        BY <2>3, <2>4 DEF Others
    <2>6. b # e => flow'[b] = flow[b]
        BY <2>1 DEF ClientTypes
    <2>7. b = e => flow'[b] = f
        BY <2>1 DEF ClientTypes
    <2> QED
        BY <2>1, <2>5, <2>6, <2>7
<1>2. CASE Rests
    BY <1>2 DEF Rests, ClientTypes
<1>3. ASSUME NEW r \in Request, Served(r)
      PROVE  /\ flow'[b].device = flow[b].device /\ flow'[b].typed = flow[b].typed
             /\ flow'[b].task = flow[b].task
    BY <1>3, AnswerFields
<1>4. CASE Delivers
    BY <1>4, ReceiveFields DEF Delivers
<1>5. CASE UNCHANGED <<reqs, flow, wrapped>>
    BY <1>5
<1> QED
    BY <1>1, <1>2, <1>3, <1>4, <1>5, ClientSteps

LEMMA DevicesNamedNext ==
    ASSUME PagesInv, ClientTypes, CallsAwaited, DevicesNamed, [ClientNext]_allVars
    PROVE  DevicesNamed'
<1> SUFFICES ASSUME NEW b \in Browser, flow'[b].task \in Naming
             PROVE  flow'[b].device \in Device
    BY DEF DevicesNamed
<1> QED
    BY TaskComesFrom DEF DevicesNamed, Naming

(* What becomes of a wrapped password. *)
LEMMA WrappedComesFrom ==
    ASSUME PagesInv, ClientTypes, CallsAwaited, DevicesNamed, [ClientNext]_allVars,
           NEW b \in Browser, NEW d \in Device
    PROVE  \/ wrapped'[b][d] \in {wrapped[b][d], None}
           \/ /\ flow[b].task = "prime" /\ wrapped'[b][d] = flow[b].typed
              /\ UNCHANGED vars
<1> USE DEF PagesInv
<1>1. CASE Rests
    <2>1. PICK e \in Browser :
              \/ UNCHANGED wrapped
              \/ /\ flow[e].task = "prime" /\ UNCHANGED vars
                 /\ wrapped' = [wrapped EXCEPT ![e][flow[e].device] = flow[e].typed]
        BY <1>1 DEF Rests
    <2> QED
        BY <2>1 DEF ClientTypes
<1>2. CASE Delivers
    BY <1>2, ReceiveFields DEF Delivers
<1> QED
    BY <1>1, <1>2, ClientSteps DEF Sends, Served

(* The commit of a change leaves no trusted device and no registration. *)
LEMMA CommitEndsTrust ==
    ASSUME OneUser, StableKeys, PagesInv, ClientTypes, CallsAwaited, DevicesNamed,
           [ClientNext]_allVars, NEW r \in Request, ChangeCommit(r)
    PROVE  /\ "change" \in Ops
           /\ \A b \in Browser : flow'[b].task \notin Registering
           /\ \A d \in Device : devices'[d] = NoDevice
<1> USE DEF PagesInv
<1>1. reqs[r].pc = "commit" /\ reqs[r].user \in User
    BY ChangeCommitFields
<1>2. Active(r) /\ reqs[r].op = "change" /\ "change" \in Ops
    BY <1>1 DEF Active, OpsOK, OpOK
<1>3. reqs[r].browser \in Browser /\ flow[reqs[r].browser].task = "change"
    BY <1>2, InFlight DEF Active, TypeInv, CallsAwaited
<1>4. ASSUME NEW b \in Browser
      PROVE  flow'[b].task \notin Registering
    <2>1. flow[b].task = "change"
        BY <1>2, <1>3 DEF StableKeys, OneBrowser
    <2> QED
        BY <2>1, TaskComesFrom DEF Registering
<1>5. ASSUME NEW d \in Device
      PROVE  devices'[d] = NoDevice
    <2>1. devices[d] # NoDevice => devices[d].owner = reqs[r].user
        BY <1>1 DEF TypeInv, TablesOK, DeviceRow, OneUser
    <2> QED
        BY <2>1 DEF ChangeCommit, DevicesRevoked
<1> QED
    BY <1>2, <1>4, <1>5

(* A device is registered by a page that has just made its credential. *)
LEMMA DeviceComesFrom ==
    ASSUME PagesInv, ClientTypes, CallsAwaited, DevicesNamed, [ClientNext]_allVars,
           NEW d \in Device, devices[d] = NoDevice, devices'[d] # NoDevice
    PROVE  \E b \in Browser : flow[b].task = "register" /\ flow[b].device = d
<1> USE DEF PagesInv
<1>1. devices \in [Device -> DeviceRow \cup {NoDevice}]
    BY DEF TypeInv, TablesOK
<1>2. ASSUME NEW r \in Request, RegisterDevice(r, flow[reqs[r].browser].device)
      PROVE  \E b \in Browser : flow[b].task = "register" /\ flow[b].device = d
    <2>1. reqs[r].pc = "register" /\ Active(r) /\ reqs[r].op = "register"
        BY <1>2 DEF RegisterDevice, Active, OpsOK, OpOK, GuardedOps
    <2>2. reqs[r].browser \in Browser /\ flow[reqs[r].browser].task = "register"
        BY <2>1, InFlight DEF Active, TypeInv, CallsAwaited
    <2>3. flow[reqs[r].browser].device = d
        BY <1>1, <1>2 DEF RegisterDevice
    <2> QED
        BY <2>2, <2>3
<1>3. ASSUME NEW r \in Request, ChangeCommit(r)
      PROVE  FALSE
    BY <1>3 DEF ChangeCommit, DevicesRevoked
<1>4. ASSUME NEW r \in Request, NEW e, RemoveDevice(r, e)
      PROVE  FALSE
    BY <1>1, <1>4 DEF RemoveDevice
<1>5. ASSUME NEW r \in Request, Serve(r)
      PROVE  FALSE
    BY <1>3, <1>5 DEF Serve, SetupCreate, UnlockReadUser, Authenticate, Admit, ChangeReadUser,
       ChangeSnapshot, SettingsWrite, tables
<1>6. ASSUME NEW r \in Request, Succeed(r)
      PROVE  \E b \in Browser : flow[b].task = "register" /\ flow[b].device = d
    BY <1>2, <1>4, <1>6 DEF Succeed, GoogleStart, SetupUnlock, UnlockSetKey, Lock, Logout,
       ChangeSetKey, SettingsApply, IssueChallenge, GoogleCallback, Me, tables
<1>7. ASSUME NEW r \in Request, Fail(r) \/ Deliver(r)
      PROVE  FALSE
    BY <1>7 DEF Fail, Refuse, PasskeyRejected, GoogleCallbackRejected, Reject, Deliver, EndRequest,
       Destroy, tables
<1>8. Sends => UNCHANGED devices
    BY DEF Sends, Load, tables
<1>9. Rests \/ UNCHANGED <<vars, flow, wrapped, passkey>> => UNCHANGED devices
    BY DEF Rests, vars, tables
<1>10. ApiRestart \/ TimePasses \/ UNCHANGED allVars => UNCHANGED devices
    BY DEF ApiRestart, Restart, TimePasses, Tick, allVars, vars, tables
<1>11. ASSUME NEW b \in Browser, UserStep(b) \/ PageStep(b)
       PROVE  UNCHANGED devices
    BY <1>8, <1>9, <1>11, UserSteps, PageSteps
<1> QED
    BY <1>5, <1>6, <1>7, <1>10, <1>11 DEF ClientNext, ApiStep

LEMMA OwnersKeyStays ==
    ASSUME TypeInv, [Next]_vars, \A r \in Request : ~ChangeCommit(r), NEW p, OwnersKey(p)
    PROVE  \E u \in User : users'[u].key # None /\ p = users'[u].key
    BY KeyStays DEF OwnersKey, UserExists

LEMMA TypedCurrentNext ==
    ASSUME OneUser, StableKeys, PagesInv, ClientInv, [ClientNext]_allVars
    PROVE  TypedCurrent'
<1> USE DEF PagesInv, ClientInv
<1> SUFFICES ASSUME NEW b \in Browser, flow'[b].task \in Registering, flow'[b].typed \in Key
             PROVE  \E u \in User : users'[u].key # None /\ flow'[b].typed = users'[u].key
    BY DEF TypedCurrent, OwnersKey, UserExists
<1>1. \A r \in Request : ~ChangeCommit(r)
    BY CommitEndsTrust
<1>2. OwnersKey(flow'[b].typed)
    <2>1. \A task \in Ops : task \notin {"attest", "prime"}
        BY VaultAssumption DEF OpNames
    <2> QED
        BY <2>1, TaskComesFrom DEF TypedCurrent, Registering
<1>3. [Next]_vars
    BY VaultSteps
<1> QED
    BY <1>1, <1>2, <1>3, OwnersKeyStays

LEMMA WrappedCurrentNext ==
    ASSUME OneUser, StableKeys, PagesInv, ClientInv, [ClientNext]_allVars
    PROVE  WrappedCurrent'
<1> USE DEF PagesInv, ClientInv
<1> SUFFICES ASSUME NEW b \in Browser, NEW d \in Device, wrapped'[b][d] \in Key,
                    devices'[d] # NoDevice \/ "change" \notin Ops
             PROVE  \E u \in User : users'[u].key # None /\ wrapped'[b][d] = users'[u].key
    BY DEF WrappedCurrent, OwnersKey, UserExists
<1>1. \A r \in Request : ~ChangeCommit(r)
    BY CommitEndsTrust
<1>2. OwnersKey(wrapped'[b][d])
    <2>1. None \notin Key
        BY NoneAssumption
    <2>2. CASE flow[b].task = "prime" /\ wrapped'[b][d] = flow[b].typed
        BY <2>2 DEF TypedCurrent, Registering
    <2>3. CASE wrapped'[b][d] = wrapped[b][d]
        <3>1. CASE devices[d] # NoDevice \/ "change" \notin Ops
            BY <2>3, <3>1 DEF WrappedCurrent
        <3>2. CASE devices[d] = NoDevice /\ "change" \in Ops
            BY <2>1, <2>3, <3>2, DeviceComesFrom DEF NewIsUnwrapped
        <3> QED
            BY <3>1, <3>2
    <2> QED
        BY <2>1, <2>2, <2>3, WrappedComesFrom
<1>3. [Next]_vars
    BY VaultSteps
<1> QED
    BY <1>1, <1>2, <1>3, OwnersKeyStays

LEMMA NewIsUnwrappedNext ==
    ASSUME StableKeys, PagesInv, ClientInv, [ClientNext]_allVars
    PROVE  NewIsUnwrapped'
<1> USE DEF PagesInv, ClientInv
<1> SUFFICES ASSUME "change" \in Ops, NEW b \in Browser, NEW c \in Browser,
                    flow'[b].task = "register"
             PROVE  wrapped'[c][flow'[b].device] = None
    BY DEF NewIsUnwrapped
<1>1. b = c
    BY DEF StableKeys, OneBrowser
<1>2. flow'[b].device \in Device
    BY DevicesNamedNext DEF DevicesNamed, Naming
<1>3. wrapped[c][flow'[b].device] = None
    BY TaskComesFrom DEF NewIsUnwrapped
<1>4. flow[b].task # "prime"
    BY TaskComesFrom
<1> QED
    BY <1>1, <1>2, <1>3, <1>4, WrappedComesFrom

LEMMA ClientInvInit == ClientInit => ClientInv
<1> SUFFICES ASSUME ClientInit PROVE ClientInv
    OBVIOUS
<1>1. NoFlow.task \notin Naming \cup Registering
    BY DEF NoFlow, Naming, Registering
<1>2. ClientTypes /\ \A b \in Browser : flow[b] = NoFlow
    BY NoFlowOK DEF ClientInit, ClientTypes
<1>3. \A r \in Request : ~Active(r)
    BY DEF ClientInit, Init, IdleRequest, Active
<1>4. \A b \in Browser, d \in Device : wrapped[b][d] = None /\ None \notin Key
    BY NoneAssumption DEF ClientInit
<1> QED
    BY <1>1, <1>2, <1>3, <1>4, NoFlowOK
    DEF ClientInv, CallsAwaited, DevicesNamed, TypedCurrent, WrappedCurrent, NewIsUnwrapped

LEMMA PagesInvInit == ClientInit => PagesInv
<1> SUFFICES ASSUME ClientInit PROVE PagesInv
    OBVIOUS
<1>1. OpsOK /\ PagesWait
    BY DEF ClientInit, Init, IdleRequest, GuardedOps, OpsOK, OpOK, PagesWait, Active
<1> QED
    BY <1>1, TypeInvInit DEF ClientInit, PagesInv

LEMMA PagesInvNext ==
    ASSUME PagesInv, ClientTypes, CallsAwaited, DevicesNamed, [ClientNext]_allVars
    PROVE  PagesInv'
<1>1. [Next]_vars
    BY VaultSteps DEF PagesInv
<1> QED
    BY <1>1, TypeInvNext, OpsStep, PagesWaitNext DEF PagesInv

LEMMA ClientInvNext ==
    ASSUME OneUser, StableKeys
    PROVE  PagesInv /\ ClientInv /\ [ClientNext]_allVars => PagesInv' /\ ClientInv'
<1> SUFFICES ASSUME PagesInv, ClientInv, [ClientNext]_allVars
             PROVE  PagesInv' /\ ClientInv'
    OBVIOUS
<1>1. PagesInv'
    BY PagesInvNext DEF ClientInv
<1>2. ClientTypes' /\ CallsAwaited' /\ DevicesNamed'
    BY ClientTypesNext, CallsAwaitedNext, DevicesNamedNext DEF PagesInv, ClientInv
<1> QED
    BY <1>1, <1>2, TypedCurrentNext, WrappedCurrentNext, NewIsUnwrappedNext DEF ClientInv

(* A vault with one user: the password that a browser has wrapped for a    *)
(* trusted device is the user's master password of now, or a mistyped one, *)
(* if there is one browser or the master password never changes.  A change *)
(* ends all registrations and removes all trusted devices, and nothing     *)
(* wraps the password of before it for a device of after it                *)
(* (auth.service.ts, changeMasterPassword; webauthn.ts,                    *)
(* registerThisDevice).                                                    *)
THEOREM WrappedPasswordsStayCurrent ==
    ASSUME OneUser, StableKeys
    PROVE  ClientSpec => []WrappedPasswordIsCurrent
<1>1. ClientInit => PagesInv /\ ClientInv
    BY PagesInvInit, ClientInvInit
<1>2. PagesInv /\ ClientInv /\ [ClientNext]_allVars => PagesInv' /\ ClientInv'
    BY ClientInvNext
<1>3. PagesInv /\ ClientInv => WrappedPasswordIsCurrent
    <2> SUFFICES ASSUME PagesInv, ClientInv, NEW b \in Browser, NEW d \in Device,
                        devices[d] # NoDevice, wrapped[b][d] \in Key
                 PROVE  wrapped[b][d] = users[devices[d].owner].key
        BY DEF WrappedPasswordIsCurrent
    <2>1. devices[d].owner \in User
        BY DEF PagesInv, TypeInv, TablesOK, DeviceRow
    <2>2. OwnersKey(wrapped[b][d])
        BY DEF ClientInv, WrappedCurrent
    <2> QED
        BY <2>1, <2>2 DEF OwnersKey, OneUser
<1> QED
    BY <1>1, <1>2, <1>3, PTL DEF ClientSpec

(* What holds of the pages whoever uses them: each awaits the answer to    *)
(* its browser's one request, and a handler that names a credential has it.*)
Driving == PagesInv /\ ClientTypes /\ CallsAwaited /\ DevicesNamed

LEMMA DrivingInvariant ==
    /\ ClientInit => Driving
    /\ Driving /\ [ClientNext]_allVars => Driving'
<1>1. ClientInit => PagesInv /\ ClientTypes /\ CallsAwaited /\ DevicesNamed
    BY PagesInvInit, ClientInvInit DEF ClientInv
<1>2. ASSUME PagesInv, ClientTypes, CallsAwaited, DevicesNamed, [ClientNext]_allVars
      PROVE  PagesInv' /\ ClientTypes' /\ CallsAwaited' /\ DevicesNamed'
    BY <1>2, PagesInvNext, ClientTypesNext, CallsAwaitedNext, DevicesNamedNext DEF PagesInv
<1> QED
    BY <1>1, <1>2 DEF Driving

(* A browser has one request in flight, however many the API would take:   *)
(* a handler awaits each call before it goes on (lib/api.ts, apiFetch),    *)
(* and a page on which nothing starts while a handler waits keeps its      *)
(* browser to that.  SerialSessions assumes it of the vault's browsers.    *)
THEOREM PagesAwaitTheirAnswers == ClientSpec => [](PagesWait /\ CallsAwaited)
<1>1. ClientInit => Driving
    BY DrivingInvariant
<1>2. Driving /\ [ClientNext]_allVars => Driving'
    BY DrivingInvariant
<1>3. Driving => PagesWait /\ CallsAwaited
    BY DEF Driving, PagesInv
<1> QED
    BY <1>1, <1>2, <1>3, PTL DEF ClientSpec

(* The browsers use the vault as its theorems assume: what holds of every  *)
(* behaviour of Vault holds of every behaviour of the browser side         *)
(* (auth.controller.ts, accounts.controller.ts: the routes a page calls).  *)
THEOREM BrowsersDriveTheVault == ClientSpec => Spec
<1>1. ClientInit => Driving /\ Init
    BY DrivingInvariant DEF ClientInit
<1>2. Driving /\ [ClientNext]_allVars => [Next]_vars
    BY VaultSteps DEF Driving, PagesInv
<1>3. Driving /\ [ClientNext]_allVars => Driving'
    BY DrivingInvariant
<1> QED
    BY <1>1, <1>2, <1>3, PTL DEF ClientSpec, Spec

=============================================================================
