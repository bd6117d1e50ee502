# A specification of MY_ACCOUNT_CONTROLLER

MY_ACCOUNT_CONTROLLER keeps a person's site passwords in a vault that only a
master password opens, and sorts mail: rules pick messages out of connected Gmail
accounts, and the user approves or excludes them on a review page. A NestJS
process (`apps/api`) serves a Next.js front end (`apps/web`) over one Postgres
database (`prisma/schema.prisma`).

Paths below are relative to `src/`. The state of the program changes in the API
process, in handlers that interleave at their awaits, and in the pages of a browser,
whose handlers interleave with the user and with the answers they wait for. That is
what the modules model.

## Inventory

| component | state | operations | hard behaviour |
|---|---|---|---|
| unlock key store (`apps/api/src/auth/unlock-key-store.service.ts`) | in memory: session id -> AES key, auto-lock minutes, last activity | `set`, `touch`, `get`, `updateAutoLockMinutes`, `delete` | lost at a restart; `touch` deletes, refreshes or returns nothing; stale entries |
| session layer (`main.ts`, `session.types.ts`; express-session, connect-pg-simple) | Postgres rows, cookies, one copy per request in flight | load at the start of a request, save when changed at its end, destroy | the whole copy overwrites the row; destroy is not awaited; a save may fail |
| authentication (`auth.service.ts`, `auth.controller.ts`, guards) | table `User`, the session, the key store | Google login, first master password, unlock, lock, logout, me, settings, change of the master password | slow key derivations between read and write; a transaction that re-encrypts everything; three stores that have to agree |
| trusted devices, server (`webauthn.service.ts`) | table `TrustedDevice`, challenge in the session | options, register, authenticate, remove | a device chooses the user of the session |
| trusted devices, browser (`apps/web/src/lib/webauthn*.ts`) | the master password in IndexedDB, wrapped for a credential; the passkeys of the authenticator | register with two prompts, unlock, forget | what was typed is wrapped unverified; entries outlive rows, rows outlive entries |
| login page, routing (`login/page.tsx`, `proxy.ts`, `layout.tsx`, `lib/api.ts`) | the page shown, the handler that waits | log in, set up, unlock, lock, log out | every failure must leave a page from which the user can go on |
| password accounts (`accounts.service.ts`) | table `Account` | list, read, create, update, remove, export, import | uses the key the guard captured at the start of the request |
| key derivation, encryption (`common/crypto`) | none | salt, hash, verify, derive, encrypt, decrypt | a ciphertext opens under its own key only |
| rule matcher (`mail/rules/rule-matcher.util.ts`) | none | `messageMatchesRule` | `domain ?? contains`; empty words; empty rules |
| mail rules (`rules.service.ts`) | tables `EmailRule`, `EmailRuleCondition` | create, update, remove | cascade to the candidates |
| connected accounts (`email-accounts`) | table `EmailAccount` | connect, disconnect | no uniqueness; cascade; tokens expire and are revoked |
| scans and candidates (`mail/candidates`, `mail/providers`) | table `EmailCandidate`, mailboxes at Gmail | scan, scheduled scan, approve, exclude | long jobs over tables that change; two systems to update; rescans |
| review page (`apps/web/src/app/(app)/mail/review/page.tsx`) | the list it loaded | load, scan, approve, exclude | shows an action read earlier |
| rules page (`apps/web/src/app/(app)/mail/rules/page.tsx`) | the conditions in two forms, the rule that is edited | type, choose, add, remove, save, delete | the server checks nothing; answers come for forms that have changed or gone |
| account pages, backup form (`accounts/new`, `accounts/[id]`, `PasswordField.tsx`, `settings/page.tsx`) | the account shown, the password typed or generated | load, edit, cancel, generate, save, create, delete, export, import | the user goes on while calls wait; an import meets rows that are there and stops half-way |
| password generator (`accounts.service.ts`) | none | clamp, pick, fill, shuffle | boundaries; the shuffle must lose nothing |
| notification summary, read-only pages, wiring | none | read-only | - |

What makes them correct:

* Vault. Every stored password opens with the current master password of its owner.
  No key is in use that no master password derives. A session that is unlocked has
  its own user's key. Locking, logging out and idling end access for good. A change
  of the master password changes no secret. Settings take effect at once.
* Mail. A candidate belongs to an existing rule of its own account and mailbox. A
  decision is made once and survives rescans; what was approved has been moved and
  what was moved was approved. Nothing moves that the user was told would stay. One
  broken account does not stop the others. Matching messages are found eventually.
* Pages. Whoever knows the master password gets in. A wrapped password is the current
  one. A page shows what is stored. A restore leaves nothing out. A rule keeps its
  conditions and says what they match.

The interactions: guards read the session and touch the key store before every
handler; handlers write tables, then the key store, then their copy of the session;
the session layer writes that copy when the response ends; the page that called
goes on with the answer, or without one. Scans and approvals
read tables, call Gmail, write tables again. The mail routes stand behind the same
guards; beyond that the two halves share nothing (Gmail tokens are encrypted
under a key of the server that never changes), so they are modelled apart.

## Modules

| module | stands for |
|---|---|
| `VaultConstants` | the sets and the idle bound the vault modules share, with their assumptions |
| `UnlockKeyStore` | `UnlockKeyStoreService`: variable `entries`, one operator per method |
| `Sessions` | rows, their life cycle and the cookies of express-session |
| `Vault` | the requests and handlers of authentication, accounts, settings and WebAuthn, over the two modules above and the tables |
| `SecretBook` | the abstract promise of the vault: a book of secrets, open or closed |
| `VaultProperties` | the properties, and the refinement mapping to `SecretBook` |
| `VaultProofs`, `VaultSerialProofs`, `VaultKeyProofs` | theorems of `Vault`: those that need no condition; whose a session is; whose and which its key is, and the refinement |
| `Client` | the login, settings and application pages of a browser with its passkeys and IndexedDB, composed with `Vault` |
| `ClientProofs` | theorems of `Client`, among them that it implements `Vault` |
| `MCVault` | mixes of routes and symmetry sets for TLC |
| `MailRules` | the rule matcher and the shape of messages and conditions |
| `MailReview` | connected accounts, rules, scan and approval jobs, the candidate table, review pages, Gmail |
| `MailProperties` | the properties of the mail half |
| `MailProofs` | theorems of `MailReview` |
| `MCMail` | messages, rules and mixes of operations for TLC |
| `RuleForm`, `RuleFormProofs`, `MCRules` | the rules page over the rules table and the matcher; its theorems; its symmetry for TLC |
| `AccountPages`, `AccountPagesProofs`, `MCPages` | the account pages, the generate button, export and import over the accounts table; their theorems; their symmetry |
| `PasswordGenerator`, `PasswordGeneratorProofs` | `generatePassword` step by step; its theorems |

Definitions marked "Faulty variant" in a comment are not part of any
specification: each is a plausible mistake in the definition that follows it, kept
so that one can see which property notices it.

### Vault: state and actions

A request is a record in `reqs` with a program counter. `Load` is the session
middleware: it copies the row the cookie names. `Admit` and `Refuse` are
`UnlockedGuard`, including the `touch()` that runs before the flag is read. Each
handler is cut where it awaits the database or Google, for instance

    changeMasterPassword   Admit, ChangeReadUser, ChangeSnapshot, ChangeCommit, ChangeSetKey
    setupMasterPassword    SetupCreate, SetupUnlock
    unlock                 UnlockReadUser, UnlockSetKey
    updateAutoLockMinutes  Admit, SettingsWrite, SettingsApply
    webauthn/authenticate  Authenticate, UnlockReadUser, UnlockSetKey
    logout                 Logout, Destroy (the DELETE nobody awaits)

and ends in `EndRequest`, which writes the request's copy of the session if it was
changed. `Reject` is every exception; what the handler has done so far stays, and
so does what it changed in its copy of the session. A transaction is one step;
that it rolls back is `Reject` in its place. `Restart` clears `entries` and
`reqs` and keeps tables and cookies. `Tick` lets time pass for `touch()`.

What is abstracted: a user's password, hash and salt are the key they derive, and a
wrong password is `Reject`; an AES ciphertext is a pair of key and secret; a nonce
is whether it is there; `lastActivityAt` is an age. Removing an account or a
device first looks it up by owner and then deletes it: nothing changes the owner of
a row, and a row that went in between makes the delete fail, so both are one step.
In the same way the two writes of an authentication (the counter of the device,
then the password) are two steps with the counter left out. `keyOwner` is a
history variable: which keys ever stood in a user row.

The refinement: `BookSecrets` maps an account row to its secret when its owner's
current key opens it, to `Lost` otherwise; `BookOpen` holds while some key is in
memory. `SecretBook` allows one entry to be written or struck at a time, while the
book is open, and nothing else ever to change an entry: `PromisesSecretBook`.

### Mail: state and actions

A job in `jobs` is a scan (`scanning`) or an approval. A scan takes its accounts
one by one: `ReadRules`, `Authorize`, perhaps `RefreshToken`, `ListMessages`, one
`InsertCandidate` per match; `Failed` is the `catch` around one account. An
approval is `Approve` (candidate, rule and account read at once), `Authorize`,
perhaps `RefreshToken`, `ApplyAction` at Gmail and `MarkApproved` in the table;
important candidates go straight to the mark. `tabs` is what the review pages
show, `labels` and `mail` are the mailboxes. Edits of rules
and accounts are one step each, cascades included, for the reason given above.

Texts are sets of words; a rule is its operator, its action and a set of
conditions. A candidate is identified by its rule and message, which the schema
makes unique. `JobFails` is any failing call, `Restart` the end of the process.

### Client: state and actions

`Client` takes every handler of `Vault` and adds who calls it. `flow[b]` is the
handler that runs in the page of browser `b`: what it waits for, what was typed, what
the API has answered. `ClickGoogle`, `SubmitPassword` and so on are the user;
`Enter`, `Consent`, `CreateCredential`, `SaveWrapped`, `Assert` and `GiveUp` are
what a page does between calls; `Serve`, `Succeed` and `Fail` sort the steps of
`Vault` by what they answer, `Deliver` brings the answer and `Receive` says what the
page does with it. A password verifies when it derives the key in the row that was
read, which `Vault` leaves open.

    registerThisDevice            registerOptions, CreateCredential, register, SaveWrapped
    authenticateWithStoredDevice  authenticateOptions, Assert, authenticate
    handleRemove                  removeDevice, then WrappedAfter
    proxy                         Enter, me, NextPage

Abstracted or bounded: one tab; one request at a time for each browser, so no page is
prefetched and no two calls run in parallel; the page changes after a logout when
the row has been deleted; a password that was changed long ago counts as any other
wrong one when typed (one that is wrapped is not forgotten: that is the property);
the list of devices is current when a button is clicked; nobody clears IndexedDB or
the passkeys by hand.

### RuleForm: state and actions

`forms` holds the conditions of the form for a new rule and of the one edit form,
`saves` the submits in flight with the conditions they captured. Each control is an
action; `Retyped` and `Typed` are the two patches of `updateCondition`. The server is
`CreateRule`, `UpdateRule` (a transaction) and `RefuseSave`; `PrismaAccepts` says
that a nested create may not name the parent's id, which loaded conditions do.
`Unmounted` is React: when the edit form goes, its submits have nobody to answer.
Left out: a rule's action and operator, and the text an uncontrolled input
still displays after its condition was removed or retyped.

### AccountPages: state and actions

`page` is what the browser shows (`shown` the loaded password, `typed` the field),
`calls` are the calls on their way, each with what its handler captured. A call is
served (`ServeSave`, ...) and answered (`ReceiveAnswer`) in two steps; the user types,
generates, cancels and leaves between them. Leaving a page (`Left`) or a form
(`FieldGone`) drops what its answers could still have told it; what the server did
stays. An import is one step for each entry. `past` and `vacated` are history
variables: the passwords each row has had, the slots given up while an import ran.
Bound (`AtHome`): one tab, in which the user waits for an import.

### PasswordGenerator: state and actions

A character is its class. `PickRequired` and `PickAny` fill `chars`, `Shuffle` is
one turn of the loop. The fixed order in which classes are picked is left open: the
shuffle follows. A length that is not a number is not modelled.

## Checks

Every run starts from empty tables (the generator from every request body), so all
the state is reached through the handlers. Deadlock is checked everywhere.

| run | instance | question |
|---|---|---|
| `vault_sequential` | 1 browser, 1 request at a time, 2 accounts, 2 slots, 2 secrets, 1 device, 3 keys, restart, lost saves | types; is every password readable after any sequence of calls; was every trusted device registered under the current password; the promise of `SecretBook` |
| `vault_sessions` | 2 users at 1 browser, 2 sessions, 3 keys, 2 values of the setting, restart, idle, lost saves | does a session pair a user with somebody else's or an old key; does a setting reach its session; is an idle session locked |
| `vault_browsers` | 2 users, 2 browsers, concurrent requests | the same, concurrently; one vault per Google account |
| `client_unlock` | 1 browser, 1 user, 2 devices, 2 keys, restart, idle, fairness | is a wrapped password current; does the login page always open for the right password |
| `account_pages` | 2 rows, 2 slots, 2 passwords, 2 calls in flight, 1 file | does a page show what was stored; is a restore complete |
| `generator` | 3 classes, lengths 3 to 5, requests below, at and above them | length and classes of every password |
| `rule_form` | 2 forms, 1 submit in flight, 2 types, at most 2 conditions, 1 rule at a time | does a rule keep its conditions; does the list say what matches |
| `mail_review` | 2 pages, 2 jobs, 2 accounts of 1 mailbox, 1 rule that may be edited or removed | are candidates attached, decisions kept, approvals carried out |
| `mail_schedule` | 2 accounts, 2 mailboxes, 2 messages, 2 rules, 1 job, fairness | are candidates filed under the right account; are matches found although one account is broken |

The bounds. Three keys are two changes of the master password after the setup,
enough for a stale key to be followed by a newer one. Two sessions let a browser
log out and come back. One slot per account is the least that lets the unique
constraint hit. Two requests are the least that overlap; the races found need no
third. Two jobs, two pages and one message give a scan and an approval, or two
approvals, on one candidate. `IdleCap` exceeds the largest timeout by one, so an
expired entry and one exactly at its limit both occur. In `client_unlock` the second
device is the one registered after the first was removed or revoked, the second
key one change; one session id is
enough because a login keeps the session and a logout gives it back. In `account_pages` two calls are a save
and a generation, or a save and another page's leftover. The generator's classes and
limits are scaled down so that the shortest length equals the number of classes, as
near as the code's eight is to its four, and so that every shuffle is tried. Symmetry
is used for sets the specification only compares; the runs that check liveness use
none.

`AllReadable`, `PasskeysHoldCurrentPassword`, `WrappedPasswordIsCurrent` and
`SettingReachesSession` are checked where they hold: without overlapping requests, or
(`vault_browsers`) without a change of the master password. `UnlockedSessionOwnsKey`
is checked without passkeys.

### Where code and documents part

Three runs expect a violation. Each checks a sentence of the repository's documents
or comments against the code; PROJECT.json quotes it.

| run | what happens |
|---|---|
| `vault_otherSession` | A second unlocked session keeps the old key after a change and encrypts a new password with it. |
| `mail_decision` | An approval that waits for Gmail overwrites an exclusion. |
| `rules_edit` | An edit that keeps a loaded condition is refused: the page sends its `ruleId` back. |

The models know four more disagreements, which no run repeats:

* An update of an account that lands between the list and the transaction of a
  change of the master password is overwritten with the older password
  (`auth.service.ts:179`): `ChangeSnapshot`, `UpdateAccount`, `ChangeCommit` with two
  requests of one browser.
* A request loaded before a logout, which unlocks or finds the session locked, saves
  its session afterwards; the row is back with its user (`auth.controller.ts:95`):
  `Load`, `Logout` and `Destroy` of the other, `EndRequest`.
* A passkey with a rejected password, in an unlocked session of somebody else, leaves
  the session with the device's user and the previous user's key
  (`auth.controller.ts:182`): `Authenticate`, then `Reject`.
* A message an important rule matches is moved through another rule's candidate
  (`candidates.service.ts:78`, against `docs/기획서.md:92`): `InsertCandidate` twice,
  then `Approve` and `ApplyAction` on the second.

And some that need no model to see: an unlock in flight stores the
auto-lock time it read before a setting was applied (`auth.service.ts:109` against
the comment at 139); a new Google account in a session that has a user is sent to a
setup that answers 409 (`auth.service.ts:61`); when the update after a move in Gmail
fails the candidate stays pending (`candidates.service.ts:116-119`); approve reads
the action of the rule anew, the page may have promised another one
(`candidates.service.ts:113`); removing a rule removes the record of its approvals
(`schema.prisma:152` against the comment at 139); an emptied memo is sent as no memo
and stays (`accounts/[id]/page.tsx:50`); a cancelled edit keeps the password typed in
it for the next one (`accounts/[id]/page.tsx:103`); a device removed while the browser
is closed, or removed from another browser, leaves its entry in IndexedDB and with it
a button that fails (`webauthn.ts:28-32`); a change of the master password in one
browser while another registers a device leaves that device with the old password.

### Fairness

`mail_schedule`. Weak fairness of every job's steps: database and
Gmail answer in the end, if only with an error, and Node resumes the handler.
Strong fairness of the scheduled scan: `@Cron` fires every three hours whatever
else is in flight; the model has one job slot, so the scan is not enabled
continuously, but whenever the slot is free. Nothing is assumed of users, tokens or
arriving mail. In this run no call fails at random (a scan whose every call fails
finds nothing), tokens expire and are revoked, and rules stay as they were written.

`client_unlock`. Weak fairness of `PageStep` and `ApiStep`: prompts, pages and the API
go on, if only with an error. Strong fairness of `TypeRight`: a user who knows the
password keeps typing it, and does not forever prefer another button. Strong fairness
of `ReadRight`: the query for the user's row does not fail every single time. Nothing
else the user does is fair. `TypingOpens` speaks of behaviours in which from some
moment on the user is quicker than the auto-lock and no restart takes a key or a
request with it; whatever happened before that moment, which failed passkeys,
lost answers, restarts and expired keys, the page must open.

## Proofs

Every safety property that a passing run checks is also a theorem, for all values
of the constants that satisfy `NoneAssumption`, `IdleAssumption`, `VaultAssumption`
and their likes, and under the hypotheses that the tables name. Candidates for an
inductive invariant were checked with TLC first.

### Vault without conditions: `VaultProofs`

* `TypeCorrect`: `Spec => []TypeOK`. The types alone are not inductive, because a
  step uses fields that an earlier step of the same handler filled in. The
  invariant `TypeInv` adds `RequestOK`: which fields of a request hold a value at
  which program counter (past the guard there are a user and a key, after a read
  there are the row's key and minutes, and so on).
* `KeysAreCommitted`: `Spec => []KeysCommitted`. `KeysInv` adds to `TypeInv` where
  keys come from: every entry of the key store, the key in every user row, the
  key of every account and every key a request carries for later use has been in a
  user row. It is inductive because a key enters the key store only from a row that
  was read or after the transaction that wrote it. `keyOwner` only grows
  (`CommittedStays`), so a step can break a part of `KeysInv` only by introducing a
  key, and the lemmas `EntryWriters` and `TableWriters` sort the actions by what
  they write.
* `IdentitiesAreUnique`: `Spec => []OneVaultPerIdentity`, from `TypeInv` and the unique
  constraint that `SetupCreate` meets, with any number of setups in flight.

### Vault under conditions: `VaultSerialProofs`, `VaultKeyProofs`

The other properties of the vault are false of arbitrary interleavings, as the run
`vault_otherSession` and the list above show. The hypotheses say what they need, and
nothing bounds the number of browsers, sessions, keys, accounts, slots or devices:

| hypothesis | says | needed because |
|---|---|---|
| `SerialSessions` | a browser has one request in flight (`PerBrowser = 1`), and where passkeys unlock there is one user | two requests of a session overwrite each other's copies; a passkey whose password is rejected leaves an unlocked session to the device's user (`auth.controller.ts:182`) |
| `StableKeys` | there is one browser, or the master password never changes | a second session keeps the old key (`vault_otherSession`) |
| `StableSettings` | there is one browser, or the setting never changes | a setting reaches the current session only (`auth.service.ts:139`) |

They hold in the instances of the runs: one browser and one user in
`vault_sequential`, one browser without passkeys in `vault_sessions`, no change and
no passkeys in `vault_browsers`. The first half of `SerialSessions` is what the
pages do: `PagesAwaitTheirAnswers` proves it of `Client`.

| theorem | property | hypotheses |
|---|---|---|
| `SessionsArePrivate` | `OneCall /\ OwnCookies /\ StoredEntries` | `PerBrowser = 1` |
| `UnlockedSessionsOwnTheirKey` | `UnlockedSessionOwnsKey` | `SerialSessions` |
| `RequestsUseTheirUsersKey` | `RequestsOwnKey /\ RowsOwnKey` | `SerialSessions` |
| `PasswordsStayReadable` | `AllReadable` | `SerialSessions`, `StableKeys` |
| `PasskeysStayCurrent` | `PasskeysHoldCurrentPassword` | `SerialSessions`, `StableKeys` |
| `AdmittedKeysOpenTheVault` | `AdmittedKeyOpensVault` | `SerialSessions`, `StableKeys` |
| `RotationKeepsPasswords` | `RotationPreservesPlaintext` | `SerialSessions`, `StableKeys` |
| `VaultKeepsTheBook` | `PromisesSecretBook` | `SerialSessions`, `StableKeys` |
| `SettingsReachTheSession` | `SettingReachesSession` | `SerialSessions`, `StableSettings` |
| `IdleSessionsLock` | `IdleSessionsAreLocked` | `SerialSessions`, `StableSettings` |

The invariant is built in layers, each inductive with those below it.

1. `KnownInv` (no hypothesis): whatever refers to a user, from a session, a row, a
   request, an account or a device, refers to one that exists.
2. `PrivateInv`: a session id is one browser's and one request's. `OwnSid` says what a
   request knows of its session: who else may name it, and whether the store has it.
3. `LoginInv`: a request past the guard acts for the user of its session, and its row,
   if unlocked, names the same user.
4. `OwnerInv`: the keys of a session, of its request and of the row the request has read
   belong to that user. It is stable because a key never changes hands
   (`OwnerStays`), and new ones differ (`NewKeysDiffer`). This is as far as one gets
   while the master password changes elsewhere.
5. `KeyInv`: those keys are the user's current one, except in the request that has
   committed a change and not yet told the key store (`Rotating`). With `StableKeys`
   that request is the only one, and its session the only one with a key
   (`ChangeIsAlone`).
6. `VaultInv`: the list of a change is still the table when it commits
   (`SnapshotsCurrent`), hence every account is re-encrypted; accounts and devices are
   under the current key.

`MinutesInv` does for the auto-lock time what `KeyInv` does for the key.
`OthersKeepOff` is the lemma on interference: a step of one request leaves the session
and the entry of the others alone. The `...Fields` lemmas say once what each action
does to its request, `StepCases` sorts the actions by it, and each preservation
proof has a step for each kind.

`VaultKeepsTheBook` is the refinement. From `VaultInv` an account row opens, so
`BookSecrets` is the column of secrets (`BookIsTable`). `SecretWrites` sorts the steps
by what they do to it: an insert and an update write one entry and a removal strikes
one, each by a request that holds a key, so the book is open and stays so; a change
of the master password writes back every secret as it was; nothing else writes.
What is left opens or closes the book, or stutters.

### Browser side: `ClientProofs`

* `PagesAwaitTheirAnswers`: a browser has one request in flight whatever `PerBrowser`
  allows, and the page that waits is the one that sent it (`PagesWait`,
  `CallsAwaited`).
* `BrowsersDriveTheVault`: `ClientSpec => Spec`. Each step of a page, and each answer,
  is one of `Vault`'s actions or leaves its variables alone. The substance is that a
  handler is called with the credential its page names (`DevicesNamed`), so that the
  theorems about `Vault` hold of the composition.
* `WrappedPasswordsStayCurrent` (`WrappedPasswordIsCurrent`), for one user and
  `StableKeys`. `ClientInv` follows a password from the keyboard to IndexedDB: what was
  typed for a registration is still right when it is wrapped (`TypedCurrent`), and a
  credential about to be registered has no password from before (`NewIsUnwrapped`).
  A commit of a change finds no registration under way and leaves no device
  (`CommitEndsTrust`). One user, because somebody may type another user's password.

### Mail and the other pages

`MailProofs`, from `MailReview`'s assumptions: `MailTypesCorrect`,
`CandidatesHaveOwners` (`CandidatesBelong`), `DecisionsAreKept`
(`DecisionsSurviveRescan`) and `ApprovalsMoveMail` (`ApprovedMeansMoved`).
A candidate is inserted with what its scan
read several awaits before, so the invariant `MailInv` must say what a job knows.
Ids are never used again, hence what a scan has read of an account, its mailbox
and its rules is still so, or the row is gone and the foreign keys refuse the
insert (`JobOK`). `Continues` collects what tables never do (a row does not change
its mailbox, a rule not its account), and every action either continues them or is
one of the few that insert. For the two action properties, `CandidateWrites` lists who
writes a candidate; a scan writes only where there is none, and `MarksMoved` says
that a job about to mark its candidate has moved the message and that labels stay.

`RuleFormProofs`: `RulesAreComplete` (`RulesHaveConditions`) and `SummariesTell`
(`SummaryTellsWhatMatches`). The server stores what it is sent, so both invariants
are about the forms and the submits on their way: `FormsCounted` and `SavesCounted`
for the number of conditions, `Told` for those whose summary names the word they
are matched by. `RemovalCounts` is what removing one of a sequence does.

`AccountPagesProofs`: `ShownHasBeenStored` (`ShownWasStored`) and `RestoresAreComplete`
(`RestoreIsComplete`). What a page shows comes from a call, so the invariant says of
every call that can still change the page that it is about the page's row and
carries passwords that row has had (`Fits`); a call of a page that was left no longer
can. For the import, `NothingLeftOut`: each entry is still to come, has its slot in
use, or its slot has been given up since; every write of the table keeps the
slots in use among those in use or given up (`TableWritten`).

`PasswordGeneratorProofs`: `LengthCorrect` and `ClassesCorrect`, for any set of classes
no larger than the shortest length. The shuffle is a swap, which keeps the length and
the set of characters; the fill keeps the classes already there.

### Model-checked only

`TypingOpens` and `ScheduledScanFindsMatches`: liveness under fairness is out of the
prover's reach, as are `ENABLED` and induction over data. The three runs that expect
a violation are counterexamples and need no proof. No module declares a RECURSIVE
operator.

## Not modelled

The WebAuthn signature counter, the expiry of cookies after 14 days, the OAuth
nonce of connecting a mailbox, and everything read-only (lists, `importantSummary`,
`notifications/summary`) or presentational. `NotificationChannel` and `ActivityLog`
are tables nothing writes; the status `PROCESSED` is never set. `EmailAccount.isActive`
is never cleared, so every account counts as active.

Seen while reading and not the subject of a run: `notifications.service.ts` counts
PENDING candidates of every account, where its comment speaks of important mail;
`gmail.provider.ts` reads attachments from `payload.parts`, which a message fetched
with format `metadata` may not have.

## Plan

Done: the vault with its properties and refinement; the mail half; the browser side
of unlocking; the rules page, the account pages with export and import, the
generator; every safety property of the passing runs as a theorem, and two
refinements proved (`Vault` implements `SecretBook`, `Client` implements `Vault`).

1. An abstract candidate life cycle (found, decided, carried out) that `MailReview`
   implements for one page at a time, as a refinement, with its proof.
2. What holds of the vault when the master password changes in several browsers: which
   sessions may still hold an old key, and for how long.
3. Two browsers in `Client`, for registrations and changes that overlap.
