------------------------------ MODULE MailReview ------------------------------
(***************************************************************************)
(* Mail candidates: Gmail accounts are connected and get rules, scans (on  *)
(* request or every three hours) put the messages the rules match into a   *)
(* waiting list, and the review pages in the browser approve or exclude    *)
(* them one by one.  Scans and approvals are jobs of the API process that  *)
(* interleave at their awaits, with each other, with edits of the tables   *)
(* and with what happens in the mailboxes.                                 *)
(*                                                                         *)
(* Removing or editing a row looks it up by owner first and then writes;   *)
(* a row that goes in between makes the write fail, so each is one step.   *)
(* The routes stand behind UnlockedGuard or LoggedInGuard (see Vault).     *)
(***************************************************************************)
EXTENDS MailRules, Naturals, FiniteSets

CONSTANTS
    User,
    Mailbox,       \* Gmail mailboxes
    Message,       \* Gmail messages
    EmailAccount,  \* ids of rows, never used twice
    Rule,          \* ids of rows, never used twice
    Job,           \* scans and approvals in flight
    Tab,           \* review pages
    TabUser,       \* tab -> the user logged in there
    Inbox,         \* message -> its mailbox
    Mail,          \* message -> what conditions look at
    RuleBody,      \* the rules users write
    MaxResults,    \* page size of a message list
    Ops,           \* the operations users perform
    Events         \* what happens besides

ActionTypes == {"delete_candidate", "spam_candidate", "important"}

OpNames == {"connect", "disconnect", "createRule", "updateRule", "removeRule",
            "scan", "approve", "exclude"}
EventNames == {"cron", "expiry", "revocation", "fault", "restart", "ageing"}

ASSUME MailAssumption ==
    /\ TabUser \in [Tab -> User]
    /\ Inbox \in [Message -> Mailbox]
    /\ Mail \in [Message -> RawMailMessage]
    /\ RuleBody \subseteq [logicalOperator: {"AND", "OR"}, actionType: ActionTypes,
                           conditions: SUBSET Condition]
    /\ MaxResults \in Nat
    /\ Ops \subseteq OpNames
    /\ Events \subseteq EventNames
    /\ None \notin User \cup Mailbox \cup EmailAccount \cup ActionTypes \cup Tab

VARIABLES
    emailAccounts,  \* id -> row of the EmailAccount table
    rules,          \* id -> row of the EmailRule table with its conditions
    used,           \* ids that have been handed out
    candidates,     \* <<rule, message>> -> row of the EmailCandidate table
    mail,           \* message -> not yet there, in the last seven days, older
    labels,         \* message -> its labels TRASH and SPAM
    jobs,
    tabs            \* tab -> the candidates it shows

tables == <<emailAccounts, rules, used, candidates>>
gmail == <<mail, labels>>
mailVars == <<tables, gmail, jobs, tabs>>

EmailAccountRow ==
    [user: User, mailbox: Mailbox, token: {"live", "expired", "revoked"}]
NoEmailAccount == [user |-> None, mailbox |-> None, token |-> "revoked"]

RuleRow == [account: EmailAccount, isActive: BOOLEAN, body: RuleBody]
NoRule == [account |-> None, isActive |-> FALSE, body |-> None]

(* (ruleId, externalMessageId) is unique. *)
CandidateId == Rule \X Message
CandidateRow == [account: EmailAccount, status: {"PENDING", "APPROVED", "EXCLUDED"}]
NoCandidate == [account |-> None, status |-> "none"]

JobState ==
    [pc       : {"idle", "next", "auth", "refresh", "list", "insert", "apply", "mark"},
     scanning : BOOLEAN,
     todo     : SUBSET EmailAccount,         \* accounts still to be scanned
     account  : EmailAccount \cup {None},
     mailbox  : Mailbox \cup {None},         \* what the token opens
     rules    : [Rule -> RuleRow \cup {NoRule}],
     work     : SUBSET CandidateId,          \* matches still to be inserted
     tab      : Tab \cup {None},
     candidate: CandidateId \cup {<<>>},
     action   : ActionTypes \cup {None}]

NoRules == [r \in Rule |-> NoRule]

IdleJob ==
    [pc |-> "idle", scanning |-> FALSE, todo |-> {}, account |-> None, mailbox |-> None,
     rules |-> NoRules, work |-> {}, tab |-> None, candidate |-> <<>>, action |-> None]

MailTypeOK ==
    /\ emailAccounts \in [EmailAccount -> EmailAccountRow \cup {NoEmailAccount}]
    /\ rules \in [Rule -> RuleRow \cup {NoRule}]
    /\ used \subseteq EmailAccount \cup Rule
    /\ candidates \in [CandidateId -> CandidateRow \cup {NoCandidate}]
    /\ mail \in [Message -> {"coming", "recent", "old"}]
    /\ labels \in [Message -> SUBSET {"TRASH", "SPAM"}]
    /\ jobs \in [Job -> JobState]
    /\ tabs \in [Tab -> SUBSET CandidateId]

MailInit ==
    /\ emailAccounts = [a \in EmailAccount |-> NoEmailAccount]
    /\ rules = [r \in Rule |-> NoRule]
    /\ used = {}
    /\ candidates = [c \in CandidateId |-> NoCandidate]
    /\ mail = [m \in Message |-> "coming"]
    /\ labels = [m \in Message |-> {}]
    /\ jobs = [j \in Job |-> IdleJob]
    /\ tabs = [t \in Tab |-> {}]

-----------------------------------------------------------------------------
(* Connected accounts and rules *)

RulesOf(accounts) == {r \in Rule : rules[r].account \in accounts}

(* onDelete: Cascade, from an account to its rules and candidates, from a  *)
(* rule to its candidates.                                                 *)
DropRules(gone) ==
    /\ rules' = [r \in Rule |-> IF r \in gone THEN NoRule ELSE rules[r]]
    /\ candidates' = [c \in CandidateId |-> IF c[1] \in gone THEN NoCandidate ELSE candidates[c]]

(* Nothing keeps a mailbox from being connected twice. *)
Connect(t, a, box) ==
    /\ "connect" \in Ops
    /\ a \notin used
    /\ used' = used \cup {a}
    /\ emailAccounts' = [emailAccounts EXCEPT ![a] =
           [user |-> TabUser[t], mailbox |-> box, token |-> "live"]]
    /\ UNCHANGED <<rules, candidates, gmail, jobs, tabs>>

Disconnect(t, a) ==
    /\ "disconnect" \in Ops
    /\ emailAccounts[a].user = TabUser[t]
    /\ emailAccounts' = [emailAccounts EXCEPT ![a] = NoEmailAccount]
    /\ DropRules(RulesOf({a}))
    /\ UNCHANGED <<used, gmail, jobs, tabs>>

CreateRule(t, r, a, body) ==
    /\ "createRule" \in Ops
    /\ r \notin used
    /\ emailAccounts[a].user = TabUser[t]
    /\ used' = used \cup {r}
    /\ rules' = [rules EXCEPT ![r] = [account |-> a, isActive |-> TRUE, body |-> body]]
    /\ UNCHANGED <<emailAccounts, candidates, gmail, jobs, tabs>>

OwnsRule(t, r) ==
    rules[r] # NoRule /\ emailAccounts[rules[r].account].user = TabUser[t]

(* The conditions are replaced as a whole, in one transaction. *)
UpdateRule(t, r, body, active) ==
    /\ "updateRule" \in Ops
    /\ OwnsRule(t, r)
    /\ rules' = [rules EXCEPT ![r].isActive = active, ![r].body = body]
    /\ UNCHANGED <<emailAccounts, used, candidates, gmail, jobs, tabs>>

RemoveRule(t, r) ==
    /\ "removeRule" \in Ops
    /\ OwnsRule(t, r)
    /\ DropRules({r})
    /\ UNCHANGED <<emailAccounts, used, gmail, jobs, tabs>>

-----------------------------------------------------------------------------
(* Scans: one account after the other, in any order *)

(* On to the next account; one that failed is only counted. *)
AfterAccount(job) ==
    [IdleJob EXCEPT !.pc = "next", !.scanning = TRUE, !.todo = job.todo \ {job.account}]

StartScan(j, accounts) ==
    /\ jobs[j].pc = "idle"
    /\ jobs' = [jobs EXCEPT ![j] =
           [IdleJob EXCEPT !.pc = "next", !.scanning = TRUE, !.todo = accounts]]
    /\ UNCHANGED <<tables, gmail, tabs>>

Scan(j, t) ==
    /\ "scan" \in Ops
    /\ StartScan(j, {a \in EmailAccount : emailAccounts[a].user = TabUser[t]})

ScanAll(j) ==
    /\ "cron" \in Events
    /\ StartScan(j, {a \in EmailAccount : emailAccounts[a] # NoEmailAccount})

(* Faulty variant: the rules of every account. *)
EveryActiveRule(a) == [r \in Rule |-> IF rules[r].isActive THEN rules[r] ELSE NoRule]

ActiveRulesOf(a) ==
    [r \in Rule |-> IF rules[r].account = a /\ rules[r].isActive THEN rules[r] ELSE NoRule]

ReadRules(j, a) ==
    /\ jobs[j].pc = "next"
    /\ a \in jobs[j].todo
    /\ LET read == ActiveRulesOf(a)
           job == [jobs[j] EXCEPT !.account = a] IN
        jobs' = [jobs EXCEPT ![j] =
            IF read = NoRules THEN AfterAccount(job)
                              ELSE [job EXCEPT !.pc = "auth", !.rules = read]]
    /\ UNCHANGED <<tables, gmail, tabs>>

EndScan(j) ==
    /\ jobs[j].pc = "next"
    /\ jobs[j].todo = {}
    /\ jobs' = [jobs EXCEPT ![j] = IdleJob]
    /\ UNCHANGED <<tables, gmail, tabs>>

(* Faulty variant: an account that fails ends the scan. *)
FailedScanEnds(job) == IdleJob

(* An exception ends the work on one account, or an approval. *)
Failed(job) == IF job.scanning THEN AfterAccount(job) ELSE IdleJob

(* The client is ready: list the messages, or move one. *)
Authorized(job) == [job EXCEPT !.pc = IF job.scanning THEN "list" ELSE "apply"]

(* The row of the account gives the tokens: no row fails like a token that *)
(* Google turns down.                                                      *)
Authorize(j) ==
    /\ jobs[j].pc = "auth"
    /\ LET account == emailAccounts[jobs[j].account]
           job == [jobs[j] EXCEPT !.mailbox = account.mailbox] IN
        jobs' = [jobs EXCEPT ![j] =
            CASE account.token = "live"    -> Authorized(job)
              [] account.token = "expired" -> [job EXCEPT !.pc = "refresh"]
              [] account.token = "revoked" -> Failed(job)]
    /\ UNCHANGED <<tables, gmail, tabs>>

(* Google has issued a new access token; updating a row that is gone fails. *)
RefreshToken(j) ==
    /\ jobs[j].pc = "refresh"
    /\ LET a == jobs[j].account IN
        \/ /\ emailAccounts[a] # NoEmailAccount
           /\ emailAccounts' = [emailAccounts EXCEPT ![a].token =
                  IF @ = "expired" THEN "live" ELSE @]
           /\ jobs' = [jobs EXCEPT ![j] = Authorized(jobs[j])]
        \/ /\ emailAccounts[a] = NoEmailAccount
           /\ jobs' = [jobs EXCEPT ![j] = Failed(jobs[j])]
           /\ UNCHANGED emailAccounts
    /\ UNCHANGED <<rules, used, candidates, gmail, tabs>>

(* newer_than:7d; Gmail leaves trash and spam out of a list. *)
Listable(box) == {m \in Message : Inbox[m] = box /\ mail[m] = "recent" /\ labels[m] = {}}

Matches(read, listed) ==
    {c \in CandidateId : c[2] \in listed /\ read[c[1]] # NoRule
                         /\ MessageMatchesRule(Mail[c[2]], read[c[1]].body)}

(* What is left of the account after a list or an insert. *)
WithWork(job, work) ==
    IF work = {} THEN AfterAccount(job) ELSE [job EXCEPT !.pc = "insert", !.work = work]

ListMessages(j) ==
    /\ jobs[j].pc = "list"
    /\ \E listed \in SUBSET Listable(jobs[j].mailbox) :
        /\ Cardinality(listed) <= MaxResults
        /\ listed = Listable(jobs[j].mailbox) \/ Cardinality(listed) = MaxResults
        /\ jobs' = [jobs EXCEPT ![j] = WithWork(jobs[j], Matches(jobs[j].rules, listed))]
    /\ UNCHANGED <<tables, gmail, tabs>>

(* Faulty variants: no unique constraint; no foreign keys. *)
NeverThere(c) == FALSE
NoForeignKeys(c, a) == TRUE

AlreadyThere(c) == candidates[c] # NoCandidate

ReferencesExist(c, a) == rules[c[1]] # NoRule /\ emailAccounts[a] # NoEmailAccount

(* P2002 is skipped, any other error ends the account. *)
InsertCandidate(j, c) ==
    /\ jobs[j].pc = "insert"
    /\ c \in jobs[j].work
    /\ LET a == jobs[j].account
           next == WithWork(jobs[j], jobs[j].work \ {c}) IN
        \/ /\ AlreadyThere(c)
           /\ jobs' = [jobs EXCEPT ![j] = next]
           /\ UNCHANGED candidates
        \/ /\ ~AlreadyThere(c)
           /\ ReferencesExist(c, a)
           /\ candidates' = [candidates EXCEPT ![c] = [account |-> a, status |-> "PENDING"]]
           /\ jobs' = [jobs EXCEPT ![j] = next]
        \/ /\ ~AlreadyThere(c)
           /\ ~ReferencesExist(c, a)
           /\ jobs' = [jobs EXCEPT ![j] = Failed(jobs[j])]
           /\ UNCHANGED candidates
    /\ UNCHANGED <<emailAccounts, rules, used, gmail, tabs>>

-----------------------------------------------------------------------------
(* The review page *)

Owned(t, c) ==
    candidates[c] # NoCandidate /\ emailAccounts[candidates[c].account].user = TabUser[t]

LoadCandidates(t) ==
    /\ tabs' = [tabs EXCEPT ![t] =
           {c \in CandidateId : Owned(t, c) /\ candidates[c].status = "PENDING"}]
    /\ UNCHANGED <<tables, gmail, jobs>>

(* The page drops what it has approved or excluded. *)
Dropped(t, c) == [tabs EXCEPT ![t] = @ \ {c}]

(* Faulty variant: approving only marks the row. *)
ApproveUnprocessed(j, t, c) ==
    /\ jobs[j].pc = "idle"
    /\ c \in tabs[t]
    /\ Owned(t, c)
    /\ jobs' = [jobs EXCEPT ![j] =
           [IdleJob EXCEPT !.pc = "mark", !.account = candidates[c].account, !.tab = t,
                           !.candidate = c, !.action = rules[c[1]].body.actionType]]
    /\ UNCHANGED <<tables, gmail, tabs>>

(* The candidate, its rule and its account are read at once.  The status   *)
(* of the candidate is not looked at, the button stays enabled.            *)
Approve(j, t, c) ==
    /\ "approve" \in Ops
    /\ jobs[j].pc = "idle"
    /\ c \in tabs[t]
    /\ Owned(t, c)
    /\ LET action == rules[c[1]].body.actionType IN
        jobs' = [jobs EXCEPT ![j] =
            [IdleJob EXCEPT !.pc = IF action = "important" THEN "mark" ELSE "auth",
                            !.account = candidates[c].account, !.tab = t,
                            !.candidate = c, !.action = action]]
    /\ UNCHANGED <<tables, gmail, tabs>>

(* Faulty variant: the label is the name of the action. *)
ActionAsLabel(action) == action

LabelOf(action) == IF action = "delete_candidate" THEN "TRASH" ELSE "SPAM"

ApplyAction(j) ==
    /\ jobs[j].pc = "apply"
    /\ labels' = [labels EXCEPT ![jobs[j].candidate[2]] = @ \cup {LabelOf(jobs[j].action)}]
    /\ jobs' = [jobs EXCEPT ![j].pc = "mark"]
    /\ UNCHANGED <<tables, mail, tabs>>

(* Updating a row that is gone fails, and the page keeps its line. *)
MarkApproved(j) ==
    /\ jobs[j].pc = "mark"
    /\ LET c == jobs[j].candidate IN
        \/ /\ candidates[c] # NoCandidate
           /\ candidates' = [candidates EXCEPT ![c].status = "APPROVED"]
           /\ tabs' = Dropped(jobs[j].tab, c)
        \/ /\ candidates[c] = NoCandidate
           /\ UNCHANGED <<candidates, tabs>>
    /\ jobs' = [jobs EXCEPT ![j] = IdleJob]
    /\ UNCHANGED <<emailAccounts, rules, used, gmail>>

Exclude(t, c) ==
    /\ "exclude" \in Ops
    /\ c \in tabs[t]
    /\ Owned(t, c)
    /\ candidates' = [candidates EXCEPT ![c].status = "EXCLUDED"]
    /\ tabs' = Dropped(t, c)
    /\ UNCHANGED <<emailAccounts, rules, used, gmail, jobs>>

-----------------------------------------------------------------------------
(* Gmail, time and failures *)

MailArrives(m) ==
    /\ mail[m] = "coming"
    /\ mail' = [mail EXCEPT ![m] = "recent"]
    /\ UNCHANGED <<tables, labels, jobs, tabs>>

MailAges(m) ==
    /\ "ageing" \in Events
    /\ mail[m] = "recent"
    /\ mail' = [mail EXCEPT ![m] = "old"]
    /\ UNCHANGED <<tables, labels, jobs, tabs>>

(* An access token runs out, or the user takes the app's access back. *)
TokenEnds(a) ==
    /\ \E token \in {"expired", "revoked"} :
        /\ emailAccounts[a].token = "live" \/ token = "revoked"
        /\ (IF token = "expired" THEN "expiry" ELSE "revocation") \in Events
        /\ emailAccounts' = [emailAccounts EXCEPT ![a].token = token]
    /\ emailAccounts[a] # NoEmailAccount
    /\ UNCHANGED <<rules, used, candidates, gmail, jobs, tabs>>

(* A query or a call to Gmail fails. *)
JobFails(j) ==
    /\ "fault" \in Events
    /\ \/ /\ jobs[j].pc \notin {"idle", "next"}
          /\ jobs' = [jobs EXCEPT ![j] = Failed(jobs[j])]
       \/ /\ jobs[j].pc = "next"
          /\ \E a \in jobs[j].todo :
                jobs' = [jobs EXCEPT ![j] = Failed([jobs[j] EXCEPT !.account = a])]
    /\ UNCHANGED <<tables, gmail, tabs>>

(* The process restarts: its jobs are gone. *)
Restart ==
    /\ "restart" \in Events
    /\ jobs' = [j \in Job |-> IdleJob]
    /\ UNCHANGED <<tables, gmail, tabs>>

-----------------------------------------------------------------------------

EditStep(t) ==
    \/ \E a \in EmailAccount : (\E box \in Mailbox : Connect(t, a, box)) \/ Disconnect(t, a)
    \/ \E r \in Rule, body \in RuleBody :
        \/ \E a \in EmailAccount : CreateRule(t, r, a, body)
        \/ \E active \in BOOLEAN : UpdateRule(t, r, body, active)
    \/ \E r \in Rule : RemoveRule(t, r)

PageStep(t) ==
    \/ LoadCandidates(t)
    \/ \E c \in CandidateId : Exclude(t, c) \/ \E j \in Job : Approve(j, t, c)
    \/ \E j \in Job : Scan(j, t)

(* What a job does by itself, once it is running. *)
JobStep(j) ==
    \/ \E a \in EmailAccount : ReadRules(j, a)
    \/ EndScan(j)
    \/ Authorize(j)
    \/ RefreshToken(j)
    \/ ListMessages(j)
    \/ \E c \in CandidateId : InsertCandidate(j, c)
    \/ ApplyAction(j)
    \/ MarkApproved(j)

WorldStep ==
    \/ \E m \in Message : MailArrives(m) \/ MailAges(m)
    \/ \E a \in EmailAccount : TokenEnds(a)
    \/ \E j \in Job : JobFails(j)
    \/ Restart

MailNext ==
    \/ \E t \in Tab : EditStep(t) \/ PageStep(t)
    \/ \E j \in Job : ScanAll(j) \/ JobStep(j)
    \/ WorldStep

MailSpec == MailInit /\ [][MailNext]_mailVars

(* Every job gets on: database and Gmail answer in the end, if only with   *)
(* an error.  The schedule starts a scan every three hours, whatever else  *)
(* is in flight; that the model has to wait for one of its few jobs to end *)
(* makes this strong fairness.                                             *)
MailFairness ==
    /\ \A j \in Job : WF_mailVars(JobStep(j))
    /\ SF_mailVars(\E j \in Job : ScanAll(j))

FairMailSpec == MailSpec /\ MailFairness

=============================================================================
