------------------------------ MODULE MailProofs ------------------------------
(***************************************************************************)
(* Proofs about MailReview: its types, that every candidate belongs to an  *)
(* existing rule of its account and to a message of its mailbox, that a    *)
(* decision outlives the scans, and that what was approved was moved.      *)
(***************************************************************************)
EXTENDS MailProperties, TLAPS

(* A scan works for minutes with rules, a mailbox and messages it has read *)
(* earlier.  As no id is used twice, what has become of the rows since is  *)
(* either the same account and mailbox or nothing.                         *)
JobOK(job) ==
    /\ job.pc \notin {"idle", "next"} => job.account \in EmailAccount \cap used
    /\ job.pc \in {"list", "insert"} => job.scanning
    /\ job.pc \in {"apply", "mark"} => ~job.scanning
    /\ job.pc # "idle" /\ ~job.scanning =>
        job.candidate \in CandidateId /\ job.tab \in Tab /\ job.action \in ActionTypes
    /\ job.pc \in {"refresh", "list", "insert"} /\ emailAccounts[job.account] # NoEmailAccount =>
            job.mailbox = emailAccounts[job.account].mailbox
    /\ \A r \in Rule : job.rules[r] # NoRule =>
        r \in used /\ (rules[r] # NoRule => rules[r].account = job.account)
    /\ job.pc # "insert" => job.work = {}
    /\ \A c \in job.work : job.rules[c[1]] # NoRule /\ Inbox[c[2]] = job.mailbox

JobsOK == jobs \in [Job -> JobState] /\ \A j \in Job : JobOK(jobs[j])

AccountsOK ==
    /\ emailAccounts \in [EmailAccount -> EmailAccountRow \cup {NoEmailAccount}]
    /\ used \subseteq EmailAccount \cup Rule
    /\ \A a \in EmailAccount : emailAccounts[a] # NoEmailAccount => a \in used

RulesOK ==
    /\ rules \in [Rule -> RuleRow \cup {NoRule}]
    /\ \A r \in Rule : rules[r] # NoRule =>
        r \in used /\ emailAccounts[rules[r].account] # NoEmailAccount

CandidatesOK ==
    /\ candidates \in [CandidateId -> CandidateRow \cup {NoCandidate}]
    /\ CandidatesBelong

WorldOK ==
    /\ mail \in [Message -> {"coming", "recent", "old"}]
    /\ labels \in [Message -> SUBSET {"TRASH", "SPAM"}]
    /\ tabs \in [Tab -> SUBSET CandidateId]

TablesOK == AccountsOK /\ RulesOK /\ CandidatesOK

MailInv == TablesOK /\ WorldOK /\ JobsOK

-----------------------------------------------------------------------------
(* Rows and jobs *)

LEMMA RowFacts ==
    /\ NoEmailAccount \notin EmailAccountRow
    /\ NoRule \notin RuleRow
    /\ NoCandidate \notin CandidateRow
    /\ \A r \in Rule, m \in Message : Inbox[m] \in Mailbox
    /\ None \notin Mailbox /\ None \notin EmailAccount /\ None \notin User
BY MailAssumption
DEF NoEmailAccount, EmailAccountRow, NoRule, RuleRow, NoCandidate, CandidateRow

LEMMA IdleJobOK == IdleJob \in JobState /\ JobOK(IdleJob)
<1>1. NoRules \in [Rule -> RuleRow \cup {NoRule}] /\ \A r \in Rule : NoRules[r] = NoRule
    BY DEF NoRules
<1>2. IdleJob \in JobState
    BY <1>1 DEF IdleJob, JobState
<1>3. JobOK(IdleJob)
    BY <1>1 DEF IdleJob, JobOK
<1> QED
    BY <1>2, <1>3

(* The tables go on: nothing a job may refer to has changed its account or *)
(* its mailbox, or has come back.                                          *)
Continues ==
    /\ used \subseteq used'
    /\ \A a \in EmailAccount \cap used :
        emailAccounts'[a] # NoEmailAccount =>
            /\ emailAccounts[a] # NoEmailAccount
            /\ emailAccounts'[a].mailbox = emailAccounts[a].mailbox
    /\ \A r \in Rule \cap used :
        rules'[r] # NoRule => rules[r] # NoRule /\ rules'[r].account = rules[r].account

LEMMA JobOKStays ==
    ASSUME Continues, NEW q \in JobState, JobOK(q)
    PROVE  JobOK(q)'
<1>1. q.pc \notin {"idle", "next"} => q.account \in EmailAccount \cap used'
    BY DEF Continues, JobOK
<1>2. q.pc \in {"refresh", "list", "insert"} /\ emailAccounts'[q.account] # NoEmailAccount =>
            q.mailbox = emailAccounts'[q.account].mailbox
    BY DEF Continues, JobOK
<1>3. \A r \in Rule : q.rules[r] # NoRule =>
        r \in used' /\ (rules'[r] # NoRule => rules'[r].account = q.account)
    BY DEF Continues, JobOK
<1> QED
    BY <1>1, <1>2, <1>3 DEF JobOK

(* One job has gone on to q, or none has. *)
LEMMA JobsStay ==
    ASSUME JobsOK, Continues, jobs' = jobs
    PROVE  JobsOK'
BY JobOKStays DEF JobsOK

LEMMA JobReplaced ==
    ASSUME JobsOK, Continues, NEW j \in Job, NEW q \in JobState, JobOK(q)',
           jobs' = [jobs EXCEPT ![j] = q]
    PROVE  JobsOK'
<1>1. jobs' \in [Job -> JobState]
    BY DEF JobsOK
<1>2. ASSUME NEW i \in Job PROVE JobOK(jobs[i])'
    <2>1. CASE i = j
        <3>1. jobs'[i] = q
            BY <2>1 DEF JobsOK
        <3> QED
            BY <3>1 DEF JobOK
    <2>2. CASE i # j
        <3>1. jobs'[i] = jobs[i] /\ jobs[i] \in JobState /\ JobOK(jobs[i])
            BY <2>2 DEF JobsOK
        <3>2. \A p \in JobState : JobOK(p) => JobOK(p)'
            BY JobOKStays
        <3> QED
            BY <3>1, <3>2 DEF JobOK
    <2> QED
        BY <2>1, <2>2
<1> QED
    BY <1>1, <1>2 DEF JobsOK

LEMMA SameTables ==
    ASSUME UNCHANGED tables
    PROVE  Continues /\ (TablesOK => TablesOK') /\ \A q \in JobState : JobOK(q) => JobOK(q)'
<1>1. Continues
    BY DEF tables, Continues
<1>2. TablesOK => TablesOK'
    BY DEF tables, TablesOK, AccountsOK, RulesOK, CandidatesOK, CandidatesBelong, Recorded
<1> QED
    BY <1>1, <1>2, JobOKStays

(* What a job becomes when its account is done with, or it has failed. *)
LEMMA AfterAccountOK ==
    ASSUME NEW job \in JobState
    PROVE  AfterAccount(job) \in JobState /\ JobOK(AfterAccount(job))
<1>1. AfterAccount(job) \in JobState
    BY IdleJobOK DEF AfterAccount, JobState
<1>2. /\ AfterAccount(job).pc = "next"
      /\ AfterAccount(job).scanning
      /\ AfterAccount(job).rules = IdleJob.rules
      /\ AfterAccount(job).work = IdleJob.work
    BY IdleJobOK DEF AfterAccount, JobState
<1>3. IdleJob.work = {} /\ \A r \in Rule : IdleJob.rules[r] = NoRule
    BY DEF IdleJob, NoRules
<1> HIDE DEF AfterAccount
<1>4. JobOK(AfterAccount(job))
    BY <1>2, <1>3 DEF JobOK
<1> QED
    BY <1>1, <1>4

LEMMA FailedOK ==
    ASSUME NEW job \in JobState
    PROVE  Failed(job) \in JobState /\ JobOK(Failed(job))
BY AfterAccountOK, IdleJobOK DEF Failed

-----------------------------------------------------------------------------
(* Edits of the tables *)

LEMMA ConnectOK ==
    ASSUME TablesOK, NEW t \in Tab, NEW a \in EmailAccount, NEW box \in Mailbox,
           Connect(t, a, box)
    PROVE  TablesOK' /\ Continues
<1> USE DEF TablesOK
<1> DEFINE row == [user |-> TabUser[t], mailbox |-> box, token |-> "live"]
<1>1. a \notin used /\ emailAccounts[a] = NoEmailAccount
    BY DEF Connect, AccountsOK
<1>2. /\ emailAccounts' = [emailAccounts EXCEPT ![a] = row]
      /\ used' = used \cup {a}
      /\ UNCHANGED <<rules, candidates>>
    BY DEF Connect
<1>3. row \in EmailAccountRow
    BY MailAssumption DEF EmailAccountRow
<1> HIDE DEF row
<1>4. AccountsOK'
    BY <1>2, <1>3 DEF AccountsOK
<1>5. \A b \in EmailAccount : b # a => emailAccounts'[b] = emailAccounts[b]
    BY <1>2 DEF AccountsOK
<1>6. RulesOK'
    <2>1. \A r \in Rule : rules[r] # NoRule => rules[r].account \in EmailAccount
        BY DEF RulesOK, RuleRow
    <2> QED
        BY <1>1, <1>2, <1>5, <2>1 DEF RulesOK
<1>7. CandidatesOK'
    <2>1. \A c \in CandidateId : Recorded(c) => candidates[c].account \in EmailAccount \ {a}
        BY <1>1, RowFacts DEF CandidatesOK, CandidatesBelong, Recorded, CandidateRow, CandidateId,
            NoEmailAccount
    <2> QED
        BY <1>2, <1>5, <2>1 DEF CandidatesOK, CandidatesBelong, Recorded
<1>8. Continues
    BY <1>1, <1>2, <1>5 DEF Continues
<1> QED
    BY <1>4, <1>6, <1>7, <1>8

(* The cascade takes the candidates of a rule with it. *)
LEMMA DropRulesOK ==
    ASSUME TablesOK, NEW gone \in SUBSET Rule, DropRules(gone), UNCHANGED used,
           \A a \in EmailAccount : emailAccounts'[a] # emailAccounts[a] =>
               emailAccounts'[a] = NoEmailAccount /\ RulesOf({a}) \subseteq gone,
           AccountsOK'
    PROVE  TablesOK' /\ Continues
<1> USE DEF TablesOK
<1>1. \A r \in Rule : rules'[r] = IF r \in gone THEN NoRule ELSE rules[r]
    BY DEF DropRules
<1>2. \A r \in Rule \ gone : rules[r] # NoRule =>
        /\ rules[r].account \in EmailAccount
        /\ emailAccounts'[rules[r].account] = emailAccounts[rules[r].account]
    BY DEF RulesOK, RuleRow, RulesOf
<1>3. RulesOK'
    BY <1>1, <1>2 DEF RulesOK, DropRules
<1>4. CandidatesOK'
    <2>1. \A c \in CandidateId : candidates'[c] = IF c[1] \in gone THEN NoCandidate ELSE candidates[c]
        BY DEF DropRules
    <2>2. candidates' \in [CandidateId -> CandidateRow \cup {NoCandidate}]
        BY DEF DropRules, CandidatesOK
    <2>3. ASSUME NEW c \in CandidateId, candidates'[c] # NoCandidate
          PROVE  /\ rules'[c[1]] # NoRule
                 /\ rules'[c[1]].account = candidates'[c].account
                 /\ emailAccounts'[candidates'[c].account].mailbox = Inbox[c[2]]
        <3>1. c[1] \in Rule \ gone /\ candidates'[c] = candidates[c] /\ Recorded(c)
            BY <2>1, <2>3 DEF CandidateId, Recorded
        <3> QED
            BY <1>1, <1>2, <3>1 DEF CandidatesOK, CandidatesBelong
    <2> QED
        BY <2>2, <2>3 DEF CandidatesOK, CandidatesBelong, Recorded
<1>5. Continues
    BY <1>1 DEF Continues
<1> QED
    BY <1>3, <1>4, <1>5

LEMMA DisconnectOK ==
    ASSUME TablesOK, NEW t \in Tab, NEW a \in EmailAccount, Disconnect(t, a)
    PROVE  TablesOK' /\ Continues
<1>1. /\ emailAccounts' = [emailAccounts EXCEPT ![a] = NoEmailAccount]
      /\ DropRules(RulesOf({a}))
      /\ UNCHANGED used
    BY DEF Disconnect
<1>2. AccountsOK'
    BY <1>1 DEF TablesOK, AccountsOK
<1>3. \A b \in EmailAccount : emailAccounts'[b] # emailAccounts[b] =>
        emailAccounts'[b] = NoEmailAccount /\ RulesOf({b}) \subseteq RulesOf({a})
    BY <1>1 DEF TablesOK, AccountsOK
<1>4. RulesOf({a}) \in SUBSET Rule
    BY DEF RulesOf
<1> QED
    BY <1>1, <1>2, <1>3, <1>4, DropRulesOK

LEMMA RemoveRuleOK ==
    ASSUME TablesOK, NEW t \in Tab, NEW r \in Rule, RemoveRule(t, r)
    PROVE  TablesOK' /\ Continues
<1>1. DropRules({r}) /\ UNCHANGED <<emailAccounts, used>>
    BY DEF RemoveRule
<1>2. AccountsOK'
    BY <1>1 DEF TablesOK, AccountsOK
<1> QED
    BY <1>1, <1>2, DropRulesOK

LEMMA CreateRuleOK ==
    ASSUME TablesOK, NEW t \in Tab, NEW r \in Rule, NEW a \in EmailAccount,
           NEW body \in RuleBody, CreateRule(t, r, a, body)
    PROVE  TablesOK' /\ Continues
<1> USE DEF TablesOK
<1> DEFINE row == [account |-> a, isActive |-> TRUE, body |-> body]
<1>1. r \notin used /\ rules[r] = NoRule
    BY DEF CreateRule, RulesOK
<1>2. emailAccounts[a] # NoEmailAccount
    BY RowFacts, MailAssumption DEF CreateRule, NoEmailAccount
<1>3. /\ rules' = [rules EXCEPT ![r] = row]
      /\ used' = used \cup {r}
      /\ UNCHANGED <<emailAccounts, candidates>>
    BY DEF CreateRule
<1>4. row \in RuleRow /\ row.account = a
    BY DEF RuleRow
<1> HIDE DEF row
<1>5. AccountsOK'
    BY <1>3 DEF AccountsOK
<1>6. \A s \in Rule : s # r => rules'[s] = rules[s]
    BY <1>3 DEF RulesOK
<1>7. RulesOK'
    BY <1>2, <1>3, <1>4 DEF RulesOK
<1>8. CandidatesOK'
    <2>1. \A c \in CandidateId : Recorded(c) => c[1] \in Rule \ {r}
        BY <1>1 DEF CandidatesOK, CandidatesBelong, CandidateId
    <2> QED
        BY <1>3, <1>6, <2>1 DEF CandidatesOK, CandidatesBelong, Recorded
<1>9. Continues
    BY <1>1, <1>3, <1>6 DEF Continues
<1> QED
    BY <1>5, <1>7, <1>8, <1>9

LEMMA UpdateRuleOK ==
    ASSUME TablesOK, NEW t \in Tab, NEW r \in Rule, NEW body \in RuleBody,
           NEW active \in BOOLEAN, UpdateRule(t, r, body, active)
    PROVE  TablesOK' /\ Continues
<1> USE DEF TablesOK
<1>1. /\ rules' = [rules EXCEPT ![r].isActive = active, ![r].body = body]
      /\ UNCHANGED <<emailAccounts, used, candidates>>
      /\ rules[r] # NoRule
    BY DEF UpdateRule, OwnsRule
<1>2. rules[r] \in RuleRow
    BY <1>1 DEF RulesOK
<1>3. rules'[r] \in RuleRow /\ rules'[r].account = rules[r].account
    BY <1>1, <1>2 DEF RulesOK, RuleRow
<1>4. \A s \in Rule : s # r => rules'[s] = rules[s]
    BY <1>1 DEF RulesOK
<1>5. \A s \in Rule : (rules'[s] # NoRule => rules[s] # NoRule)
                       /\ rules'[s].account = rules[s].account
    BY <1>1, <1>3, <1>4
<1>6. RulesOK'
    <2>1. rules' \in [Rule -> RuleRow \cup {NoRule}]
        BY <1>1, <1>3, <1>4 DEF RulesOK
    <2> QED
        BY <1>1, <1>5, <2>1 DEF RulesOK
<1>7. CandidatesOK'
    <2>1. \A s \in Rule : rules[s] # NoRule => rules'[s] # NoRule
        BY <1>3, <1>4, RowFacts
    <2> QED
        BY <1>1, <1>5, <2>1 DEF CandidatesOK, CandidatesBelong, Recorded, CandidateId
<1> QED
    BY <1>1, <1>5, <1>6, <1>7 DEF AccountsOK, Continues

(* A token gets another state; the row keeps its user and mailbox. *)
LEMMA TokenOK ==
    ASSUME TablesOK, NEW a \in EmailAccount, emailAccounts[a] # NoEmailAccount,
           NEW token \in {"live", "expired", "revoked"},
           emailAccounts' = [emailAccounts EXCEPT ![a].token = token],
           UNCHANGED <<rules, used, candidates>>
    PROVE  TablesOK' /\ Continues
<1> USE DEF TablesOK
<1>1. emailAccounts[a] \in EmailAccountRow
    BY DEF AccountsOK
<1>2. /\ emailAccounts'[a] \in EmailAccountRow
      /\ emailAccounts'[a].mailbox = emailAccounts[a].mailbox
    BY <1>1 DEF AccountsOK, EmailAccountRow
<1>3. \A b \in EmailAccount : b # a => emailAccounts'[b] = emailAccounts[b]
    BY DEF AccountsOK
<1>4. \A b \in EmailAccount : /\ emailAccounts'[b].mailbox = emailAccounts[b].mailbox
                              /\ emailAccounts'[b] # NoEmailAccount <=> emailAccounts[b] # NoEmailAccount
    BY <1>2, <1>3, RowFacts
<1>5. AccountsOK'
    <2>1. emailAccounts' \in [EmailAccount -> EmailAccountRow \cup {NoEmailAccount}]
        BY <1>2, <1>3 DEF AccountsOK
    <2> QED
        BY <1>4, <2>1 DEF AccountsOK
<1>6. RulesOK'
    BY <1>4, RowFacts DEF RulesOK, RuleRow
<1>7. CandidatesOK'
    <2>1. \A c \in CandidateId : Recorded(c) => candidates[c].account \in EmailAccount
        BY DEF CandidatesOK, Recorded, CandidateRow
    <2> QED
        BY <1>4, <2>1 DEF CandidatesOK, CandidatesBelong, Recorded
<1> QED
    BY <1>4, <1>5, <1>6, <1>7 DEF Continues

(* A decision changes the status of a candidate that is there. *)
LEMMA StatusOK ==
    ASSUME TablesOK, NEW c \in CandidateId, Recorded(c),
           NEW status \in {"APPROVED", "EXCLUDED"},
           candidates' = [candidates EXCEPT ![c].status = status],
           UNCHANGED <<emailAccounts, rules, used>>
    PROVE  TablesOK' /\ Continues
<1> USE DEF TablesOK
<1>1. candidates[c] \in CandidateRow
    BY DEF CandidatesOK, Recorded
<1>2. candidates'[c] \in CandidateRow /\ candidates'[c].account = candidates[c].account
    BY <1>1 DEF CandidatesOK, CandidateRow
<1>3. \A d \in CandidateId : d # c => candidates'[d] = candidates[d]
    BY DEF CandidatesOK
<1>4. CandidatesOK'
    <2>1. candidates' \in [CandidateId -> CandidateRow \cup {NoCandidate}]
        BY <1>2, <1>3 DEF CandidatesOK
    <2>2. \A d \in CandidateId : Recorded(d)' =>
            Recorded(d) /\ candidates'[d].account = candidates[d].account
        BY <1>2, <1>3 DEF Recorded
    <2> QED
        BY <2>1, <2>2 DEF CandidatesOK, CandidatesBelong
<1> QED
    BY <1>4 DEF AccountsOK, RulesOK, Continues

-----------------------------------------------------------------------------
(* The steps of a job.  Each gives the next state of its job. *)

LEMMA StartScanOK ==
    ASSUME MailInv, NEW j \in Job, NEW accounts \in SUBSET EmailAccount, StartScan(j, accounts)
    PROVE  TablesOK' /\ JobsOK'
<1> DEFINE q == [IdleJob EXCEPT !.pc = "next", !.scanning = TRUE, !.todo = accounts]
<1>1. q \in JobState
    BY IdleJobOK DEF JobState
<1>2. q.pc = "next" /\ q.scanning /\ q.rules = IdleJob.rules /\ q.work = IdleJob.work
    BY IdleJobOK DEF JobState
<1>3. jobs' = [jobs EXCEPT ![j] = q] /\ UNCHANGED tables
    BY DEF StartScan
<1> HIDE DEF q
<1>4. IdleJob.work = {} /\ \A r \in Rule : IdleJob.rules[r] = NoRule
    BY DEF IdleJob, NoRules
<1>5. JobOK(q)
    BY <1>2, <1>4 DEF JobOK
<1> QED
    BY <1>1, <1>3, <1>5, SameTables, JobReplaced DEF MailInv

LEMMA ReadRulesOK ==
    ASSUME MailInv, NEW j \in Job, NEW a \in EmailAccount, ReadRules(j, a)
    PROVE  TablesOK' /\ JobsOK'
<1> DEFINE read == ActiveRulesOf(a)
           job == [jobs[j] EXCEPT !.account = a]
           q == [job EXCEPT !.pc = "auth", !.rules = read]
<1>1. jobs[j] \in JobState /\ JobOK(jobs[j]) /\ jobs[j].pc = "next"
    BY DEF MailInv, JobsOK, ReadRules
<1>2. job \in JobState
    BY <1>1 DEF JobState
<1>3. UNCHANGED tables /\ jobs' = [jobs EXCEPT ![j] = IF read = NoRules THEN AfterAccount(job) ELSE q]
    BY DEF ReadRules
<1>4. CASE read = NoRules
    BY <1>2, <1>3, <1>4, AfterAccountOK, SameTables, JobReplaced DEF MailInv
<1>5. CASE read # NoRules
    <2>1. read \in [Rule -> RuleRow \cup {NoRule}]
        BY DEF ActiveRulesOf, MailInv, TablesOK, RulesOK
    <2>2. \A r \in Rule : read[r] # NoRule => rules[r] # NoRule /\ rules[r].account = a
        BY RowFacts DEF ActiveRulesOf, NoRule
    <2>3. /\ q \in JobState /\ q.pc = "auth" /\ q.account = a /\ q.rules = read
          /\ q.work = jobs[j].work /\ q.scanning = jobs[j].scanning
          /\ q.candidate = jobs[j].candidate /\ q.tab = jobs[j].tab
          /\ q.action = jobs[j].action
        BY <1>1, <2>1 DEF JobState
    <2>4. a \in used
        <3>1. \E r \in Rule : read[r] # NoRule
            BY <1>5 DEF ActiveRulesOf, NoRules
        <3> QED
            BY <2>2, <3>1 DEF MailInv, TablesOK, RulesOK, AccountsOK
    <2>5. jobs[j].work = {}
        BY <1>1 DEF JobOK
    <2> HIDE DEF q
    <2>6. JobOK(q)
        BY <1>1, <2>2, <2>3, <2>4, <2>5 DEF JobOK, MailInv, TablesOK, RulesOK
    <2> QED
        BY <1>3, <1>5, <2>3, <2>6, SameTables, JobReplaced DEF MailInv
<1> QED
    BY <1>4, <1>5

LEMMA EndScanOK ==
    ASSUME MailInv, NEW j \in Job, EndScan(j) \/ JobFails(j)
    PROVE  TablesOK' /\ JobsOK'
<1>1. jobs[j] \in JobState /\ UNCHANGED tables
    BY DEF MailInv, JobsOK, EndScan, JobFails
<1>2. \E q \in JobState : JobOK(q) /\ jobs' = [jobs EXCEPT ![j] = q]
    <2>1. CASE EndScan(j)
        BY <2>1, IdleJobOK DEF EndScan
    <2>2. CASE jobs' = [jobs EXCEPT ![j] = Failed(jobs[j])]
        BY <1>1, <2>2, FailedOK
    <2>3. ASSUME NEW a \in jobs[j].todo,
                 jobs' = [jobs EXCEPT ![j] = Failed([jobs[j] EXCEPT !.account = a])]
          PROVE  \E q \in JobState : JobOK(q) /\ jobs' = [jobs EXCEPT ![j] = q]
        <3>1. [jobs[j] EXCEPT !.account = a] \in JobState
            BY <1>1 DEF JobState
        <3> QED
            BY <2>3, <3>1, FailedOK
    <2> QED
        BY <2>1, <2>2, <2>3 DEF JobFails
<1> QED
    BY <1>1, <1>2, SameTables, JobReplaced DEF MailInv

LEMMA AuthorizeOK ==
    ASSUME MailInv, NEW j \in Job, Authorize(j)
    PROVE  TablesOK' /\ JobsOK'
<1> DEFINE account == emailAccounts[jobs[j].account]
           job == [jobs[j] EXCEPT !.mailbox = account.mailbox]
<1>1. /\ jobs[j] \in JobState /\ JobOK(jobs[j]) /\ jobs[j].pc = "auth"
      /\ jobs[j].account \in EmailAccount /\ jobs[j].work = {}
    BY DEF MailInv, JobsOK, Authorize, JobOK
<1>2. account \in EmailAccountRow \cup {NoEmailAccount}
    BY <1>1 DEF MailInv, TablesOK, AccountsOK
<1>3. account.token \in {"live", "expired", "revoked"} /\ account.mailbox \in Mailbox \cup {None}
    BY <1>2 DEF EmailAccountRow, NoEmailAccount
<1>4. job \in JobState
    BY <1>1, <1>3 DEF JobState
<1>5. UNCHANGED tables
    BY DEF Authorize
<1>6. ASSUME NEW pc \in {"list", "apply", "refresh"},
             pc = "list" => jobs[j].scanning, pc = "apply" => ~jobs[j].scanning
      PROVE  [job EXCEPT !.pc = pc] \in JobState /\ JobOK([job EXCEPT !.pc = pc])
    <2> DEFINE q == [job EXCEPT !.pc = pc]
    <2>1. /\ q \in JobState /\ q.pc = pc /\ q.account = jobs[j].account
          /\ q.mailbox = account.mailbox /\ q.rules = jobs[j].rules /\ q.work = {}
          /\ q.scanning = jobs[j].scanning /\ q.candidate = jobs[j].candidate
          /\ q.tab = jobs[j].tab /\ q.action = jobs[j].action
        BY <1>1, <1>3, <1>6 DEF JobState
    <2> HIDE DEF q
    <2>2. JobOK(q)
        BY <1>1, <1>6, <2>1 DEF JobOK
    <2> QED
        BY <2>1, <2>2 DEF q
<1>7. \E q \in JobState : JobOK(q) /\ jobs' = [jobs EXCEPT ![j] = q]
    <2>1. CASE account.token = "live"
        <3>1. jobs' = [jobs EXCEPT ![j] = Authorized(job)]
            BY <2>1 DEF Authorize
        <3>2. Authorized(job) = [job EXCEPT !.pc = IF jobs[j].scanning THEN "list" ELSE "apply"]
            BY <1>1 DEF Authorized, JobState
        <3>3. CASE jobs[j].scanning
            BY <1>6, <3>1, <3>2, <3>3
        <3>4. CASE ~jobs[j].scanning
            BY <1>6, <3>1, <3>2, <3>4
        <3> QED
            BY <3>3, <3>4
    <2>2. CASE account.token = "expired"
        <3>1. jobs' = [jobs EXCEPT ![j] = [job EXCEPT !.pc = "refresh"]]
            BY <2>2 DEF Authorize
        <3> QED
            BY <1>6, <3>1
    <2>3. CASE account.token = "revoked"
        <3>1. jobs' = [jobs EXCEPT ![j] = Failed(job)]
            BY <2>3 DEF Authorize
        <3> QED
            BY <1>4, <3>1, FailedOK
    <2> QED
        BY <1>3, <2>1, <2>2, <2>3
<1> QED
    BY <1>5, <1>7, SameTables, JobReplaced DEF MailInv

LEMMA RefreshTokenOK ==
    ASSUME MailInv, NEW j \in Job, RefreshToken(j)
    PROVE  TablesOK' /\ JobsOK'
<1> DEFINE a == jobs[j].account
           q == Authorized(jobs[j])
<1>1. /\ jobs[j] \in JobState /\ JobOK(jobs[j]) /\ jobs[j].pc = "refresh"
      /\ a \in EmailAccount /\ jobs[j].work = {}
    BY DEF MailInv, JobsOK, RefreshToken, JobOK
<1>2. CASE emailAccounts[a] # NoEmailAccount
    <2>1. /\ emailAccounts' = [emailAccounts EXCEPT ![a].token = IF @ = "expired" THEN "live" ELSE @]
          /\ UNCHANGED <<rules, used, candidates>>
          /\ jobs' = [jobs EXCEPT ![j] = q]
        BY <1>2 DEF RefreshToken
    <2>2. emailAccounts[a].token \in {"live", "expired", "revoked"}
        BY <1>1, <1>2 DEF MailInv, TablesOK, AccountsOK, EmailAccountRow
    <2>3. TablesOK' /\ Continues
        <3>1. \E token \in {"live", "expired", "revoked"} :
                emailAccounts' = [emailAccounts EXCEPT ![a].token = token]
            BY <2>1, <2>2
        <3> QED
            BY <1>1, <1>2, <2>1, <3>1, TokenOK DEF MailInv
    <2>4. /\ q \in JobState /\ q.pc = IF jobs[j].scanning THEN "list" ELSE "apply"
          /\ q.account = a /\ q.mailbox = jobs[j].mailbox /\ q.rules = jobs[j].rules
          /\ q.work = {} /\ q.scanning = jobs[j].scanning
          /\ q.candidate = jobs[j].candidate /\ q.tab = jobs[j].tab
          /\ q.action = jobs[j].action
        BY <1>1 DEF Authorized, JobState
    <2> HIDE DEF q
    <2>5. JobOK(q)
        BY <1>1, <2>4 DEF JobOK
    <2> QED
        BY <2>1, <2>3, <2>4, <2>5, JobOKStays, JobReplaced DEF MailInv
<1>3. CASE emailAccounts[a] = NoEmailAccount
    <2>1. UNCHANGED tables /\ jobs' = [jobs EXCEPT ![j] = Failed(jobs[j])]
        BY <1>3 DEF RefreshToken, tables
    <2> QED
        BY <1>1, <2>1, FailedOK, SameTables, JobReplaced DEF MailInv
<1> QED
    BY <1>2, <1>3

(* What is left of an account after a list or an insert. *)
LEMMA WithWorkOK ==
    ASSUME NEW job \in JobState, JobOK(job), job.pc \in {"list", "insert"},
           NEW work \in SUBSET CandidateId,
           \A c \in work : job.rules[c[1]] # NoRule /\ Inbox[c[2]] = job.mailbox
    PROVE  WithWork(job, work) \in JobState /\ JobOK(WithWork(job, work))
<1>1. CASE work = {}
    BY <1>1, AfterAccountOK DEF WithWork
<1>2. CASE work # {}
    <2> DEFINE q == [job EXCEPT !.pc = "insert", !.work = work]
    <2>1. /\ q \in JobState /\ q.pc = "insert" /\ q.account = job.account
          /\ q.mailbox = job.mailbox /\ q.rules = job.rules /\ q.work = work
          /\ q.scanning = job.scanning
        BY DEF JobState
    <2> HIDE DEF q
    <2>2. JobOK(q)
        BY <2>1 DEF JobOK
    <2> QED
        BY <1>2, <2>1, <2>2 DEF WithWork, q
<1> QED
    BY <1>1, <1>2

LEMMA ListMessagesOK ==
    ASSUME MailInv, NEW j \in Job, ListMessages(j)
    PROVE  TablesOK' /\ JobsOK'
<1>1. jobs[j] \in JobState /\ JobOK(jobs[j]) /\ jobs[j].pc = "list" /\ UNCHANGED tables
    BY DEF MailInv, JobsOK, ListMessages
<1>2. PICK listed \in SUBSET Listable(jobs[j].mailbox) :
        jobs' = [jobs EXCEPT ![j] = WithWork(jobs[j], Matches(jobs[j].rules, listed))]
    BY DEF ListMessages
<1>3. /\ Matches(jobs[j].rules, listed) \in SUBSET CandidateId
      /\ \A c \in Matches(jobs[j].rules, listed) :
            jobs[j].rules[c[1]] # NoRule /\ Inbox[c[2]] = jobs[j].mailbox
    BY DEF Matches, Listable
<1>4. WithWork(jobs[j], Matches(jobs[j].rules, listed)) \in JobState
      /\ JobOK(WithWork(jobs[j], Matches(jobs[j].rules, listed)))
    BY <1>1, <1>3, WithWorkOK
<1> QED
    BY <1>1, <1>2, <1>4, SameTables, JobReplaced DEF MailInv

(* The heart of CandidatesBelong: the rule and the account that the insert *)
(* refers to still exist, so they are the ones the scan has read.          *)
LEMMA InsertCandidateOK ==
    ASSUME MailInv, NEW j \in Job, NEW c \in CandidateId, InsertCandidate(j, c)
    PROVE  TablesOK' /\ JobsOK'
<1> DEFINE job == jobs[j]
           a == job.account
           next == WithWork(job, job.work \ {c})
<1>1. job \in JobState /\ JobOK(job) /\ job.pc = "insert" /\ c \in job.work
    BY DEF MailInv, JobsOK, InsertCandidate
<1>2. UNCHANGED <<emailAccounts, rules, used>>
    BY DEF InsertCandidate
<1>3. Continues
    BY <1>2 DEF Continues
<1>4. next \in JobState /\ JobOK(next)
    <2>1. job.work \ {c} \in SUBSET CandidateId
        BY <1>1 DEF JobState
    <2> QED
        BY <1>1, <2>1, WithWorkOK DEF JobOK
<1>5. \E q \in JobState : JobOK(q) /\ jobs' = [jobs EXCEPT ![j] = q]
    BY <1>1, <1>4, FailedOK DEF InsertCandidate
<1>6. JobsOK'
    BY <1>3, <1>5, JobOKStays, JobReplaced DEF MailInv
<1>7. CASE UNCHANGED candidates
    BY <1>2, <1>6, <1>7, SameTables DEF MailInv, tables
<1>8. CASE /\ ReferencesExist(c, a)
           /\ candidates' = [candidates EXCEPT ![c] = [account |-> a, status |-> "PENDING"]]
    <2>1. c[1] \in Rule /\ a \in EmailAccount
        BY <1>1 DEF CandidateId, JobOK
    <2>2. rules[c[1]] # NoRule /\ emailAccounts[a] # NoEmailAccount
        BY <1>8 DEF ReferencesExist
    <2>3. rules[c[1]].account = a /\ emailAccounts[a].mailbox = Inbox[c[2]]
        BY <1>1, <2>1, <2>2 DEF JobOK
    <2>4. [account |-> a, status |-> "PENDING"] \in CandidateRow
        BY <2>1 DEF CandidateRow
    <2>5. \A d \in CandidateId : d # c => candidates'[d] = candidates[d]
        BY <1>8 DEF MailInv, TablesOK, CandidatesOK
    <2>6. candidates'[c] = [account |-> a, status |-> "PENDING"]
        BY <1>8 DEF MailInv, TablesOK, CandidatesOK
    <2>7. CandidatesOK'
        <3>1. candidates' \in [CandidateId -> CandidateRow \cup {NoCandidate}]
            BY <1>8, <2>4 DEF MailInv, TablesOK, CandidatesOK
        <3>2. CandidatesBelong'
            BY <1>2, <2>2, <2>3, <2>5, <2>6
            DEF MailInv, TablesOK, CandidatesOK, CandidatesBelong, Recorded
        <3> QED
            BY <3>1, <3>2 DEF CandidatesOK
    <2> QED
        BY <1>2, <1>6, <2>7 DEF MailInv, TablesOK, AccountsOK, RulesOK
<1> QED
    BY <1>7, <1>8 DEF InsertCandidate

LEMMA ApproveOK ==
    ASSUME MailInv, NEW j \in Job, NEW t \in Tab, NEW c \in CandidateId, Approve(j, t, c)
    PROVE  TablesOK' /\ JobsOK'
<1> DEFINE action == rules[c[1]].body.actionType
           a == candidates[c].account
           q == [IdleJob EXCEPT !.pc = IF action = "important" THEN "mark" ELSE "auth",
                                !.account = a, !.tab = t, !.candidate = c, !.action = action]
<1>1. Recorded(c) /\ candidates[c] \in CandidateRow /\ c[1] \in Rule
    BY DEF Approve, Owned, Recorded, MailInv, TablesOK, CandidatesOK, CandidateId
<1>2. a \in EmailAccount \cap used
    BY <1>1, RowFacts
    DEF CandidateRow, MailInv, TablesOK, CandidatesOK, CandidatesBelong, AccountsOK,
        NoEmailAccount, CandidateId
<1>3. action \in ActionTypes
    <2>1. rules[c[1]] \in RuleRow
        BY <1>1 DEF MailInv, TablesOK, CandidatesOK, CandidatesBelong, RulesOK
    <2>2. rules[c[1]].body \in RuleBody
        BY <2>1 DEF RuleRow
    <2> QED
        BY <2>2, MailAssumption
<1>4. IdleJob.work = {} /\ ~IdleJob.scanning /\ \A r \in Rule : IdleJob.rules[r] = NoRule
    BY DEF IdleJob, NoRules
<1>5. /\ q \in JobState /\ q.pc \in {"mark", "auth"} /\ q.account = a /\ q.tab = t
      /\ q.candidate = c /\ q.action = action /\ q.work = IdleJob.work
      /\ q.rules = IdleJob.rules /\ q.scanning = IdleJob.scanning
    <2> HIDE DEF a, action
    <2> QED
        BY <1>2, <1>3, IdleJobOK DEF JobState
<1>6. UNCHANGED tables /\ jobs' = [jobs EXCEPT ![j] = q]
    BY DEF Approve
<1> HIDE DEF q, a, action
<1>7. JobOK(q)
    BY <1>2, <1>3, <1>4, <1>5 DEF JobOK
<1> QED
    BY <1>5, <1>6, <1>7, SameTables, JobReplaced DEF MailInv

LEMMA ApplyActionOK ==
    ASSUME MailInv, NEW j \in Job, ApplyAction(j)
    PROVE  TablesOK' /\ JobsOK' /\ labels' \in [Message -> SUBSET {"TRASH", "SPAM"}]
<1> DEFINE q == [jobs[j] EXCEPT !.pc = "mark"]
<1>1. jobs[j] \in JobState /\ JobOK(jobs[j]) /\ jobs[j].pc = "apply" /\ UNCHANGED tables
    BY DEF MailInv, JobsOK, ApplyAction
<1>2. /\ q \in JobState /\ q.pc = "mark" /\ q.account = jobs[j].account
      /\ q.rules = jobs[j].rules /\ q.work = jobs[j].work /\ q.scanning = jobs[j].scanning
      /\ q.candidate = jobs[j].candidate /\ q.tab = jobs[j].tab /\ q.action = jobs[j].action
    BY <1>1 DEF JobState
<1>3. jobs' = [jobs EXCEPT ![j] = q]
    BY <1>1 DEF ApplyAction, MailInv, JobsOK
<1> HIDE DEF q
<1>4. JobOK(q)
    BY <1>1, <1>2 DEF JobOK
<1>5. jobs[j].candidate \in CandidateId
    BY <1>1 DEF JobOK
<1>6. labels' \in [Message -> SUBSET {"TRASH", "SPAM"}]
    BY <1>5 DEF ApplyAction, MailInv, WorldOK, LabelOf, CandidateId
<1> QED
    BY <1>1, <1>2, <1>3, <1>4, <1>6, SameTables, JobReplaced DEF MailInv

LEMMA DroppedOK ==
    ASSUME WorldOK, NEW t \in Tab, NEW c \in CandidateId
    PROVE  Dropped(t, c) \in [Tab -> SUBSET CandidateId]
BY DEF WorldOK, Dropped

LEMMA MarkApprovedOK ==
    ASSUME MailInv, NEW j \in Job, MarkApproved(j)
    PROVE  TablesOK' /\ JobsOK' /\ tabs' \in [Tab -> SUBSET CandidateId]
<1> DEFINE c == jobs[j].candidate
<1>1. jobs[j] \in JobState /\ JobOK(jobs[j]) /\ jobs[j].pc = "mark"
    BY DEF MailInv, JobsOK, MarkApproved
<1>2. c \in CandidateId /\ jobs[j].tab \in Tab
    BY <1>1 DEF JobOK
<1>3. jobs' = [jobs EXCEPT ![j] = IdleJob] /\ UNCHANGED <<emailAccounts, rules, used>>
    BY DEF MarkApproved
<1>4. CASE candidates[c] # NoCandidate
    <2>1. /\ candidates' = [candidates EXCEPT ![c].status = "APPROVED"]
          /\ tabs' = Dropped(jobs[j].tab, c)
        BY <1>4 DEF MarkApproved
    <2>2. TablesOK' /\ Continues
        BY <1>2, <1>3, <1>4, <2>1, StatusOK DEF MailInv, Recorded
    <2>3. JobOK(IdleJob)'
        BY <2>2, IdleJobOK, JobOKStays
    <2> QED
        BY <1>2, <1>3, <2>1, <2>2, <2>3, IdleJobOK, JobReplaced, DroppedOK DEF MailInv
<1>5. CASE candidates[c] = NoCandidate
    <2>1. UNCHANGED <<tables, tabs>>
        BY <1>3, <1>5 DEF MarkApproved, tables
    <2> QED
        BY <1>3, <2>1, IdleJobOK, SameTables, JobReplaced DEF MailInv, WorldOK
<1> QED
    BY <1>4, <1>5

LEMMA ExcludeOK ==
    ASSUME MailInv, NEW t \in Tab, NEW c \in CandidateId, Exclude(t, c)
    PROVE  TablesOK' /\ JobsOK' /\ tabs' \in [Tab -> SUBSET CandidateId]
<1>1. TablesOK' /\ Continues
    BY StatusOK DEF MailInv, Exclude, Owned, Recorded
<1>2. JobsOK'
    BY <1>1, JobsStay DEF MailInv, Exclude
<1>3. tabs' \in [Tab -> SUBSET CandidateId]
    BY DroppedOK DEF MailInv, Exclude
<1> QED
    BY <1>1, <1>2, <1>3

-----------------------------------------------------------------------------
(* The invariant *)

LEMMA MailInvInit == MailInit => MailInv
<1> SUFFICES ASSUME MailInit PROVE MailInv
    OBVIOUS
<1>1. TablesOK /\ WorldOK
    BY DEF MailInit, TablesOK, AccountsOK, RulesOK, CandidatesOK, CandidatesBelong, Recorded, WorldOK
<1>2. JobsOK
    BY IdleJobOK DEF MailInit, JobsOK
<1> QED
    BY <1>1, <1>2 DEF MailInv

LEMMA EditStepOK ==
    ASSUME MailInv, NEW t \in Tab, EditStep(t)
    PROVE  MailInv'
<1>1. UNCHANGED <<gmail, jobs, tabs>>
    BY DEF EditStep, Connect, Disconnect, CreateRule, UpdateRule, RemoveRule
<1>2. TablesOK' /\ Continues
    BY ConnectOK, DisconnectOK, CreateRuleOK, UpdateRuleOK, RemoveRuleOK DEF EditStep, MailInv
<1>3. JobsOK'
    BY <1>1, <1>2, JobsStay DEF MailInv
<1> QED
    BY <1>1, <1>2, <1>3 DEF MailInv, WorldOK, gmail

LEMMA PageStepOK ==
    ASSUME MailInv, NEW t \in Tab, PageStep(t)
    PROVE  MailInv'
<1>1. CASE LoadCandidates(t)
    <2>1. UNCHANGED <<tables, gmail, jobs>>
        BY <1>1 DEF LoadCandidates
    <2>2. tabs' \in [Tab -> SUBSET CandidateId]
        BY <1>1 DEF LoadCandidates, MailInv, WorldOK
    <2> QED
        BY <2>1, <2>2, SameTables, JobsStay DEF MailInv, WorldOK, gmail
<1>2. ASSUME NEW c \in CandidateId, Exclude(t, c)
      PROVE  MailInv'
    BY <1>2, ExcludeOK DEF Exclude, MailInv, WorldOK, gmail
<1>3. ASSUME NEW c \in CandidateId, NEW j \in Job, Approve(j, t, c)
      PROVE  MailInv'
    BY <1>3, ApproveOK DEF Approve, MailInv, WorldOK, gmail
<1>4. ASSUME NEW j \in Job, Scan(j, t)
      PROVE  MailInv'
    <2>1. {a \in EmailAccount : emailAccounts[a].user = TabUser[t]} \in SUBSET EmailAccount
        OBVIOUS
    <2> QED
        BY <1>4, <2>1, StartScanOK DEF Scan, StartScan, MailInv, WorldOK, gmail
<1> QED
    BY <1>1, <1>2, <1>3, <1>4 DEF PageStep

LEMMA JobStepOK ==
    ASSUME MailInv, NEW j \in Job, ScanAll(j) \/ JobStep(j)
    PROVE  MailInv'
<1>1. CASE ScanAll(j)
    <2>1. {a \in EmailAccount : emailAccounts[a] # NoEmailAccount} \in SUBSET EmailAccount
        OBVIOUS
    <2> QED
        BY <1>1, <2>1, StartScanOK DEF ScanAll, StartScan, MailInv, WorldOK, gmail
<1>2. ASSUME NEW a \in EmailAccount, ReadRules(j, a)
      PROVE  MailInv'
    BY <1>2, ReadRulesOK DEF ReadRules, MailInv, WorldOK, gmail
<1>3. CASE EndScan(j)
    BY <1>3, EndScanOK DEF EndScan, MailInv, WorldOK, gmail
<1>4. CASE Authorize(j)
    BY <1>4, AuthorizeOK DEF Authorize, MailInv, WorldOK, gmail
<1>5. CASE RefreshToken(j)
    BY <1>5, RefreshTokenOK DEF RefreshToken, MailInv, WorldOK, gmail
<1>6. CASE ListMessages(j)
    BY <1>6, ListMessagesOK DEF ListMessages, MailInv, WorldOK, gmail
<1>7. ASSUME NEW c \in CandidateId, InsertCandidate(j, c)
      PROVE  MailInv'
    BY <1>7, InsertCandidateOK DEF InsertCandidate, MailInv, WorldOK, gmail
<1>8. CASE ApplyAction(j)
    BY <1>8, ApplyActionOK DEF ApplyAction, MailInv, WorldOK
<1>9. CASE MarkApproved(j)
    BY <1>9, MarkApprovedOK DEF MarkApproved, MailInv, WorldOK, gmail
<1> QED
    BY <1>1, <1>2, <1>3, <1>4, <1>5, <1>6, <1>7, <1>8, <1>9 DEF JobStep

LEMMA WorldStepOK ==
    ASSUME MailInv, WorldStep
    PROVE  MailInv'
<1>1. ASSUME NEW m \in Message, MailArrives(m) \/ MailAges(m)
      PROVE  MailInv'
    <2>1. UNCHANGED <<tables, labels, jobs, tabs>>
        BY <1>1 DEF MailArrives, MailAges
    <2>2. mail' \in [Message -> {"coming", "recent", "old"}]
        BY <1>1 DEF MailArrives, MailAges, MailInv, WorldOK
    <2> QED
        BY <2>1, <2>2, SameTables, JobsStay DEF MailInv, WorldOK
<1>2. ASSUME NEW a \in EmailAccount, TokenEnds(a)
      PROVE  MailInv'
    <2>1. /\ emailAccounts[a] # NoEmailAccount
          /\ UNCHANGED <<rules, used, candidates, gmail, jobs, tabs>>
          /\ \E token \in {"live", "expired", "revoked"} :
                emailAccounts' = [emailAccounts EXCEPT ![a].token = token]
        BY <1>2 DEF TokenEnds
    <2>2. TablesOK' /\ Continues
        BY <2>1, TokenOK DEF MailInv
    <2> QED
        BY <2>1, <2>2, JobsStay DEF MailInv, WorldOK, gmail
<1>3. ASSUME NEW j \in Job, JobFails(j)
      PROVE  MailInv'
    BY <1>3, EndScanOK DEF JobFails, MailInv, WorldOK, gmail
<1>4. CASE Restart
    <2>1. UNCHANGED <<tables, gmail, tabs>> /\ jobs' = [j \in Job |-> IdleJob]
        BY <1>4 DEF Restart
    <2>2. JobsOK'
        <3>1. JobOK(IdleJob)'
            BY <2>1, IdleJobOK, SameTables
        <3>2. ASSUME NEW j \in Job PROVE JobOK(jobs[j])'
            BY <2>1, <3>1 DEF JobOK
        <3> QED
            BY <2>1, <3>2, IdleJobOK DEF JobsOK
    <2> QED
        BY <2>1, <2>2, SameTables DEF MailInv, WorldOK, gmail
<1> QED
    BY <1>1, <1>2, <1>3, <1>4 DEF WorldStep

LEMMA MailInvNext == MailInv /\ [MailNext]_mailVars => MailInv'
<1> SUFFICES ASSUME MailInv, [MailNext]_mailVars PROVE MailInv'
    OBVIOUS
<1>1. CASE UNCHANGED mailVars
    BY <1>1, SameTables, JobsStay DEF mailVars, MailInv, WorldOK, gmail
<1> QED
    BY <1>1, EditStepOK, PageStepOK, JobStepOK, WorldStepOK DEF MailNext

(* Type correctness: MailReview keeps MailTypeOK. *)
THEOREM MailTypesCorrect == MailSpec => []MailTypeOK
<1>1. MailInv => MailTypeOK
    BY DEF MailInv, TablesOK, AccountsOK, RulesOK, CandidatesOK, WorldOK, JobsOK, MailTypeOK
<1> QED
    BY MailInvInit, MailInvNext, <1>1, PTL DEF MailSpec

(* However long a scan works with the rules it has read, and whatever is   *)
(* edited, disconnected or connected anew in the meantime: a candidate in  *)
(* the table has a rule, of its own account, and is a message of that      *)
(* account's mailbox.                                                      *)
THEOREM CandidatesHaveOwners == MailSpec => []CandidatesBelong
<1>1. MailInv => CandidatesBelong
    BY DEF MailInv, TablesOK, CandidatesOK
<1> QED
    BY MailInvInit, MailInvNext, <1>1, PTL DEF MailSpec

-----------------------------------------------------------------------------
(* What becomes of a decision *)

(* A row goes, comes as a new one, or is decided on. *)
LEMMA CandidateWrites ==
    ASSUME MailInv, [MailNext]_mailVars, NEW c \in CandidateId
    PROVE  \/ candidates'[c] = candidates[c]
           \/ candidates'[c] = NoCandidate
           \/ candidates[c] = NoCandidate
           \/ candidates'[c].status \in {"APPROVED", "EXCLUDED"}
<1>1. candidates \in [CandidateId -> CandidateRow \cup {NoCandidate}]
    BY DEF MailInv, TablesOK, CandidatesOK
<1>2. ASSUME NEW gone, DropRules(gone)
      PROVE  candidates'[c] \in {candidates[c], NoCandidate}
    BY <1>2 DEF DropRules
<1>3. ASSUME NEW d \in CandidateId, NEW status \in {"APPROVED", "EXCLUDED"},
             candidates' = [candidates EXCEPT ![d].status = status]
      PROVE  candidates'[c] = candidates[c] \/ candidates'[c].status \in {"APPROVED", "EXCLUDED"}
    <2>1. \A row \in CandidateRow \cup {NoCandidate} :
              [row EXCEPT !.status = status].status = status
        BY DEF CandidateRow, NoCandidate
    <2>2. candidates'[c] =
              IF c = d THEN [candidates[c] EXCEPT !.status = status] ELSE candidates[c]
        BY <1>1, <1>3
    <2> QED
        BY <1>1, <2>1, <2>2
<1>4. ASSUME NEW t \in Tab, EditStep(t)
      PROVE  candidates'[c] \in {candidates[c], NoCandidate}
    BY <1>2, <1>4 DEF EditStep, Connect, Disconnect, CreateRule, UpdateRule, RemoveRule
<1>5. ASSUME NEW t \in Tab, PageStep(t)
      PROVE  candidates'[c] = candidates[c] \/ candidates'[c].status \in {"APPROVED", "EXCLUDED"}
    <2>1. ASSUME NEW d \in CandidateId, Exclude(t, d)
          PROVE  candidates'[c] = candidates[c]
                 \/ candidates'[c].status \in {"APPROVED", "EXCLUDED"}
        BY <1>3, <2>1 DEF Exclude
    <2> QED
        BY <1>5, <2>1 DEF PageStep, LoadCandidates, Approve, Scan, StartScan, tables
<1>6. ASSUME NEW j \in Job, ScanAll(j) \/ JobStep(j)
      PROVE  \/ candidates'[c] = candidates[c]
             \/ candidates[c] = NoCandidate
             \/ candidates'[c].status \in {"APPROVED", "EXCLUDED"}
    <2>1. ASSUME NEW d \in CandidateId, InsertCandidate(j, d)
          PROVE  candidates'[c] = candidates[c] \/ candidates[c] = NoCandidate
        BY <1>1, <2>1 DEF InsertCandidate, AlreadyThere
    <2>2. CASE MarkApproved(j)
        <3>1. jobs[j].candidate \in CandidateId
            BY <2>2 DEF MarkApproved, MailInv, JobsOK, JobOK
        <3> QED
            BY <1>3, <2>2, <3>1 DEF MarkApproved
    <2> QED
        BY <1>6, <2>1, <2>2
        DEF ScanAll, StartScan, JobStep, ReadRules, EndScan, Authorize, RefreshToken,
            ListMessages, ApplyAction, tables
<1>7. CASE WorldStep \/ UNCHANGED mailVars
    BY <1>7 DEF WorldStep, MailArrives, MailAges, TokenEnds, JobFails, Restart, mailVars, tables
<1> QED
    BY <1>4, <1>5, <1>6, <1>7 DEF MailNext

(* No scan puts a candidate back under review that the user has decided    *)
(* on: the insert of a scan leaves a row that is there alone, whatever     *)
(* came between its list and its insert (candidates.service.ts,            *)
(* scanAccounts).                                                          *)
THEOREM DecisionsAreKept == MailSpec => DecisionsSurviveRescan
<1> DEFINE Kept == \A c \in CandidateId :
                       candidates[c].status \in {"APPROVED", "EXCLUDED"} =>
                           candidates'[c].status # "PENDING"
<1>1. MailInv /\ [MailNext]_mailVars => Kept
    BY CandidateWrites DEF NoCandidate
<1>2. MailInv /\ [MailNext]_mailVars => [Kept]_mailVars
    BY <1>1
<1> QED
    BY MailInvInit, MailInvNext, <1>2, PTL DEF MailSpec, DecisionsSurviveRescan

-----------------------------------------------------------------------------
(* What an approval has done to the mailbox *)

Moved(job) == job.action = "important" \/ LabelOf(job.action) \in labels[job.candidate[2]]

MarksMoved == \A j \in Job : jobs[j].pc = "mark" => Moved(jobs[j])

(* Nothing in the system takes a label away. *)
LEMMA LabelsStay ==
    ASSUME MailInv, [MailNext]_mailVars, NEW m \in Message
    PROVE  labels[m] \subseteq labels'[m]
<1>1. ASSUME NEW j \in Job, ApplyAction(j)
      PROVE  labels[m] \subseteq labels'[m]
    BY <1>1 DEF ApplyAction, MailInv, WorldOK
<1>2. UNCHANGED labels \/ \E j \in Job : ApplyAction(j)
    BY DEF MailNext, EditStep, Connect, Disconnect, CreateRule, UpdateRule, RemoveRule,
        PageStep, LoadCandidates, Exclude, Approve, Scan, ScanAll, StartScan, JobStep, ReadRules,
        EndScan, Authorize, RefreshToken, ListMessages, InsertCandidate, MarkApproved,
        WorldStep, MailArrives, MailAges, TokenEnds, JobFails, Restart, mailVars, gmail
<1> QED
    BY <1>1, <1>2

(* What a job is replaced by. *)
LEMMA NextPoints ==
    ASSUME NEW job \in JobState
    PROVE  /\ AfterAccount(job).pc = "next"
           /\ Failed(job).pc \in {"next", "idle"}
           /\ Authorized(job).pc \in {"list", "apply"}
           /\ \A work : WithWork(job, work).pc \in {"next", "insert"}
<1>1. AfterAccount(job).pc = "next"
    BY DEF AfterAccount, IdleJob
<1>2. Failed(job).pc \in {"next", "idle"}
    BY <1>1 DEF Failed, IdleJob
<1>3. Authorized(job).pc \in {"list", "apply"}
    BY DEF Authorized, JobState
<1>4. ASSUME NEW work PROVE WithWork(job, work).pc \in {"next", "insert"}
    <2>1. [job EXCEPT !.pc = "insert", !.work = work].pc = "insert"
        BY DEF JobState
    <2> QED
        BY <1>1, <2>1 DEF WithWork
<1> QED
    BY <1>1, <1>2, <1>3, <1>4

(* A job comes to the mark from a move, or with nothing to move. *)
LEMMA MarkPoints ==
    ASSUME MailInv, [MailNext]_mailVars, NEW i \in Job, jobs'[i].pc = "mark"
    PROVE  \/ jobs'[i] = jobs[i]
           \/ jobs'[i].action = "important"
           \/ ApplyAction(i)
<1>1. jobs \in [Job -> JobState]
    BY DEF MailInv, JobsOK
<1>2. ASSUME NEW j \in Job, NEW q, jobs' = [jobs EXCEPT ![j] = q], q.pc # "mark"
      PROVE  jobs'[i] = jobs[i]
    BY <1>1, <1>2
<1>3. IdleJob.pc = "idle"
    BY DEF IdleJob
<1>4. ASSUME NEW j \in Job, NEW accounts, StartScan(j, accounts)
      PROVE  jobs'[i] = jobs[i]
    <2>1. [IdleJob EXCEPT !.pc = "next", !.scanning = TRUE, !.todo = accounts].pc = "next"
        BY DEF IdleJob
    <2> QED
        BY <1>2, <1>4, <2>1 DEF StartScan
<1>5. ASSUME NEW t \in Tab, EditStep(t) \/ PageStep(t)
      PROVE  jobs'[i] = jobs[i] \/ jobs'[i].action = "important"
    <2>1. ASSUME NEW j \in Job, NEW c \in CandidateId, Approve(j, t, c)
          PROVE  jobs'[i] = jobs[i] \/ jobs'[i].action = "important"
        <3> DEFINE action == rules[c[1]].body.actionType
                   q == [IdleJob EXCEPT !.pc = IF action = "important" THEN "mark" ELSE "auth",
                             !.account = candidates[c].account, !.tab = t,
                             !.candidate = c, !.action = action]
        <3>1. q.pc = (IF action = "important" THEN "mark" ELSE "auth") /\ q.action = action
            BY DEF IdleJob
        <3>2. jobs' = [jobs EXCEPT ![j] = q]
            BY <2>1 DEF Approve
        <3> HIDE DEF q, action
        <3> QED
            BY <1>1, <3>1, <3>2
    <2>2. ASSUME NEW j \in Job, Scan(j, t)
          PROVE  jobs'[i] = jobs[i]
        BY <1>4, <2>2 DEF Scan
    <2> QED
        BY <1>5, <2>1, <2>2
        DEF EditStep, Connect, Disconnect, CreateRule, UpdateRule, RemoveRule, PageStep,
            LoadCandidates, Exclude
<1>6. ASSUME NEW j \in Job, ScanAll(j) \/ JobStep(j)
      PROVE  jobs'[i] = jobs[i] \/ ApplyAction(i)
    <2>1. jobs[j] \in JobState
        BY <1>1
    <2>2. CASE ScanAll(j)
        BY <1>4, <2>2 DEF ScanAll
    <2>3. ASSUME NEW a \in EmailAccount, ReadRules(j, a)
          PROVE  jobs'[i] = jobs[i]
        <3> DEFINE job == [jobs[j] EXCEPT !.account = a]
                   q == [job EXCEPT !.pc = "auth", !.rules = ActiveRulesOf(a)]
        <3>1. job \in JobState /\ q.pc = "auth"
            BY <2>1 DEF JobState
        <3>2. jobs' = [jobs EXCEPT ![j] =
                           IF ActiveRulesOf(a) = NoRules THEN AfterAccount(job) ELSE q]
            BY <2>3 DEF ReadRules
        <3> HIDE DEF job, q
        <3> QED
            BY <1>2, <3>1, <3>2, NextPoints
    <2>4. CASE EndScan(j)
        BY <1>2, <1>3, <2>4 DEF EndScan
    <2>5. CASE Authorize(j)
        <3> DEFINE account == emailAccounts[jobs[j].account]
                   job == [jobs[j] EXCEPT !.mailbox = account.mailbox]
        <3>1. account.mailbox \in Mailbox \cup {None} /\ account.token \in {"live", "expired", "revoked"}
            <4>1. jobs[j].account \in EmailAccount
                BY <2>5 DEF Authorize, MailInv, JobsOK, JobOK
            <4> QED
                BY <4>1 DEF MailInv, TablesOK, AccountsOK, EmailAccountRow, NoEmailAccount
        <3>2. job \in JobState /\ [job EXCEPT !.pc = "refresh"].pc = "refresh"
            BY <2>1, <3>1 DEF JobState
        <3>3. \/ jobs' = [jobs EXCEPT ![j] = Authorized(job)]
              \/ jobs' = [jobs EXCEPT ![j] = [job EXCEPT !.pc = "refresh"]]
              \/ jobs' = [jobs EXCEPT ![j] = Failed(job)]
            BY <2>5, <3>1 DEF Authorize
        <3> HIDE DEF job
        <3> QED
            BY <1>2, <3>2, <3>3, NextPoints
    <2>6. CASE RefreshToken(j)
        BY <1>2, <2>1, <2>6, NextPoints DEF RefreshToken
    <2>7. CASE ListMessages(j)
        BY <1>2, <2>1, <2>7, NextPoints DEF ListMessages
    <2>8. ASSUME NEW c \in CandidateId, InsertCandidate(j, c)
          PROVE  jobs'[i] = jobs[i]
        BY <1>2, <2>1, <2>8, NextPoints DEF InsertCandidate
    <2>9. CASE ApplyAction(j)
        BY <1>1, <2>9 DEF ApplyAction
    <2>10. CASE MarkApproved(j)
        BY <1>2, <1>3, <2>10 DEF MarkApproved
    <2> QED
        BY <1>6, <2>2, <2>3, <2>4, <2>5, <2>6, <2>7, <2>8, <2>9, <2>10 DEF JobStep
<1>7. ASSUME NEW j \in Job, JobFails(j)
      PROVE  jobs'[i] = jobs[i]
    <2>1. jobs[j] \in JobState
        BY <1>1
    <2>2. ASSUME NEW a \in jobs[j].todo
          PROVE  [jobs[j] EXCEPT !.account = a] \in JobState
        BY <2>1, <2>2 DEF JobState
    <2> QED
        BY <1>2, <1>7, <2>1, <2>2, NextPoints DEF JobFails
<1>8. CASE WorldStep \/ UNCHANGED mailVars
    BY <1>3, <1>7, <1>8 DEF WorldStep, MailArrives, MailAges, TokenEnds, Restart, mailVars
<1> QED
    BY <1>5, <1>6, <1>8 DEF MailNext

LEMMA MarksMovedNext ==
    ASSUME MailInv, MarksMoved, [MailNext]_mailVars
    PROVE  MarksMoved'
<1> SUFFICES ASSUME NEW j \in Job, jobs'[j].pc = "mark", jobs'[j].action # "important"
             PROVE  LabelOf(jobs'[j].action) \in labels'[jobs'[j].candidate[2]]
    BY DEF MarksMoved, Moved
<1>1. \/ jobs'[j] = jobs[j]
      \/ ApplyAction(j)
    BY MarkPoints
<1>2. jobs[j] \in JobState /\ JobOK(jobs[j])
    BY DEF MailInv, JobsOK
<1>3. CASE jobs'[j] = jobs[j]
    <2>1. jobs[j].candidate[2] \in Message
        BY <1>2, <1>3 DEF JobOK, CandidateId
    <2> QED
        BY <1>3, <2>1, LabelsStay DEF MarksMoved, Moved
<1>4. CASE ApplyAction(j)
    <2>1. jobs[j].pc = "apply" /\ jobs[j].candidate[2] \in Message
        BY <1>2, <1>4 DEF ApplyAction, JobOK, CandidateId
    <2>2. jobs'[j] = [jobs[j] EXCEPT !.pc = "mark"]
        BY <1>4 DEF ApplyAction, MailInv, JobsOK
    <2>3. jobs'[j].action = jobs[j].action /\ jobs'[j].candidate = jobs[j].candidate
        BY <1>2, <2>2 DEF JobState
    <2>4. LabelOf(jobs[j].action) \in labels'[jobs[j].candidate[2]]
        BY <1>4, <2>1 DEF ApplyAction, MailInv, WorldOK
    <2> QED
        BY <2>3, <2>4
<1> QED
    BY <1>1, <1>3, <1>4

(* When a candidate becomes approved the message has the label its rule    *)
(* demanded when the approval began, whatever else has gone on in the      *)
(* mailbox and the tables since (candidates.service.ts, approve).          *)
THEOREM ApprovalsMoveMail == MailSpec => ApprovedMeansMoved
<1> DEFINE Step == \A j \in Job :
                       /\ jobs[j].pc = "mark"
                       /\ candidates'[jobs[j].candidate].status = "APPROVED"
                       /\ candidates'[jobs[j].candidate] # candidates[jobs[j].candidate]
                       => \/ jobs[j].action = "important"
                          \/ LabelOf(jobs[j].action) \in labels[jobs[j].candidate[2]]
<1>1. MailInit => MarksMoved
    BY DEF MailInit, MarksMoved, IdleJob
<1>2. MailInv /\ MarksMoved /\ [MailNext]_mailVars => MarksMoved'
    BY MarksMovedNext
<1>3. MailInv /\ MarksMoved => [Step]_mailVars
    BY DEF MarksMoved, Moved
<1> QED
    BY MailInvInit, MailInvNext, <1>1, <1>2, <1>3, PTL DEF MailSpec, ApprovedMeansMoved

=============================================================================
