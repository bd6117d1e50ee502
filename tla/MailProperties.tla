----------------------------- MODULE MailProperties -----------------------------
(***************************************************************************)
(* What scans, reviews and rules have to guarantee, over the state of      *)
(* MailReview.                                                             *)
(***************************************************************************)
EXTENDS MailReview

Recorded(c) == candidates[c] # NoCandidate

(* Every candidate belongs to a rule that exists, of the account it names  *)
(* itself, and is a message of that account's mailbox: no scan under way   *)
(* brings one back after its rule or account has been removed              *)
(* (candidates.service.ts, scanAccounts; schema.prisma, EmailCandidate).   *)
CandidatesBelong ==
    \A c \in CandidateId : Recorded(c) =>
        /\ rules[c[1]] # NoRule
        /\ rules[c[1]].account = candidates[c].account
        /\ emailAccounts[candidates[c].account].mailbox = Inbox[c[2]]

(* A candidate the user has decided on is not put up for review again, by  *)
(* whatever scans find the message once more (candidates.service.ts,       *)
(* scanAccounts: the unique constraint makes a rescan skip it).            *)
DecisionsSurviveRescan ==
    [][\A c \in CandidateId :
           candidates[c].status \in {"APPROVED", "EXCLUDED"} =>
               candidates'[c].status # "PENDING"]_mailVars

(* A candidate is marked as approved only when the mailbox has been        *)
(* changed as its rule demanded (candidates.service.ts, approve).          *)
ApprovedMeansMoved ==
    [][\A j \in Job :
           /\ jobs[j].pc = "mark"
           /\ candidates'[jobs[j].candidate].status = "APPROVED"
           /\ candidates'[jobs[j].candidate] # candidates[jobs[j].candidate]
           => \/ jobs[j].action = "important"
              \/ LabelOf(jobs[j].action) \in labels[jobs[j].candidate[2]]]_mailVars

(* A rule that stays switched on, of an account that stays connected, gets *)
(* its candidate for every matching message that stays in the inbox,       *)
(* whatever becomes of the other accounts (candidates.service.ts,          *)
(* scanAccounts; scan-scheduler.service.ts).                               *)
Findable(c) ==
    LET rule == rules[c[1]] IN
        /\ rule # NoRule
        /\ rule.isActive
        /\ emailAccounts[rule.account].token # "revoked"
        /\ c[2] \in Listable(emailAccounts[rule.account].mailbox)
        /\ MessageMatchesRule(Mail[c[2]], rule.body)

ScheduledScanFindsMatches ==
    \A c \in CandidateId : []<>(Findable(c) => Recorded(c))

(* A decision is made once: an approved candidate does not become excluded *)
(* and an excluded one does not become approved (candidates.service.ts,    *)
(* approve and exclude; the buttons of review/page.tsx).                   *)
DecisionIsFinal ==
    [][\A c \in CandidateId :
           candidates[c].status \in {"APPROVED", "EXCLUDED"} =>
               candidates'[c].status \in {candidates[c].status, "none"}]_mailVars

=============================================================================
