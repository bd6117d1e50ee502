SPECIFICATION MailSpec
CONSTANTS
    None = None
    u1 = u1
    t1 = t1
    t2 = t2
    x1 = x1
    x2 = x2
    e1 = e1
    e2 = e2
    sale = sale
    shop = shop
    Word = {sale, shop}
    User = {u1}
    Mailbox = {x1}
    Message = {e1}
    EmailAccount = {a1, a2}
    Rule = {r1}
    Job = {j1, j2}
    Tab = {t1, t2}
    TabUser <- TwoTabs
    Inbox <- OneInbox
    Mail <- OneMail
    RuleBody <- Overlapping
    MaxResults = 50
    Ops <- AllOps
    Events = {"cron", "expiry", "fault", "restart"}
SYMMETRY MailSymmetry
INVARIANTS MailTypeOK CandidatesBelong
PROPERTIES DecisionsSurviveRescan ApprovedMeansMoved
