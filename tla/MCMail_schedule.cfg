SPECIFICATION FairMailSpec
CONSTANTS
    None = None
    u1 = u1
    t1 = t1
    t2 = t2
    x1 = x1
    x2 = x2
    e1 = e1
    e2 = e2
    sale = sale
    shop = shop
    Word = {sale, shop}
    User = {u1}
    Mailbox = {x1, x2}
    Message = {e1, e2}
    EmailAccount = {a1, a2}
    Rule = {r1, r2}
    Job = {j1}
    Tab = {t1}
    TabUser <- OneTab
    Inbox <- TwoInboxes
    Mail <- TwoMails
    RuleBody <- AnyShop
    MaxResults = 50
    Ops <- KeepRules
    Events = {"cron", "expiry", "revocation", "ageing"}
INVARIANTS CandidatesBelong
PROPERTIES ScheduledScanFindsMatches
