SPECIFICATION MailSpec
CONSTANTS
    None = None
    u1 = u1
    t1 = t1
    t2 = t2
    x1 = x1
    x2 = x2
    e1 = e1
    e2 = e2
    sale = sale
    shop = shop
    Word = {sale, shop}
    User = {u1}
    Mailbox = {x1}
    Message = {e1}
    EmailAccount = {a1}
    Rule = {r1}
    Job = {j1}
    Tab = {t1}
    TabUser <- OneTab
    Inbox <- OneInbox
    Mail <- OneMail
    RuleBody <- SalesOnly
    MaxResults = 50
    Ops <- DecideOps
    Events = {}
SYMMETRY MailSymmetry
PROPERTIES DecisionIsFinal
