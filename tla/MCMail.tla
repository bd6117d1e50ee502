-------------------------------- MODULE MCMail --------------------------------
(***************************************************************************)
(* Instances of MailReview for TLC: one or two accounts of a user, rules   *)
(* that overlap on the same message.                                       *)
(***************************************************************************)
EXTENDS MailProperties, TLC

CONSTANTS u1, t1, t2, x1, x2, e1, e2, sale, shop

OneTab == t1 :> u1
TwoTabs == t1 :> u1 @@ t2 :> u1

OneInbox == e1 :> x1
TwoInboxes == e1 :> x1 @@ e2 :> x2

(* An advertisement with a picture, and a plain message of the same shop. *)
Advertisement ==
    [sender |-> {shop}, subject |-> {sale}, bodyPreview |-> {}, emojiIn |-> {"subject"},
     hasAttachment |-> FALSE]
Receipt ==
    [sender |-> {shop}, subject |-> {}, bodyPreview |-> {sale}, emojiIn |-> {},
     hasAttachment |-> FALSE]

OneMail == e1 :> Advertisement
TwoMails == e1 :> Advertisement @@ e2 :> Receipt

FromShop ==
    [conditionType |-> "sender", domain |-> shop, contains |-> None, equals |-> TRUE]
OnSale ==
    [conditionType |-> "subject_keyword", domain |-> None, contains |-> sale, equals |-> TRUE]
Attached ==
    [conditionType |-> "has_attachment", domain |-> None, contains |-> None, equals |-> TRUE]

DeleteSales ==
    [logicalOperator |-> "AND", actionType |-> "delete_candidate", conditions |-> {FromShop, OnSale}]
KeepShop ==
    [logicalOperator |-> "OR", actionType |-> "important", conditions |-> {FromShop, Attached}]
SpamShop ==
    [logicalOperator |-> "AND", actionType |-> "spam_candidate", conditions |-> {FromShop}]

Overlapping == {DeleteSales, KeepShop}
SalesOnly == {DeleteSales}
AnyShop == {SpamShop}

AllOps == OpNames
DecideOps == {"connect", "createRule", "scan", "approve", "exclude"}
KeepRules == OpNames \ {"updateRule", "removeRule", "disconnect"}

MailSymmetry ==
    Permutations(EmailAccount) \cup Permutations(Rule) \cup Permutations(Job) \cup Permutations(Tab)

=============================================================================
