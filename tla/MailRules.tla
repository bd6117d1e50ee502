------------------------------- MODULE MailRules -------------------------------
(***************************************************************************)
(* The rule matcher (rule-matcher.util.ts): which messages a mail rule     *)
(* selects.  A text is the set of words it includes, both sides of the     *)
(* comparison being in lower case.                                         *)
(***************************************************************************)
CONSTANTS
    Word,  \* non-empty search words
    None   \* a value that is not in the JSON of a condition

Blank == ""  \* the empty search word, which selects nothing

(* What the provider returns of a message, as far as conditions look at it. *)
RawMailMessage ==
    [sender: SUBSET Word, subject: SUBSET Word, bodyPreview: SUBSET Word,
     emojiIn: SUBSET {"subject", "bodyPreview"}, hasAttachment: BOOLEAN]

ConditionTypes ==
    {"sender", "subject_keyword", "body_keyword", "has_emoji", "has_attachment"}

(* equals is FALSE only where the JSON says false. *)
Condition ==
    [conditionType: ConditionTypes, domain: Word \cup {Blank, None},
     contains: Word \cup {Blank, None}, equals: BOOLEAN]

Found(needle, text) == needle \in text

(* value.domain ?? value.contains: a blank domain hides contains. *)
Needle(c) == IF c.domain # None THEN c.domain ELSE c.contains

EvaluateCondition(message, c) ==
    \/ c.conditionType = "sender" /\ Found(Needle(c), message.sender)
    \/ c.conditionType = "subject_keyword" /\ Found(c.contains, message.subject)
    \/ c.conditionType = "body_keyword" /\ Found(c.contains, message.bodyPreview)
    \/ c.conditionType = "has_emoji" /\ (message.emojiIn # {}) = c.equals
    \/ c.conditionType = "has_attachment" /\ message.hasAttachment = c.equals

MessageMatchesRule(message, rule) ==
    LET holding == {c \in rule.conditions : EvaluateCondition(message, c)} IN
        /\ rule.conditions # {}
        /\ IF rule.logicalOperator = "OR" THEN holding # {} ELSE holding = rule.conditions

=============================================================================
