------------------------------- MODULE RuleForm -------------------------------
(***************************************************************************)
(* The page of the mail rules (mail/rules/page.tsx) with its two forms,    *)
(* the one that adds a rule and the one that edits one, over the rules     *)
(* table and rules.service.ts.  The server takes any list of conditions:   *)
(* that a rule has one to MaxConditions of them is left to the forms.      *)
(*                                                                         *)
(* The action and the operator of a rule, which no property tells apart,   *)
(* are left out.  The list of rules is read when a form opens for one.     *)
(***************************************************************************)
EXTENDS MailRules, SequencesExt

CONSTANTS
    RuleId,         \* ids of the rules of one Gmail account, never used twice
    Save,           \* submits in flight
    Text,           \* what the user types, Blank or a word
    Types,          \* the condition types the user chooses
    MaxConditions   \* 5 in the code

ASSUME RuleFormAssumption ==
    /\ MaxConditions \in Nat \ {0}
    /\ Text \subseteq Word \cup {Blank}
    /\ Types \subseteq ConditionTypes
    /\ None \notin RuleId

VARIABLES
    stored,  \* rule id -> its conditions, NoRule without a row
    used,    \* rule ids that have been handed out
    forms,   \* the conditions in each form
    editing, \* editingRuleId
    saves    \* the submits in flight

formVars == <<stored, used, forms, editing, saves>>

NoRule == None
FormName == {"new", "edit"}

(* A condition as a form holds it.  One that was loaded has the ruleId the *)
(* API returned with it.                                                   *)
FormCondition == [condition: Condition, ruleId: BOOLEAN]

(* { conditionType, conditionValue: {} }; no equals counts as true. *)
EmptyCondition(type) ==
    [conditionType |-> type, domain |-> None, contains |-> None, equals |-> TRUE]
DefaultConditions == << [condition |-> EmptyCondition("sender"), ruleId |-> FALSE] >>

(* mounted: the form that sent it is still on the page. *)
SaveState ==
    [form: FormName, rule: RuleId \cup {None}, conditions: Seq(FormCondition),
     mounted: BOOLEAN, answer: {"none", "saved", "refused"}]
NoSave ==
    [form |-> "new", rule |-> None, conditions |-> << >>, mounted |-> FALSE, answer |-> "none"]

Pending(w) == saves[w] # NoSave

FormInit ==
    /\ stored = [r \in RuleId |-> NoRule]
    /\ used = {}
    /\ forms = [f \in FormName |-> DefaultConditions]
    /\ editing = None
    /\ saves = [w \in Save |-> NoSave]

-----------------------------------------------------------------------------
(* What the user does in a form *)

(* The edit form is there while a rule is edited. *)
Shown(f) == f = "new" \/ editing # None

SetConditions(f, conditions) ==
    /\ Shown(f)
    /\ forms' = [forms EXCEPT ![f] = conditions]
    /\ UNCHANGED <<stored, used, editing, saves>>

AddCondition(f) ==
    /\ Len(forms[f]) < MaxConditions
    /\ SetConditions(f, forms[f] \o DefaultConditions)

RemoveCondition(f, n) ==
    /\ Len(forms[f]) > 1
    /\ SetConditions(f, RemoveAt(forms[f], n))

(* Faulty variant: the value of the old type is kept. *)
RetypedKeeping(c, type) == [c EXCEPT !.condition.conditionType = type]

(* The patch replaces type and value, a ruleId stays. *)
Retyped(c, type) == [c EXCEPT !.condition = EmptyCondition(type)]

ChooseType(f, n, type) ==
    /\ type # forms[f][n].condition.conditionType
    /\ SetConditions(f, ReplaceAt(forms[f], n, Retyped(forms[f][n], type)))

(* The input of a sender sets domain, the one of a keyword sets contains. *)
Typed(c, text) ==
    LET type == c.condition.conditionType IN
        [c EXCEPT !.condition =
            IF type = "sender" THEN [EmptyCondition(type) EXCEPT !.domain = text]
                               ELSE [EmptyCondition(type) EXCEPT !.contains = text]]

TypeText(f, n, text) ==
    /\ forms[f][n].condition.conditionType \in {"sender", "subject_keyword", "body_keyword"}
    /\ SetConditions(f, ReplaceAt(forms[f], n, Typed(forms[f][n], text)))

(* The edit form goes, with it what its submits still had to tell it. *)
Unmounted == [w \in Save |->
    IF saves[w].form = "edit" THEN [saves[w] EXCEPT !.mounted = FALSE] ELSE saves[w]]

(* A rule of the list, with the conditions as the API returns them. *)
OpenEdit(r) ==
    /\ stored[r] # NoRule
    /\ editing # r
    /\ editing' = r
    /\ forms' = [forms EXCEPT !["edit"] =
           [n \in DOMAIN stored[r] |-> [condition |-> stored[r][n], ruleId |-> TRUE]]]
    /\ saves' = Unmounted
    /\ UNCHANGED <<stored, used>>

CancelEdit ==
    /\ editing # None
    /\ editing' = None
    /\ forms' = [forms EXCEPT !["edit"] = DefaultConditions]
    /\ saves' = Unmounted
    /\ UNCHANGED <<stored, used>>

(* The button is disabled while the form's own submit is on its way. *)
Submit(f, w) ==
    /\ Shown(f)
    /\ ~Pending(w)
    /\ \A v \in Save : ~(Pending(v) /\ saves[v].form = f /\ saves[v].mounted)
    /\ saves' = [saves EXCEPT ![w] =
           [form |-> f, rule |-> IF f = "edit" THEN editing ELSE None,
            conditions |-> forms[f], mounted |-> TRUE, answer |-> "none"]]
    /\ UNCHANGED <<stored, used, forms, editing>>

-----------------------------------------------------------------------------
(* What the server does with a submit *)

Answered(w, answer) ==
    saves' = [saves EXCEPT ![w].answer = answer, ![w].conditions = << >>]

Sent(w) == [n \in DOMAIN saves[w].conditions |-> saves[w].conditions[n].condition]

(* Prisma refuses a nested create with a ruleId: the parent sets it. *)
PrismaAccepts(conditions) == \A n \in DOMAIN conditions : ~conditions[n].ruleId

CreateRule(w, r) ==
    /\ Pending(w) /\ saves[w].form = "new" /\ saves[w].answer = "none"
    /\ r \notin used
    /\ PrismaAccepts(saves[w].conditions)
    /\ stored' = [stored EXCEPT ![r] = Sent(w)]
    /\ used' = used \cup {r}
    /\ Answered(w, "saved")
    /\ UNCHANGED <<forms, editing>>

(* One transaction: the old conditions are deleted, the new ones created. *)
UpdateRule(w) ==
    /\ Pending(w) /\ saves[w].form = "edit" /\ saves[w].answer = "none"
    /\ stored[saves[w].rule] # NoRule
    /\ PrismaAccepts(saves[w].conditions)
    /\ stored' = [stored EXCEPT ![saves[w].rule] = Sent(w)]
    /\ Answered(w, "saved")
    /\ UNCHANGED <<used, forms, editing>>

(* Faulty variant: no transaction, the old conditions are gone. *)
HalfDone(w) == IF saves[w].rule = None THEN stored ELSE [stored EXCEPT ![saves[w].rule] = << >>]

(* Everything is rolled back. *)
RolledBack(w) == stored

(* The rule is gone, or Prisma refuses its conditions. *)
RefuseSave(w) ==
    /\ Pending(w) /\ saves[w].answer = "none"
    /\ \/ ~PrismaAccepts(saves[w].conditions)
       \/ saves[w].form = "edit" /\ stored[saves[w].rule] = NoRule
    /\ stored' = RolledBack(w)
    /\ Answered(w, "refused")
    /\ UNCHANGED <<used, forms, editing>>

(* A new rule's form starts over, whatever was typed meanwhile; a saved    *)
(* edit closes the edit form, whichever rule it is open for by now.        *)
ReceiveAnswer(w) ==
    /\ saves[w].answer # "none"
    /\ IF saves[w].answer = "refused" THEN UNCHANGED <<forms, editing>>
       ELSE /\ forms' = [forms EXCEPT ![saves[w].form] = DefaultConditions]
            /\ editing' = IF saves[w].form = "edit" THEN None ELSE editing
    /\ saves' = [IF saves[w].answer = "saved" /\ saves[w].form = "edit"
                 THEN Unmounted ELSE saves EXCEPT ![w] = NoSave]
    /\ UNCHANGED <<stored, used>>

(* Here or in another tab; conditions go with the rule. *)
DeleteRule(r) ==
    /\ stored[r] # NoRule
    /\ stored' = [stored EXCEPT ![r] = NoRule]
    /\ UNCHANGED <<used, forms, editing, saves>>

-----------------------------------------------------------------------------

Edit(f) ==
    \/ AddCondition(f)
    \/ \E n \in DOMAIN forms[f] :
        \/ RemoveCondition(f, n)
        \/ \E type \in Types : ChooseType(f, n, type)
        \/ \E text \in Text : TypeText(f, n, text)
    \/ \E w \in Save : Submit(f, w)

FormNext ==
    \/ \E f \in FormName : Edit(f)
    \/ \E r \in RuleId : OpenEdit(r) \/ DeleteRule(r)
    \/ CancelEdit
    \/ \E w \in Save :
        \/ \E r \in RuleId : CreateRule(w, r)
        \/ UpdateRule(w)
        \/ RefuseSave(w)
        \/ ReceiveAnswer(w)

FormSpec == FormInit /\ [][FormNext]_formVars

-----------------------------------------------------------------------------

(* What the page writes of a condition after its label (conditionSummary): *)
(* a word, or None for yes and no.                                         *)
Summary(c) == IF c.domain # None THEN c.domain ELSE c.contains

(* The word the matcher looks for, None where it does not look for one. *)
MatchedWord(c) ==
    IF c.conditionType = "sender" THEN Needle(c)
    ELSE IF c.conditionType \in {"subject_keyword", "body_keyword"} THEN c.contains ELSE None

FormTypeOK ==
    /\ stored \in [RuleId -> Seq(Condition) \cup {NoRule}]
    /\ used \subseteq RuleId
    /\ forms \in [FormName -> Seq(FormCondition)]
    /\ editing \in RuleId \cup {None}
    /\ saves \in [Save -> SaveState]

(* Every rule has one to MaxConditions conditions, though only the forms   *)
(* count them: an edit that is refused half-way, or that meets another     *)
(* one, leaves no rule without conditions, which would select nothing and  *)
(* whose edit form would be empty (rules.service.ts, create and update;    *)
(* page.tsx, addCondition and removeCondition).                            *)
RulesHaveConditions ==
    \A r \in RuleId : stored[r] # NoRule => Len(stored[r]) \in 1..MaxConditions

(* The list names, for each condition, the word the matcher goes by: no    *)
(* sequence of typing and choosing types leaves a word in a rule that is   *)
(* shown and not looked for, or the other way round (page.tsx,             *)
(* conditionSummary; rule-matcher.util.ts, evaluateCondition).             *)
SummaryTellsWhatMatches ==
    \A r \in RuleId : stored[r] # NoRule =>
        \A n \in DOMAIN stored[r] : Summary(stored[r][n]) = MatchedWord(stored[r][n])

(* A rule that exists can be edited on this page: the screen registers,    *)
(* edits and deletes rules (page.tsx, handleSubmit; rules.service.ts,      *)
(* update).                                                                *)
EditIsSaved ==
    \A w \in Save : saves[w].answer = "refused" => stored[saves[w].rule] = NoRule

=============================================================================
