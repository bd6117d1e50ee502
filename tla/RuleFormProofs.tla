---------------------------- MODULE RuleFormProofs ----------------------------
(***************************************************************************)
(* Whatever the number of rules, submits and conditions, the forms alone   *)
(* see to it that every rule has one to MaxConditions conditions, and that *)
(* the list names the words its conditions are matched by.                 *)
(***************************************************************************)
EXTENDS RuleForm, SequenceTheorems, TLAPS

Counted(conditions) == Len(conditions) \in 1..MaxConditions

(* What a form holds and what is on its way to the server is counted too.  *)
FormsCounted == \A f \in FormName : Counted(forms[f])

SavesCounted ==
    \A w \in Save : Pending(w) /\ saves[w].answer = "none" =>
        /\ Counted(saves[w].conditions)
        /\ saves[w].form = "edit" => saves[w].rule \in RuleId

FormInv == FormTypeOK /\ RulesHaveConditions /\ FormsCounted /\ SavesCounted

-----------------------------------------------------------------------------

(* A function on the indices of a sequence is a sequence of that length.   *)
LEMMA SameIndices ==
    ASSUME NEW S, NEW T, NEW s \in Seq(S), NEW t \in [DOMAIN s -> T]
    PROVE  t \in Seq(T) /\ Len(t) = Len(s)
<1>1. DOMAIN s = 1..Len(s) /\ Len(s) \in Nat
  BY LenProperties
<1>2. t \in Seq(T)
  BY <1>1, SeqDef
<1>3. DOMAIN t = 1..Len(s)
  BY <1>1
<1>. QED  BY <1>1, <1>2, <1>3, LenProperties

LEMMA DefaultIsCounted ==
    /\ DefaultConditions \in Seq(FormCondition)
    /\ Len(DefaultConditions) = 1
    /\ Counted(DefaultConditions)
<1>1. EmptyCondition("sender") \in Condition
  BY DEF EmptyCondition, Condition, ConditionTypes
<1>2. [condition |-> EmptyCondition("sender"), ruleId |-> FALSE] \in FormCondition
  BY <1>1 DEF FormCondition
<1>. QED  BY <1>2, RuleFormAssumption DEF DefaultConditions, Counted

(* Removing one of several leaves at least one and no more than before.    *)
LEMMA RemovalCounts ==
    ASSUME NEW S, NEW s \in Seq(S), NEW n \in DOMAIN s
    PROVE  RemoveAt(s, n) \in Seq(S) /\ Len(RemoveAt(s, n)) = Len(s) - 1
<1>1. Len(s) \in Nat /\ n \in 1..Len(s)
  BY LenProperties
<1>2. \A k \in 1..Len(s) : s[k] \in S
  BY ElementOfSeq
<1>3. SubSeq(s, 1, n - 1) \in Seq(S) /\ Len(SubSeq(s, 1, n - 1)) = n - 1
  <2>1. \A k \in 1..(n - 1) : s[k] \in S
    BY <1>1, <1>2
  <2>2. 1 \in Int /\ n - 1 \in Int
    BY <1>1
  <2>3. /\ SubSeq(s, 1, n - 1) \in Seq(S)
        /\ Len(SubSeq(s, 1, n - 1)) = IF 1 <= n - 1 THEN (n - 1) - 1 + 1 ELSE 0
    BY <2>1, <2>2, SubSeqProperties
  <2>. QED  BY <1>1, <2>3
<1>4. SubSeq(s, n + 1, Len(s)) \in Seq(S) /\ Len(SubSeq(s, n + 1, Len(s))) = Len(s) - n
  <2>1. \A k \in (n + 1)..Len(s) : s[k] \in S
    BY <1>1, <1>2
  <2>2. n + 1 \in Int /\ Len(s) \in Int
    BY <1>1
  <2>3. /\ SubSeq(s, n + 1, Len(s)) \in Seq(S)
        /\ Len(SubSeq(s, n + 1, Len(s)))
             = IF n + 1 <= Len(s) THEN Len(s) - (n + 1) + 1 ELSE 0
    BY <2>1, <2>2, SubSeqProperties
  <2>. QED  BY <1>1, <2>3
<1>5. /\ RemoveAt(s, n) \in Seq(S)
      /\ Len(RemoveAt(s, n)) = Len(SubSeq(s, 1, n - 1)) + Len(SubSeq(s, n + 1, Len(s)))
  BY <1>3, <1>4, ConcatProperties DEF RemoveAt
<1>6. (n - 1) + (Len(s) - n) = Len(s) - 1
  BY <1>1
<1>7. Len(SubSeq(s, 1, n - 1)) + Len(SubSeq(s, n + 1, Len(s))) = (n - 1) + (Len(s) - n)
  BY <1>3, <1>4
<1>. QED  BY <1>5, <1>6, <1>7

LEMMA RetypedTyped ==
    ASSUME NEW c \in FormCondition, NEW type \in Types
    PROVE  Retyped(c, type) \in FormCondition
<1>1. EmptyCondition(type) \in Condition
  BY RuleFormAssumption DEF EmptyCondition, Condition
<1>. QED  BY <1>1 DEF Retyped, FormCondition

LEMMA TypedTyped ==
    ASSUME NEW c \in FormCondition, NEW text \in Text
    PROVE  Typed(c, text) \in FormCondition
<1>. DEFINE type == c.condition.conditionType
<1>1. type \in ConditionTypes /\ text \in Word \cup {Blank}
  BY RuleFormAssumption DEF FormCondition, Condition
<1>2. /\ [EmptyCondition(type) EXCEPT !.domain = text] \in Condition
      /\ [EmptyCondition(type) EXCEPT !.contains = text] \in Condition
  BY <1>1 DEF EmptyCondition, Condition
<1>. QED  BY <1>2 DEF Typed, FormCondition

(* A change of one form that keeps it counted keeps the invariant.         *)
LEMMA SettingKeeps ==
    ASSUME FormInv, NEW f \in FormName, NEW conditions \in Seq(FormCondition),
           Counted(conditions), SetConditions(f, conditions)
    PROVE  FormInv'
<1>1. FormTypeOK' /\ RulesHaveConditions' /\ SavesCounted'
  BY DEF FormInv, FormTypeOK, SetConditions, RulesHaveConditions, SavesCounted, Pending
<1>2. FormsCounted'
  BY DEF FormInv, FormTypeOK, SetConditions, FormsCounted, Counted
<1>. QED  BY <1>1, <1>2 DEF FormInv

(* Unmounting touches neither what is pending nor what it carries.         *)
LEMMA UnmountedSaves ==
    ASSUME FormTypeOK
    PROVE  /\ Unmounted \in [Save -> SaveState]
           /\ \A w \in Save :
                /\ Unmounted[w].form = saves[w].form
                /\ Unmounted[w].rule = saves[w].rule
                /\ Unmounted[w].conditions = saves[w].conditions
                /\ Unmounted[w].answer = saves[w].answer
                /\ Unmounted[w] # NoSave => saves[w] # NoSave
<1>. SUFFICES ASSUME NEW w \in Save
              PROVE  /\ Unmounted[w] \in SaveState
                     /\ Unmounted[w].form = saves[w].form
                     /\ Unmounted[w].rule = saves[w].rule
                     /\ Unmounted[w].conditions = saves[w].conditions
                     /\ Unmounted[w].answer = saves[w].answer
                     /\ Unmounted[w] # NoSave => saves[w] # NoSave
  BY DEF Unmounted
<1>1. saves[w] \in SaveState
  BY DEF FormTypeOK
<1>2. CASE saves[w].form = "edit"
  <2>1. Unmounted[w] = [saves[w] EXCEPT !.mounted = FALSE]
    BY <1>2 DEF Unmounted
  <2>2. saves[w] # NoSave
    BY <1>2 DEF NoSave
  <2>. QED  BY <1>1, <2>1, <2>2 DEF SaveState
<1>3. CASE saves[w].form # "edit"
  <2>1. Unmounted[w] = saves[w]
    BY <1>3 DEF Unmounted
  <2>. QED  BY <1>1, <2>1
<1>. QED  BY <1>2, <1>3

(* The answer of a save changes no other save.                             *)
LEMMA AnsweredSaves ==
    ASSUME FormInv, NEW w \in Save, NEW answer \in {"saved", "refused"}, Answered(w, answer)
    PROVE  saves' \in [Save -> SaveState] /\ SavesCounted'
<1>. DEFINE answered == [saves[w] EXCEPT !.answer = answer, !.conditions = << >>]
<1>1. saves \in [Save -> SaveState] /\ << >> \in Seq(FormCondition)
  BY EmptySeq DEF FormInv, FormTypeOK
<1>2. saves' = [saves EXCEPT ![w] = answered]
  BY <1>1 DEF Answered
<1>3. answered \in SaveState /\ answered.answer # "none"
  BY <1>1 DEF SaveState
<1>4. saves' \in [Save -> SaveState]
  BY <1>1, <1>2, <1>3
<1>5. SavesCounted'
  BY <1>1, <1>2, <1>3 DEF FormInv, SavesCounted, Pending, Counted
<1>. QED  BY <1>4, <1>5

(* What a save sends is as long as what its form held.                     *)
LEMMA SentIsCounted ==
    ASSUME FormInv, NEW w \in Save, Pending(w), saves[w].answer = "none"
    PROVE  Sent(w) \in Seq(Condition) /\ Len(Sent(w)) \in 1..MaxConditions
<1>1. saves[w].conditions \in Seq(FormCondition)
  BY DEF FormInv, FormTypeOK, SaveState
<1>2. Counted(saves[w].conditions)
  BY DEF FormInv, SavesCounted
<1>. DEFINE s == saves[w].conditions
<1>3. \A n \in DOMAIN s : s[n] \in FormCondition
  BY <1>1, ElementOfSeq, LenProperties
<1>4. Sent(w) \in [DOMAIN s -> Condition]
  BY <1>3 DEF Sent, FormCondition
<1>5. Sent(w) \in Seq(Condition) /\ Len(Sent(w)) = Len(s)
  BY <1>1, <1>4, SameIndices
<1>. QED  BY <1>2, <1>5 DEF Counted

-----------------------------------------------------------------------------

LEMMA FormStarts == FormInit => FormInv
<1>. SUFFICES ASSUME FormInit PROVE FormInv
  OBVIOUS
<1>1. FormTypeOK
  BY DefaultIsCounted DEF FormInit, FormTypeOK, SaveState, NoSave, FormName
<1>2. RulesHaveConditions /\ FormsCounted /\ SavesCounted
  BY DefaultIsCounted
     DEF FormInit, RulesHaveConditions, FormsCounted, SavesCounted, Pending
<1>. QED  BY <1>1, <1>2 DEF FormInv

LEMMA EditKeeps ==
    ASSUME FormInv, NEW f \in FormName, Edit(f)
    PROVE  FormInv'
<1>. DEFINE s == forms[f]
<1>0. s \in Seq(FormCondition) /\ Len(s) \in 1..MaxConditions
  BY DEF FormInv, FormTypeOK, FormsCounted, Counted
<1>1. CASE AddCondition(f)
  <2>1. /\ s \o DefaultConditions \in Seq(FormCondition)
        /\ Len(s \o DefaultConditions) = Len(s) + 1
    BY <1>0, DefaultIsCounted, ConcatProperties
  <2>2. Counted(s \o DefaultConditions)
    BY <1>0, <1>1, <2>1, RuleFormAssumption DEF AddCondition, Counted
  <2>. QED  BY <1>1, <2>1, <2>2, SettingKeeps DEF AddCondition
<1>2. ASSUME NEW n \in DOMAIN s, RemoveCondition(f, n) PROVE FormInv'
  <2>1. RemoveAt(s, n) \in Seq(FormCondition) /\ Len(RemoveAt(s, n)) = Len(s) - 1
    BY <1>0, RemovalCounts
  <2>2. Counted(RemoveAt(s, n))
    BY <1>0, <1>2, <2>1, RuleFormAssumption DEF RemoveCondition, Counted
  <2>. QED  BY <1>2, <2>1, <2>2, SettingKeeps DEF RemoveCondition
<1>3. ASSUME NEW n \in DOMAIN s, NEW c \in FormCondition
      PROVE  ReplaceAt(s, n, c) \in Seq(FormCondition) /\ Counted(ReplaceAt(s, n, c))
  BY <1>0 DEF ReplaceAt, Counted
<1>4. ASSUME NEW n \in DOMAIN s, NEW type \in Types, ChooseType(f, n, type) PROVE FormInv'
  <2>1. Retyped(s[n], type) \in FormCondition
    BY <1>0, RetypedTyped
  <2>. QED  BY <1>3, <1>4, <2>1, SettingKeeps DEF ChooseType
<1>5. ASSUME NEW n \in DOMAIN s, NEW text \in Text, TypeText(f, n, text) PROVE FormInv'
  <2>1. Typed(s[n], text) \in FormCondition
    BY <1>0, TypedTyped
  <2>. QED  BY <1>3, <1>5, <2>1, SettingKeeps DEF TypeText
<1>6. ASSUME NEW w \in Save, Submit(f, w) PROVE FormInv'
  <2>1. editing # None => editing \in RuleId
    BY DEF FormInv, FormTypeOK
  <2>2. saves' \in [Save -> SaveState]
    BY <1>0, <1>6, <2>1 DEF Submit, FormInv, FormTypeOK, SaveState
  <2>3. SavesCounted'
    BY <1>0, <1>6, <2>1
       DEF Submit, Shown, FormInv, FormTypeOK, SavesCounted, Pending, Counted, FormName
  <2>4. FormTypeOK' /\ RulesHaveConditions' /\ FormsCounted'
    BY <1>6, <2>2 DEF Submit, FormInv, FormTypeOK, RulesHaveConditions, FormsCounted, Counted
  <2>. QED  BY <2>3, <2>4 DEF FormInv
<1>. QED  BY <1>1, <1>2, <1>4, <1>5, <1>6 DEF Edit

LEMMA FormKeeps == FormInv /\ [FormNext]_formVars => FormInv'
<1>. SUFFICES ASSUME FormInv, [FormNext]_formVars PROVE FormInv'
  OBVIOUS
<1>1. ASSUME NEW f \in FormName, Edit(f) PROVE FormInv'
  BY <1>1, EditKeeps
<1>2. ASSUME NEW r \in RuleId, OpenEdit(r) PROVE FormInv'
  <2>. DEFINE loaded == [n \in DOMAIN stored[r] |-> [condition |-> stored[r][n], ruleId |-> TRUE]]
  <2>1. stored[r] \in Seq(Condition) /\ Len(stored[r]) \in 1..MaxConditions
    BY <1>2 DEF OpenEdit, FormInv, FormTypeOK, RulesHaveConditions
  <2>2. loaded \in Seq(FormCondition) /\ Counted(loaded)
    <3>1. loaded \in [DOMAIN stored[r] -> FormCondition]
      BY <2>1, ElementOfSeq, LenProperties DEF FormCondition
    <3>. HIDE DEF loaded
    <3>2. loaded \in Seq(FormCondition) /\ Len(loaded) = Len(stored[r])
      BY <2>1, <3>1, SameIndices
    <3>. QED  BY <2>1, <3>2 DEF Counted
  <2>3. FormTypeOK'
    BY <1>2, <2>2, UnmountedSaves DEF OpenEdit, FormInv, FormTypeOK
  <2>4. FormsCounted' /\ RulesHaveConditions'
    BY <1>2, <2>2 DEF OpenEdit, FormInv, FormTypeOK, FormsCounted, RulesHaveConditions, Counted
  <2>5. SavesCounted'
    BY <1>2, UnmountedSaves DEF OpenEdit, FormInv, SavesCounted, Pending, Counted
  <2>. QED  BY <2>3, <2>4, <2>5 DEF FormInv
<1>3. ASSUME NEW r \in RuleId, DeleteRule(r) PROVE FormInv'
  BY <1>3 DEF DeleteRule, FormInv, FormTypeOK, RulesHaveConditions, FormsCounted,
              SavesCounted, Pending, Counted
<1>4. CASE CancelEdit
  <2>1. FormTypeOK'
    BY <1>4, DefaultIsCounted, UnmountedSaves DEF CancelEdit, FormInv, FormTypeOK
  <2>2. FormsCounted' /\ RulesHaveConditions'
    BY <1>4, DefaultIsCounted
       DEF CancelEdit, FormInv, FormTypeOK, FormsCounted, RulesHaveConditions, Counted
  <2>3. SavesCounted'
    BY <1>4, UnmountedSaves DEF CancelEdit, FormInv, SavesCounted, Pending, Counted
  <2>. QED  BY <2>1, <2>2, <2>3 DEF FormInv
<1>5. ASSUME NEW w \in Save, NEW r \in RuleId, CreateRule(w, r) PROVE FormInv'
  <2>1. Sent(w) \in Seq(Condition) /\ Len(Sent(w)) \in 1..MaxConditions
    BY <1>5, SentIsCounted DEF CreateRule
  <2>2. saves' \in [Save -> SaveState] /\ SavesCounted'
    BY <1>5, AnsweredSaves DEF CreateRule
  <2>3. FormTypeOK' /\ RulesHaveConditions' /\ FormsCounted'
    BY <1>5, <2>1, <2>2
       DEF CreateRule, FormInv, FormTypeOK, RulesHaveConditions, FormsCounted, Counted
  <2>. QED  BY <2>2, <2>3 DEF FormInv
<1>6. ASSUME NEW w \in Save, UpdateRule(w) PROVE FormInv'
  <2>1. Sent(w) \in Seq(Condition) /\ Len(Sent(w)) \in 1..MaxConditions
    BY <1>6, SentIsCounted DEF UpdateRule
  <2>2. saves' \in [Save -> SaveState] /\ SavesCounted'
    BY <1>6, AnsweredSaves DEF UpdateRule
  <2>3. FormTypeOK' /\ RulesHaveConditions' /\ FormsCounted'
    BY <1>6, <2>1, <2>2
       DEF UpdateRule, FormInv, FormTypeOK, RulesHaveConditions, FormsCounted, Counted
  <2>. QED  BY <2>2, <2>3 DEF FormInv
<1>7. ASSUME NEW w \in Save, RefuseSave(w) PROVE FormInv'
  <2>1. saves' \in [Save -> SaveState] /\ SavesCounted'
    BY <1>7, AnsweredSaves DEF RefuseSave
  <2>2. FormTypeOK' /\ RulesHaveConditions' /\ FormsCounted'
    BY <1>7, <2>1
       DEF RefuseSave, RolledBack, FormInv, FormTypeOK, RulesHaveConditions, FormsCounted, Counted
  <2>. QED  BY <2>1, <2>2 DEF FormInv
<1>8. ASSUME NEW w \in Save, ReceiveAnswer(w) PROVE FormInv'
  <2>. DEFINE left == IF saves[w].answer = "saved" /\ saves[w].form = "edit"
                      THEN Unmounted ELSE saves
  <2>1. /\ left \in [Save -> SaveState]
        /\ saves' = [left EXCEPT ![w] = NoSave]
        /\ \A v \in Save :
            /\ left[v].form = saves[v].form
            /\ left[v].rule = saves[v].rule
            /\ left[v].conditions = saves[v].conditions
            /\ left[v].answer = saves[v].answer
            /\ left[v] # NoSave => saves[v] # NoSave
    BY <1>8, UnmountedSaves DEF ReceiveAnswer, FormInv, FormTypeOK
  <2>2. saves[w].form \in FormName
    BY DEF FormInv, FormTypeOK, SaveState
  <2>3. /\ forms' \in [FormName -> Seq(FormCondition)]
        /\ FormsCounted'
        /\ editing' \in RuleId \cup {None}
    BY <1>8, <2>2, DefaultIsCounted DEF ReceiveAnswer, FormInv, FormTypeOK, FormsCounted, Counted
  <2>4. NoSave \in SaveState
    BY DEF NoSave, SaveState, FormName
  <2>5. FormTypeOK' /\ RulesHaveConditions'
    BY <1>8, <2>1, <2>3, <2>4 DEF ReceiveAnswer, FormInv, FormTypeOK, RulesHaveConditions
  <2>6. SavesCounted'
    <3>. SUFFICES ASSUME NEW v \in Save, saves'[v] # NoSave, saves'[v].answer = "none"
                  PROVE  /\ Counted(saves'[v].conditions)
                         /\ saves'[v].form = "edit" => saves'[v].rule \in RuleId
      BY DEF SavesCounted, Pending, Counted
    <3>1. v # w /\ saves'[v] = left[v]
      BY <2>1
    <3>2. saves[v] # NoSave /\ saves[v].answer = "none"
      BY <2>1, <3>1
    <3>. QED  BY <2>1, <3>1, <3>2 DEF FormInv, SavesCounted, Pending
  <2>. QED  BY <2>3, <2>5, <2>6 DEF FormInv
<1>9. CASE UNCHANGED formVars
  BY <1>9 DEF formVars, FormInv, FormTypeOK, RulesHaveConditions, FormsCounted,
              SavesCounted, Pending, Counted
<1>. QED  BY <1>1, <1>2, <1>3, <1>4, <1>5, <1>6, <1>7, <1>8, <1>9 DEF FormNext

-----------------------------------------------------------------------------

(* Every rule that is stored has one to MaxConditions conditions, whatever *)
(* the server is sent by these forms (rules.service.ts, create and update; *)
(* page.tsx, addCondition and removeCondition).                            *)
THEOREM RulesAreComplete == FormSpec => []RulesHaveConditions
<1>1. FormInv => RulesHaveConditions
  BY DEF FormInv
<1>. QED  BY <1>1, FormStarts, FormKeeps, PTL DEF FormSpec

-----------------------------------------------------------------------------
(* The words of the list *)

(* The conditions whose summary names the word they are matched by.        *)
Told == {c \in Condition : Summary(c) = MatchedWord(c)}
ToldForm == [condition: Told, ruleId: BOOLEAN]

ToldInv ==
    /\ \A r \in RuleId : stored[r] # NoRule => stored[r] \in Seq(Told)
    /\ \A f \in FormName : forms[f] \in Seq(ToldForm)
    /\ \A w \in Save : saves[w].conditions \in Seq(ToldForm)

LEMMA EmptyIsTold ==
    ASSUME NEW type \in ConditionTypes
    PROVE  EmptyCondition(type) \in Told
BY DEF EmptyCondition, Told, Condition, Summary, MatchedWord, Needle

LEMMA DefaultIsTold == DefaultConditions \in Seq(ToldForm)
<1>1. [condition |-> EmptyCondition("sender"), ruleId |-> FALSE] \in ToldForm
  BY EmptyIsTold DEF ToldForm, ConditionTypes
<1>. QED  BY <1>1 DEF DefaultConditions

LEMMA RetypedTold ==
    ASSUME NEW c \in ToldForm, NEW type \in Types
    PROVE  Retyped(c, type) \in ToldForm
<1>1. EmptyCondition(type) \in Told
  BY EmptyIsTold, RuleFormAssumption
<1>. QED  BY <1>1 DEF Retyped, ToldForm

(* There is a field for the text of these types only.                      *)
LEMMA TypedTold ==
    ASSUME NEW c \in ToldForm, NEW text \in Text,
           c.condition.conditionType \in {"sender", "subject_keyword", "body_keyword"}
    PROVE  Typed(c, text) \in ToldForm
<1>. DEFINE type == c.condition.conditionType
            domain == [EmptyCondition(type) EXCEPT !.domain = text]
            contains == [EmptyCondition(type) EXCEPT !.contains = text]
<1>1. type \in ConditionTypes /\ text \in Word \cup {Blank}
  BY RuleFormAssumption DEF ConditionTypes
<1>2. type = "sender" => domain \in Told
  BY <1>1 DEF EmptyCondition, Told, Condition, Summary, MatchedWord, Needle
<1>3. type # "sender" => contains \in Told
  BY <1>1 DEF EmptyCondition, Told, Condition, Summary, MatchedWord, Needle
<1>. QED  BY <1>2, <1>3 DEF Typed, ToldForm

LEMMA SentIsTold ==
    ASSUME ToldInv, NEW w \in Save
    PROVE  Sent(w) \in Seq(Told)
<1>. DEFINE s == saves[w].conditions
<1>1. s \in Seq(ToldForm)
  BY DEF ToldInv
<1>2. \A n \in DOMAIN s : s[n] \in ToldForm
  BY <1>1, ElementOfSeq, LenProperties
<1>3. Sent(w) \in [DOMAIN s -> Told]
  BY <1>2 DEF Sent, ToldForm
<1>. QED  BY <1>1, <1>3, SameIndices

LEMMA SettingTells ==
    ASSUME FormInv, ToldInv, NEW f \in FormName, NEW conditions \in Seq(ToldForm),
           SetConditions(f, conditions)
    PROVE  ToldInv'
BY DEF FormInv, FormTypeOK, ToldInv, SetConditions

LEMMA EditTells ==
    ASSUME FormInv, ToldInv, NEW f \in FormName, Edit(f)
    PROVE  ToldInv'
<1>. DEFINE s == forms[f]
<1>0. s \in Seq(ToldForm) /\ \A n \in DOMAIN s : s[n] \in ToldForm
  BY ElementOfSeq, LenProperties DEF ToldInv
<1>1. CASE AddCondition(f)
  BY <1>0, <1>1, DefaultIsTold, ConcatProperties, SettingTells DEF AddCondition
<1>2. ASSUME NEW n \in DOMAIN s, RemoveCondition(f, n) PROVE ToldInv'
  BY <1>0, <1>2, RemovalCounts, SettingTells DEF RemoveCondition
<1>3. ASSUME NEW n \in DOMAIN s, NEW c \in ToldForm
      PROVE  ReplaceAt(s, n, c) \in Seq(ToldForm)
  BY <1>0 DEF ReplaceAt
<1>4. ASSUME NEW n \in DOMAIN s, NEW type \in Types, ChooseType(f, n, type) PROVE ToldInv'
  BY <1>0, <1>3, <1>4, RetypedTold, SettingTells DEF ChooseType
<1>5. ASSUME NEW n \in DOMAIN s, NEW text \in Text, TypeText(f, n, text) PROVE ToldInv'
  <2>1. Typed(s[n], text) \in ToldForm
    BY <1>0, <1>5, TypedTold DEF TypeText
  <2>. QED  BY <1>3, <1>5, <2>1, SettingTells DEF TypeText
<1>6. ASSUME NEW w \in Save, Submit(f, w) PROVE ToldInv'
  <2>1. /\ stored' = stored /\ forms' = forms
        /\ \A v \in Save : saves'[v].conditions = IF v = w THEN s ELSE saves[v].conditions
    BY <1>6 DEF Submit, FormInv, FormTypeOK
  <2>. QED  BY <1>0, <2>1 DEF ToldInv
<1>. QED  BY <1>1, <1>2, <1>4, <1>5, <1>6 DEF Edit

(* An answered save carries nothing any more.                              *)
LEMMA AnsweredTells ==
    ASSUME FormInv, ToldInv, NEW w \in Save, NEW answer, Answered(w, answer)
    PROVE  \A v \in Save : saves'[v].conditions \in Seq(ToldForm)
<1>1. \A v \in Save : saves'[v].conditions = IF v = w THEN << >> ELSE saves[v].conditions
  BY DEF Answered, FormInv, FormTypeOK, SaveState
<1>. QED  BY <1>1, EmptySeq DEF ToldInv

LEMMA WordsKeep == FormInv /\ ToldInv /\ [FormNext]_formVars => ToldInv'
<1>. SUFFICES ASSUME FormInv, ToldInv, [FormNext]_formVars PROVE ToldInv'
  OBVIOUS
<1>1. ASSUME NEW f \in FormName, Edit(f) PROVE ToldInv'
  BY <1>1, EditTells
<1>2. ASSUME NEW r \in RuleId, OpenEdit(r) PROVE ToldInv'
  <2>. DEFINE loaded == [n \in DOMAIN stored[r] |-> [condition |-> stored[r][n], ruleId |-> TRUE]]
  <2>1. stored[r] \in Seq(Told)
    BY <1>2 DEF OpenEdit, ToldInv
  <2>2. loaded \in [DOMAIN stored[r] -> ToldForm]
    BY <2>1, ElementOfSeq, LenProperties DEF ToldForm
  <2>3. forms' = [forms EXCEPT !["edit"] = loaded]
    BY <1>2 DEF OpenEdit
  <2>. HIDE DEF loaded
  <2>4. loaded \in Seq(ToldForm)
    BY <2>1, <2>2, SameIndices
  <2>. QED  BY <1>2, <2>3, <2>4, UnmountedSaves DEF OpenEdit, FormInv, FormTypeOK, ToldInv
<1>3. ASSUME NEW r \in RuleId, DeleteRule(r) PROVE ToldInv'
  BY <1>3 DEF DeleteRule, FormInv, FormTypeOK, ToldInv
<1>4. CASE CancelEdit
  BY <1>4, DefaultIsTold, UnmountedSaves DEF CancelEdit, FormInv, FormTypeOK, ToldInv
<1>5. ASSUME NEW w \in Save, NEW r \in RuleId, CreateRule(w, r) PROVE ToldInv'
  BY <1>5, SentIsTold, AnsweredTells DEF CreateRule, FormInv, FormTypeOK, ToldInv
<1>6. ASSUME NEW w \in Save, UpdateRule(w) PROVE ToldInv'
  BY <1>6, SentIsTold, AnsweredTells DEF UpdateRule, FormInv, FormTypeOK, ToldInv
<1>7. ASSUME NEW w \in Save, RefuseSave(w) PROVE ToldInv'
  BY <1>7, AnsweredTells DEF RefuseSave, RolledBack, ToldInv
<1>8. ASSUME NEW w \in Save, ReceiveAnswer(w) PROVE ToldInv'
  <2>. DEFINE left == IF saves[w].answer = "saved" /\ saves[w].form = "edit"
                      THEN Unmounted ELSE saves
  <2>1. /\ left \in [Save -> SaveState] /\ saves' = [left EXCEPT ![w] = NoSave]
        /\ \A v \in Save : left[v].conditions = saves[v].conditions
    BY <1>8, UnmountedSaves DEF ReceiveAnswer, FormInv, FormTypeOK
  <2>2. \A v \in Save : saves'[v].conditions \in Seq(ToldForm)
    BY <2>1, EmptySeq DEF ToldInv, NoSave
  <2>3. \A f \in FormName : forms'[f] \in Seq(ToldForm)
    BY <1>8, DefaultIsTold DEF ReceiveAnswer, FormInv, FormTypeOK, ToldInv
  <2>. QED  BY <1>8, <2>2, <2>3 DEF ReceiveAnswer, ToldInv
<1>9. CASE UNCHANGED formVars
  BY <1>9 DEF formVars, ToldInv
<1>. QED  BY <1>1, <1>2, <1>3, <1>4, <1>5, <1>6, <1>7, <1>8, <1>9 DEF FormNext

(* The list names, for every condition of every rule, the word the matcher *)
(* goes by, after any typing and choosing of types in either form          *)
(* (page.tsx, conditionSummary; rule-matcher.util.ts, evaluateCondition).  *)
THEOREM SummariesTell == FormSpec => []SummaryTellsWhatMatches
<1>1. FormInit => ToldInv
  <2>. SUFFICES ASSUME FormInit PROVE ToldInv
    OBVIOUS
  <2>1. NoSave.conditions = << >> /\ << >> \in Seq(ToldForm)
    BY EmptySeq DEF NoSave
  <2>2. \A w \in Save : saves[w] = NoSave
    BY DEF FormInit
  <2>3. \A w \in Save : saves[w].conditions \in Seq(ToldForm)
    BY <2>1, <2>2
  <2>4. \A f \in FormName : forms[f] \in Seq(ToldForm)
    BY DefaultIsTold DEF FormInit
  <2>5. \A r \in RuleId : stored[r] = NoRule
    BY DEF FormInit
  <2>. QED  BY <2>3, <2>4, <2>5 DEF ToldInv
<1>2. ToldInv => SummaryTellsWhatMatches
  <2>. SUFFICES ASSUME ToldInv, NEW r \in RuleId, stored[r] # NoRule, NEW n \in DOMAIN stored[r]
                PROVE  Summary(stored[r][n]) = MatchedWord(stored[r][n])
    BY DEF SummaryTellsWhatMatches
  <2>1. stored[r] \in Seq(Told)
    BY DEF ToldInv
  <2>2. stored[r][n] \in Told
    BY <2>1, ElementOfSeq, LenProperties
  <2>. QED  BY <2>2 DEF Told
<1>. QED  BY <1>1, <1>2, FormStarts, FormKeeps, WordsKeep, PTL DEF FormSpec

=============================================================================
