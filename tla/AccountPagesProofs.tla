-------------------------- MODULE AccountPagesProofs --------------------------
(***************************************************************************)
(* For any number of accounts, passwords and calls in flight: the page of  *)
(* an account shows what its row has had, and a restore leaves no entry    *)
(* out.                                                                    *)
(***************************************************************************)
EXTENDS AccountPages, TLAPS

TableOK == \A r \in Row : table[r] # None => table[r].password \in past[r]

PageOK ==
    /\ page.on \in {"detail", "edit"} => page.row \in Row
    /\ page.on = "edit" => page.shown # None
    /\ page.shown # None => page.row \in Row /\ page.shown \in past[page.row]

(* A call whose answer can still change what the page shows is about the   *)
(* row of the page, and carries passwords that row has had (had).  A new   *)
(* account has a password.                                                 *)
Fits(call, row, had) ==
    /\ call.answer # "none" => call.kind # "none" /\ call.sender # "gone"
    /\ call.kind = "create" /\ call.answer = "none" => call.password # Blank
    /\ call.kind = "load" \/ (call.kind = "save" /\ call.sender # "gone") =>
        /\ call.row \in Row /\ call.row = row
        /\ call.kind = "save" => call.before \in had[row]
        /\ call.answer = "ok" /\ (call.kind = "load" \/ call.password # Blank) =>
              call.password \in had[row]

CallsOK == \A c \in Call : Fits(calls[c], page.row, past)

SlotsInUse == {table[r].slot : r \in Stored}

(* While an import runs, an entry it has dealt with has its slot in use or *)
(* has been given up since.                                                *)
NothingLeftOut ==
    import.state = "running" =>
        \A e \in file.entries : e \in import.left \/ e.slot \in vacated \cup SlotsInUse

PagesInv == PagesTypeOK /\ TableOK /\ PageOK /\ CallsOK /\ NothingLeftOut

-----------------------------------------------------------------------------
(* Calls *)

LEMMA NoCallFits ==
    ASSUME NEW row, NEW had
    PROVE  NoCall \in CallState /\ Fits(NoCall, row, had)
BY DEF NoCall, CallState, Fits

(* What is left of the calls of a page that goes fits any other page.      *)
LEMMA LeftFits ==
    ASSUME PagesInv, NEW row
    PROVE  Left \in [Call -> CallState] /\ \A c \in Call : Fits(Left[c], row, past)
<1>. SUFFICES ASSUME NEW c \in Call
              PROVE  Left[c] \in CallState /\ Fits(Left[c], row, past)
  BY DEF Left
<1>1. calls[c] \in CallState /\ Fits(calls[c], page.row, past)
  BY DEF PagesInv, PagesTypeOK, CallsOK
<1>2. CASE calls[c].answer # "none" \/ calls[c].kind \in {"load", "generate"}
  <2>1. Left[c] = NoCall
    BY <1>2 DEF Left
  <2>. QED  BY <2>1, NoCallFits
<1>3. CASE ~(calls[c].answer # "none" \/ calls[c].kind \in {"load", "generate"})
  <2>1. Left[c] = [calls[c] EXCEPT !.sender = "gone", !.before = None]
    BY <1>3 DEF Left
  <2>2. Left[c] \in CallState /\ Left[c].sender = "gone" /\ Left[c].kind = calls[c].kind
        /\ Left[c].answer = "none" /\ Left[c].password = calls[c].password
    BY <1>1, <1>3, <2>1 DEF CallState
  <2>. QED  BY <1>1, <1>3, <2>2 DEF Fits
<1>. QED  BY <1>2, <1>3

LEMMA FieldGoneFits ==
    ASSUME PagesInv
    PROVE  FieldGone \in [Call -> CallState] /\ \A c \in Call : Fits(FieldGone[c], page.row, past)
<1>. SUFFICES ASSUME NEW c \in Call
              PROVE  FieldGone[c] \in CallState /\ Fits(FieldGone[c], page.row, past)
  BY DEF FieldGone
<1>1. calls[c] \in CallState /\ Fits(calls[c], page.row, past)
  BY DEF PagesInv, PagesTypeOK, CallsOK
<1>2. CASE calls[c].sender = "field"
  <2>1. FieldGone[c] = [calls[c] EXCEPT !.sender = "page"]
    BY <1>2 DEF FieldGone
  <2>. QED  BY <1>1, <1>2, <2>1 DEF CallState, Fits
<1>3. CASE calls[c].sender # "field"
  BY <1>1, <1>3 DEF FieldGone
<1>. QED  BY <1>2, <1>3

(* A change of one call, with the page's row and its history kept.         *)
LEMMA OneCallFits ==
    ASSUME PagesInv, NEW c \in Call, NEW call \in CallState,
           NEW others \in [Call -> CallState],
           \A d \in Call : Fits(others[d], page.row, past),
           calls' = [others EXCEPT ![c] = call],
           page'.row = page.row, past' = past,
           Fits(call, page.row, past)
    PROVE  calls' \in [Call -> CallState] /\ CallsOK'
<1>1. calls' \in [Call -> CallState]
  OBVIOUS
<1>2. ASSUME NEW d \in Call PROVE Fits(calls'[d], page.row, past)
  <2>1. calls'[d] = IF d = c THEN call ELSE others[d]
    OBVIOUS
  <2>. QED  BY <2>1
<1>. QED  BY <1>1, <1>2 DEF CallsOK

-----------------------------------------------------------------------------
(* The user's steps *)

LEMMA InitialPages == PagesInit => PagesInv
<1>. SUFFICES ASSUME PagesInit PROVE PagesInv
  OBVIOUS
<1>1. ListPage \in Page /\ ListPage.on = "list" /\ ListPage.shown = None
  BY DEF ListPage, Page
<1>2. NoImport \in ImportState /\ NoImport.state = "idle"
  BY DEF NoImport, ImportState
<1>3. PagesTypeOK
  BY <1>1, <1>2, NoCallFits DEF PagesInit, PagesTypeOK, NoFile
<1>4. TableOK /\ PageOK /\ CallsOK /\ NothingLeftOut
  BY <1>1, <1>2, NoCallFits DEF PagesInit, TableOK, PageOK, CallsOK, NothingLeftOut
<1>. QED  BY <1>3, <1>4 DEF PagesInv

(* A step of the page alone: tables, file and import stay.                 *)
LEMMA PageStepKeeps ==
    ASSUME PagesInv, UNCHANGED <<tableVars, file, import>>,
           page' \in Page, calls' \in [Call -> CallState], PageOK', CallsOK'
    PROVE  PagesInv'
<1>1. PagesTypeOK'
  BY DEF PagesInv, PagesTypeOK, tableVars
<1>2. TableOK' /\ NothingLeftOut'
  BY DEF PagesInv, TableOK, NothingLeftOut, SlotsInUse, Stored, tableVars
<1>. QED  BY <1>1, <1>2 DEF PagesInv

LEMMA LeaveKeeps == PagesInv /\ Leave => PagesInv'
<1>. SUFFICES ASSUME PagesInv, Leave PROVE PagesInv'
  OBVIOUS
<1>1. page' = ListPage /\ page' \in Page /\ PageOK'
  BY DEF Leave, ListPage, Page, PageOK
<1>2. calls' \in [Call -> CallState] /\ CallsOK'
  BY LeftFits DEF Leave, CallsOK, tableVars
<1>. QED  BY <1>1, <1>2, PageStepKeeps DEF Leave

(* In the list no call is about a row that is shown.                       *)
LEMMA HomeFits ==
    ASSUME PagesInv, page = ListPage, NEW c \in Call, NEW row
    PROVE  Fits(calls[c], row, past)
<1>1. Fits(calls[c], None, past)
  BY DEF PagesInv, CallsOK, ListPage
<1>. QED  BY <1>1, PagesAssumption DEF Fits

LEMMA OpenNewKeeps == PagesInv /\ OpenNew => PagesInv'
<1>. SUFFICES ASSUME PagesInv, OpenNew PROVE PagesInv'
  OBVIOUS
<1>1. page' \in Page /\ PageOK'
  BY DEF OpenNew, AtHome, ListPage, Page, PageOK
<1>2. calls' \in [Call -> CallState] /\ CallsOK'
  BY HomeFits DEF OpenNew, AtHome, CallsOK, PagesInv, PagesTypeOK, tableVars
<1>. QED  BY <1>1, <1>2, PageStepKeeps DEF OpenNew

LEMMA OpenKeeps ==
    ASSUME PagesInv, NEW r \in Row, NEW c \in Call, Open(r, c)
    PROVE  PagesInv'
<1>. DEFINE call == [NoCall EXCEPT !.kind = "load", !.row = r, !.sender = "page"]
<1>1. page' \in Page /\ page'.row = r /\ PageOK'
  BY DEF Open, AtHome, ListPage, Page, PageOK
<1>2. call \in CallState /\ Fits(call, r, past)
  BY DEF NoCall, CallState, Fits
<1>3. calls \in [Call -> CallState] /\ calls' = [calls EXCEPT ![c] = call]
  BY DEF PagesInv, PagesTypeOK, Open
<1>4. calls' \in [Call -> CallState]
  BY <1>2, <1>3
<1>5. ASSUME NEW d \in Call PROVE Fits(calls'[d], r, past)
  <2>1. Fits(calls[d], r, past)
    BY HomeFits DEF Open, AtHome
  <2>2. calls'[d] = IF d = c THEN call ELSE calls[d]
    BY <1>3
  <2>. QED  BY <1>2, <2>1, <2>2
<1>6. CallsOK'
  BY <1>1, <1>5 DEF CallsOK, Open, tableVars
<1>. QED  BY <1>1, <1>4, <1>6, PageStepKeeps DEF Open

LEMMA StartEditKeeps == PagesInv /\ StartEdit => PagesInv'
<1>. SUFFICES ASSUME PagesInv, StartEdit PROVE PagesInv'
  OBVIOUS
<1>1. page \in Page /\ page' = [page EXCEPT !.on = "edit"]
  BY DEF PagesInv, PagesTypeOK, StartEdit
<1>2. page' \in Page /\ page'.row = page.row /\ page'.shown = page.shown /\ page'.on = "edit"
  BY <1>1 DEF Page
<1>3. PageOK'
  BY <1>2 DEF PagesInv, PageOK, StartEdit, tableVars
<1>4. calls' \in [Call -> CallState] /\ CallsOK'
  BY <1>2 DEF PagesInv, PagesTypeOK, CallsOK, StartEdit, tableVars
<1>. QED  BY <1>2, <1>3, <1>4, PageStepKeeps DEF StartEdit

LEMMA CancelEditKeeps == PagesInv /\ CancelEdit => PagesInv'
<1>. SUFFICES ASSUME PagesInv, CancelEdit PROVE PagesInv'
  OBVIOUS
<1>1. page \in Page /\ page' = [page EXCEPT !.on = "detail"]
  BY DEF PagesInv, PagesTypeOK, CancelEdit
<1>2. page' \in Page /\ page'.row = page.row /\ page'.shown = page.shown /\ page'.on = "detail"
  BY <1>1 DEF Page
<1>3. PageOK'
  BY <1>2 DEF PagesInv, PageOK, CancelEdit, tableVars
<1>4. calls' \in [Call -> CallState] /\ CallsOK'
  BY <1>2, FieldGoneFits DEF CallsOK, CancelEdit, tableVars
<1>. QED  BY <1>2, <1>3, <1>4, PageStepKeeps DEF CancelEdit

LEMMA TypePasswordKeeps ==
    ASSUME PagesInv, NEW password \in Secret \cup {Blank}, TypePassword(password)
    PROVE  PagesInv'
<1>1. page \in Page /\ page' = [page EXCEPT !.typed = password]
  BY DEF PagesInv, PagesTypeOK, TypePassword
<1>2. page' \in Page /\ page'.row = page.row /\ page'.shown = page.shown /\ page'.on = page.on
  BY <1>1 DEF Page
<1>3. PageOK'
  BY <1>2 DEF PagesInv, PageOK, TypePassword, tableVars
<1>4. calls' \in [Call -> CallState] /\ CallsOK'
  BY <1>2 DEF PagesInv, PagesTypeOK, CallsOK, TypePassword, tableVars
<1>. QED  BY <1>2, <1>3, <1>4, PageStepKeeps DEF TypePassword

LEMMA SendKeeps ==
    ASSUME PagesInv, NEW c \in Call, NEW call \in CallState, Send(c, call),
           Fits(call, page.row, past)
    PROVE  PagesInv'
<1>1. /\ calls \in [Call -> CallState] /\ \A d \in Call : Fits(calls[d], page.row, past)
      /\ calls' = [calls EXCEPT ![c] = call] /\ page'.row = page.row /\ past' = past
  BY DEF PagesInv, PagesTypeOK, CallsOK, Send, tableVars
<1>2. calls' \in [Call -> CallState] /\ CallsOK'
  BY <1>1, OneCallFits
<1>3. page' \in Page /\ PageOK'
  BY DEF PagesInv, PagesTypeOK, PageOK, Send, tableVars
<1>. QED  BY <1>2, <1>3, PageStepKeeps DEF Send

LEMMA SubmitsKeep ==
    ASSUME PagesInv, NEW c \in Call,
           SubmitEdit(c) \/ SubmitNew(c) \/ SubmitDelete(c) \/ Generate(c)
    PROVE  PagesInv'
<1>. DEFINE generate == [NoCall EXCEPT !.kind = "generate", !.sender = "field"]
            save == [NoCall EXCEPT !.kind = "save", !.row = page.row, !.password = page.typed,
                         !.before = page.shown, !.sender = "page"]
            create == [NoCall EXCEPT !.kind = "create", !.password = page.typed,
                           !.sender = "page"]
            delete == [NoCall EXCEPT !.kind = "delete", !.row = page.row, !.sender = "page"]
<1>1. page \in Page
  BY DEF PagesInv, PagesTypeOK
<1>2. CASE SubmitEdit(c)
  <2>1. page.row \in Row /\ page.shown \in past[page.row]
    BY <1>2 DEF PagesInv, PageOK, SubmitEdit
  <2>2. save \in CallState /\ Fits(save, page.row, past)
    BY <1>1, <2>1 DEF NoCall, CallState, Page, Fits
  <2>. QED  BY <1>2, <2>2, SendKeeps DEF SubmitEdit
<1>3. CASE SubmitNew(c)
  <2>1. create \in CallState /\ Fits(create, page.row, past)
    BY <1>1, <1>3 DEF NoCall, CallState, Page, Fits, SubmitNew
  <2>. QED  BY <1>3, <2>1, SendKeeps DEF SubmitNew
<1>4. CASE SubmitDelete(c)
  <2>1. delete \in CallState /\ Fits(delete, page.row, past)
    BY <1>1 DEF NoCall, CallState, Page, Fits
  <2>. QED  BY <1>4, <2>1, SendKeeps DEF SubmitDelete
<1>5. CASE Generate(c)
  <2>1. generate \in CallState /\ Fits(generate, page.row, past)
    BY DEF NoCall, CallState, Fits
  <2>. QED  BY <1>5, <2>1, SendKeeps DEF Generate
<1>. QED  BY <1>2, <1>3, <1>4, <1>5

LEMMA UserStepKeeps == PagesInv /\ UserStep => PagesInv'
BY LeaveKeeps, OpenNewKeeps, OpenKeeps, StartEditKeeps, CancelEditKeeps, TypePasswordKeeps,
   SubmitsKeep DEF UserStep

-----------------------------------------------------------------------------
(* The server's steps *)

(* A write of the table that gives up no slot unnoticed and forgets no     *)
(* password of a row that somebody refers to.                              *)
TableWritten ==
    /\ table' \in [Row -> Entry \cup {None}]
    /\ past' \in [Row -> SUBSET Secret]
    /\ vacated' \subseteq Slot
    /\ TableOK'
    /\ \A r \in Row : page.row = r \/ (\E c \in Call : calls[c].row = r) => past[r] \subseteq past'[r]
    /\ import.state = "running" => SlotsInUse \cup vacated \subseteq SlotsInUse' \cup vacated'

LEMMA SameTableWritten ==
    ASSUME PagesInv, UNCHANGED tableVars
    PROVE  TableWritten
BY DEF PagesInv, PagesTypeOK, TableOK, TableWritten, SlotsInUse, Stored, tableVars

LEMMA InsertWrites ==
    ASSUME PagesInv, NEW r \in Row, NEW entry \in Entry, InsertRow(r, entry)
    PROVE  TableWritten /\ entry.slot \in SlotsInUse' /\ past'[r] = {entry.password}
<1>1. /\ table \in [Row -> Entry \cup {None}] /\ past \in [Row -> SUBSET Secret]
      /\ vacated \subseteq Slot /\ TableOK
  BY DEF PagesInv, PagesTypeOK
<1>2. /\ table[r] = None /\ page.row # r /\ \A c \in Call : calls[c].row # r
      /\ table' = [table EXCEPT ![r] = entry]
      /\ past' = [past EXCEPT ![r] = {entry.password}] /\ vacated' = vacated
  BY DEF InsertRow, FreshRow, Stored
<1>3. entry # None /\ entry.password \in Secret
  BY PagesAssumption DEF Entry
<1>4. /\ table' \in [Row -> Entry \cup {None}] /\ past' \in [Row -> SUBSET Secret]
      /\ TableOK'
  BY <1>1, <1>2, <1>3 DEF TableOK
<1>5. SlotsInUse \subseteq SlotsInUse' /\ entry.slot \in SlotsInUse'
  BY <1>1, <1>2, <1>3 DEF SlotsInUse, Stored
<1>. QED  BY <1>1, <1>2, <1>4, <1>5 DEF TableWritten

LEMMA UpdateWrites ==
    ASSUME PagesInv, NEW r, NEW entry \in Entry, UpdateRow(r, entry)
    PROVE  TableWritten /\ entry.password \in past'[r]
<1>1. /\ table \in [Row -> Entry \cup {None}] /\ past \in [Row -> SUBSET Secret]
      /\ vacated \subseteq Slot /\ TableOK
  BY DEF PagesInv, PagesTypeOK
<1>2. /\ r \in Row /\ table[r] # None
      /\ table' = [table EXCEPT ![r] = entry]
      /\ past' = [past EXCEPT ![r] = past[r] \cup {entry.password}]
      /\ vacated' = IF import.state = "running" THEN vacated \cup ({table[r].slot} \ {entry.slot})
                                                ELSE vacated
  BY DEF UpdateRow, Vacate, Stored
<1>3. entry # None /\ entry.password \in Secret /\ table[r].slot \in Slot
  BY <1>1, <1>2, PagesAssumption DEF Entry
<1>4. /\ table' \in [Row -> Entry \cup {None}] /\ past' \in [Row -> SUBSET Secret]
      /\ vacated' \subseteq Slot
  BY <1>1, <1>2, <1>3
<1>5. TableOK' /\ (\A q \in Row : past[q] \subseteq past'[q])
  BY <1>1, <1>2, <1>3 DEF TableOK
<1>6. ASSUME import.state = "running"
      PROVE  SlotsInUse \cup vacated \subseteq SlotsInUse' \cup vacated'
  <2>1. entry.slot \in SlotsInUse'
    BY <1>1, <1>2, <1>3 DEF SlotsInUse, Stored
  <2>2. ASSUME NEW q \in Row, table[q] # None, q # r PROVE table[q].slot \in SlotsInUse'
    BY <1>1, <1>2, <2>2 DEF SlotsInUse, Stored
  <2>3. table[r].slot = entry.slot \/ table[r].slot \in vacated'
    BY <1>2, <1>6
  <2>4. vacated \subseteq vacated'
    BY <1>2, <1>6
  <2>. QED  BY <2>1, <2>2, <2>3, <2>4 DEF SlotsInUse, Stored
<1>. QED  BY <1>1, <1>2, <1>4, <1>5, <1>6 DEF TableWritten

LEMMA DeleteWrites ==
    ASSUME PagesInv, NEW c \in Call, ServeDelete(c)
    PROVE  TableWritten
<1>. DEFINE r == calls[c].row
<1>1. /\ table \in [Row -> Entry \cup {None}] /\ past \in [Row -> SUBSET Secret]
      /\ vacated \subseteq Slot /\ TableOK
  BY DEF PagesInv, PagesTypeOK
<1>2. /\ r \in Row /\ table[r] # None
      /\ table' = [table EXCEPT ![r] = None] /\ past' = past
      /\ vacated' = IF import.state = "running" THEN vacated \cup {table[r].slot} ELSE vacated
  BY DEF ServeDelete, Vacate, Stored
<1>3. table[r].slot \in Slot
  BY <1>1, <1>2 DEF Entry
<1>4. /\ table' \in [Row -> Entry \cup {None}] /\ vacated' \subseteq Slot /\ TableOK'
  BY <1>1, <1>2, <1>3 DEF TableOK
<1>5. ASSUME import.state = "running"
      PROVE  SlotsInUse \cup vacated \subseteq SlotsInUse' \cup vacated'
  <2>1. ASSUME NEW q \in Row, table[q] # None, q # r PROVE table[q].slot \in SlotsInUse'
    BY <1>1, <1>2, <2>1 DEF SlotsInUse, Stored
  <2>2. table[r].slot \in vacated' /\ vacated \subseteq vacated'
    BY <1>2, <1>5
  <2>. QED  BY <2>1, <2>2 DEF SlotsInUse, Stored
<1>. QED  BY <1>1, <1>2, <1>4, <1>5 DEF TableWritten

(* What fitted before a write fits after it.                               *)
LEMMA StillFits ==
    ASSUME PagesInv, TableWritten, NEW c \in Call
    PROVE  Fits(calls[c], page.row, past')
<1>1. Fits(calls[c], page.row, past)
  BY DEF PagesInv, CallsOK
<1>2. calls[c].row \in Row => past[calls[c].row] \subseteq past'[calls[c].row]
  BY DEF TableWritten
<1>. QED  BY <1>1, <1>2 DEF Fits

(* A write of the table, with the page, the file and the import kept.      *)
LEMMA WriteKeeps ==
    ASSUME PagesInv, TableWritten, UNCHANGED <<page, file, import>>,
           calls' \in [Call -> CallState], CallsOK'
    PROVE  PagesInv'
<1>1. PagesTypeOK'
  BY DEF PagesInv, PagesTypeOK, TableWritten
<1>2. PageOK'
  BY DEF PagesInv, PageOK, TableWritten
<1>3. NothingLeftOut'
  BY DEF PagesInv, NothingLeftOut, TableWritten
<1>. QED  BY <1>1, <1>2, <1>3 DEF PagesInv, TableWritten

LEMMA AnswerKeeps ==
    ASSUME PagesInv, TableWritten, NEW c \in Call, NEW answer \in {"ok", "failed"},
           NEW password \in Secret \cup {Blank}, Answered(c, answer, password),
           calls[c].kind # "none", UNCHANGED <<page, file, import>>,
           answer = "ok" /\ (calls[c].kind = "load"
                                \/ (calls[c].kind = "save" /\ password # Blank)) =>
               password \in past'[calls[c].row]
    PROVE  PagesInv'
<1>. DEFINE answered == [calls[c] EXCEPT !.answer = answer, !.password = password]
            call == IF calls[c].sender = "gone" THEN NoCall ELSE answered
<1>1. calls \in [Call -> CallState] /\ calls' = [calls EXCEPT ![c] = call]
  BY DEF PagesInv, PagesTypeOK, Answered
<1>2. Fits(calls[c], page.row, past')
  BY StillFits
<1>3. calls[c] \in CallState
  BY <1>1
<1>4. /\ answered \in CallState /\ answered.kind = calls[c].kind /\ answered.row = calls[c].row
      /\ answered.sender = calls[c].sender /\ answered.before = calls[c].before
      /\ answered.answer = answer /\ answered.password = password
  BY <1>3 DEF CallState
<1>5. calls[c].sender # "gone" => Fits(answered, page.row, past')
  BY <1>2, <1>4 DEF Fits
<1>6. call \in CallState /\ Fits(call, page.row, past')
  BY <1>4, <1>5, NoCallFits
<1>7. calls' \in [Call -> CallState]
  BY <1>1, <1>6
<1>8. ASSUME NEW d \in Call PROVE Fits(calls'[d], page.row, past')
  <2>1. calls'[d] = IF d = c THEN call ELSE calls[d]
    BY <1>1
  <2>. QED  BY <1>6, <2>1, StillFits
<1>9. CallsOK'
  BY <1>8 DEF CallsOK
<1>. QED  BY <1>7, <1>9, WriteKeeps

LEMMA ServerStepKeeps == PagesInv /\ ServerStep => PagesInv'
<1>. SUFFICES ASSUME PagesInv, ServerStep PROVE PagesInv'
  OBVIOUS
<1>1. UNCHANGED <<page, file, import>>
  BY DEF ServerStep
<1>2. PICK c \in Call :
        \/ ServeLoad(c)
        \/ \E slot \in Slot : ServeSave(c, slot) \/ \E r \in Row : ServeCreate(c, r, slot)
        \/ ServeDelete(c)
        \/ \E password \in Secret : ServeGenerate(c, password)
        \/ ServeNothing(c)
  BY DEF ServerStep
<1>3. calls[c] \in CallState /\ calls[c].password \in Secret \cup {Blank}
  BY DEF PagesInv, PagesTypeOK, CallState
<1>4. CASE ServeLoad(c)
  <2>. DEFINE r == calls[c].row
  <2>1. r \in Row /\ table[r] # None /\ calls[c].kind = "load" /\ UNCHANGED tableVars
    BY <1>4 DEF ServeLoad, Unserved, Stored
  <2>2. table[r] \in Entry /\ table[r].password \in past[r]
    BY <2>1 DEF PagesInv, PagesTypeOK, TableOK
  <2>3. table[r].password \in Secret /\ table[r].password \in past'[r]
    BY <2>1, <2>2 DEF Entry, tableVars
  <2>. QED  BY <1>1, <1>4, <2>1, <2>3, SameTableWritten, AnswerKeeps DEF ServeLoad, Served
<1>5. ASSUME NEW slot \in Slot, ServeSave(c, slot) PROVE PagesInv'
  <2>. DEFINE r == calls[c].row
              entry == [slot |-> slot,
                        password |-> IF calls[c].password = Blank THEN table[r].password
                                                                  ELSE calls[c].password]
  <2>1. calls[c].kind = "save" /\ UpdateRow(r, entry)
    BY <1>5 DEF ServeSave, Unserved
  <2>2. table[r] \in Entry
    BY <2>1 DEF PagesInv, PagesTypeOK, UpdateRow, Stored
  <2>3. entry \in Entry
    BY <1>3, <2>2 DEF Entry
  <2>4. TableWritten /\ entry.password \in past'[r]
    BY <2>1, <2>3, UpdateWrites
  <2>5. calls[c].password # Blank => calls[c].password \in past'[r]
    BY <2>4
  <2>. QED  BY <1>1, <1>3, <1>5, <2>1, <2>4, <2>5, AnswerKeeps DEF ServeSave, Served
<1>6. ASSUME NEW slot \in Slot, NEW r \in Row, ServeCreate(c, r, slot) PROVE PagesInv'
  <2>. DEFINE entry == [slot |-> slot, password |-> calls[c].password]
  <2>1. calls[c].kind = "create" /\ InsertRow(r, entry)
    BY <1>6 DEF ServeCreate, Unserved
  <2>2. calls[c].password # Blank
    BY <1>6 DEF PagesInv, CallsOK, Fits, ServeCreate, Unserved
  <2>3. entry \in Entry
    BY <1>3, <2>2 DEF Entry
  <2>4. TableWritten
    BY <2>1, <2>3, InsertWrites
  <2>. QED  BY <1>1, <1>3, <1>6, <2>1, <2>4, AnswerKeeps DEF ServeCreate, Served
<1>7. CASE ServeDelete(c)
  <2>1. calls[c].kind = "delete" /\ TableWritten
    BY <1>7, DeleteWrites DEF ServeDelete, Unserved
  <2>. QED  BY <1>1, <1>3, <1>7, <2>1, AnswerKeeps DEF ServeDelete, Served
<1>8. ASSUME NEW password \in Secret, ServeGenerate(c, password) PROVE PagesInv'
  <2>1. calls[c].kind = "generate" /\ TableWritten
    BY <1>8, SameTableWritten DEF ServeGenerate, Unserved
  <2>. QED  BY <1>1, <1>8, <2>1, AnswerKeeps DEF ServeGenerate, Served
<1>9. CASE ServeNothing(c)
  <2>1. calls[c].kind # "none" /\ TableWritten
    BY <1>9, SameTableWritten DEF ServeNothing
  <2>. QED  BY <1>1, <1>9, <2>1, AnswerKeeps DEF ServeNothing
<1>. QED  BY <1>2, <1>4, <1>5, <1>6, <1>7, <1>8, <1>9

-----------------------------------------------------------------------------
(* Answers, export and import *)

LEMMA ReceiveKeeps ==
    ASSUME PagesInv, NEW c \in Call, ReceiveAnswer(c)
    PROVE  PagesInv'
<1>1. /\ calls[c] \in CallState /\ page \in Page /\ past \in [Row -> SUBSET Secret]
      /\ calls[c].answer \in {"ok", "failed"} /\ Fits(calls[c], page.row, past)
      /\ calls[c].kind # "none" /\ calls[c].sender # "gone"
  BY DEF PagesInv, PagesTypeOK, CallsOK, ReceiveAnswer, CallState, Fits
<1>2. page' = PageAfter(c) /\ UNCHANGED <<tableVars, file, import>>
  BY DEF ReceiveAnswer
<1>3. page' \in Page /\ PageOK' /\ (page' = ListPage \/ page'.row = page.row)
  <2>1. CASE calls[c].answer = "failed"
    BY <1>1, <1>2, <2>1 DEF PageAfter, PagesInv, PageOK, tableVars
  <2>2. CASE calls[c].answer = "ok" /\ calls[c].kind = "load"
    <3>1. page' = [page EXCEPT !.shown = calls[c].password]
      BY <1>2, <2>2 DEF PageAfter
    <3>2. calls[c].row \in Row /\ page.row = calls[c].row /\ calls[c].password \in past[page.row]
      BY <1>1, <2>2 DEF Fits
    <3>3. calls[c].password \in Secret /\ calls[c].password # None
      BY <1>1, <3>2, PagesAssumption
    <3>4. /\ page' \in Page /\ page'.row = page.row /\ page'.on = page.on
          /\ page'.shown = calls[c].password
      BY <1>1, <3>1, <3>3 DEF Page
    <3>. QED  BY <1>2, <3>2, <3>3, <3>4 DEF PageOK, tableVars
  <2>3. CASE calls[c].answer = "ok" /\ calls[c].kind = "save"
    <3>. DEFINE shown == IF calls[c].password # Blank THEN calls[c].password ELSE calls[c].before
    <3>1. page' = [page EXCEPT !.on = "detail", !.typed = Blank, !.shown = shown]
      BY <1>2, <2>3 DEF PageAfter, PageAfterSave
    <3>2. page.row \in Row /\ shown \in past[page.row]
      BY <1>1, <2>3 DEF Fits
    <3>3. shown \in Secret
      BY <1>1, <3>2
    <3>4. page' \in Page /\ page'.row = page.row /\ page'.on = "detail" /\ page'.shown = shown
      BY <1>1, <3>1, <3>3 DEF Page
    <3>. QED  BY <1>2, <3>2, <3>4 DEF PageOK, tableVars
  <2>4. CASE calls[c].answer = "ok" /\ calls[c].kind = "generate"
    <3>1. page' = [page EXCEPT !.typed = calls[c].password]
      BY <1>2, <2>4 DEF PageAfter
    <3>2. /\ page' \in Page /\ page'.row = page.row /\ page'.on = page.on
          /\ page'.shown = page.shown
      BY <1>1, <3>1 DEF Page, CallState
    <3>. QED  BY <1>2, <3>2 DEF PagesInv, PageOK, tableVars
  <2>5. CASE calls[c].answer = "ok" /\ calls[c].kind \in {"create", "delete"}
    BY <1>2, <2>5 DEF PageAfter, ListPage, Page, PageOK
  <2>. QED  BY <1>1, <2>1, <2>2, <2>3, <2>4, <2>5 DEF CallState
<1>4. calls' \in [Call -> CallState] /\ CallsOK'
  <2>. DEFINE others == IF PageAfter(c) = ListPage THEN Left
                        ELSE IF PageAfter(c).on = "detail" THEN FieldGone ELSE calls
  <2>1. calls' = [others EXCEPT ![c] = NoCall]
    BY DEF ReceiveAnswer
  <2>2. others \in [Call -> CallState] /\ \A d \in Call : Fits(others[d], page'.row, past)
    <3>1. CASE page' = ListPage
      BY <1>2, <3>1, LeftFits
    <3>2. CASE page' # ListPage
      <4>1. \A d \in Call : Fits(calls[d], page.row, past)
        BY DEF PagesInv, CallsOK
      <4>2. calls \in [Call -> CallState]
        BY DEF PagesInv, PagesTypeOK
      <4>. QED  BY <1>2, <1>3, <3>2, <4>1, <4>2, FieldGoneFits
    <3>. QED  BY <3>1, <3>2
  <2>3. \A d \in Call : calls'[d] = IF d = c THEN NoCall ELSE others[d]
    BY <2>1, <2>2
  <2>4. past' = past
    BY <1>2 DEF tableVars
  <2>5. NoCall \in CallState /\ Fits(NoCall, page'.row, past)
    BY NoCallFits
  <2>6. calls' \in [Call -> CallState]
    BY <2>1, <2>2, <2>5
  <2>7. \A d \in Call : Fits(calls'[d], page'.row, past)
    BY <2>2, <2>3, <2>5
  <2>. QED  BY <2>4, <2>6, <2>7 DEF CallsOK
<1>. QED  BY <1>2, <1>3, <1>4, PageStepKeeps

(* A step that changes neither the page nor a call.                        *)
LEMMA BackupKeeps ==
    ASSUME PagesInv, TableWritten, UNCHANGED <<page, calls>>, NothingLeftOut',
           import' \in ImportState,
           file'.password \in FilePassword \cup {None}, file'.entries \subseteq Entry
    PROVE  PagesInv'
<1>1. PagesTypeOK'
  BY DEF PagesInv, PagesTypeOK, TableWritten
<1>2. PageOK'
  BY DEF PagesInv, PageOK, TableWritten
<1>3. CallsOK'
  BY StillFits DEF CallsOK
<1>. QED  BY <1>1, <1>2, <1>3 DEF PagesInv, TableWritten

LEMMA BackupStepKeeps == PagesInv /\ BackupStep => PagesInv'
<1>. SUFFICES ASSUME PagesInv, BackupStep PROVE PagesInv'
  OBVIOUS
<1>1. /\ table \in [Row -> Entry \cup {None}] /\ import \in ImportState
      /\ file.password \in FilePassword \cup {None} /\ file.entries \subseteq Entry
  BY DEF PagesInv, PagesTypeOK
<1>2. ASSUME NEW password \in FilePassword, Export(password) PROVE PagesInv'
  <2>1. {table[r] : r \in Stored} \subseteq Entry
    BY <1>1 DEF Stored
  <2>2. file'.password \in FilePassword \cup {None} /\ file'.entries \subseteq Entry
    BY <1>2, <2>1 DEF Export
  <2>3. TableWritten /\ UNCHANGED <<page, calls, import>> /\ NothingLeftOut'
    BY <1>2, SameTableWritten DEF Export, AtHome, NothingLeftOut
  <2>. QED  BY <1>1, <2>2, <2>3, BackupKeeps
<1>3. ASSUME NEW password \in FilePassword, StartImport(password) PROVE PagesInv'
  <2>1. import' \in ImportState /\ (import'.state = "running" => import'.left = file.entries)
    BY <1>1, <1>3 DEF StartImport, NoImport, ImportState
  <2>2. TableWritten /\ UNCHANGED <<page, calls, file>> /\ NothingLeftOut'
    BY <1>3, <2>1, SameTableWritten DEF StartImport, NothingLeftOut
  <2>. QED  BY <1>1, <2>1, <2>2, BackupKeeps
<1>4. ASSUME NEW e \in import.left, NEW r \in Row, ImportEntry(e, r) PROVE PagesInv'
  <2>1. e \in Entry /\ import.state = "running"
    BY <1>1, <1>4 DEF ImportState, ImportEntry
  <2>2. TableWritten /\ e.slot \in SlotsInUse'
    BY <1>4, <2>1, InsertWrites DEF ImportEntry
  <2>3. import' \in ImportState /\ import'.left = import.left \ {e}
    BY <1>1, <1>4 DEF ImportEntry, ImportState
  <2>4. NothingLeftOut'
    BY <1>4, <2>1, <2>2, <2>3 DEF PagesInv, NothingLeftOut, TableWritten, ImportEntry
  <2>. QED  BY <1>1, <1>4, <2>2, <2>3, <2>4, BackupKeeps DEF ImportEntry
<1>5. ASSUME NEW e \in import.left, SkipEntry(e) PROVE PagesInv'
  <2>1. TableWritten /\ UNCHANGED <<page, calls, file>> /\ import.state = "running"
    BY <1>5, SameTableWritten DEF SkipEntry
  <2>2. e.slot \in SlotsInUse'
    BY <1>5 DEF SkipEntry, SlotsInUse, Stored, tableVars
  <2>3. import' \in ImportState /\ import'.left = import.left \ {e}
    BY <1>1, <1>5 DEF SkipEntry, AfterConflict, ImportState
  <2>4. NothingLeftOut'
    BY <2>1, <2>2, <2>3 DEF PagesInv, NothingLeftOut, TableWritten
  <2>. QED  BY <1>1, <2>1, <2>3, <2>4, BackupKeeps
<1>6. CASE FailImport \/ FinishImport
  <2>1. /\ UNCHANGED <<table, past, page, calls, file>> /\ vacated' = {}
        /\ import' \in ImportState /\ import'.state # "running"
    BY <1>6 DEF FailImport, FinishImport, NoImport, ImportState
  <2>2. PagesTypeOK' /\ TableOK' /\ PageOK' /\ CallsOK' /\ NothingLeftOut'
    BY <2>1 DEF PagesInv, PagesTypeOK, TableOK, PageOK, CallsOK, NothingLeftOut
  <2>. QED  BY <2>2 DEF PagesInv
<1>. QED  BY <1>2, <1>3, <1>4, <1>5, <1>6 DEF BackupStep

-----------------------------------------------------------------------------

LEMMA StepKeeps == PagesInv /\ [PagesNext]_pagesVars => PagesInv'
<1>1. PagesInv /\ UNCHANGED pagesVars => PagesInv'
  BY DEF pagesVars, tableVars, PagesInv, PagesTypeOK, TableOK, PageOK, CallsOK, NothingLeftOut,
         SlotsInUse, Stored
<1>. QED  BY <1>1, UserStepKeeps, ServerStepKeeps, ReceiveKeeps, BackupStepKeeps DEF PagesNext

LEMMA InvariantHolds == PagesSpec => []PagesInv
BY InitialPages, StepKeeps, PTL DEF PagesSpec

(* The page of an account shows no password its row never had, for any     *)
(* number of rows and of calls in flight (accounts/[id]/page.tsx,          *)
(* handleSave; PasswordField.tsx, handleGenerate).                         *)
THEOREM ShownHasBeenStored == PagesSpec => []ShownWasStored
<1>1. PagesInv => ShownWasStored
  BY DEF PagesInv, PageOK, ShownWasStored
<1>. QED  BY <1>1, InvariantHolds, PTL

(* An import that reports its end has left out no entry of the file but    *)
(* those whose slot was given up meanwhile, for files of any size          *)
(* (accounts.service.ts, importAccounts).                                  *)
THEOREM RestoresAreComplete == PagesSpec => RestoreIsComplete
<1>. DEFINE Complete ==
        import.state = "running" /\ import'.state = "done" =>
            \A e \in file.entries : e.slot \in vacated \cup {table[r].slot : r \in Stored}
<1>1. ASSUME PagesInv, PagesNext, import.state = "running", import'.state = "done"
      PROVE  import.left = {}
  <2>1. import \in ImportState
    BY <1>1 DEF PagesInv, PagesTypeOK
  <2>2. ~UserStep /\ ~ServerStep /\ ~(\E c \in Call : ReceiveAnswer(c))
    BY <1>1 DEF UserStep, ServerStep, ReceiveAnswer, Leave, OpenNew, StartEdit, CancelEdit,
               TypePassword, Open, SubmitEdit, SubmitNew, SubmitDelete, Generate, Send
  <2>3. BackupStep
    BY <1>1, <2>2 DEF PagesNext
  <2>. QED  BY <1>1, <2>1, <2>3 DEF BackupStep, Export, StartImport, ImportEntry, SkipEntry,
               AfterConflict, FailImport, FinishImport, AtHome, NoImport, ImportState
<1>2. PagesInv /\ [PagesNext]_pagesVars => [Complete]_pagesVars
  BY <1>1 DEF PagesInv, NothingLeftOut, SlotsInUse
<1>. QED  BY <1>2, InvariantHolds, PTL DEF PagesSpec, RestoreIsComplete

=============================================================================
