----------------------------- MODULE AccountPages -----------------------------
(***************************************************************************)
(* One user's accounts as the browser handles them, in an unlocked         *)
(* session: the page of a new account, the page of one account, where it   *)
(* is shown, edited and deleted, the generate button of their password     *)
(* field, and export and import on the settings page, over the accounts    *)
(* table.  How passwords are encrypted in it is the subject of Vault.      *)
(*                                                                         *)
(* The user goes on while calls are on their way.  A call is served in one *)
(* step and answered in another; an answer that comes for a page that is   *)
(* no longer there is dropped, what the server did stays done.             *)
(***************************************************************************)
EXTENDS FiniteSets

CONSTANTS
    Row,           \* ids of account rows
    Slot,          \* (urlOrAppName, loginId) pairs
    Secret,        \* account passwords
    FilePassword,  \* export passwords
    Call,          \* calls on their way
    Blank,         \* the empty password field
    None           \* nothing shown, no row, no call

ASSUME PagesAssumption ==
    /\ None \notin Row \cup Slot \cup Secret \cup FilePassword
    /\ None \notin [slot: Slot, password: Secret]
    /\ Blank \notin Secret \cup {None}

VARIABLES
    table,      \* row id -> slot and password, None without a row
    past,       \* history: the passwords each row has had
    vacated,    \* history: slots given up since the running import began
    page,       \* what the browser shows
    calls,      \* the calls on their way
    file,       \* the backup file
    import      \* the last import

tableVars == <<table, past, vacated>>
pagesVars == <<tableVars, page, calls, file, import>>

Entry == [slot: Slot, password: Secret]

(* shown: account.password, typed: the state behind the password field. *)
Page ==
    [on: {"list", "detail", "edit", "new"}, row: Row \cup {None},
     shown: Secret \cup {None}, typed: Secret \cup {Blank}]
ListPage == [on |-> "list", row |-> None, shown |-> None, typed |-> Blank]

(* before: account.password when the form was submitted.  sender: what is  *)
(* still there of the page the call came from.                             *)
CallState ==
    [kind: {"none", "load", "save", "create", "delete", "generate"}, row: Row \cup {None},
     password: Secret \cup {Blank}, before: Secret \cup {None},
     sender: {"field", "page", "gone"}, answer: {"none", "ok", "failed"}]
NoCall ==
    [kind |-> "none", row |-> None, password |-> Blank, before |-> None, sender |-> "gone",
     answer |-> "none"]

ImportState == [state: {"idle", "running", "done", "failed"}, left: SUBSET Entry]
NoImport == [state |-> "idle", left |-> {}]
NoFile == [password |-> None, entries |-> {}]

PagesInit ==
    /\ table = [r \in Row |-> None]
    /\ past = [r \in Row |-> {}]
    /\ vacated = {}
    /\ page = ListPage
    /\ calls = [c \in Call |-> NoCall]
    /\ file = NoFile
    /\ import = NoImport

-----------------------------------------------------------------------------
(* The table *)

Stored == {r \in Row : table[r] # None}

(* A new random id: nothing refers to it. *)
FreshRow(r) == r \notin Stored /\ page.row # r /\ \A c \in Call : calls[c].row # r

(* The unique constraint on (userId, urlOrAppName, loginId). *)
SlotFree(slot, r) == \A q \in Stored \ {r} : table[q].slot # slot

InsertRow(r, entry) ==
    /\ FreshRow(r)
    /\ SlotFree(entry.slot, r)
    /\ table' = [table EXCEPT ![r] = entry]
    /\ past' = [past EXCEPT ![r] = {entry.password}]
    /\ UNCHANGED vacated

Vacate(slots) ==
    vacated' = IF import.state = "running" THEN vacated \cup slots ELSE vacated

UpdateRow(r, entry) ==
    /\ r \in Stored
    /\ SlotFree(entry.slot, r)
    /\ table' = [table EXCEPT ![r] = entry]
    /\ past' = [past EXCEPT ![r] = @ \cup {entry.password}]
    /\ Vacate({table[r].slot} \ {entry.slot})

-----------------------------------------------------------------------------
(* What the user does *)

(* A page that is left takes with it what its calls had to tell it; of     *)
(* those, the ones that change nothing need not be followed further.       *)
Left ==
    [c \in Call |->
        IF calls[c].answer # "none" \/ calls[c].kind \in {"load", "generate"} THEN NoCall
                    ELSE [calls[c] EXCEPT !.sender = "gone", !.before = None]]

(* The password field goes, the page stays. *)
FieldGone ==
    [c \in Call |-> IF calls[c].sender = "field" THEN [calls[c] EXCEPT !.sender = "page"]
                                                 ELSE calls[c]]

(* Bound: one tab, in which the user waits for an import.  Calls of pages   *)
(* left before may be served meanwhile.                                    *)
AtHome == page = ListPage /\ import.state # "running"

Leave ==
    /\ page # ListPage
    /\ page' = ListPage
    /\ calls' = Left
    /\ UNCHANGED <<tableVars, file, import>>

OpenNew ==
    /\ AtHome
    /\ page' = [ListPage EXCEPT !.on = "new"]
    /\ UNCHANGED <<tableVars, calls, file, import>>

(* The page of an account mounts and loads it. *)
Open(r, c) ==
    /\ AtHome
    /\ r \in Stored
    /\ calls[c] = NoCall
    /\ page' = [ListPage EXCEPT !.on = "detail", !.row = r]
    /\ calls' = [calls EXCEPT ![c] = [NoCall EXCEPT !.kind = "load", !.row = r, !.sender = "page"]]
    /\ UNCHANGED <<tableVars, file, import>>

StartEdit ==
    /\ page.on = "detail" /\ page.shown # None
    /\ page' = [page EXCEPT !.on = "edit"]
    /\ UNCHANGED <<tableVars, calls, file, import>>

(* What was typed stays in the page. *)
CancelEdit ==
    /\ page.on = "edit"
    /\ page' = [page EXCEPT !.on = "detail"]
    /\ calls' = FieldGone
    /\ UNCHANGED <<tableVars, file, import>>

TypePassword(password) ==
    /\ page.on \in {"edit", "new"}
    /\ page' = [page EXCEPT !.typed = password]
    /\ UNCHANGED <<tableVars, calls, file, import>>

(* The button is disabled while this field or this form waits. *)
Send(c, call) ==
    /\ calls[c] = NoCall
    /\ \A d \in Call : ~(calls[d].kind = call.kind /\ calls[d].sender = call.sender)
    /\ calls' = [calls EXCEPT ![c] = call]
    /\ UNCHANGED <<tableVars, page, file, import>>

Generate(c) ==
    /\ page.on \in {"edit", "new"}
    /\ Send(c, [NoCall EXCEPT !.kind = "generate", !.sender = "field"])

(* handleSave and handleSubmit capture the password of their render.  The  *)
(* slot the form names is chosen when the call is served.                  *)
SubmitEdit(c) ==
    /\ page.on = "edit"
    /\ Send(c, [NoCall EXCEPT !.kind = "save", !.row = page.row, !.password = page.typed,
                    !.before = page.shown, !.sender = "page"])

SubmitNew(c) ==
    /\ page.on = "new"
    /\ page.typed # Blank
    /\ Send(c, [NoCall EXCEPT !.kind = "create", !.password = page.typed, !.sender = "page"])

SubmitDelete(c) ==
    /\ page.on = "detail" /\ page.shown # None
    /\ Send(c, [NoCall EXCEPT !.kind = "delete", !.row = page.row, !.sender = "page"])

-----------------------------------------------------------------------------
(* What the server does *)

Unserved(c, kind) == calls[c].kind = kind /\ calls[c].answer = "none"

Answered(c, answer, password) ==
    calls' = [calls EXCEPT ![c] =
        IF calls[c].sender = "gone" THEN NoCall
        ELSE [calls[c] EXCEPT !.answer = answer, !.password = password]]

Served(c, password) == Answered(c, "ok", password)

ServeLoad(c) ==
    /\ Unserved(c, "load")
    /\ calls[c].row \in Stored
    /\ Served(c, table[calls[c].row].password)
    /\ UNCHANGED tableVars

ServeGenerate(c, password) ==
    /\ Unserved(c, "generate")
    /\ Served(c, password)
    /\ UNCHANGED tableVars

(* Without a password the ciphertext stays. *)
ServeSave(c, slot) ==
    /\ Unserved(c, "save")
    /\ UpdateRow(calls[c].row,
           [slot |-> slot,
            password |-> IF calls[c].password = Blank THEN table[calls[c].row].password
                                                      ELSE calls[c].password])
    /\ Served(c, calls[c].password)

ServeCreate(c, r, slot) ==
    /\ Unserved(c, "create")
    /\ InsertRow(r, [slot |-> slot, password |-> calls[c].password])
    /\ Served(c, calls[c].password)

ServeDelete(c) ==
    /\ Unserved(c, "delete")
    /\ calls[c].row \in Stored
    /\ table' = [table EXCEPT ![calls[c].row] = None]
    /\ Vacate({table[calls[c].row].slot})
    /\ Served(c, calls[c].password)
    /\ UNCHANGED past

(* The row is gone, the slot is taken, or the call fails on its way. *)
ServeNothing(c) ==
    /\ calls[c].kind # "none" /\ calls[c].answer = "none"
    /\ Answered(c, "failed", Blank)
    /\ UNCHANGED tableVars

-----------------------------------------------------------------------------
(* What the page does with an answer *)

(* Faulty variant: the field's present content is taken for what was saved. *)
PageAfterSaveTyped(c) ==
    [page EXCEPT !.on = "detail", !.typed = Blank,
                 !.shown = IF page.typed # Blank THEN page.typed ELSE calls[c].before]

PageAfterSave(c) ==
    [page EXCEPT !.on = "detail", !.typed = Blank,
                 !.shown = IF calls[c].password # Blank THEN calls[c].password ELSE calls[c].before]

PageAfter(c) ==
    IF calls[c].answer = "failed" THEN page
    ELSE CASE calls[c].kind = "load" -> [page EXCEPT !.shown = calls[c].password]
           [] calls[c].kind = "save" -> PageAfterSave(c)
           [] calls[c].kind = "generate" -> [page EXCEPT !.typed = calls[c].password]
           [] calls[c].kind \in {"create", "delete"} -> ListPage

(* A save closes the form and its field, a create or delete the page. *)
ReceiveAnswer(c) ==
    /\ calls[c].answer # "none"
    /\ page' = PageAfter(c)
    /\ calls' = [IF PageAfter(c) = ListPage THEN Left
                 ELSE IF PageAfter(c).on = "detail" THEN FieldGone
                 ELSE calls EXCEPT ![c] = NoCall]
    /\ UNCHANGED <<tableVars, file, import>>

-----------------------------------------------------------------------------
(* Export and import *)

Export(password) ==
    /\ AtHome
    /\ file' = [password |-> password, entries |-> {table[r] : r \in Stored}]
    /\ UNCHANGED <<tableVars, page, calls, import>>

(* With another password than the file's nothing is decrypted. *)
StartImport(password) ==
    /\ AtHome
    /\ file # NoFile
    /\ import' = IF password = file.password
                 THEN [state |-> "running", left |-> file.entries]
                 ELSE [NoImport EXCEPT !.state = "failed"]
    /\ UNCHANGED <<tableVars, page, calls, file>>

ImportEntry(e, r) ==
    /\ import.state = "running" /\ e \in import.left
    /\ InsertRow(r, e)
    /\ import' = [import EXCEPT !.left = @ \ {e}]
    /\ UNCHANGED <<page, calls, file>>

(* Faulty variant: the first conflict ends the loop. *)
AfterConflictStop(e) == [import EXCEPT !.left = {}]

AfterConflict(e) == [import EXCEPT !.left = @ \ {e}]

SkipEntry(e) ==
    /\ import.state = "running" /\ e \in import.left
    /\ \E q \in Stored : table[q].slot = e.slot
    /\ import' = AfterConflict(e)
    /\ UNCHANGED <<tableVars, page, calls, file>>

(* Another failure ends the loop, the entries before it stay. *)
FailImport ==
    /\ import.state = "running" /\ import.left # {}
    /\ import' = [NoImport EXCEPT !.state = "failed"]
    /\ vacated' = {}
    /\ UNCHANGED <<table, past, page, calls, file>>

FinishImport ==
    /\ import.state = "running" /\ import.left = {}
    /\ import' = [NoImport EXCEPT !.state = "done"]
    /\ vacated' = {}
    /\ UNCHANGED <<table, past, page, calls, file>>

-----------------------------------------------------------------------------

UserStep ==
    \/ Leave \/ OpenNew \/ StartEdit \/ CancelEdit
    \/ \E password \in Secret \cup {Blank} : TypePassword(password)
    \/ \E c \in Call :
        \/ \E r \in Row : Open(r, c)
        \/ SubmitEdit(c) \/ SubmitNew(c) \/ SubmitDelete(c)
        \/ Generate(c)

ServerStep ==
    /\ \E c \in Call :
        \/ ServeLoad(c)
        \/ \E slot \in Slot : ServeSave(c, slot) \/ \E r \in Row : ServeCreate(c, r, slot)
        \/ ServeDelete(c)
        \/ \E password \in Secret : ServeGenerate(c, password)
        \/ ServeNothing(c)
    /\ UNCHANGED <<page, file, import>>

BackupStep ==
    \/ \E password \in FilePassword : Export(password) \/ StartImport(password)
    \/ \E e \in import.left : SkipEntry(e) \/ \E r \in Row : ImportEntry(e, r)
    \/ FailImport
    \/ FinishImport

PagesNext == UserStep \/ ServerStep \/ (\E c \in Call : ReceiveAnswer(c)) \/ BackupStep

PagesSpec == PagesInit /\ [][PagesNext]_pagesVars

-----------------------------------------------------------------------------

PagesTypeOK ==
    /\ table \in [Row -> Entry \cup {None}]
    /\ past \in [Row -> SUBSET Secret]
    /\ vacated \subseteq Slot
    /\ page \in Page
    /\ calls \in [Call -> CallState]
    /\ file.password \in FilePassword \cup {None} /\ file.entries \subseteq Entry
    /\ import \in ImportState

(* The page shows no password that its row never had, whatever the user    *)
(* types, generates, cancels or submits while a save is on its way         *)
(* (accounts/[id]/page.tsx, handleSave; PasswordField.tsx, handleGenerate).*)
ShownWasStored == page.shown # None => page.shown \in past[page.row]

(* A restore that reports its end has left out no entry of the file: each  *)
(* was added or was there, unless the user has given the slot up since     *)
(* (accounts.service.ts, importAccounts).                                  *)
RestoreIsComplete ==
    [][import.state = "running" /\ import'.state = "done" =>
           \A e \in file.entries :
               e.slot \in vacated \cup {table[r].slot : r \in Stored}]_pagesVars

=============================================================================
