--------------------------- MODULE UnlockKeyStore ---------------------------
(***************************************************************************)
(* UnlockKeyStoreService: the one place where the AES keys derived from    *)
(* master passwords live.  It is a Map in the memory of the API process,   *)
(* keyed by session id, so a restart empties it.  lastActivityAt is        *)
(* modelled by its age: idle counts the ticks since the last activity and  *)
(* saturates at IdleCap, one more than every allowed timeout.              *)
(***************************************************************************)
EXTENDS VaultConstants

VARIABLE entries  \* session id -> UnlockEntry, NoEntry where the Map has none

UnlockEntry == [key : Key, autoLockMinutes : Minutes, idle : 0..IdleCap]

NoEntry == [key |-> None, autoLockMinutes |-> None, idle |-> 0]

KeyStoreTypeOK == entries \in [Sid -> UnlockEntry \cup {NoEntry}]

KeyStoreInit == entries = [s \in Sid |-> NoEntry]

-----------------------------------------------------------------------------

HasEntry(s) == entries[s] # NoEntry

(* Faulty variant: one key for the process instead of one per session. *)
SetEntryForAll(s, k, m) ==
    entries' = [t \in Sid |-> [key |-> k, autoLockMinutes |-> m, idle |-> 0]]

(* set(): a new entry, active now. *)
SetEntry(s, k, m) ==
    entries' = [entries EXCEPT ![s] = [key |-> k, autoLockMinutes |-> m, idle |-> 0]]

(* Faulty variant: the key is dropped, the rest of the entry stays. *)
DeleteKeyOnly(s) == entries' = [entries EXCEPT ![s].key = None]

DeleteEntry(s) == entries' = [entries EXCEPT ![s] = NoEntry]

(* touch() compares with >, so an entry idle for exactly its limit is kept. *)
Expired(s) == HasEntry(s) /\ entries[s].idle > entries[s].autoLockMinutes

(* Faulty variant: the key is returned without a look at the idle time. *)
UncheckedKey(s) == entries[s].key

(* What touch() returns: the key, or None when there is none or it expired. *)
TouchedKey(s) == IF Expired(s) THEN None ELSE entries[s].key

(* What touch() does: delete an expired entry, refresh a live one. *)
Touch(s) ==
    entries' = IF HasEntry(s) /\ ~Expired(s)
               THEN [entries EXCEPT ![s].idle = 0]
               ELSE [entries EXCEPT ![s] = NoEntry]

UpdateEntryMinutes(s, m) ==
    entries' = IF HasEntry(s)
               THEN [entries EXCEPT ![s].autoLockMinutes = m]
               ELSE entries

(* Date.now() advances past one more unit for every entry at once. *)
Age ==
    entries' = [s \in Sid |->
        IF HasEntry(s) /\ entries[s].idle < IdleCap
        THEN [entries[s] EXCEPT !.idle = @ + 1]
        ELSE entries[s]]

=============================================================================
