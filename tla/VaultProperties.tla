--------------------------- MODULE VaultProperties ---------------------------
(***************************************************************************)
(* What the vault has to guarantee, over the state of Vault.               *)
(***************************************************************************)
EXTENDS Vault

Readable(a) == accounts[a].key = users[accounts[a].owner].key

StoredAccounts == {a \in Account : accounts[a] # NoAccount}

Quiescent == \A r \in Request : reqs[r].pc = "idle"

(* A session row that the guard would let through, if the key is there. *)
Unlocked(s) == status[s] = "stored" /\ rows[s].unlocked = "yes" /\ HasEntry(s)

-----------------------------------------------------------------------------

(* Every stored password is encrypted under the key its owner's master     *)
(* password derives now: whoever unlocks the vault can read, export and    *)
(* re-encrypt all of it (auth.service.ts, changeMasterPassword;            *)
(* accounts.service.ts, create and update).                                *)
AllReadable == \A a \in StoredAccounts : Readable(a)

(* Every key that is in memory, that a request holds or that encrypts a    *)
(* password has been the key of some user row: neither a setup nor a       *)
(* change that fails or stops half-way leaves a key that no master         *)
(* password derives (auth.service.ts, setupMasterPassword and              *)
(* changeMasterPassword set the key store after the commit).               *)
KeysCommitted ==
    /\ \A s \in Sid : HasEntry(s) => keyOwner[entries[s].key] # None
    /\ \A r \in Request : reqs[r].key # None => keyOwner[reqs[r].key] # None
    /\ \A a \in StoredAccounts : keyOwner[accounts[a].key] # None

(* The key the guard handed to a request is the current key of the user    *)
(* the request acts for, for as long as the request runs; the change of    *)
(* the master password, which makes no use of that key, is left out        *)
(* (unlocked.guard.ts, accounts.controller.ts).                            *)
AdmittedKeyOpensVault ==
    \A r \in Request : reqs[r].key # None /\ reqs[r].op # "change" =>
        reqs[r].key = users[reqs[r].user].key

(* No two users share a Google account, though nothing but the unique      *)
(* column stands between two setups that both found no user in their       *)
(* callbacks (auth.service.ts, handleGoogleCallback, setupMasterPassword). *)
OneVaultPerIdentity ==
    \A u, v \in User :
        u # v /\ users[u].googleSubId # None => users[u].googleSubId # users[v].googleSubId

(* Changing the master password re-encrypts passwords and changes none:    *)
(* when a user's key changes, each account of that user keeps its secret   *)
(* (auth.service.ts, changeMasterPassword).                                *)
RotationPreservesPlaintext ==
    [][\A u \in User : users[u].key # None /\ users'[u].key # users[u].key =>
           \A a \in Account : accounts[a].owner = u =>
               accounts'[a].owner = u /\ accounts'[a].secret = accounts[a].secret]_vars

(* When nothing is in flight, an unlocked session locks after the time its *)
(* user has set last (auth.service.ts, updateAutoLockMinutes: the setting  *)
(* reaches the current session at once).                                   *)
SettingReachesSession ==
    Quiescent => \A s \in Sid : Unlocked(s) =>
        entries[s].autoLockMinutes = users[rows[s].userId].autoLockMinutes

(* The guard lets nothing through once the session has been idle for       *)
(* longer than its user's setting (unlock-key-store.service.ts, touch).    *)
IdleSessionsAreLocked ==
    [][\A r \in Request : reqs[r].key = None /\ reqs'[r].key # None =>
           entries[reqs[r].sid].idle <= users[reqs'[r].user].autoLockMinutes]_vars

(* An unlocked session that no request is at work on holds the key of the  *)
(* user it is logged in as (auth.controller.ts, webauthnAuthenticate;      *)
(* unlocked.guard.ts).                                                     *)
UnlockedSessionOwnsKey ==
    \A s \in Sid :
        Unlocked(s) /\ (\A r \in Request : reqs[r].sid # s) =>
            keyOwner[entries[s].key] = rows[s].userId

(* A trusted device was registered under the current master password: the  *)
(* one its browser has wrapped still unlocks the vault                     *)
(* (auth.service.ts, changeMasterPassword, which removes the devices of    *)
(* the user; webauthn.service.ts, verifyRegistration).                     *)
PasskeysHoldCurrentPassword ==
    \A d \in Device : devices[d] # NoDevice =>
        devices[d].key = users[devices[d].owner].key

-----------------------------------------------------------------------------
(* The vault as a book of secrets.  A password that its owner's key does   *)
(* not open is no secret of the book.  The book is open while some key is  *)
(* in memory.                                                              *)

Lost == "lost"

BookSecrets ==
    [a \in Account |->
        IF a \notin StoredAccounts THEN None
        ELSE IF Readable(a) THEN accounts[a].secret ELSE Lost]

BookOpen ==
    \/ \E s \in Sid : HasEntry(s)
    \/ \E r \in Request : reqs[r].key # None

Book == INSTANCE SecretBook WITH secrets <- BookSecrets, open <- BookOpen

(* The vault keeps the promises of SecretBook: passwords change one at a   *)
(* time, only while a key is in memory, and survive locking, logging out,  *)
(* restarting and changing the master password.                            *)
PromisesSecretBook == Book!BookSpec

=============================================================================
