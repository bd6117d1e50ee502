------------------------------- MODULE MCVault -------------------------------
(***************************************************************************)
(* Instances of the vault for TLC: the mixes of routes the runs exercise   *)
(* and the sets whose elements are interchangeable.                        *)
(***************************************************************************)
EXTENDS VaultProperties, TLC

LoginOps == {"googleStart", "googleCallback", "setup", "unlock"}

PasskeyOps ==
    {"authenticateOptions", "authenticate", "registerOptions", "register", "removeDevice"}

(* One user at one browser, everything that touches passwords. *)
VaultOps ==
    LoginOps \cup {"lock", "logout", "create", "update", "remove", "read", "change"}
             \cup PasskeyOps

(* Two people at one browser: all that concerns its session, no passkeys. *)
SettingOps == LoginOps \cup {"lock", "logout", "me", "change", "settings"}

(* Two browsers at once, the master password stays. *)
BrowserOps == LoginOps \cup {"lock", "create"}

(* Two sessions, the master password changes. *)
RotationOps == LoginOps \cup {"create", "change"}

VaultSymmetry == Permutations(Account) \cup Permutations(Slot) \cup Permutations(Secret)
KeySymmetry == Permutations(Key) \cup Permutations(Sid)
ClientSymmetry == Permutations(Browser) \cup Permutations(Request)

SequentialSymmetry == VaultSymmetry \cup KeySymmetry
ConcurrentSymmetry == VaultSymmetry \cup KeySymmetry \cup ClientSymmetry

=============================================================================
