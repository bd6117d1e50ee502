--------------------------- MODULE VaultConstants ---------------------------
(***************************************************************************)
(* The sets shared by the modules that model the API process and the       *)
(* tables it keeps: ids, keys and the values of the auto-lock setting.     *)
(***************************************************************************)
EXTENDS Naturals

CONSTANTS
    User,      \* user ids
    Identity,  \* Google accounts (the sub claim of a profile)
    Browser,   \* browsers, each with one cookie jar
    Sid,       \* session ids
    Key,       \* AES-256 keys, each derived from a password and a fresh salt
    Minutes,   \* values of the auto-lock setting (1..240 in the code)
    IdleCap,   \* idle time at which counting stops
    None       \* absence: undefined in the code, NULL or no row in a table

ASSUME NoneAssumption ==
    None \notin User \cup Identity \cup Browser \cup Sid \cup Key \cup Minutes

ASSUME IdleAssumption ==
    /\ IdleCap \in Nat
    /\ Minutes \subseteq Nat
    /\ \A m \in Minutes : m < IdleCap

=============================================================================
