----------------------------- MODULE SecretBook -----------------------------
(***************************************************************************)
(* What the vault promises its user, without sessions, keys or requests: a *)
(* book of secrets that is open or closed.  Entries are written and struck *)
(* out one at a time and only while the book is open; opening and closing  *)
(* it, logging in again, changing the master password and restarting the   *)
(* server leave every entry as it is.                                      *)
(***************************************************************************)
CONSTANTS Account, Secret, None

VARIABLES
    secrets,  \* account id -> the secret written under it, or None
    open      \* the book can be read and written

bookVars == <<secrets, open>>

BookInit ==
    /\ secrets = [a \in Account |-> None]
    /\ open = FALSE

OpenBook == ~open /\ open' = TRUE /\ UNCHANGED secrets

CloseBook == open /\ open' = FALSE /\ UNCHANGED secrets

WriteSecret ==
    /\ open
    /\ \E a \in Account, secret \in Secret : secrets' = [secrets EXCEPT ![a] = secret]
    /\ open' = open

StrikeSecret ==
    /\ open
    /\ \E a \in Account : secrets' = [secrets EXCEPT ![a] = None]
    /\ open' = open

BookNext == OpenBook \/ CloseBook \/ WriteSecret \/ StrikeSecret

BookSpec == BookInit /\ [][BookNext]_bookVars

=============================================================================
