------------------------------ MODULE Sessions ------------------------------
(***************************************************************************)
(* The session layer main.ts configures: express-session over a Postgres   *)
(* table (connect-pg-simple), resave off, saveUninitialized off, rolling   *)
(* cookies.  Each request works on its own copy of the row it loaded, and  *)
(* the whole copy is written back at the end of the response when it       *)
(* differs from what was loaded.                                           *)
(***************************************************************************)
EXTENDS VaultConstants

VARIABLES
    rows,    \* session id -> the data in the session table
    status,  \* session id -> never used, in the table, or removed from it
    cookie   \* browser -> the session id its "sid" cookie carries, or None

sessionVars == <<rows, status, cookie>>

(* SessionData.  A random nonce (oauthState, currentWebauthnChallenge) is   *)
(* modelled by its presence.  unlocked is an optional boolean.              *)
Session ==
    [userId       : User \cup {None},
     unlocked     : {"absent", "no", "yes"},
     pendingGoogle: Identity \cup {None},
     oauthState   : BOOLEAN,
     challenge    : BOOLEAN]

NewSession ==
    [userId |-> None, unlocked |-> "absent", pendingGoogle |-> None,
     oauthState |-> FALSE, challenge |-> FALSE]

SessionsTypeOK ==
    /\ rows \in [Sid -> Session]
    /\ status \in [Sid -> {"unused", "stored", "destroyed"}]
    /\ cookie \in [Browser -> Sid \cup {None}]

SessionsInit ==
    /\ rows = [s \in Sid |-> NewSession]
    /\ status = [s \in Sid |-> "unused"]
    /\ cookie = [b \in Browser |-> None]

-----------------------------------------------------------------------------

(* The cookie names a row that exists. *)
CookieFound(b) == cookie[b] # None /\ status[cookie[b]] = "stored"

(* store.set(): INSERT ... ON CONFLICT DO UPDATE, of the whole session. *)
SaveSession(s, session) ==
    /\ rows' = [rows EXCEPT ![s] = session]
    /\ status' = [status EXCEPT ![s] = "stored"]

(* store.destroy(): DELETE of the row. *)
DestroySession(s) ==
    /\ rows' = [rows EXCEPT ![s] = NewSession]
    /\ status' = [status EXCEPT ![s] = "destroyed"]

=============================================================================
