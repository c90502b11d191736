------------------------------- MODULE PgAuth -------------------------------
(***************************************************************************)
(* SCRAM-SHA-256 authentication of PostgreSQL-protocol connections         *)
(* (src/pg_auth.go, PgConn.Auth / ScramSha256Auth) against the credentials *)
(* table duckserver.users (src/pg_server.go, CreateUser / GetPassword),    *)
(* and what PgConn.Run does with Auth's result: nil enters the main loop,  *)
(* an error closes the connection.                                         *)
(*                                                                         *)
(* The server runs with --auth (PgServer.enableAuth); without it Auth     *)
(* only writes AuthenticationOk, which module PgConn covers.               *)
(* Several sessions authenticate concurrently and users are created        *)
(* concurrently, and any SQL front-end may rewrite the table.  Cryptography is abstracted: a stored credential is the   *)
(* password it was derived from (pgpasswd.Encrypt), and a client's proof   *)
(* verifies exactly when the client's password is that password.  What the *)
(* client sends is chosen from the classes the code tells apart.  A Go     *)
(* panic in a connection goroutine is not recovered and ends the process.  *)
(***************************************************************************)
EXTENDS Integers, Sequences, FiniteSets

CONSTANTS
    Sessions,     \* accepted connections
    Users,        \* user names
    Passwords,    \* passwords
    InitialKinds, \* classes of SASLInitialResponse the clients send
    FinalKinds    \* classes of SASLResponse the clients send

ASSUME InitialKinds \subseteq {"io", "unparsable", "wrongMech", "noData", "noNonce", "good"}
ASSUME FinalKinds \subseteq {"io", "unparsable", "proof", "shortProof"}

\* A stored value that does not match ^SCRAM-SHA-256\$(\d+):(.*?)\$(.*?):(.*?)$
Malformed == "malformed"
NoUser == "none"

VARIABLES
    users,        \* duckserver.users: user -> stored credential, NoUser if absent
    user,         \* the "user" startup parameter of each session
    password,     \* the password each session's client knows
    apc,          \* where ScramSha256Auth of each session is
    stored,       \* the credential each session read with GetPassword
    sent,         \* authentication request codes (and ErrorResp) written to each session
    phase,        \* each session: "auth", "loop" (main loop of Run) or "closed"
    crashed,      \* an unrecovered panic ended the process
    held          \* history: the values users[user[s]] took since session s connected

vars == <<users, user, password, apc, stored, sent, phase, crashed, held>>

\* The history records every value the table gives a session's user.
Record(u2) == held' = [s \in Sessions |-> held[s] \cup {u2[user[s]]}]

\* Authentication request codes: SASL 10, SASLContinue 11, SASLFinal 12, Ok 0.
AuthSASL == 10
AuthSASLContinue == 11
AuthSASLFinal == 12
AuthOk == 0
\* An ErrorResponse written during authentication.
ErrorResp == -1

\* Bug variant of ValidCredential: only a missing user is refused.
ValidCredentialAny(v) == v # NoUser

\* GetPassword: the user exists and its value matches the SCRAM pattern (5 groups).
ValidCredential(v) == v \in Passwords

Init ==
    /\ users = [u \in Users |-> NoUser]
    /\ user \in [Sessions -> Users]
    /\ password \in [Sessions -> Passwords]
    /\ apc = [s \in Sessions |-> "start"]
    /\ stored = [s \in Sessions |-> NoUser]
    /\ sent = [s \in Sessions |-> <<>>]
    /\ phase = [s \in Sessions |-> "auth"]
    /\ crashed = FALSE
    /\ held = [s \in Sessions |-> {NoUser}]

\* Run after Auth returned: nil enters the main loop, an error closes.
AuthReturns(s, isNil) == phase' = [phase EXCEPT ![s] = IF isNil THEN "loop" ELSE "closed"]

(***************************************************************************)
(* Auth with authentication enabled calls ScramSha256Auth, which writes    *)
(* AuthenticationSASL offering SCRAM-SHA-256.                              *)
(***************************************************************************)
Auth(s) ==
    /\ ~crashed /\ apc[s] = "start"
    /\ sent' = [sent EXCEPT ![s] = <<AuthSASL>>]
    /\ apc' = [apc EXCEPT ![s] = "initial"]
    /\ UNCHANGED <<users, user, password, stored, phase, crashed, held>>

(***************************************************************************)
(* Reading the SASLInitialResponse.  A read error returns it; a message    *)
(* ParseSASLInitialResponseMessage rejects returns nil; a mechanism other  *)
(* than SCRAM-SHA-256, no initial data or no r= nonce return an error.     *)
(* Then GetPassword: a missing user or a malformed stored value writes an  *)
(* ErrorResponse, whose nil write result is returned.  Otherwise the       *)
(* server-first message goes out as AuthenticationSASLContinue.            *)
(***************************************************************************)
ReadInitial(s) ==
    /\ ~crashed /\ apc[s] = "initial"
    /\ \E m \in InitialKinds :
        \/ /\ m \in {"io", "wrongMech", "noData", "noNonce"}
           /\ apc' = [apc EXCEPT ![s] = "done"]
           /\ AuthReturns(s, FALSE)
           /\ UNCHANGED <<stored, sent>>
        \/ /\ m = "unparsable"
           /\ apc' = [apc EXCEPT ![s] = "done"]
           /\ AuthReturns(s, TRUE)
           /\ UNCHANGED <<stored, sent>>
        \/ /\ m = "good"
           /\ ~ValidCredential(users[user[s]])
           /\ sent' = [sent EXCEPT ![s] = Append(@, ErrorResp)]
           /\ apc' = [apc EXCEPT ![s] = "done"]
           /\ AuthReturns(s, TRUE)
           /\ UNCHANGED stored
        \/ /\ m = "good"
           /\ ValidCredential(users[user[s]])
           /\ stored' = [stored EXCEPT ![s] = users[user[s]]]
           /\ sent' = [sent EXCEPT ![s] = Append(@, AuthSASLContinue)]
           /\ apc' = [apc EXCEPT ![s] = "final"]
           /\ UNCHANGED phase
    /\ UNCHANGED <<users, user, password, crashed, held>>

ProofVerifies(s) == password[s] = stored[s]

(***************************************************************************)
(* Reading the SASLResponse.  A read error returns it; an unparsable       *)
(* message returns nil; a ClientProof shorter than the 32-byte signature   *)
(* panics on clientProof[i]; a proof that does not verify writes an        *)
(* ErrorResponse and returns nil; a verified one writes the server         *)
(* signature "v=..." (as request code 11) and AuthenticationOk.            *)
(***************************************************************************)
ReadFinal(s) ==
    /\ ~crashed /\ apc[s] = "final"
    /\ \E m \in FinalKinds :
        \/ /\ m = "io"
           /\ AuthReturns(s, FALSE)
           /\ UNCHANGED <<sent, crashed>>
        \/ /\ m = "unparsable"
           /\ AuthReturns(s, TRUE)
           /\ UNCHANGED <<sent, crashed>>
        \/ /\ m = "shortProof"
           /\ crashed' = TRUE
           /\ UNCHANGED <<sent, phase>>
        \/ /\ m = "proof" /\ ~ProofVerifies(s)
           /\ sent' = [sent EXCEPT ![s] = Append(@, ErrorResp)]
           /\ AuthReturns(s, TRUE)
           /\ UNCHANGED crashed
        \/ /\ m = "proof" /\ ProofVerifies(s)
           /\ sent' = [sent EXCEPT ![s] = @ \o <<AuthSASLContinue, AuthOk>>]
           /\ AuthReturns(s, TRUE)
           /\ UNCHANGED crashed
    /\ apc' = [apc EXCEPT ![s] = "done"]
    /\ UNCHANGED <<users, user, password, stored, held>>

(***************************************************************************)
(* CREATE USER u WITH PASSWORD 'p', a simple query of a session in the     *)
(* main loop: PgServer.CreateUser inserts the SCRAM form of p; the primary *)
(* key on username rejects an existing user.                               *)
(***************************************************************************)
CreateUser(s, u, p) ==
    /\ ~crashed /\ phase[s] = "loop"
    /\ users[u] = NoUser
    /\ users' = [users EXCEPT ![u] = p]
    /\ Record(users')
    /\ UNCHANGED <<user, password, apc, stored, sent, phase, crashed>>

(***************************************************************************)
(* ChServer.ExecuteQuery runs any statement an HTTP client posts, with no  *)
(* authentication (and a session in the main loop may do the same): it    *)
(* may insert, update or delete the row of user u, writing a credential,  *)
(* a value GetPassword's pattern does not match, or no row.  A failing    *)
(* statement answers 500 and changes nothing.                              *)
(***************************************************************************)
ExecuteQuery(u, v) ==
    /\ ~crashed
    /\ users' = [users EXCEPT ![u] = v]
    /\ Record(users')
    /\ UNCHANGED <<user, password, apc, stored, sent, phase, crashed>>

(***************************************************************************)
(* The connection ends (PgConn.Close) and the slot is taken by a new       *)
(* accepted connection (PgServer.Start: newPgConn, Run) for any user and   *)
(* password.                                                               *)
(***************************************************************************)
Reconnect(s) ==
    /\ ~crashed /\ phase[s] \in {"loop", "closed"}
    /\ \E u \in Users, p \in Passwords :
        /\ user' = [user EXCEPT ![s] = u]
        /\ password' = [password EXCEPT ![s] = p]
    /\ apc' = [apc EXCEPT ![s] = "start"]
    /\ stored' = [stored EXCEPT ![s] = NoUser]
    /\ sent' = [sent EXCEPT ![s] = <<>>]
    /\ phase' = [phase EXCEPT ![s] = "auth"]
    /\ held' = [held EXCEPT ![s] = {users[user'[s]]}]
    /\ UNCHANGED <<users, crashed>>

Next ==
    \/ \E s \in Sessions : Auth(s) \/ ReadInitial(s) \/ ReadFinal(s) \/ Reconnect(s)
    \/ \E s \in Sessions, u \in Users, p \in Passwords : CreateUser(s, u, p)
    \/ \E u \in Users, v \in Passwords \cup {Malformed, NoUser} : ExecuteQuery(u, v)

Spec == Init /\ [][Next]_vars

-----------------------------------------------------------------------------
TypeOK ==
    /\ users \in [Users -> Passwords \cup {NoUser, Malformed}]
    /\ user \in [Sessions -> Users] /\ password \in [Sessions -> Passwords]
    /\ apc \in [Sessions -> {"start", "initial", "final", "done"}]
    /\ stored \in [Sessions -> Passwords \cup {NoUser}]
    /\ sent \in [Sessions -> Seq({AuthSASL, AuthSASLContinue, AuthSASLFinal, AuthOk, ErrorResp})]
    /\ phase \in [Sessions -> {"auth", "loop", "closed"}]
    /\ crashed \in BOOLEAN
    /\ held \in [Sessions -> SUBSET (Passwords \cup {NoUser, Malformed})]

Contains(seq, x) == \E i \in DOMAIN seq : seq[i] = x

OnlyAuthenticatedInLoop ==
    \A s \in Sessions : phase[s] = "loop" => Contains(sent[s], AuthOk)

=============================================================================
