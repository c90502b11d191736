------------------------------ MODULE PgServer ------------------------------
(***************************************************************************)
(* The server shell of the PostgreSQL front-end (src/pg_server.go) and the *)
(* cancellation it offers: every accepted connection (newPgConn, Run) gets *)
(* a random 8-byte key; a connection whose first frame is a CancelRequest  *)
(* looks the key up in PgServer.backends and calls the cancel function of  *)
(* the connection found, which is the CancelFunc of the context of the     *)
(* query that connection is running (SimpleQuery, Execute and CopyIn set   *)
(* c.cancel for the duration of a statement).  Close deletes the key.      *)
(*                                                                         *)
(* A connection slot stands for one accepted connection; its key is the    *)
(* slot itself (key collisions of rand.Read are not modelled).  What a     *)
(* connection does between its first frame and its statements is the      *)
(* subject of PgConn and PgAuth; here a statement is a context that is     *)
(* created, maybe observed cancelled by the engine, and cancelled on exit. *)
(***************************************************************************)
EXTENDS Naturals, FiniteSets

CONSTANTS
    Conns,        \* accepted connections
    MaxQueries    \* bound on statements run in total

ASSUME MaxQueries \in Nat \ {0}

NoCtx == 0
Ctxs == 1..MaxQueries

VARIABLES
    st,           \* each connection: "new" (first frame unread), "loop", "busy" (running a statement), "closed"
    cancelFn,     \* PgConn.cancel: the context whose CancelFunc it holds, NoCtx if nil
    ctxDone,      \* contexts whose CancelFunc has been called
    nextCtx,      \* the next context created
    backends,     \* PgServer.backends: the keys it maps to a connection
    interrupted,  \* contexts whose statement the engine aborted on cancellation
    requested     \* history: contexts in flight when a CancelRequest for their key was handled

vars == <<st, cancelFn, ctxDone, nextCtx, backends, interrupted, requested>>

Init ==
    /\ st = [c \in Conns |-> "new"]
    /\ cancelFn = [c \in Conns |-> NoCtx]
    /\ ctxDone = {}
    /\ nextCtx = 1
    /\ backends = {}
    /\ interrupted = {}
    /\ requested = {}

(***************************************************************************)
(* PgServer.Close: backends.Delete(key), called by PgConn.Close when Run's *)
(* goroutine ends.                                                         *)
(***************************************************************************)
ServerClose(c) == backends' = backends \ {c}

(***************************************************************************)
(* PgServer.CancelRequest(key): Load the key; if a connection is found and *)
(* its cancel is not nil, call it.                                          *)
(***************************************************************************)
CancelRequest(k) ==
    ctxDone' = IF k \in backends /\ cancelFn[k] # NoCtx
               THEN ctxDone \cup {cancelFn[k]} ELSE ctxDone

(***************************************************************************)
(* First frame of an accepted connection is a StartupMessage: after        *)
(* authentication the connection enters the main loop of Run.  Nothing in  *)
(* newPgConn, Run or Start stores the key in backends.                     *)
(***************************************************************************)
FirstStartup(c) ==
    /\ st[c] = "new"
    /\ st' = [st EXCEPT ![c] = "loop"]
    /\ UNCHANGED <<cancelFn, ctxDone, nextCtx, backends, interrupted, requested>>

(***************************************************************************)
(* First frame is a CancelRequest carrying key k: CancelRequest(k), then   *)
(* Run returns and the deferred Close deletes this connection's own key.   *)
(***************************************************************************)
FirstCancel(c, k) ==
    /\ st[c] = "new"
    /\ CancelRequest(k)
    /\ requested' = IF st[k] = "busy" THEN requested \cup {cancelFn[k]} ELSE requested
    /\ st' = [st EXCEPT ![c] = "closed"]
    /\ ServerClose(c)
    /\ UNCHANGED <<cancelFn, nextCtx, interrupted>>

(***************************************************************************)
(* A statement starts: ctx, cancel := context.WithCancel; c.cancel =      *)
(* cancel.                                                                 *)
(***************************************************************************)
StartStatement(c) ==
    /\ st[c] = "loop" /\ nextCtx <= MaxQueries
    /\ cancelFn' = [cancelFn EXCEPT ![c] = nextCtx]
    /\ nextCtx' = nextCtx + 1
    /\ st' = [st EXCEPT ![c] = "busy"]
    /\ UNCHANGED <<ctxDone, backends, interrupted, requested>>

(***************************************************************************)
(* The statement ends: normally, or, once its context is cancelled, with   *)
(* the engine's cancellation error (ErrorResponse).  The deferred cancel() *)
(* and c.cancel = nil follow.                                              *)
(***************************************************************************)
EndStatement(c) ==
    /\ st[c] = "busy"
    /\ \E aborted \in BOOLEAN :
        /\ aborted => cancelFn[c] \in ctxDone
        /\ interrupted' = IF aborted THEN interrupted \cup {cancelFn[c]} ELSE interrupted
    /\ ctxDone' = ctxDone \cup {cancelFn[c]}
    /\ cancelFn' = [cancelFn EXCEPT ![c] = NoCtx]
    /\ st' = [st EXCEPT ![c] = "loop"]
    /\ UNCHANGED <<nextCtx, backends, requested>>

(***************************************************************************)
(* Run returns (Terminate, an I/O or protocol error): PgConn.Close, which  *)
(* calls PgServer.Close with the connection's key.                         *)
(***************************************************************************)
CloseConn(c) ==
    /\ st[c] = "loop"
    /\ st' = [st EXCEPT ![c] = "closed"]
    /\ ServerClose(c)
    /\ UNCHANGED <<cancelFn, ctxDone, nextCtx, interrupted, requested>>

Next ==
    \E c \in Conns :
        \/ FirstStartup(c)
        \/ \E k \in Conns \ {c} : FirstCancel(c, k)
        \/ StartStatement(c)
        \/ EndStatement(c)
        \/ CloseConn(c)

Spec == Init /\ [][Next]_vars

-----------------------------------------------------------------------------
TypeOK ==
    /\ st \in [Conns -> {"new", "loop", "busy", "closed"}]
    /\ cancelFn \in [Conns -> {NoCtx} \cup Ctxs]
    /\ ctxDone \subseteq Ctxs /\ interrupted \subseteq Ctxs /\ requested \subseteq Ctxs
    /\ nextCtx \in 1..(MaxQueries + 1)
    /\ backends \subseteq Conns

(***************************************************************************)
(* A CancelRequest carrying the key of a connection that is running a      *)
(* statement cancels that statement's context (spec: the cancel-key table  *)
(* is registered on accept; a cancel request invokes the cancellation      *)
(* handle of the connection the key names).                                *)
(***************************************************************************)
CancelReachesStatement == requested \subseteq ctxDone

=============================================================================
