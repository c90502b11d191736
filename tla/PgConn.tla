------------------------------- MODULE PgConn -------------------------------
(***************************************************************************)
(* One PostgreSQL-protocol connection of duck_server (src/pg_conn.go):     *)
(* the worker goroutine started by PgConn.Run, from the end of startup     *)
(* (authentication outcome, BackendKeyData, ParameterStatus) through the   *)
(* main loop that reads one frame at a time and dispatches Query, Parse,   *)
(* Bind, Describe, Execute, Sync, Terminate and unsupported frames, to     *)
(* PgConn.Close.                                                           *)
(*                                                                         *)
(* The client may pipeline any frame at any time, so each loop iteration   *)
(* reads a frame chosen from a small alphabet.  The engine (DuckDB) is     *)
(* opaque: every engine call is a nondeterministic choice among the        *)
(* results the code handles.  SQL text is abstracted to the class that     *)
(* decides which branch runs (empty, no parameters, 1..20 parameters, more *)
(* than 20, rejected by the engine).  A prepared statement (stmtDesc) is   *)
(* an index into descs; the engine statement handle it owns, if any, is    *)
(* open while its index is in openHandles.                                 *)
(*                                                                         *)
(* One loop iteration of Run (write ReadyForQuery if needReadyMessage,     *)
(* read a frame, handle it) is one atomic step: nothing else touches the   *)
(* connection's state, and the ReadyForQuery owed at the top of the next   *)
(* iteration is written right after the handler, before the next read     *)
(* blocks, so it is recorded at the end of the step that set the flag.     *)
(***************************************************************************)
EXTENDS Integers, Sequences, FiniteSets, Functions

CONSTANTS
    Names,        \* prepared statement names the client uses
    Unnamed,      \* the unnamed statement "", a member of Names
    Portals,      \* portal names the client uses
    EnableAuth,   \* PgServer.enableAuth (flag --auth)
    AuthResults,  \* results of PgConn.Auth the run lets happen
    MaxRows,      \* bound on rows an engine result set returns
    MaxFrames     \* bound on frames the client sends

ASSUME Unnamed \in Names
ASSUME EnableAuth \in BOOLEAN
ASSUME AuthResults \subseteq {"ok", "rejected", "failed"}
ASSUME MaxRows \in Nat /\ MaxFrames \in Nat \ {0}

VARIABLES
    phase,        \* "startup", "loop" (main loop of Run) or "closed"
    stmts,        \* PgConn.stmts: name -> index of a stmtDesc, 0 if none
    portal,       \* PgConn.portal: name -> index of the portal's stmtDesc, 0 if none
    descs,        \* every stmtDesc created: [kind, cached] (stmtDesc.columns # nil)
    openHandles,  \* indices of stmtDescs whose engine driver.Stmt is open
    inError,      \* PgConn.inError
    needReady,    \* needReadyMessage of Run
    frames,       \* number of frames read
    last,         \* the last frame handled and the messages written for it
    errSeen       \* history: an ErrorResponse was written since the last Sync or Query

vars == <<phase, stmts, portal, descs, openHandles, inError, needReady,
          frames, last, errSeen>>

NoDesc == 0

(***************************************************************************)
(* SQL classes of a Parse: sql == "" (no engine statement), statements     *)
(* with 0, 1..20 and more than maxInputArgsUsePrepared (20) parameters,    *)
(* and SQL the engine refuses to prepare.                                  *)
(***************************************************************************)
SqlKinds == {"empty", "noparam", "param", "many", "bad"}

(***************************************************************************)
(* Classes of a simple Query: whitespace only, DISCARD ALL, CREATE USER,   *)
(* COPY ... FROM STDIN, a statement the engine runs, one it finds no       *)
(* statement in ("No statement to prepare"), and one it rejects.           *)
(***************************************************************************)
QueryKinds == {"blank", "discard", "createUser", "copy", "select", "nostmt", "bad"}

FrameKinds == {"Startup", "Query", "Parse", "Bind", "Describe", "Execute",
               "Sync", "Terminate", "Other"}

\* A backend message: its tag, and for CommandComplete "(<n> row)" the count n.
NoCount == -1
Msg(t) == [tag |-> t, rows |-> NoCount]
\* Bug variant of RowsComplete: the count is one too high.
RowsCompleteOffByOne(n) == [tag |-> "C", rows |-> n + 1]
RowsComplete(n) == [tag |-> "C", rows |-> n]

(***************************************************************************)
(* What the engine does when a statement runs: QueryContext fails, or the  *)
(* row iterator yields k rows and then io.EOF or an error (an engine error *)
(* or a value toPgValue cannot encode); on an empty result the DESCRIBE    *)
(* side query of inferStmtOutputNamesAndTypes succeeds or fails.           *)
(***************************************************************************)
EngineRuns == [qerr : BOOLEAN, k : 0..MaxRows, tailErr : BOOLEAN, inferOk : BOOLEAN]

DataRows(n) == [i \in 1..n |-> Msg("D")]

RunEnd(count, tailErr) == IF tailErr THEN <<Msg("E")>> ELSE <<RowsComplete(count)>>

\* Bug variant of RunStmt: the first row, sent with the RowDescription, is not counted.
RunStmtFirstRowUncounted(hasStmt, sendRowDesc, r) ==
    IF ~hasStmt THEN <<Msg("I")>>
    ELSE IF r.qerr THEN <<Msg("E")>>
    ELSE IF sendRowDesc /\ r.k = 0
         THEN IF ~r.tailErr /\ r.inferOk THEN <<Msg("T"), RowsComplete(0)>>
              ELSE <<Msg("E")>>
    ELSE IF sendRowDesc
         THEN <<Msg("T"), Msg("D")>> \o DataRows(r.k - 1) \o RunEnd(r.k - 1, r.tailErr)
    ELSE DataRows(r.k) \o RunEnd(r.k, r.tailErr)

(***************************************************************************)
(* RunStmt: the messages written for one run of a statement.  With         *)
(* sendRowDesc (simple query) the first row decides the RowDescription;   *)
(* an empty result is described by the DESCRIBE side query instead.       *)
(***************************************************************************)
RunStmt(hasStmt, sendRowDesc, r) ==
    IF ~hasStmt THEN <<Msg("I")>>
    ELSE IF r.qerr THEN <<Msg("E")>>
    ELSE IF sendRowDesc /\ r.k = 0
         THEN IF ~r.tailErr /\ r.inferOk THEN <<Msg("T"), RowsComplete(0)>>
              ELSE <<Msg("E")>>
    ELSE IF sendRowDesc
         THEN <<Msg("T"), Msg("D")>> \o DataRows(r.k - 1) \o RunEnd(1 + (r.k - 1), r.tailErr)
    ELSE DataRows(r.k) \o RunEnd(r.k, r.tailErr)

HasError(resp) == \E i \in DOMAIN resp : resp[i].tag = "E"

WithReady(resp, ready) == IF ready THEN resp \o <<Msg("Z")>> ELSE resp

\* The bookkeeping common to every handled frame.
Handled(f, resp, ready) ==
    /\ frames' = frames + 1
    /\ last' = [frame |-> f, resp |-> WithReady(resp, ready)]
    /\ errSeen' = (f \notin {"Sync", "Query"} /\ (errSeen \/ HasError(resp)))

\* Bug variant of Suppressed: extended-query frames are never dropped.
SuppressedNever == FALSE

\* An extended-query frame is dropped unanswered: if c.inError { continue }.
Suppressed == inError

-----------------------------------------------------------------------------
Init ==
    /\ phase = "startup"
    /\ stmts = [n \in Names |-> NoDesc]
    /\ portal = [p \in Portals |-> NoDesc]
    /\ descs = <<>>
    /\ openHandles = {}
    /\ inError = FALSE
    /\ needReady = TRUE
    /\ frames = 0
    /\ last = [frame |-> "Startup", resp |-> <<>>]
    /\ errSeen = FALSE

(***************************************************************************)
(* Startup after the first frame was a StartupMessage.  Auth returns nil   *)
(* after AuthenticationOk ("ok") and also after it wrote an ErrorResponse  *)
(* ("rejected": SendErrorResponse returns only the write error), which     *)
(* leaves inError set; a non-nil error ("failed") ends the connection.     *)
(***************************************************************************)
Startup ==
    /\ phase = "startup"
    /\ \E a \in (IF EnableAuth THEN AuthResults ELSE {"ok"}) :
        \/ /\ a = "ok"
           /\ phase' = "loop"
           /\ last' = [frame |-> "Startup",
                       resp |-> <<Msg("R"), Msg("K"), Msg("S"), Msg("S"), Msg("S"), Msg("Z")>>]
           /\ UNCHANGED inError
        \/ /\ a = "rejected"
           /\ phase' = "loop"
           /\ inError' = TRUE
           /\ last' = [frame |-> "Startup",
                       resp |-> <<Msg("E"), Msg("K"), Msg("S"), Msg("S"), Msg("S"), Msg("Z")>>]
        \/ /\ a = "failed"
           /\ phase' = "closed"
           /\ UNCHANGED <<inError, last>>
    /\ UNCHANGED <<stmts, portal, descs, openHandles, needReady, frames, errSeen>>

-----------------------------------------------------------------------------
\* The engine handles owned by the statements in stmts.
MappedHandles == {stmts[n] : n \in {m \in Names : stmts[m] # NoDesc}} \cap openHandles

\* Bug variant of DiscardAll: the portals are kept.
DiscardAllKeepPortals ==
    /\ portal' = portal
    /\ openHandles' = openHandles \ MappedHandles
    /\ stmts' = [n \in Names |-> NoDesc]

(***************************************************************************)
(* DiscardAll: drop every portal, close the engine statement of every      *)
(* entry of stmts, drop every statement, answer "DISCARD ALL".             *)
(***************************************************************************)
DiscardAll ==
    /\ portal' = [p \in Portals |-> NoDesc]
    /\ openHandles' = openHandles \ MappedHandles
    /\ stmts' = [n \in Names |-> NoDesc]

\* Outcomes of CopyIn as seen by the main loop (the COPY sub-protocol itself
\* is the subject of its own module): setup error, or CopyInResponse then
\* "COPY n" or an error.
CopyInResults == {<<Msg("E")>>, <<Msg("G"), Msg("C")>>, <<Msg("G"), Msg("E")>>}

(***************************************************************************)
(* Query frame: SimpleQuery, then needReadyMessage := true and inError :=  *)
(* false (also the deferred reset in SimpleQuery).  The statement prepared *)
(* for the query is closed before SimpleQuery returns.                     *)
(***************************************************************************)
SimpleQuery ==
    /\ phase = "loop" /\ frames < MaxFrames
    /\ \E q \in QueryKinds :
        \/ /\ q = "createUser" /\ EnableAuth
           /\ \E resp \in {<<Msg("C")>>, <<Msg("E")>>} : Handled("Query", resp, TRUE)
           /\ UNCHANGED <<stmts, portal, openHandles>>
        \/ /\ q = "blank"
           /\ Handled("Query", <<Msg("I")>>, TRUE)
           /\ UNCHANGED <<stmts, portal, openHandles>>
        \/ /\ q = "discard"
           /\ DiscardAll
           /\ Handled("Query", <<Msg("C")>>, TRUE)
        \/ /\ q = "copy"
           /\ \E resp \in CopyInResults : Handled("Query", resp, TRUE)
           /\ UNCHANGED <<stmts, portal, openHandles>>
        \/ /\ q \in {"nostmt", "bad"} \/ (q = "createUser" /\ ~EnableAuth)
           /\ Handled("Query", IF q = "nostmt" THEN <<Msg("I")>> ELSE <<Msg("E")>>, TRUE)
           /\ UNCHANGED <<stmts, portal, openHandles>>
        \/ /\ q = "select"
           /\ \E r \in EngineRuns : Handled("Query", RunStmt(TRUE, TRUE, r), TRUE)
           /\ UNCHANGED <<stmts, portal, openHandles>>
    /\ inError' = FALSE
    /\ needReady' = TRUE
    /\ UNCHANGED <<phase, descs>>

(***************************************************************************)
(* Parse frame: needReadyMessage := false; dropped while inError; else     *)
(* Prepare.  Empty SQL stores a statement without engine handle under the  *)
(* name, whatever was there.  A non-empty name already in use is an error. *)
(* Otherwise the engine prepares the SQL and the new stmtDesc replaces the *)
(* entry.  A replaced stmtDesc's engine statement is not closed.           *)
(***************************************************************************)
Prepare(name, kind, prepOk) ==
    LET d == Len(descs) + 1 IN
    \/ /\ kind = "empty"
       /\ descs' = Append(descs, [kind |-> kind, cached |-> FALSE])
       /\ stmts' = [stmts EXCEPT ![name] = d]
       /\ UNCHANGED <<openHandles, inError>>
       /\ Handled("Parse", <<Msg("1")>>, FALSE)
    \/ /\ kind # "empty"
       /\ name # Unnamed /\ stmts[name] # NoDesc
       /\ inError' = TRUE
       /\ UNCHANGED <<stmts, descs, openHandles>>
       /\ Handled("Parse", <<Msg("E")>>, FALSE)
    \/ /\ kind # "empty"
       /\ name = Unnamed \/ stmts[name] = NoDesc
       /\ ~prepOk
       /\ inError' = TRUE
       /\ UNCHANGED <<stmts, descs, openHandles>>
       /\ Handled("Parse", <<Msg("E")>>, FALSE)
    \/ /\ kind # "empty"
       /\ name = Unnamed \/ stmts[name] = NoDesc
       /\ prepOk
       /\ descs' = Append(descs, [kind |-> kind, cached |-> FALSE])
       /\ stmts' = [stmts EXCEPT ![name] = d]
       /\ openHandles' = openHandles \cup {d}
       /\ UNCHANGED inError
       /\ Handled("Parse", <<Msg("1")>>, FALSE)

ParseFrame ==
    /\ phase = "loop" /\ frames < MaxFrames
    /\ needReady' = FALSE
    /\ \/ /\ Suppressed
          /\ Handled("Parse", <<>>, FALSE)
          /\ UNCHANGED <<stmts, descs, openHandles, inError>>
       \/ /\ ~Suppressed
          /\ \E name \in Names, kind \in SqlKinds, prepOk \in BOOLEAN :
                /\ prepOk = (kind # "bad")
                /\ Prepare(name, kind, prepOk)
    /\ UNCHANGED <<phase, portal>>

(***************************************************************************)
(* Bind frame: dropped while inError (needReadyMessage untouched), else    *)
(* needReadyMessage := false and Bind: an unknown statement is an error,   *)
(* else the portal is (re)bound to the statement's stmtDesc.               *)
(***************************************************************************)
BindFrame ==
    /\ phase = "loop" /\ frames < MaxFrames
    /\ \/ /\ Suppressed
          /\ Handled("Bind", <<>>, needReady)
          /\ UNCHANGED <<portal, inError, needReady>>
       \/ /\ ~Suppressed
          /\ needReady' = FALSE
          /\ \E name \in Names, p \in Portals :
                \/ /\ stmts[name] = NoDesc
                   /\ inError' = TRUE
                   /\ Handled("Bind", <<Msg("E")>>, FALSE)
                   /\ UNCHANGED portal
                \/ /\ stmts[name] # NoDesc
                   /\ portal' = [portal EXCEPT ![p] = stmts[name]]
                   /\ Handled("Bind", <<Msg("2")>>, FALSE)
                   /\ UNCHANGED inError
    /\ UNCHANGED <<phase, stmts, descs, openHandles>>

(***************************************************************************)
(* Describe frame: dropped while inError, else DescribePrepared.  The      *)
(* object is a statement ('S') or a portal's statement ('P'); any other    *)
(* type, or a missing object, is an error.  A statement without engine     *)
(* handle answers NoData.  Otherwise ParameterDescription (only when it    *)
(* has parameters) and a RowDescription; the columns are inferred by the   *)
(* DESCRIBE side query when not cached, and stay uncached when it fails.   *)
(***************************************************************************)
DescribeFrame ==
    /\ phase = "loop" /\ frames < MaxFrames
    /\ \/ /\ Suppressed
          /\ Handled("Describe", <<>>, needReady)
          /\ UNCHANGED <<descs, inError, needReady>>
       \/ /\ ~Suppressed
          /\ needReady' = FALSE
          /\ \E typ \in {"S", "P", "X"}, name \in Names \cup Portals, inferOk \in BOOLEAN :
                LET d == CASE typ = "S" /\ name \in Names -> stmts[name]
                           [] typ = "P" /\ name \in Portals -> portal[name]
                           [] OTHER -> NoDesc
                IN
                \/ /\ d = NoDesc
                   /\ inError' = TRUE
                   /\ Handled("Describe", <<Msg("E")>>, FALSE)
                   /\ UNCHANGED descs
                \/ /\ d # NoDesc /\ descs[d].kind = "empty"
                   /\ Handled("Describe", <<Msg("n")>>, FALSE)
                   /\ UNCHANGED <<descs, inError>>
                \/ /\ d # NoDesc /\ descs[d].kind # "empty"
                   /\ descs' = [descs EXCEPT ![d].cached = @ \/ inferOk]
                   /\ Handled("Describe",
                              (IF descs[d].kind = "noparam" THEN <<>> ELSE <<Msg("t")>>)
                                \o <<Msg("T")>>, FALSE)
                   /\ UNCHANGED inError
    /\ UNCHANGED <<phase, stmts, portal, openHandles>>

(***************************************************************************)
(* Execute frame: dropped while inError, else Execute: an unknown portal   *)
(* is an error; a statement with more than 20 parameters is re-prepared    *)
(* from the text with the values substituted (bindValues), run and closed; *)
(* otherwise the portal's own engine statement is run.  No                 *)
(* RowDescription: the client got it from Describe.                        *)
(***************************************************************************)
ExecuteFrame ==
    /\ phase = "loop" /\ frames < MaxFrames
    /\ \/ /\ Suppressed
          /\ Handled("Execute", <<>>, needReady)
          /\ UNCHANGED <<inError, needReady>>
       \/ /\ ~Suppressed
          /\ needReady' = FALSE
          /\ \E p \in Portals, r \in EngineRuns, prepOk \in BOOLEAN :
                LET d == portal[p]
                    resp == IF d = NoDesc THEN <<Msg("E")>>
                            ELSE IF descs[d].kind = "many" /\ ~prepOk THEN <<Msg("E")>>
                            ELSE RunStmt(descs[d].kind # "empty", FALSE, r)
                IN /\ (d = NoDesc \/ descs[d].kind # "many") => prepOk
                   /\ inError' = HasError(resp)
                   /\ Handled("Execute", resp, FALSE)
    /\ UNCHANGED <<phase, stmts, portal, descs, openHandles>>

\* Sync frame: needReadyMessage := true, inError := false.
SyncFrame ==
    /\ phase = "loop" /\ frames < MaxFrames
    /\ needReady' = TRUE
    /\ inError' = FALSE
    /\ Handled("Sync", <<>>, TRUE)
    /\ UNCHANGED <<phase, stmts, portal, descs, openHandles>>

\* Any other frame (Close, Flush, ...): logged; needReadyMessage := false.
OtherFrame ==
    /\ phase = "loop" /\ frames < MaxFrames
    /\ needReady' = FALSE
    /\ Handled("Other", <<>>, FALSE)
    /\ UNCHANGED <<phase, stmts, portal, descs, openHandles, inError>>

(***************************************************************************)
(* Run returns (Terminate frame, or a read, write or parse error) and the  *)
(* deferred PgConn.Close closes the engine statement of every entry of     *)
(* stmts, the socket and the engine connection.                           *)
(***************************************************************************)
Close ==
    /\ phase = "loop"
    /\ phase' = "closed"
    /\ openHandles' = openHandles \ MappedHandles
    /\ UNCHANGED <<stmts, portal, descs, inError, needReady, frames, last, errSeen>>

Next ==
    \/ Startup
    \/ SimpleQuery
    \/ ParseFrame
    \/ BindFrame
    \/ DescribeFrame
    \/ ExecuteFrame
    \/ SyncFrame
    \/ OtherFrame
    \/ Close

Spec == Init /\ [][Next]_vars

-----------------------------------------------------------------------------
Msgs == [tag : {"R", "K", "S", "Z", "T", "D", "C", "I", "E", "n", "1", "2", "t", "G"},
         rows : {NoCount} \cup 0..MaxRows]

TypeOK ==
    /\ phase \in {"startup", "loop", "closed"}
    /\ stmts \in [Names -> 0..Len(descs)]
    /\ portal \in [Portals -> 0..Len(descs)]
    /\ \A d \in DOMAIN descs : descs[d] \in [kind : SqlKinds \ {"bad"}, cached : BOOLEAN]
    /\ openHandles \subseteq DOMAIN descs
    /\ inError \in BOOLEAN /\ needReady \in BOOLEAN /\ errSeen \in BOOLEAN
    /\ frames \in 0..MaxFrames
    /\ last.frame \in FrameKinds /\ last.resp \in Seq(Msgs)

(***************************************************************************)
(* Every statement a portal or a statement name leads to still has its     *)
(* engine statement open (or never had one): Bind, Execute and Describe    *)
(* never reach a driver.Stmt that DiscardAll has closed.                   *)
(***************************************************************************)
NoClosedStmtReachable ==
    phase = "loop" =>
        \A d \in (Range(stmts) \cup Range(portal)) \ {NoDesc} :
            descs[d].kind = "empty" \/ d \in openHandles

(***************************************************************************)
(* Extended-query error recovery: once an ErrorResponse has been written   *)
(* since the last Sync or Query, Parse/Bind/Describe/Execute frames get no *)
(* answer at all until the next Sync or Query (inError in Run).            *)
(***************************************************************************)
SilentAfterError ==
    [][errSeen /\ frames' > frames /\ last'.frame \in {"Parse", "Bind", "Describe", "Execute"}
        => last'.resp \in {<<>>, <<Msg("Z")>>}]_vars

(***************************************************************************)
(* The CommandComplete "(<n> row)" of a statement run counts exactly the   *)
(* DataRow messages written before it (rowCount in RunStmt, including the  *)
(* first row sent with the RowDescription).                                *)
(***************************************************************************)
RowCountMatches ==
    \A i \in DOMAIN last.resp :
        last.resp[i].rows # NoCount =>
            last.resp[i].rows = Cardinality({j \in 1..(i - 1) : last.resp[j].tag = "D"})

(***************************************************************************)
(* When the connection closes, every engine statement it prepared is       *)
(* closed (spec: closing a connection releases all prepared statements).   *)
(***************************************************************************)
NoLeakAfterClose == phase = "closed" => openHandles = {}

=============================================================================
