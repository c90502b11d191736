------------------------------ MODULE ChDispatch ----------------------------
(***************************************************************************)
(* The ClickHouse-style HTTP front end (src/ch_server.go): ServeHTTP       *)
(* builds a probe of the statement from the `query` URL parameter and the  *)
(* request body and routes it to SelectQuery, ExecuteQuery or              *)
(* InsertFormat; InsertFormat streams the rest of the body into an         *)
(* appender while a watcher goroutine turns the request context's          *)
(* cancellation into the plain bool `done`.                                *)
(*                                                                         *)
(* Text is a sequence of tokens: words, NL (a newline byte) and SP (the    *)
(* space a body line's newline is replaced by); two adjacent words are     *)
(* separated by a space.  The routing regexps are translated into          *)
(* predicates over tokens (RE2: `.` does not match a newline, `$` is the   *)
(* end of the text, \s matches both NL and SP).  A body line after the     *)
(* statement is a CSV record of the class its word names.  The engine is   *)
(* opaque: each query, Flush or row scan succeeds or fails.                *)
(***************************************************************************)
EXTENDS Naturals, Sequences, SequencesExt

CONSTANTS
    Urls,          \* values of the `query` URL parameter (token sequences)
    Lines,         \* body lines (token sequences without a newline)
    Methods,       \* HTTP methods of requests
    MaxLines       \* bound on the lines of a body

NL == "\n"
SP == " "
WS == {NL, SP}

\* A request body: its lines, and whether the last one ends with a newline.
Bodies == {[lines |-> ls, nl |-> e] : ls \in BoundedSeq(Lines, MaxLines), e \in BOOLEAN}

\* The bytes of the body as io.ReadAll returns them.
BodyText(b) ==
    FlattenSeq([i \in 1..Len(b.lines) |->
        b.lines[i] \o (IF i < Len(b.lines) \/ b.nl THEN <<NL>> ELSE <<>>)])

\* Text after its leading whitespace (the ^\s* of every pattern).
StripLead(q) ==
    LET i == SelectInSeq(q, LAMBDA t : t \notin WS)
    IN IF i = 0 THEN <<>> ELSE SubSeq(q, i, Len(q))

NoNL(s, from, to) == \A m \in from..to : s[m] # NL
AllWS(s, from, to) == \A m \in from..to : s[m] \in WS

\* (?i)^\s*SELECT.*$
IsSelect(q) ==
    LET s == StripLead(q) IN s # <<>> /\ s[1] = "SELECT" /\ NoNL(s, 2, Len(s))

\* (?i)^\s*INSERT$
IsInsertPrefix(q) == StripLead(q) = <<"INSERT">>

\* ^\s*INSERT\s+INTO: the position of INTO in s, 0 if s does not start so.
IntoAt(s) ==
    LET i == SelectInSeq(Tail(s), LAMBDA t : t \notin WS)
    IN IF s # <<>> /\ s[1] = "INSERT" /\ i > 0 /\ s[i + 1] = "INTO" THEN i + 1 ELSE 0

\* (?i)^\s*INSERT\s+INTO.*?format\s+\S+[\s;]*$
IsInsertFormat(q) ==
    LET s == StripLead(q)  i == IntoAt(s) IN
    /\ i > 0
    /\ \E k \in (i + 1)..Len(s), n \in 1..Len(s) :
        /\ s[k] = "FORMAT" /\ NoNL(s, i + 1, k - 1)
        /\ n > k /\ s[n] \notin WS /\ AllWS(s, k + 1, n - 1) /\ AllWS(s, n + 1, Len(s))

\* (?i)^\s*INSERT\s+INTO.*VALUES.*[\s;]*$
IsInsertValues(q) ==
    LET s == StripLead(q)  i == IntoAt(s) IN
    /\ i > 0
    /\ \E k \in (i + 1)..Len(s) :
        /\ s[k] = "VALUES" /\ NoNL(s, i + 1, k - 1)
        /\ \A m \in (k + 1)..Len(s) : s[m] = NL => AllWS(s, m, Len(s))

\* The test that sends a probe to ExecuteQuery.
IsOther(q) == ~IsInsertPrefix(q) \/ IsInsertValues(q)

\* The class of a body line read as a data record by the input format.
RowClass(l) == IF l = <<"1">> THEN "ok" ELSE IF l = <<"r">> THEN "reject" ELSE "bad"

VARIABLES
    req,          \* the request: method, url, body
    query,        \* the probe buffer of ServeHTTP, then the handler's query
    pos,          \* index of the next body line the reader returns
    pc,           \* "route", "insert" (InsertFormat loop), "flush", "done"
    handler,      \* handler that ran: "none", "select", "exec", "insert"
    status,       \* HTTP status written (0: none yet)
    complete,     \* the response body is the handler's whole result
    appended,     \* records AppendRow accepted
    rowsRead,     \* records the format reader returned
    ctxDone,      \* r.Context() is cancelled
    watcher,      \* InsertFormat's goroutine: "none", "waiting", "exited"
    done          \* the `done` flag it sets

vars == <<req, query, pos, pc, handler, status, complete, appended, rowsRead,
          ctxDone, watcher, done>>

Init ==
    /\ req \in [method : Methods, url : Urls, body : Bodies]
    /\ query = <<>> /\ pos = 1
    /\ pc = "start" /\ handler = "none" /\ status = 0 /\ complete = FALSE
    /\ appended = 0 /\ rowsRead = 0
    /\ ctxDone = FALSE /\ watcher = "none" /\ done = FALSE

\* The body from line p on, as io.ReadAll returns it.
RestText(b, p) == BodyText([b EXCEPT !.lines = SubSeq(b.lines, p, Len(b.lines))])

\* After EOF of the body: the whole probe as SELECT or generic execute.
AfterLoop(q, p) ==
    IF IsSelect(q) THEN [to |-> "select", q |-> q, p |-> p]
    ELSE IF IsOther(q) THEN [to |-> "exec", q |-> q, p |-> p]
    ELSE [to |-> "none", q |-> q, p |-> p]

(***************************************************************************)
(* The for loop of ServeHTTP for a POST, at probe q with line p next: a    *)
(* SELECT or generic statement takes the rest of the body, an INSERT with  *)
(* a format leaves it to InsertFormat; otherwise rd.ReadString('\n')      *)
(* appends the next line with its newline replaced by a space, and io.EOF  *)
(* (a last line without newline, or nothing left) ends the loop.           *)
(***************************************************************************)
RECURSIVE Route(_, _, _)
Route(b, q, p) ==
    IF IsSelect(q) THEN [to |-> "select", q |-> q \o RestText(b, p), p |-> Len(b.lines) + 1]
    ELSE IF IsInsertFormat(q) THEN [to |-> "insert", q |-> q, p |-> p]
    ELSE IF q # <<>> /\ IsOther(q)
         THEN [to |-> "exec", q |-> q \o RestText(b, p), p |-> Len(b.lines) + 1]
    ELSE IF p > Len(b.lines) THEN AfterLoop(q, p)
    ELSE IF p = Len(b.lines) /\ ~b.nl THEN AfterLoop(q \o b.lines[p], p + 1)
    ELSE Route(b, q \o b.lines[p] \o <<SP>>, p + 1)

\* The route of every POST request (a constant, evaluated once).
PostRoute == [b \in Bodies, u \in Urls |-> Route(b, IF u = <<>> THEN <<>> ELSE u \o <<NL>>, 1)]

\* ServeHTTP returns: net/http cancels r.Context().
Respond(code, whole) ==
    /\ status' = code /\ complete' = whole
    /\ pc' = "done" /\ ctxDone' = TRUE

(***************************************************************************)
(* SelectQuery: trim, newlines to spaces, the SELECT test (400), then the  *)
(* engine: QueryContext or the format writer fails (500), or rows stream   *)
(* under status 200, and a Scan or Write error ends the body early with    *)
(* an error text after the 200.                                            *)
(***************************************************************************)
SelectQuery(q) ==
    LET text == [i \in DOMAIN q |-> IF q[i] = NL THEN SP ELSE q[i]] IN
    /\ handler' = "select"
    /\ IF ~IsSelect(text) THEN Respond(400, TRUE)
       ELSE \/ Respond(500, TRUE)
            \/ Respond(200, TRUE)
            \/ Respond(200, FALSE)

\* ExecuteQuery: ExecContext, then 500 with the error or 200.
ExecuteQuery ==
    /\ handler' = "exec"
    /\ \/ Respond(500, TRUE)
       \/ Respond(200, TRUE)

(***************************************************************************)
(* InsertFormat up to its loop: the table expression, the input format,    *)
(* the table description, the column list, the appender and the format     *)
(* reader can each fail (400 or 500); then the watcher goroutine starts.   *)
(***************************************************************************)
InsertSetup ==
    /\ handler' = "insert"
    /\ \/ Respond(400, TRUE) /\ UNCHANGED watcher
       \/ Respond(500, TRUE) /\ UNCHANGED watcher
       \/ pc' = "insert" /\ watcher' = "waiting" /\ UNCHANGED <<status, complete, ctxDone>>

(***************************************************************************)
(* ServeHTTP: a GET concatenates the URL query, a space and the body and   *)
(* calls SelectQuery; a POST starts the probe with the URL query and a     *)
(* newline, routes it (Route) and calls the handler; with no handler, or   *)
(* another method, the handler writes nothing and net/http answers 200.   *)
(***************************************************************************)
ServeHTTP ==
    /\ pc = "start"
    /\ \/ /\ req.method = "GET"
          /\ query' = req.url \o <<SP>> \o BodyText(req.body)
          /\ pos' = Len(req.body.lines) + 1
          /\ SelectQuery(query')
          /\ UNCHANGED watcher
       \/ /\ req.method = "POST"
          /\ LET r == PostRoute[req.body, req.url] IN
             /\ query' = r.q /\ pos' = r.p
             /\ CASE r.to = "select" -> SelectQuery(r.q) /\ UNCHANGED watcher
                  [] r.to = "exec"   -> ExecuteQuery /\ UNCHANGED watcher
                  [] r.to = "insert" -> InsertSetup
                  [] r.to = "none"   -> Respond(200, TRUE) /\ UNCHANGED <<handler, watcher>>
       \/ /\ req.method \notin {"GET", "POST"}
          /\ Respond(200, TRUE)
          /\ UNCHANGED <<query, pos, handler, watcher>>
    /\ UNCHANGED <<req, appended, rowsRead, done>>

\* Bug variant of InsertLoop: a reader error ends the loop like io.EOF.
InsertLoopBreakOnError ==
    /\ pc = "insert"
    /\ IF done
       THEN Respond(500, TRUE) /\ UNCHANGED <<pos, appended, rowsRead>>
       ELSE IF pos > Len(req.body.lines) \/ RowClass(req.body.lines[pos]) = "bad"
       THEN pc' = "flush" /\ UNCHANGED <<pos, status, complete, ctxDone, appended, rowsRead>>
       ELSE /\ pos' = pos + 1 /\ rowsRead' = rowsRead + 1
            /\ appended' = appended + (IF RowClass(req.body.lines[pos]) = "ok" THEN 1 ELSE 0)
            /\ UNCHANGED <<pc, status, complete, ctxDone>>
    /\ UNCHANGED <<req, query, handler, watcher, done>>

\* Bug variant of InsertLoop: AppendRow before the reader's error is checked.
InsertLoopAppendBeforeCheck ==
    /\ pc = "insert"
    /\ IF done
       THEN Respond(500, TRUE) /\ UNCHANGED <<pos, appended, rowsRead>>
       ELSE IF pos > Len(req.body.lines)
       THEN pc' = "flush" /\ UNCHANGED <<pos, status, complete, ctxDone, appended, rowsRead>>
       ELSE IF RowClass(req.body.lines[pos]) = "bad"
       THEN Respond(500, TRUE) /\ appended' = appended + 1 /\ UNCHANGED <<pos, rowsRead>>
       ELSE /\ pos' = pos + 1 /\ rowsRead' = rowsRead + 1
            /\ appended' = appended + (IF RowClass(req.body.lines[pos]) = "ok" THEN 1 ELSE 0)
            /\ UNCHANGED <<pc, status, complete, ctxDone>>
    /\ UNCHANGED <<req, query, handler, watcher, done>>

(***************************************************************************)
(* One iteration of InsertFormat's loop: if `done`, 500 "Request           *)
(* cancelled"; else formatWriter.Read takes the next record: io.EOF ends   *)
(* the loop, a malformed record answers 500, and a record goes to          *)
(* AppendRow, whose error is assigned to err and never looked at.          *)
(***************************************************************************)
InsertLoop ==
    /\ pc = "insert"
    /\ IF done
       THEN Respond(500, TRUE) /\ UNCHANGED <<pos, appended, rowsRead>>
       ELSE IF pos > Len(req.body.lines)
       THEN pc' = "flush" /\ UNCHANGED <<pos, status, complete, ctxDone, appended, rowsRead>>
       ELSE IF RowClass(req.body.lines[pos]) = "bad"
       THEN Respond(500, TRUE) /\ UNCHANGED <<pos, appended, rowsRead>>
       ELSE /\ pos' = pos + 1 /\ rowsRead' = rowsRead + 1
            /\ appended' = appended + (IF RowClass(req.body.lines[pos]) = "ok" THEN 1 ELSE 0)
            /\ UNCHANGED <<pc, status, complete, ctxDone>>
    /\ UNCHANGED <<req, query, handler, watcher, done>>

\* appender.Flush: 500 with its error, or 200.
InsertFlush ==
    /\ pc = "flush"
    /\ \/ Respond(500, TRUE)
       \/ Respond(200, TRUE)
    /\ UNCHANGED <<req, query, pos, handler, appended, rowsRead, watcher, done>>

\* The client goes away (or the server shuts the request down) mid-insert.
ClientGone ==
    /\ pc \in {"insert", "flush"} /\ ~ctxDone
    /\ ctxDone' = TRUE
    /\ UNCHANGED <<req, query, pos, pc, handler, status, complete, appended, rowsRead,
                   watcher, done>>

\* Bug variant of Watcher: the goroutine waits on context.Background().
WatcherOnBackground ==
    /\ watcher = "waiting" /\ FALSE
    /\ done' = TRUE /\ watcher' = "exited"
    /\ UNCHANGED <<req, query, pos, pc, handler, status, complete, appended, rowsRead, ctxDone>>

\* InsertFormat's goroutine: <-ctx.Done(); done = true.
Watcher ==
    /\ watcher = "waiting" /\ ctxDone
    /\ done' = TRUE /\ watcher' = "exited"
    /\ UNCHANGED <<req, query, pos, pc, handler, status, complete, appended, rowsRead, ctxDone>>

Handler == ServeHTTP \/ InsertLoop \/ InsertFlush

Next == Handler \/ Watcher \/ ClientGone

(***************************************************************************)
(* The handler goroutine and the watcher goroutine are runnable whenever   *)
(* their action is enabled and Go's scheduler eventually runs them: weak   *)
(* fairness for each.  The client is not scheduled (ClientGone may never   *)
(* happen).                                                                *)
(***************************************************************************)
Spec == Init /\ [][Next]_vars /\ WF_vars(Handler) /\ WF_vars(Watcher)

-----------------------------------------------------------------------------
TypeOK ==
    /\ req.method \in Methods /\ req.url \in Urls
    /\ req.body.lines \in Seq(Lines) /\ Len(req.body.lines) <= MaxLines
    /\ pos \in 1..(Len(req.body.lines) + 1)
    /\ pc \in {"start", "insert", "flush", "done"}
    /\ handler \in {"none", "select", "exec", "insert"}
    /\ status \in {0, 200, 400, 500} /\ complete \in BOOLEAN
    /\ appended \in 0..rowsRead /\ rowsRead \in 0..MaxLines
    /\ ctxDone \in BOOLEAN /\ done \in BOOLEAN
    /\ watcher \in {"none", "waiting", "exited"}

(***************************************************************************)
(* An INSERT ... FORMAT answered 200 has read the whole body: every record *)
(* after the statement went through the format reader (InsertFormat's      *)
(* loop ends with 200 only at io.EOF).                                     *)
(***************************************************************************)
OkMeansAllRead ==
    (handler = "insert" /\ status = 200) => pos = Len(req.body.lines) + 1

(***************************************************************************)
(* The watcher goroutine of InsertFormat always ends: the request context  *)
(* is cancelled once ServeHTTP returns, whichever way InsertFormat ends.   *)
(***************************************************************************)
WatcherExits == (watcher = "waiting") ~> (watcher = "exited")

(***************************************************************************)
(* An INSERT ... FORMAT answered 200 appended every record it read (spec   *)
(* 4.6.2: read rows until EOF; append each).                               *)
(***************************************************************************)
OkMeansAllAppended ==
    (handler = "insert" /\ status = 200) => appended = rowsRead

====
