------------------------------- MODULE CopyIn -------------------------------
(***************************************************************************)
(* COPY ... FROM STDIN on a PostgreSQL-protocol connection                 *)
(* (src/pg_conn.go, PgConn.CopyIn and copyReader.Read), from the setup of  *)
(* the appender to the return to Run's main loop, which then reads what    *)
(* the client still has in flight.                                         *)
(*                                                                         *)
(* The client pipelines its whole stream: CopyData frames and one final    *)
(* frame (CopyDone, CopyFail, another message, or the connection breaking).*)
(* One CopyData frame carries one CSV record (how bytes are cut into       *)
(* frames does not matter to csv.Reader); a record is abstracted to its    *)
(* class: as many fields as the table has columns, one fewer, one more,    *)
(* a field its column's converter rejects, or malformed CSV.  The engine   *)
(* appender may fail AppendRow or Flush; rows it holds are written to the  *)
(* table by Flush or by the deferred appender.Close.                       *)
(*                                                                         *)
(* The watcher goroutine started by CopyIn waits for ctx.Done() and then   *)
(* sets the plain bool `canceled`, which the copy loop polls.  ctx is      *)
(* cancelled only by c.cancel (PgServer.CancelRequest, which never finds   *)
(* a connection: see PgServer) and by CopyIn's deferred cancel().  A       *)
(* panic in the connection goroutine ends the process.                     *)
(***************************************************************************)
EXTENDS Naturals, Sequences, SequencesExt

CONSTANTS
    RecordKinds,  \* classes of CSV records the client sends
    EndKinds,     \* classes of the frame that ends the client's stream
    SetupResults, \* outcomes of NewAppenderFromConn / QueryTableColumns / converters
    MaxData       \* bound on CopyData frames in the stream

ASSUME RecordKinds \subseteq {"ok", "short", "long", "badValue", "badCsv"}
ASSUME EndKinds \subseteq {"done", "fail", "other", "ioErr"}
ASSUME SetupResults \subseteq {"ok", "noTable", "colErr", "badType"}
ASSUME MaxData \in Nat

VARIABLES
    stream,       \* the frames the client sent after the COPY query
    pos,          \* index of the next frame to read
    pc,           \* "setup", "stream" (copy loop), "flush", "done" (back in Run)
    width,        \* csv.Reader.FieldsPerRecord, "unset" before the first record
    rowCount,     \* rowCount of CopyIn
    buffered,     \* rows appended but not yet written to the table
    stored,       \* rows of this COPY written to the table
    resp,         \* messages written to the client
    ctxDone,      \* the copy context has been cancelled
    watcher,      \* the watcher goroutine: "none", "waiting", "exited"
    canceled,     \* the `canceled` flag the watcher sets
    crashed       \* a panic ended the process

vars == <<stream, pos, pc, width, rowCount, buffered, stored, resp,
          ctxDone, watcher, canceled, crashed>>

DataFrame(k) == [t |-> "data", k |-> k]
EndFrame(k) == [t |-> "end", k |-> k]

\* Client streams: up to MaxData CopyData frames, then one final frame.
Streams == {d \o <<EndFrame(e)>> : d \in BoundedSeq({DataFrame(k) : k \in RecordKinds}, MaxData),
                                  e \in EndKinds}

\* A backend message: its tag and, for CommandComplete "COPY n", the count.
NoCount == -1
Msg(t) == [tag |-> t, n |-> NoCount]

(***************************************************************************)
(* copyReader.Read on a frame: CopyData hands out its body, CopyDone ends  *)
(* the stream with io.EOF, CopyFail, any other message type and a read     *)
(* error of ReadMessage are errors.                                        *)
(***************************************************************************)
CopyReaderRead(f) ==
    CASE f.t = "data"          -> "record"
      [] f = EndFrame("done")  -> "eof"
      [] OTHER                 -> "error"

\* Number of fields of a record relative to the table's column count.
Width(k) == IF k \in {"short", "long"} THEN k ELSE "ok"

Init ==
    /\ stream \in Streams
    /\ pos = 1
    /\ pc = "setup"
    /\ width = "unset"
    /\ rowCount = 0 /\ buffered = 0 /\ stored = 0
    /\ resp = <<>>
    /\ ctxDone = FALSE /\ watcher = "none" /\ canceled = FALSE
    /\ crashed = FALSE

(***************************************************************************)
(* Setup: NewAppenderFromConn, QueryTableColumns and a converter for every *)
(* column type; any failure answers ErrorResponse (the deferred            *)
(* appender.Close has nothing to write).  Then CopyInResponse, the context *)
(* with c.cancel, and the watcher goroutine.                               *)
(***************************************************************************)
Setup ==
    /\ pc = "setup" /\ ~crashed
    /\ \E r \in SetupResults :
        \/ /\ r # "ok"
           /\ resp' = <<Msg("E"), Msg("Z")>>
           /\ pc' = "done"
           /\ UNCHANGED watcher
        \/ /\ r = "ok"
           /\ resp' = <<Msg("G")>>
           /\ pc' = "stream"
           /\ watcher' = "waiting"
    /\ UNCHANGED <<stream, pos, width, rowCount, buffered, stored, ctxDone, canceled, crashed>>

\* Bug variant of Finish: the context is never cancelled on return.
FinishNoCancel(m, kept) ==
    /\ resp' = resp \o <<m, Msg("Z")>>
    /\ pc' = "done"
    /\ UNCHANGED ctxDone
    /\ stored' = stored + kept
    /\ buffered' = 0

\* Bug variant of Finish: an appender that keeps its rows after Flush
\* writes them again on Close.
FinishRewriting(m, kept) ==
    /\ resp' = resp \o <<m, Msg("Z")>>
    /\ pc' = "done"
    /\ ctxDone' = TRUE
    /\ stored' = stored + kept + buffered
    /\ buffered' = 0

(***************************************************************************)
(* CopyIn returns with its last message: the deferred cancel() (and        *)
(* c.cancel = nil), then the deferred appender.Close, which writes the     *)
(* `kept` rows it still holds; Run then writes ReadyForQuery.              *)
(***************************************************************************)
Finish(m, kept) ==
    /\ resp' = resp \o <<m, Msg("Z")>>
    /\ pc' = "done"
    /\ ctxDone' = TRUE
    /\ stored' = stored + kept
    /\ buffered' = 0

(***************************************************************************)
(* One iteration of the copy loop: if `canceled`, CopyFail; else           *)
(* cr.Read, which through copyReader.Read takes the next frame: CopyData   *)
(* yields a record, CopyDone io.EOF, CopyFail, any other message or a read *)
(* error an error.  csv.Reader fixes the field count at the first record   *)
(* and rejects a later record with another count.  Each field goes through *)
(* convertors[i]: a first record with more fields than columns indexes     *)
(* past the converters and panics.  Then AppendRow and rowCount++.         *)
(***************************************************************************)
ReadRecord ==
    /\ pc = "stream" /\ ~crashed
    /\ IF canceled
       THEN /\ Finish(Msg("f"), buffered)
            /\ UNCHANGED <<pos, width, rowCount, crashed>>
       ELSE LET f == stream[pos] IN
            /\ pos' = pos + 1
            /\ \/ /\ CopyReaderRead(f) = "eof"
                  /\ pc' = "flush"
                  /\ UNCHANGED <<width, rowCount, buffered, stored, resp, ctxDone, crashed>>
               \/ /\ \/ CopyReaderRead(f) = "error"
                     \/ f = DataFrame("badCsv")
                     \/ f.t = "data" /\ width \notin {"unset", Width(f.k)}
                     \/ f = DataFrame("badValue") /\ width \in {"unset", "ok"}
                  /\ Finish(Msg("E"), buffered)
                  /\ UNCHANGED <<width, rowCount, crashed>>
               \/ /\ f = DataFrame("long") /\ width = "unset"
                  /\ crashed' = TRUE
                  /\ UNCHANGED <<pc, width, rowCount, buffered, stored, resp, ctxDone>>
               \/ /\ CopyReaderRead(f) = "record" /\ f.k \in {"ok", "short", "long"}
                  /\ width \in {"unset", Width(f.k)}
                  /\ ~(f.k = "long" /\ width = "unset")
                  /\ \/ /\ width' = Width(f.k)
                        /\ buffered' = buffered + 1
                        /\ rowCount' = rowCount + 1
                        /\ UNCHANGED <<pc, stored, resp, ctxDone>>
                     \/ /\ Finish(Msg("E"), buffered)
                        /\ UNCHANGED <<width, rowCount>>
                  /\ UNCHANGED crashed
    /\ UNCHANGED <<stream, watcher, canceled>>

\* Bug variant of Flush: the error of appender.Flush is ignored.
FlushIgnoringError ==
    /\ pc = "flush" /\ ~crashed
    /\ \/ Finish([tag |-> "C", n |-> rowCount], buffered)
       \/ Finish([tag |-> "C", n |-> rowCount], 0)
    /\ UNCHANGED <<stream, pos, width, rowCount, watcher, canceled, crashed>>

(***************************************************************************)
(* After CopyDone: appender.Flush, then CommandComplete "COPY <rowCount>". *)
(* A failed Flush answers ErrorResponse; the rows it could not write are   *)
(* lost (appender.Close fails the same way).                               *)
(***************************************************************************)
Flush ==
    /\ pc = "flush" /\ ~crashed
    /\ \/ Finish([tag |-> "C", n |-> rowCount], buffered)
       \/ Finish(Msg("E"), 0)
    /\ UNCHANGED <<stream, pos, width, rowCount, watcher, canceled, crashed>>

\* The watcher goroutine: <-ctx.Done(); canceled = true.
Watcher ==
    /\ watcher = "waiting" /\ ctxDone /\ ~crashed
    /\ canceled' = TRUE
    /\ watcher' = "exited"
    /\ UNCHANGED <<stream, pos, pc, width, rowCount, buffered, stored, resp, ctxDone, crashed>>

(***************************************************************************)
(* Back in Run's main loop, frames the client sent for the COPY and the   *)
(* server did not read are read as unsupported messages (default branch:  *)
(* no answer, needReadyMessage := false).                                  *)
(***************************************************************************)
Drain ==
    /\ pc = "done" /\ ~crashed
    /\ pos <= Len(stream)
    /\ pos' = pos + 1
    /\ UNCHANGED <<stream, pc, width, rowCount, buffered, stored, resp,
                   ctxDone, watcher, canceled, crashed>>

ServerStep == Setup \/ ReadRecord \/ Flush \/ Drain

Next == ServerStep \/ Watcher

(***************************************************************************)
(* The connection goroutine and the watcher goroutine are both runnable    *)
(* whenever enabled, and Go's scheduler eventually runs a runnable         *)
(* goroutine: weak fairness for each.  The client is not scheduled: its    *)
(* whole stream is already sent.                                           *)
(***************************************************************************)
Spec == Init /\ [][Next]_vars /\ WF_vars(ServerStep) /\ WF_vars(Watcher)

-----------------------------------------------------------------------------
TypeOK ==
    /\ stream \in Streams /\ pos \in 1..(Len(stream) + 1)
    /\ pc \in {"setup", "stream", "flush", "done"}
    /\ width \in {"unset", "ok", "short", "long"}
    /\ rowCount \in 0..MaxData /\ buffered \in 0..MaxData /\ stored \in 0..MaxData
    /\ resp \in Seq([tag : {"G", "E", "C", "f", "Z"}, n : {NoCount} \cup 0..MaxData])
    /\ ctxDone \in BOOLEAN /\ canceled \in BOOLEAN /\ crashed \in BOOLEAN
    /\ watcher \in {"none", "waiting", "exited"}

(***************************************************************************)
(* A CommandComplete "COPY n" tells the truth: the rows of this COPY that  *)
(* reached the table are exactly n (rowCount against Flush and the         *)
(* deferred appender.Close).                                               *)
(***************************************************************************)
CompleteCountsStored ==
    \A i \in DOMAIN resp : resp[i].tag = "C" => resp[i].n = stored

(***************************************************************************)
(* The watcher goroutine CopyIn starts always ends (its context is         *)
(* cancelled on every return path of CopyIn), unless the process died.     *)
(***************************************************************************)
WatcherExits == (watcher = "waiting") ~> (watcher = "exited" \/ crashed)

=============================================================================
