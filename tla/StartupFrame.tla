---------------------------- MODULE StartupFrame ----------------------------
(***************************************************************************)
(* The first frame of a PostgreSQL connection (src/wire.go                 *)
(* ReadInt32 and ReadStartUpMessage, src/message.go StartUpMessage.Parse,  *)
(* and the start of the goroutine of PgConn.Run in src/pg_conn.go).  The   *)
(* frame has no tag: a big-endian int32 length that counts itself, then a  *)
(* 4-byte version, then the body.  An SSLRequest is answered with 'N' and  *)
(* the next first frame is read; a CancelRequest carries an 8-byte key; a  *)
(* StartupMessage carries zero-terminated key/value strings.               *)
(*                                                                         *)
(* The client's bytes are fixed at the start (a read blocks until they are *)
(* there), and the client has or has not closed its side after them.       *)
(* Bytes are numbers 0..255; a Go panic ends the process.                  *)
(***************************************************************************)
EXTENDS Integers, Sequences, SequencesExt, TLC

CONSTANTS
    Streams       \* the byte sequences the client may send before its tagged frames

StartupMessageVersion == 196608
CancelRequestCode == 80877102
SSLRequestCode == 80877103

VARIABLES
    stream,       \* the bytes the client sent
    closed,       \* the client closed the connection after them
    fpos,         \* bytes of the stream read so far
    fpc,          \* where ReadStartUpMessage and Run are
    flen,         \* the length field last read
    replies,      \* 'N' bytes written in answer to SSLRequest
    first,        \* the first message ReadStartUpMessage returned
    crashed       \* a panic ended the process

startupVars == <<stream, closed, fpos, fpc, flen, replies, first, crashed>>

NoParams == [k \in {} |-> <<>>]
NoFirst == [kind |-> "none", params |-> NoParams, key |-> <<>>]

\* ReadInt32, and the version read by binary.BigEndian.Uint32 compared as int32.
Int32(b) == (IF b[1] >= 128 THEN b[1] - 256 ELSE b[1]) * 16777216
                + b[2] * 65536 + b[3] * 256 + b[4]

Zeros(n) == [k \in 1..n |-> 0]

(***************************************************************************)
(* StartUpMessage.Parse, the loop over m.Data[4:]: at each zero byte, an   *)
(* empty string ends the loop (i == lastIndex), otherwise the string is    *)
(* the current key or, if there is one, its value.  i and last are         *)
(* 0-based as in the code.                                                 *)
(***************************************************************************)
RECURSIVE ParseFrom(_, _, _, _, _)
ParseFrom(d, i, last, key, ps) ==
    IF i >= Len(d) THEN ps
    ELSE IF d[i + 1] # 0 THEN ParseFrom(d, i + 1, last, key, ps)
    ELSE IF i = last THEN ps
    ELSE LET s == SubSeq(d, last + 1, i) IN
         IF key = <<>>
         THEN ParseFrom(d, i + 1, i + 1, s, ps)
         ELSE ParseFrom(d, i + 1, i + 1, <<>>, (key :> s) @@ ps)

Parse(buf) == ParseFrom(SubSeq(buf, 5, Len(buf)), 0, 0, <<>>, NoParams)

Init ==
    /\ stream \in Streams
    /\ closed \in BOOLEAN
    /\ fpos = 0
    /\ fpc = "length"
    /\ flen = 0
    /\ replies = 0
    /\ first = NoFirst
    /\ crashed = FALSE

Avail == Len(stream) - fpos

(***************************************************************************)
(* ReadInt32: io.ReadFull of 4 bytes into w.buf.  A read error (EOF, or    *)
(* fewer than 4 bytes before EOF) is returned, and Run returns.            *)
(***************************************************************************)
ReadLength ==
    /\ fpc = "length" /\ ~crashed
    /\ \/ /\ Avail >= 4
          /\ flen' = Int32(SubSeq(stream, fpos + 1, fpos + 4))
          /\ fpos' = fpos + 4
          /\ fpc' = "body"
       \/ /\ Avail < 4 /\ closed
          /\ fpos' = Len(stream)
          /\ fpc' = "closed"
          /\ UNCHANGED flen
    /\ UNCHANGED <<stream, closed, replies, first, crashed>>

\* Bug variant of BodyReady: a short read at EOF is waited on like a missing one.
BodyReadyBlocking(n) == Avail >= n

\* io.ReadFull returns once n bytes came or the connection ended.
BodyReady(n) == Avail >= n \/ closed

\* Where the body read leaves the stream.
BodyEnd(n) == IF Avail >= n THEN fpos + n ELSE Len(stream)

(***************************************************************************)
(* buf := make([]byte, l-4); w.Read(buf): io.ReadFull, whose error is      *)
(* overwritten, so at EOF buf keeps the bytes that came and zeros after.   *)
(***************************************************************************)
BodyBytes(n) ==
    IF Avail >= n THEN SubSeq(stream, fpos + 1, fpos + n)
    ELSE SubSeq(stream, fpos + 1, Len(stream)) \o Zeros(n - Avail)

\* Bug variant of CancelKey: the key taken from the start of the body, version included.
CancelKeyFromStart(buf) == SubSeq(buf, 1, 8)

\* copy(cm.Key[:], buf[4:12]).
CancelKey(buf) == SubSeq(buf, 5, 12)

(***************************************************************************)
(* The rest of ReadStartUpMessage, up to its return, and what Run does     *)
(* with the result: the body is read, its version decides the message.    *)
(* make panics on a negative size, Uint32 on a body shorter than 4 bytes,  *)
(* buf[4:12] on a body shorter than 12.  SSLRequest writes 'N' (a write    *)
(* error is returned) and reads the next first frame.                      *)
(***************************************************************************)
ReadBody ==
    /\ fpc = "body" /\ ~crashed
    /\ LET n == flen - 4 IN
       IF n < 0
       THEN /\ crashed' = TRUE
            /\ UNCHANGED <<fpos, fpc, replies, first>>
       ELSE
         /\ BodyReady(n)
         /\ LET buf == BodyBytes(n)
                version == Int32(buf)
            IN /\ fpos' = BodyEnd(n)
               /\ IF n < 4
                  THEN /\ crashed' = TRUE
                       /\ UNCHANGED <<fpc, replies, first>>
                  ELSE
                  CASE version = StartupMessageVersion ->
                         /\ first' = [NoFirst EXCEPT !.kind = "startup", !.params = Parse(buf)]
                         /\ fpc' = "done"
                         /\ UNCHANGED <<replies, crashed>>
                    [] version = CancelRequestCode /\ n < 12 ->
                         /\ crashed' = TRUE
                         /\ UNCHANGED <<fpc, replies, first>>
                    [] version = CancelRequestCode /\ n >= 12 ->
                         /\ first' = [NoFirst EXCEPT !.kind = "cancel", !.key = CancelKey(buf)]
                         /\ fpc' = "done"
                         /\ UNCHANGED <<replies, crashed>>
                    [] version = SSLRequestCode ->
                         /\ \/ /\ replies' = replies + 1
                               /\ fpc' = "length"
                            \/ /\ closed
                               /\ fpc' = "writeFailed"
                               /\ UNCHANGED replies
                         /\ UNCHANGED <<first, crashed>>
                    [] OTHER ->
                         /\ fpc' = "closed"
                         /\ UNCHANGED <<replies, first, crashed>>
    /\ UNCHANGED <<stream, closed, flen>>

StartupNext == ReadLength \/ ReadBody

\* The connection goroutine runs whenever it can read.
StartupFairness == WF_startupVars(StartupNext)

-----------------------------------------------------------------------------
(***************************************************************************)
(* The reference: spec section 4.1.  A first frame is a length, a version  *)
(* and a body; SSLRequest (length 8) is answered and the next frame read;  *)
(* a StartupMessage body is key/value strings ended by an empty key; a     *)
(* CancelRequest (length 16) carries the key.  Anything else, and a frame  *)
(* cut short by the end of the connection, is not accepted.                *)
(***************************************************************************)
RECURSIVE CStrings(_)
CStrings(d) ==
    LET z == SelectInSeq(d, LAMBDA c : c = 0) IN
    IF z = 0 THEN <<>>
    ELSE <<SubSeq(d, 1, z - 1)>> \o CStrings(SubSeq(d, z + 1, Len(d)))

RECURSIVE SpecPairs(_, _)
SpecPairs(strs, ps) ==
    IF Len(strs) < 2 \/ strs[1] = <<>> THEN ps
    ELSE SpecPairs(SubSeq(strs, 3, Len(strs)), (strs[1] :> strs[2]) @@ ps)

\* A key whose value is the empty string: the key/value list ends before it in the code.
EmptyValue(strs) ==
    LET end == SelectInSeq(strs, LAMBDA x : x = <<>>)
    IN end > 0 /\ end % 2 = 0

Rejected == [kind |-> "rejected", params |-> NoParams, key |-> <<>>, ssl |-> 0, emptyValue |-> FALSE]

RECURSIVE SpecFirst(_)
SpecFirst(s) ==
    IF Len(s) < 8 THEN Rejected
    ELSE LET l == Int32(SubSeq(s, 1, 4))
             v == Int32(SubSeq(s, 5, 8))
             body == SubSeq(s, 9, l)
         IN CASE l < 8 \/ l > Len(s) -> Rejected
              [] v = SSLRequestCode /\ l = 8 ->
                   LET r == SpecFirst(SubSeq(s, 9, Len(s))) IN [r EXCEPT !.ssl = @ + 1]
              [] v = StartupMessageVersion ->
                   [Rejected EXCEPT !.kind = "startup", !.params = SpecPairs(CStrings(body), NoParams),
                                    !.emptyValue = EmptyValue(CStrings(body))]
              [] v = CancelRequestCode /\ l = 16 ->
                   [Rejected EXCEPT !.kind = "cancel", !.key = body]
              [] OTHER -> Rejected

-----------------------------------------------------------------------------
Ended == fpc \in {"done", "closed", "writeFailed"} \/ crashed

StartupTypeOK ==
    /\ fpos \in 0..Len(stream)
    /\ fpc \in {"length", "body", "done", "closed", "writeFailed"}
    /\ replies \in 0..(Len(stream) \div 8)
    /\ first.kind \in {"none", "startup", "cancel"}
    /\ (fpc = "done") = (first.kind # "none")
    /\ crashed \in BOOLEAN

(***************************************************************************)
(* On a stream the protocol accepts (SSLRequests, then a StartupMessage    *)
(* with no empty value or a CancelRequest), the connection neither panics  *)
(* nor gives up except on a failed write, and what ReadStartUpMessage      *)
(* returns is the reference's message: the same parameters (later keys     *)
(* win), the same cancel key, after one 'N' per SSLRequest.                *)
(***************************************************************************)
FirstFrameMatchesSpec ==
    LET ref == SpecFirst(stream) IN
    (ref.kind \in {"startup", "cancel"} /\ ~ref.emptyValue /\ Ended)
        => /\ fpc \in {"done", "writeFailed"}
           /\ fpc = "done" => /\ first = [kind |-> ref.kind, params |-> ref.params, key |-> ref.key]
                              /\ replies = ref.ssl

(***************************************************************************)
(* Once the client has closed the connection, reading the first frame      *)
(* ends: every blocking read returns at EOF, including a short body read   *)
(* whose error ReadStartUpMessage drops, and the SSLRequest recursion      *)
(* stops at the end of the bytes.                                          *)
(***************************************************************************)
ClosedConnectionEnds == closed ~> Ended

=============================================================================
