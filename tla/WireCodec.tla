------------------------------ MODULE WireCodec -----------------------------
(***************************************************************************)
(* The reading side of the wire codec (src/wire.go Wire.ReadMessage,       *)
(* src/message.go Message.Skip / Message.Read) and the consumer pattern of *)
(* copyReader.Read (src/pg_conn.go), which is also that of every Parse*    *)
(* function: read a frame header, then either leave the body unread or     *)
(* read it and take its bytes, and only then read the next header.         *)
(*                                                                         *)
(* The Wire owns one read buffer w.buf.  ReadMessage first skips the       *)
(* unread body of the previous frame, then reads the 5-byte header into    *)
(* w.buf[0:5] and reuses the one Message (w.lastMsg), clearing its buf.    *)
(* Message.Read puts a body of at most WireBufferSize bytes in w.buf       *)
(* itself (m.buf aliases w.buf), a larger one in a fresh slice.  Bytes are *)
(* named by the frame they belong to and their offset in it, so what a     *)
(* buffer holds says which frame's bytes the consumer would see.  The      *)
(* client writes whole frames; a read blocks until the bytes are there.    *)
(***************************************************************************)
EXTENDS Naturals, Sequences, SequencesExt

CONSTANTS
    Types,          \* frame type tags
    Lengths,        \* values of the length field the client writes
    MaxFrames,      \* bound on frames the client sends
    WireBufferSize  \* size of w.buf (4096 in the code, scaled down)

ASSUME Lengths \subseteq Nat /\ WireBufferSize \in Nat \ {0}

VARIABLES
    sent,         \* the frames the client has written
    rpos,         \* bytes of the connection read so far
    msg,          \* w.lastMsg: the frame header last read and where its body is
    wbuf,         \* w.buf: position -> byte it holds
    fresh,        \* the slice a large body was read into
    rbuf,         \* copyReader.buf: the part of a body not yet handed out
    nread,        \* frames returned by ReadMessage
    taken,        \* body bytes of the current frame handed out
    out,          \* every body byte handed out, in order
    crashed       \* a panic ended the process

vars == <<sent, rpos, msg, wbuf, fresh, rbuf, nread, taken, out, crashed>>

NoByte == [f |-> 0, o |-> 0]
NoMsg == [id |-> 0, typ |-> "none", len |-> 0, buf |-> "nil"]
BufPositions == 1..(IF WireBufferSize > 5 THEN WireBufferSize ELSE 5)

BodyLen(len) == IF len > 4 THEN len - 4 ELSE 0

\* The bytes of the connection: each frame's 5 header bytes, then its body.
FrameBytes(i) == [k \in 1..(5 + BodyLen(sent[i].len)) |-> [f |-> i, o |-> k - 1]]
Bytes == FlattenSeq([i \in 1..Len(sent) |-> FrameBytes(i)])

(***************************************************************************)
(* The header the 5 bytes h decode to: the frame whose header they are if  *)
(* they are one header in order, and otherwise bytes of some other part of *)
(* the stream taken for a header.  lastMsg is reused with buf = nil.       *)
(***************************************************************************)
Decode(h) ==
    IF h[1].o = 0 /\ \A k \in 2..5 : h[k] = [f |-> h[1].f, o |-> k - 1]
    THEN [id |-> h[1].f, typ |-> sent[h[1].f].typ, len |-> sent[h[1].f].len, buf |-> "nil"]
    ELSE [id |-> 0, typ |-> "garbage", len |-> 4, buf |-> "nil"]

Init ==
    /\ sent = <<>>
    /\ rpos = 0
    /\ msg = NoMsg
    /\ wbuf = [k \in BufPositions |-> NoByte]
    /\ fresh = <<>>
    /\ rbuf = [src |-> "wbuf", from |-> 1, to |-> 0]
    /\ nread = 0 /\ taken = 0
    /\ out = <<>>
    /\ crashed = FALSE

\* The client writes one frame.
Send(typ, len) ==
    /\ Len(sent) < MaxFrames
    /\ sent' = Append(sent, [typ |-> typ, len |-> len])
    /\ UNCHANGED <<rpos, msg, wbuf, fresh, rbuf, nread, taken, out, crashed>>

\* Bug variant of Unread: Skip does not check whether the body was read.
UnreadIgnoringBuf(m) == IF m # NoMsg THEN BodyLen(m.len) ELSE 0

(***************************************************************************)
(* Message.Skip: nothing once the body has been read (m.buf != nil), else  *)
(* io.CopyN of Length-4 bytes, which copies nothing for Length < 4.        *)
(***************************************************************************)
Unread(m) == IF m # NoMsg /\ m.buf = "nil" THEN BodyLen(m.len) ELSE 0

\* Bug variant of ConsumerDone: an off-by-one in the emptiness test of r.buf.
ConsumerDoneOffByOne == rbuf.from > rbuf.to + 1

\* copyReader.Read reads a new frame only when len(r.buf) == 0.
ConsumerDone == rbuf.from > rbuf.to

(***************************************************************************)
(* Wire.ReadMessage: Skip the last message, read the 5-byte header into    *)
(* w.buf[0:5], and reuse lastMsg with the new type and length, buf = nil.  *)
(***************************************************************************)
ReadMessage ==
    /\ ~crashed /\ ConsumerDone
    /\ LET start == rpos + Unread(msg) IN
       /\ Len(Bytes) >= start + 5
       /\ LET h == SubSeq(Bytes, start + 1, start + 5) IN
          /\ wbuf' = [k \in BufPositions |-> IF k <= 5 THEN h[k] ELSE wbuf[k]]
          /\ msg' = Decode(h)
       /\ rpos' = start + 5
    /\ nread' = nread + 1
    /\ taken' = 0
    /\ UNCHANGED <<sent, fresh, rbuf, out, crashed>>

(***************************************************************************)
(* Message.Read, called by a consumer that wants the body: a Length of at  *)
(* most WireBufferSize+4 slices w.buf[:Length-4], which panics when        *)
(* Length < 4; a larger one allocates.  Then io.ReadFull of the body, and  *)
(* copyReader keeps the body as r.buf.                                     *)
(***************************************************************************)
MessageRead ==
    /\ ~crashed /\ msg # NoMsg /\ msg.buf = "nil"
    /\ \/ /\ msg.len < 4
          /\ crashed' = TRUE
          /\ UNCHANGED <<rpos, msg, wbuf, fresh, rbuf>>
       \/ /\ msg.len >= 4
          /\ LET n == msg.len - 4
                 body == SubSeq(Bytes, rpos + 1, rpos + n)
             IN /\ Len(Bytes) >= rpos + n
                /\ rpos' = rpos + n
                /\ IF msg.len <= WireBufferSize + 4
                   THEN /\ wbuf' = [k \in BufPositions |-> IF k <= n THEN body[k] ELSE wbuf[k]]
                        /\ msg' = [msg EXCEPT !.buf = "wbuf"]
                        /\ rbuf' = [src |-> "wbuf", from |-> 1, to |-> n]
                        /\ UNCHANGED fresh
                   ELSE /\ fresh' = body
                        /\ msg' = [msg EXCEPT !.buf = "fresh"]
                        /\ rbuf' = [src |-> "fresh", from |-> 1, to |-> n]
                        /\ UNCHANGED wbuf
          /\ UNCHANGED crashed
    /\ UNCHANGED <<sent, nread, taken, out>>

\* copyReader.Read hands out the next byte of r.buf (copy(p, r.buf)).
Take ==
    /\ ~crashed /\ ~ConsumerDone
    /\ out' = Append(out, IF rbuf.src = "wbuf" THEN wbuf[rbuf.from] ELSE fresh[rbuf.from])
    /\ rbuf' = [rbuf EXCEPT !.from = @ + 1]
    /\ taken' = taken + 1
    /\ UNCHANGED <<sent, rpos, msg, wbuf, fresh, nread, crashed>>

Next ==
    \/ \E typ \in Types, len \in Lengths : Send(typ, len)
    \/ ReadMessage
    \/ MessageRead
    \/ Take

Spec == Init /\ [][Next]_vars

-----------------------------------------------------------------------------
TypeOK ==
    /\ sent \in Seq([typ : Types, len : Lengths]) /\ Len(sent) <= MaxFrames
    /\ rpos \in 0..Len(Bytes)
    /\ msg.buf \in {"nil", "wbuf", "fresh"}
    /\ rbuf.src \in {"wbuf", "fresh"} /\ rbuf.from \in 1..(rbuf.to + 1)
    /\ nread \in 0..MaxFrames /\ taken \in Nat
    /\ crashed \in BOOLEAN

(***************************************************************************)
(* The codec implements FrameQueue: every header ReadMessage returns is    *)
(* the next frame the client sent, and every body byte a consumer takes is *)
(* the next byte of that frame's body, whatever mix of skipped, buffered   *)
(* and large bodies came before.                                           *)
(***************************************************************************)
FQ == INSTANCE FrameQueue WITH
        got <- nread,
        cur <- [id |-> msg.id, typ |-> msg.typ, len |-> msg.len]

ImplementsFrameQueue == FQ!Spec

=============================================================================
