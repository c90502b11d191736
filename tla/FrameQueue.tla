------------------------------ MODULE FrameQueue ----------------------------
(***************************************************************************)
(* What the wire codec of duck_server (src/wire.go, src/message.go)        *)
(* promises the code that reads a connection: tagged frames are delivered  *)
(* one at a time in the order the client sent them, each with the type and *)
(* length the client wrote, and the body bytes a consumer takes from the   *)
(* current frame are that frame's body, in order.  Bytes are named by the  *)
(* frame they belong to and their offset in it (0..4 the header).          *)
(***************************************************************************)
EXTENDS Naturals, Sequences

CONSTANTS
    Types,        \* frame type tags
    Lengths,      \* values of the length field the client writes
    MaxFrames     \* bound on frames the client sends

VARIABLES
    sent,         \* the frames the client has written
    got,          \* number of frames delivered
    cur,          \* the frame delivered last
    taken,        \* body bytes of cur taken by the consumer
    out           \* every body byte the consumer has taken, in order

vars == <<sent, got, cur, taken, out>>

NoFrame == [id |-> 0, typ |-> "none", len |-> 0]

\* Body bytes the client sends after the header: the length field counts itself.
BodyLen(len) == IF len > 4 THEN len - 4 ELSE 0

Byte(i, o) == [f |-> i, o |-> o]

Init ==
    /\ sent = <<>>
    /\ got = 0
    /\ cur = NoFrame
    /\ taken = 0
    /\ out = <<>>

Send(typ, len) ==
    /\ Len(sent) < MaxFrames
    /\ sent' = Append(sent, [typ |-> typ, len |-> len])
    /\ UNCHANGED <<got, cur, taken, out>>

Deliver ==
    /\ got < Len(sent)
    /\ got' = got + 1
    /\ cur' = [id |-> got + 1, typ |-> sent[got + 1].typ, len |-> sent[got + 1].len]
    /\ taken' = 0
    /\ UNCHANGED <<sent, out>>

Take ==
    /\ cur # NoFrame
    /\ taken < BodyLen(cur.len)
    /\ out' = Append(out, Byte(cur.id, 5 + taken))
    /\ taken' = taken + 1
    /\ UNCHANGED <<sent, got, cur>>

Next ==
    \/ \E typ \in Types, len \in Lengths : Send(typ, len)
    \/ Deliver
    \/ Take

Spec == Init /\ [][Next]_vars
=============================================================================
