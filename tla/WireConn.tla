------------------------------ MODULE WireConn ------------------------------
(***************************************************************************)
(* One connection's reading side of the Wire (src/wire.go): the goroutine  *)
(* of PgConn.Run first reads the untagged first frame with                 *)
(* ReadStartUpMessage (StartupFrame) and, only when it is a                *)
(* StartupMessage, goes on to tagged frames with ReadMessage and           *)
(* Message.Read (WireCodec).  A CancelRequest, an error or a failed 'N'    *)
(* ends the connection instead.  Both parts share the process: a panic in  *)
(* either ends it.                                                         *)
(***************************************************************************)
CONSTANTS Streams, Types, Lengths, MaxFrames, WireBufferSize

VARIABLES
    stream, closed, fpos, fpc, flen, replies, first,     \* StartupFrame
    sent, rpos, msg, wbuf, fresh, rbuf, nread, taken, out, \* WireCodec
    crashed                                              \* both

S == INSTANCE StartupFrame
W == INSTANCE WireCodec

startupOnly == <<stream, closed, fpos, fpc, flen, replies, first>>
codecOnly == <<sent, rpos, msg, wbuf, fresh, rbuf, nread, taken, out>>
vars == <<startupOnly, codecOnly, crashed>>

Init == S!Init /\ W!Init

\* Run enters its message loop only after a StartupMessage (and Auth).
InMessageLoop == fpc = "done" /\ first.kind = "startup"

Next ==
    \/ S!StartupNext /\ UNCHANGED codecOnly
    \/ InMessageLoop /\ W!Next /\ UNCHANGED startupOnly

Spec == Init /\ [][Next]_vars /\ S!StartupFairness

-----------------------------------------------------------------------------
TypeOK == S!StartupTypeOK /\ W!TypeOK

\* See StartupFrame: the first frame is read as the protocol defines it.
FirstFrameMatchesSpec == S!FirstFrameMatchesSpec

\* See StartupFrame: reading the first frame ends once the client closed.
ClosedConnectionEnds == S!ClosedConnectionEnds

\* See WireCodec: the tagged frames after the first are delivered in order.
ImplementsFrameQueue == W!ImplementsFrameQueue

=============================================================================
