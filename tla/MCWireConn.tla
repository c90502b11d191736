---------------------------- MODULE MCWireConn -----------------------------
EXTENDS WireConn, Naturals, SequencesExt
\* A big-endian int32 of a small non-negative length.
LengthBytes(l) == <<0, 0, l \div 256, l % 256>>

\* Key and value strings: "u" (117), "a" (97), "b" (98).
StartupMsg(data) == LengthBytes(8 + Len(data)) \o <<0, 3, 0, 0>> \o data

MCFirstFrames == {
    LengthBytes(8) \o <<4, 210, 22, 47>>,                  \* SSLRequest
    StartupMsg(<<117, 0, 97, 0, 0>>),                      \* u=a
    StartupMsg(<<117, 0, 97, 0, 117, 0, 98, 0, 0>>),       \* u=a, u=b
    StartupMsg(<<117, 0, 0, 117, 0, 97, 0, 0>>),           \* u='', u=a
    LengthBytes(16) \o <<4, 210, 22, 46, 1, 2, 3, 4, 5, 6, 7, 8>>,   \* CancelRequest
    LengthBytes(12) \o <<4, 210, 22, 46, 1, 2, 3, 4>>,     \* short CancelRequest
    LengthBytes(20) \o <<0, 3, 0, 0, 117, 0, 97, 0>>,      \* length beyond its bytes
    LengthBytes(8) \o <<0, 2, 0, 0>>,                      \* unknown version
    LengthBytes(6) \o <<0, 3>>,                            \* body shorter than a version
    LengthBytes(3),                                        \* length below 4
    <<255, 255, 255, 255>>                                 \* negative length
}

(***************************************************************************)
(* Streams in which every frame but the last is one ReadStartUpMessage     *)
(* reads past: an SSLRequest, or the frame whose length runs into the      *)
(* next.  Bytes after an accepted frame are the tagged frames WireCodec    *)
(* models.                                                                 *)
(***************************************************************************)
ReadPast == {LengthBytes(8) \o <<4, 210, 22, 47>>, LengthBytes(20) \o <<0, 3, 0, 0, 117, 0, 97, 0>>}

MCStreams == {FlattenSeq(fs) : fs \in {fs \in BoundedSeq(MCFirstFrames, 2) :
                                    \A i \in 1..(Len(fs) - 1) : fs[i] \in ReadPast}}
====================================================================
