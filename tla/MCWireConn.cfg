\* First frames: SSLRequest, StartupMessages (duplicate key, empty value),
\* CancelRequest, and the malformed ones the code panics on or cuts short;
\* up to two of them, with or without the client closing after them.
\* Then tagged frames with a length field below 4, an empty body, a body
\* that fits w.buf and one that does not, skipped or read in any mix.
SPECIFICATION Spec
CONSTANTS
    Streams <- MCStreams
    Types = {q, d}
    Lengths = {3, 4, 5, 7}
    MaxFrames = 3
    WireBufferSize = 2
INVARIANT TypeOK
INVARIANT FirstFrameMatchesSpec
PROPERTY ImplementsFrameQueue
PROPERTY ClosedConnectionEnds
CHECK_DEADLOCK FALSE
