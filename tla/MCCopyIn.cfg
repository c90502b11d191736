\* Every setup outcome, every record class and every way the stream ends.
\* Runs stop once the client's stream is consumed, hence no deadlock check.
CONSTANTS
    RecordKinds = {"ok", "short", "long", "badValue", "badCsv"}
    EndKinds = {"done", "fail", "other", "ioErr"}
    SetupResults = {"ok", "noTable", "colErr", "badType"}
    MaxData = 3

SPECIFICATION Spec
INVARIANT TypeOK
INVARIANT CompleteCountsStored
PROPERTY WatcherExits
CHECK_DEADLOCK FALSE
