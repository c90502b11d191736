\* Every request shape of the vocabulary in MCChDispatch: GET, POST and
\* another method; no URL query, a SELECT or an INSERT ... FORMAT in it; up to
\* two body lines, the last with or without a newline.
\* A request ends once answered, hence no deadlock check.
SPECIFICATION Spec
CONSTANTS
    Urls <- MCUrls
    Lines <- MCLines
    Methods = {"GET", "POST", "PUT"}
    MaxLines = 2
INVARIANT TypeOK
INVARIANT OkMeansAllRead
PROPERTY WatcherExits
CHECK_DEADLOCK FALSE
