\* INSERT ... FORMAT requests whose records AppendRow may reject.
\* A request ends once answered, hence no deadlock check.
SPECIFICATION Spec
CONSTANTS
    Urls <- MCUrls
    Lines <- MCLines
    Methods = {"POST"}
    MaxLines = 2
INVARIANT OkMeansAllAppended
CHECK_DEADLOCK FALSE
