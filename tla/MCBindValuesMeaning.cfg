\* The text bindValues builds against the statement the prepared path runs.
CONSTANTS
    SqlChars = {"$", "0", "1", "2", "'", " "}
    ParamTexts <- MCParamTexts
    MaxSql = 4
    MaxArgs = 2

SPECIFICATION Spec
INVARIANT SubstitutionKeepsMeaning
CHECK_DEADLOCK FALSE
