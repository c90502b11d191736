\* bindValues against the substitution spec section 4.3.4 describes, over
\* every short statement and every Bind of up to two values.
\* The model stops when bindValues returns or panics, hence no deadlock check.
CONSTANTS
    SqlChars = {"$", "0", "1", "2", "'", " "}
    ParamTexts <- MCParamTexts
    MaxSql = 4
    MaxArgs = 2

SPECIFICATION Spec
INVARIANT TypeOK
INVARIANT SubstitutionMatchesSpec
CHECK_DEADLOCK FALSE
