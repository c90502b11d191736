---------------------------- MODULE MCChDispatch ----------------------------
EXTENDS ChDispatch, TLC

\* Values of the query URL parameter: none, a SELECT, an INSERT with a format.
MCUrls == {<<>>, <<"SELECT", "t">>, <<"INSERT", "INTO", "t", "FORMAT", "CSV">>}

\* Body lines: statements, a statement split over two lines, and CSV records
\* that parse ("1"), that AppendRow rejects ("r") or that do not parse ("?").
MCLines == {<<"SELECT", "t">>, <<"INSERT", "INTO", "t", "FORMAT", "CSV">>,
            <<"INSERT">>, <<"INTO", "t", "VALUES", "1">>,
            <<"1">>, <<"r">>, <<"?">>}
=============================================================================
