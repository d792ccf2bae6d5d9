--------------------------- MODULE MCResultTable ---------------------------
EXTENDS ResultTable

Row(f, at, id, type, lines) == [file |-> f, at |-> at, id |-> id, type |-> type, lines |-> lines]

\* File a fills two pages; in file b a TFP and a TEC message share an id.
MCRowsOf == [f \in {"a", "b"} |->
                IF f = "a" THEN <<Row("a", 1, 1, "TFP", 2), Row("a", 2, 2, "TEC", 1), Row("a", 3, 3, "TFP", 1)>>
                ELSE <<Row("b", 1, 2, "TFP", 1), Row("b", 2, 2, "TEC", 1)>>]

MCShows == [t \in {"", "2"} |-> IF t = "" THEN AllRows ELSE {r \in AllRows : r.id = 2}]
=============================================================================
