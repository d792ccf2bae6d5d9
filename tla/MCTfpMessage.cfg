\* Roads and loops of three locations, their numbers in any order, up to
\* three rows for each.
SPECIFICATION Spec
CONSTANTS
    Points = 3
    Hundred = 2
    Shape <- MCShape
    Rows <- MCRows
INVARIANTS
    TypeOK
    ShownAsAuthored
    ShorterRoadShowsSuffix
    EncodedIsDecodable
    PartsInOrder
\* A message that is shown or refused takes no further step.
CHECK_DEADLOCK FALSE
