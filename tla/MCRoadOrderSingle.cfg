\* Roads of which the table has a single point.
SPECIFICATION FairSpec
CONSTANT MaxPoints = 3
INVARIANT NoSinglePointRoad
CHECK_DEADLOCK FALSE
