\* Every road and loop of up to five points, with every part of it loaded.
SPECIFICATION FairSpec
CONSTANT MaxPoints = 5
INVARIANTS
    TypeOK
    ForwardIsStretch
    BackwardMirrors
PROPERTY SortingEnds
\* A sorted city takes no further step.
CHECK_DEADLOCK FALSE
