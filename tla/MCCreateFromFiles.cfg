\* Every message one edit away from a complete one, each in a file of its own
\* that is created once; and two files whose user chooses and clicks twice.
SPECIFICATION Spec
CONSTANTS
    Messages <- MCMessages
    Checked <- MCChecked
    CanCreate <- MCCanCreate
    IsComplete <- MCIsComplete
    Content <- MCContent
    Libraries <- MCLibraries
    Tries <- MCTries
    MaxClock = 1
INVARIANTS
    TypeOK
    CompleteIsSaved
    PostedFromSelection
    ServesOwn
\* All clicks are done.
CHECK_DEADLOCK FALSE
