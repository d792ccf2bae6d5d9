\* Four messages on two pool threads: a request of three or four uses the pool.
SPECIFICATION FairSpec
CONSTANTS
    Jobs <- MCJobs
    MaxMessages = 4
    Threshold = 2
    Workers = 2
INVARIANTS
    TypeOK
    LatchCountsOpenWork
    CollectsOnlyFinishedWork
    StrandedNeverEnds
PROPERTIES
    EndsUnlessStranded
    StrandedPollsForever
    ImplementsService
\* A request that ended, or that polls for ever, takes no further step.
CHECK_DEADLOCK FALSE
