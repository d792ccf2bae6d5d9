\* One request thread, the loader, and two versions that share locations.
SPECIFICATION FairSpec
CONSTANTS
    Readers = {r1}
    Task = Task
    None = None
    v1 = v1
    v2 = v2
    Versions = {v1, v2}
    Locs = {1, 2}
    Files <- MCFiles
INVARIANTS
    CityFromItsFile
    IndexCoversTable
PROPERTY EveryRequestEnds
