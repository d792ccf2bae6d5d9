\* Two requests that arrive before the first NRoadLoader exists.
SPECIFICATION Spec
CONSTANTS
    Readers = {r1, r2}
    Task = Task
    None = None
    v1 = v1
    v2 = v2
    Versions = {v1}
    Locs = {1, 2}
    Files <- MCFiles
INVARIANT SingleLoader
