\* Two clients ask for circles of two versions while the tables are published.
SPECIFICATION Spec
CONSTANTS
    Clients = {t1, t2}
    Locs = {1, 2, 3}
    Groups = {"g", "h"}
    Versions = {"A", "B"}
    Maps = {"M"}
    Points <- MCPoints
    City <- MCCity
    Circles = {{2}, {1, 2, 3}}
    SysKeys <- MCKeys
    None = None
INVARIANTS
    TypeOK
    AnswerMarksCircle
    CachedRoadIsWhole
SYMMETRY ClientSymmetry
PROPERTIES
    RoadFreezes
