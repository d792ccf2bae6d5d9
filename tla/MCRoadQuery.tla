----------------------------- MODULE MCRoadQuery -----------------------------
EXTENDS RoadQuery

\* Version A knows points 1 and 2 of g's road, version B only 2.  B's index has
\* a point 3 of a group h that came with a revision its city is older than.
MCPoints == [A |-> <<"g", "g", None>>, B |-> <<None, "g", "h">>]
MCCity == [A |-> [g |-> {1, 2}, h |-> {}], B |-> [g |-> {2}, h |-> {}]]

\* What the queries of both versions need, a key that two of the loader's tests
\* fit, and the one whose table is cast to what no parser makes.  A ct. key
\* would double the states; for the loader it differs from an mt. key by name.
MCKeys == {<<"lp", "A">>, <<"mt", "A">>, <<"lp", "B">>, <<"mt", "B">>, <<"map", "M">>,
           <<"map", "n", "M">>, <<"admin", "all">>}

\* Clients differ in nothing but their names, and no property is a liveness one.
ClientSymmetry == Permutations(Clients)
=============================================================================
