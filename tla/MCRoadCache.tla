---------------------------- MODULE MCRoadCache ----------------------------
EXTENDS RoadCache

CONSTANTS v1, v2

\* v1 is published twice, and its second revision drops a row; v2 is published
\* once, with a location that v1 has too.
MCFiles == [v \in Versions |-> IF v = v1 THEN <<{1, 2}, {2}>> ELSE <<{1}>>]
=============================================================================
