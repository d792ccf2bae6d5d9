---------------------------- MODULE MCRoadOrder ----------------------------
EXTENDS RoadOrder
=============================================================================
