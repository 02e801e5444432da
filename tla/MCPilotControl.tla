--------------------------- MODULE MCPilotControl ---------------------------
EXTENDS PilotControl, TLC

CONSTANTS c1, t1, t2, o1

MCConvOf == [t \in Turns |-> c1]
MCNoLegacy == [c \in Conversations |-> None]
MCSymmetry == Permutations(Controls) \cup Permutations(Turns)
MCLegacy == [c \in Conversations |-> o1]
=============================================================================
