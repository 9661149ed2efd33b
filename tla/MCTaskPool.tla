---------------------------- MODULE MCTaskPool ------------------------------
EXTENDS TaskPool

CONSTANTS C1, C2

MCCreators == {C1, C2}
=============================================================================
