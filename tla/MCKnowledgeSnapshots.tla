------------------------ MODULE MCKnowledgeSnapshots ------------------------
EXTENDS KnowledgeSnapshots

CONSTANTS j1, j2, s1, s2
=============================================================================
