-------------------------- MODULE MCKnowledgeBase --------------------------
EXTENDS KnowledgeBase, TLC
CONSTANTS p1, p2
MCSymmetry == Permutations(Process)
=============================================================================
