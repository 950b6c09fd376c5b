--------------------------- MODULE MCPaperRuntime ---------------------------
EXTENDS PaperRuntime, TLC
CONSTANTS w1, w2, c1
\* Workers are interchangeable: no action and no property names one.
WorkerSymmetry == Permutations(Worker)
=============================================================================
