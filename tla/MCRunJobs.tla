----------------------------- MODULE MCRunJobs -----------------------------
EXTENDS RunJobs, TLC
CONSTANTS r1, r2, w1, w2
\* Workers are interchangeable: no action and no property names one.
WorkerSymmetry == Permutations(Worker)
=============================================================================
