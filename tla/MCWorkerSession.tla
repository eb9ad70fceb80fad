---------------------------- MODULE MCWorkerSession ----------------------------
EXTENDS WorkerSession, TLC

CONSTANTS j1, j2

MCSymmetry == Permutations(Job)
=============================================================================
