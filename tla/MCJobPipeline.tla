---------------------------- MODULE MCJobPipeline ----------------------------
EXTENDS JobPipeline, TLC

CONSTANTS j1, j2, s1, s2

MCImage == 1 .. MaxInferenceAttempts
MCSymmetry == Permutations(Job) \cup Permutations(Slot)
=============================================================================
