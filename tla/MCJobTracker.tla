--------------------------- MODULE MCJobTracker ---------------------------
(* JobTracker alone on two jobs, one image, three attempts (two retries), and *)
(* a caller that queues one good result.  Only _total_num_completed_jobs grows without bound: it is   *)
(* kept to MaxCompleted.                                                     *)
EXTENDS JobTrackerCalls, TLC

CONSTANTS j1, j2, image, MaxCompleted

MCInfo == {[state |-> "ok", images |-> image, safety_evaluated |-> TRUE]}
MCSymmetry == Permutations(Job)

MCNext == CallsNext /\ tracker'.completed <= MaxCompleted
MCSpec == CallsInit /\ [][MCNext]_calls
=============================================================================
