----------------------------- MODULE JobLifecycle -----------------------------
(* What the worker promises of every job the horde hands it, without queues,  *)
(* processes or messages (jobs/job_tracker.py, JobStage): a job goes from      *)
(* inference to the safety check to the submission and is reported once.  It   *)
(* may be faulted on its way, which takes it to the submission at once; it     *)
(* never goes back to an earlier stage.  JobPipeline implements this.          *)
CONSTANT Job

VARIABLE phase

Phase == {"unknown", "inference", "safety", "submit", "reported"}

Init == phase = [j \in Job |-> "unknown"]

Move(j, from, to) == phase[j] \in from /\ phase' = [phase EXCEPT ![j] = to]

Pop(j) == Move(j, {"unknown"}, "inference")

\* Attempts may be lost and repeated; only a result or a fault ends this stage.
Infer(j) == Move(j, {"inference"}, "safety")

\* The verdict of the safety check, or a fault that is not retried.
Settle(j) == Move(j, {"inference", "safety"}, "submit")

Report(j) == Move(j, {"submit"}, "reported")

Next == \E j \in Job : Pop(j) \/ Infer(j) \/ Settle(j) \/ Report(j)

Spec == Init /\ [][Next]_phase
=============================================================================
