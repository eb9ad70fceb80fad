--------------------------- MODULE MCDownloadProcess ---------------------------
(* Image models of one host, the safety task and the annotator verify, whose *)
(* hosts are unknown; two threads.                                           *)
EXTENDS DownloadProcess, TLC

CONSTANTS a, b, safety, verify, e1, e2, civitai, unknown

MCHostOf == [t \in Task |-> IF t \in ImageModel THEN civitai ELSE unknown]
OnePerHost == {<<2, 1>>}
AnyLimits == {<<1, 1>>, <<2, 1>>, <<2, 2>>}
MCSymmetry == Permutations(Executor) \cup Permutations(ImageModel)
=============================================================================
