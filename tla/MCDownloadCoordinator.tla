------------------------- MODULE MCDownloadCoordinator -------------------------
(* An image model of one host, and the safety task of another. *)
EXTENDS DownloadCoordinator, TLC

CONSTANTS a, e1, civitai, unknown

MCHostOf == [t \in Task |-> IF t \in ImageModel THEN civitai ELSE unknown]
OneMissing == {{Safety}, ImageModel}
OnePerHost == {<<2, 1>>}
=============================================================================
