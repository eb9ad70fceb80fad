------------------------ MODULE MCWholeCardResidency ------------------------
(* Instances of WholeCardResidency for TLC.                                   *)
EXTENDS WholeCardResidency

MCModelOf == <<"light", "heavy", "light">>

MCShort == <<"light", "heavy">>

=============================================================================
