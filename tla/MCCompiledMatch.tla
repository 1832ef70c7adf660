--------------------------- MODULE MCCompiledMatch ---------------------------
(* CompiledMatch over the instances of LikeInstances. *)
EXTENDS LikeInstances, CompiledMatch
=============================================================================
