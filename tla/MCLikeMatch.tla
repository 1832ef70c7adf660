----------------------------- MODULE MCLikeMatch -----------------------------
(* LikeMatch over the instances of LikeInstances. *)
EXTENDS LikeInstances, LikeMatch
=============================================================================
