--------------------------- MODULE MCZeroCapacity ---------------------------
(***************************************************************************)
(* Model checking of ZeroCapacity: one Backup and, in the runs that have   *)
(* one, one Restore of it.                                                 *)
(***************************************************************************)
EXTENDS ZeroCapacity

MCSource == [r \in Restores |-> "b"]
=============================================================================
