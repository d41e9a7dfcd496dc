-------------------------- MODULE MCHotRodUpgrade ---------------------------
(***************************************************************************)
(* Small instances of HotRodUpgrade for TLC.                               *)
(***************************************************************************)
EXTENDS HotRodUpgrade
=============================================================================
