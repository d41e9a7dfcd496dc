---------------------------- MODULE MCSchemaSync ----------------------------
(***************************************************************************)
(* Model checking of SchemaSync.                                           *)
(***************************************************************************)
EXTENDS SchemaSync
=============================================================================
