----------------------------- MODULE MCSchemaImport ---------------------------
(***************************************************************************)
(* Instance of SchemaImport for TLC.                                       *)
(***************************************************************************)
EXTENDS SchemaImport

CONSTANT v1
===============================================================================
