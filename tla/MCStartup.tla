------------------------------- MODULE MCStartup ------------------------------
(***************************************************************************)
(* Instance of Startup for TLC.  The runs use no symmetry: one of them     *)
(* checks liveness.                                                        *)
(***************************************************************************)
EXTENDS Startup

CONSTANTS w1, w2, w3
===============================================================================
