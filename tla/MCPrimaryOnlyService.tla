------------ MODULE MCPrimaryOnlyService ------------
(* An instance of PrimaryOnlyService for TLC.                               *)
EXTENDS PrimaryOnlyService

CONSTANT a
====================
