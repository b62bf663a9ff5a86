---------------------------- MODULE MCGateway ------------------------------
(* An instance of Gateway: two requests, one for anything and one of the command line *)
(* for what gets in its way most.                                                     *)
EXTENDS Gateway, TLC

CONSTANTS r1, r2

MCEndpoints == r1 :> Ops @@ r2 :> {"create", "delete", "send"}
=============================================================================
