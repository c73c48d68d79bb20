-------------------------- MODULE MCPlanificador --------------------------
(* Instances of Planificador for TLC: the configurations choose among      *)
(* these values.                                                           *)
EXTENDS Planificador

UnaInstancia == [r \in Recurso |-> 1]
=============================================================================
