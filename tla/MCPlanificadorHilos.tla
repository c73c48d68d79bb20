-------------------------- MODULE MCPlanificadorHilos --------------------------
(* Instances of PlanificadorHilos for TLC.  The threads that attend        *)
(* answers are interchangeable.                                            *)
EXTENDS PlanificadorHilos, TLC

SimetriaHilos == Permutations(Respuesta)
=============================================================================
