---------------------------- MODULE MCAutoscaler ------------------------------
(***************************************************************************)
(* A small instance of Autoscaler for TLC: one function with a small and a *)
(* large resource spec, a request, and a client that creates the function. *)
(***************************************************************************)
EXTENDS Autoscaler, TLC

CONSTANTS f, small, large, r, auto1, client

TwoSpecs == {small, large}
OneFnTwoSpecs == [fn \in Functions |-> <<large, small>>]
Small(n, m) == [sp \in Specs |-> IF sp = small THEN n ELSE m]
MinReplicas == Small(1, 0)
MaxReplicas == Small(2, 1)

(* The request fits the large spec only, and fills half of it.             *)
Owner == [rq \in Reqs |-> f]
NeedCpu == [rq \in Reqs |-> 2]
NeedMem == [rq \in Reqs |-> 1]
Cpu == Small(1, 4)
Mem == Small(1, 2)

CreateOnly == {"create"}
AnyFault == FaultKinds
NoCounts == {}
=============================================================================
