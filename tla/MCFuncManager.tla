---------------------------- MODULE MCFuncManager -----------------------------
(***************************************************************************)
(* Small instances of FuncManager for TLC.                                 *)
(***************************************************************************)
EXTENDS FuncManager, TLC

CONSTANTS f, p1, o1, o2, o3, o4

OneSpec == {p1}
OneSpecList == [fn \in Functions |-> <<p1>>]
MinOne == [sp \in Specs |-> 1]
MaxTwo == [sp \in Specs |-> 2]
MaxThree == [sp \in Specs |-> 3]

AllKinds == {"create", "scale", "delete"}
NoDelete == {"create", "scale"}
CreateDelete == {"create", "delete"}

UpAndDown == {-2, 2}
Down == {-1}
Up == {1}

AllFaults == FaultKinds
NoFaults == {}

OpSymmetry == Permutations(Ops)
=============================================================================
