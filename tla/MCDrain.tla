------------------------------- MODULE MCDrain --------------------------------
(***************************************************************************)
(* A small instance of Drain for TLC: two calls that fit together on the   *)
(* only instance of their function.                                        *)
(***************************************************************************)
EXTENDS Drain, TLC

CONSTANTS c1, c2, s1, f

TwoCalls == {c1, c2}
OneService == {s1}
CallsF == [c \in Calls |-> f]
OwnsF == [s \in Services |-> f]
OneUnit == [c \in Calls |-> 1]
TwoUnits == [s \in Services |-> 2]
CallSymmetry == Permutations(Calls)
AllReady == Services
SubmitFaults == {"flake"}
=============================================================================
