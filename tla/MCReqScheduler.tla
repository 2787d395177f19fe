---------------------------- MODULE MCReqScheduler ----------------------------
(***************************************************************************)
(* Small instances of ReqScheduler for TLC.  Calls are small or large; a   *)
(* small instance holds one unit, a large one two.                         *)
(***************************************************************************)
EXTENDS ReqScheduler, TLC

CONSTANTS c1, c2, c3, s1, s2, f, g

MCCalls == {c1, c2}
ThreeCalls == {c1, c2, c3}
MCServices == {s1, s2}

(* Two calls of one function; the second needs the large instance.         *)
OneFunction == [c \in Calls |-> f]
OneOwner == [s \in Services |-> f]
SmallAndLarge == [c \in Calls |-> IF c = c2 THEN 2 ELSE 1]
OneUnit == [c \in Calls |-> 1]
OneAndTwo == [s \in Services |-> IF s = s2 THEN 2 ELSE 1]

(* A call of another function among them.                                  *)
TwoFunctions == [c \in Calls |-> IF c = c2 THEN g ELSE f]
TwoOwners == [s \in Services |-> IF s = s2 THEN g ELSE f]

AllReady == Services

(* All failures, those that leave no record behind, and none.              *)
AllFaults == FaultKinds
CleanFaults == {"flake", "read", "write", "lostAck"}
PlainFaults == {"flake", "read", "write"}
NoFaults == {}
=============================================================================
