--------------------------- MODULE MCInstanceStatus ---------------------------
(***************************************************************************)
(* Small instances of InstanceStatus for TLC.                              *)
(***************************************************************************)
EXTENDS InstanceStatus

AllFaults == FaultKinds
NoFaults == {}
=============================================================================
