------------------------------ MODULE Schedulers ------------------------------
(***************************************************************************)
(* The two placement algorithms of pkg/reqscheduler/schedule.go.  Both are *)
(* pure: given the request at the head of the queue, the schedule records  *)
(* of its function and the function's RUNNING instances, they choose the   *)
(* instance that will serve the request, or none.                          *)
(*                                                                         *)
(* Each algorithm is an operator that returns the SET of instances it may  *)
(* choose, because the code leaves the choice open: it ranges over a Go    *)
(* map, sorts with the unstable sort.Slice, or draws at random.            *)
(***************************************************************************)
EXTENDS Integers, FiniteSets

CONSTANTS
  Calls,      \* the CallFunction requests that clients issue
  Services,   \* ECS service names: one service is one function instance
  ReqCpu,     \* [Calls -> Nat], CallFunctionRequest.cpu
  ReqMem,     \* [Calls -> Nat], CallFunctionRequest.memory
  InsCpu,     \* [Services -> Nat], FuncInstance.Cpu
  InsMem,     \* [Services -> Nat], FuncInstance.Memory
  MaxInt      \* largest int32, scaled down in the runs

(***************************************************************************)
(* Requirements are sums of int32 values in the code.  The client contract *)
(* is that a requirement is not negative and leaves headroom: adding it to *)
(* a full instance stays within int32.                                     *)
(***************************************************************************)
ASSUME ResourceAssumption ==
  /\ IsFiniteSet(Calls) /\ IsFiniteSet(Services)
  /\ MaxInt \in Nat
  /\ ReqCpu \in [Calls -> Nat] /\ ReqMem \in [Calls -> Nat]
  /\ InsCpu \in [Services -> Nat] /\ InsMem \in [Services -> Nat]

ASSUME HeadroomAssumption ==
  \A c \in Calls, s \in Services :
    InsCpu[s] + ReqCpu[c] <= MaxInt /\ InsMem[s] + ReqMem[c] <= MaxInt

(***************************************************************************)
(* A schedule record (model.ReqScheduleInfo) names the request, the        *)
(* service it was placed on, and which of the request's records it is.     *)
(* Cpu and memory are copied unchanged from the call, so they are read     *)
(* from it.  A sum over records is the number of resource units they hold: *)
(* one pair <<record, unit>> per unit.                                     *)
(***************************************************************************)
Units(recs, need) == UNION {{rec} \X (1 .. need[rec.req.call]) : rec \in recs}

On(recs, s) == {rec \in recs : rec.svc = s}

CpuUsed(recs, s) == Cardinality(Units(On(recs, s), ReqCpu))
MemUsed(recs, s) == Cardinality(Units(On(recs, s), ReqMem))

(***************************************************************************)
(* int32 arithmetic: values outside the range wrap around.                 *)
(***************************************************************************)
Int32(x) ==
  IF x \in -MaxInt - 1 .. MaxInt
  THEN x
  ELSE ((x + MaxInt + 1) % (2 * (MaxInt + 1))) - (MaxInt + 1)

-----------------------------------------------------------------------------
(* BaseScheduler: first fit in the sorted list of instances.               *)

BaseFitsForgetsLoad(r, recs, s) ==
  ReqCpu[r.call] <= InsCpu[s] /\ ReqMem[r.call] <= InsMem[s]

BaseFitsWithRest(r, recs, s) ==
  /\ Int32(CpuUsed(recs, s) + ReqCpu[r.call]) < InsCpu[s]
  /\ Int32(MemUsed(recs, s) + ReqMem[r.call]) < InsMem[s]

BaseFits(r, recs, s) ==
  /\ Int32(CpuUsed(recs, s) + ReqCpu[r.call]) <= InsCpu[s]
  /\ Int32(MemUsed(recs, s) + ReqMem[r.call]) <= InsMem[s]

(* Smaller instances first; among equals, the one whose cpu is used most.  *)
SortsBefore(recs, s, t) ==
  \/ InsCpu[s] < InsCpu[t]
  \/ InsCpu[s] = InsCpu[t] /\ InsMem[s] < InsMem[t]
  \/ /\ InsCpu[s] = InsCpu[t] /\ InsMem[s] = InsMem[t]
     /\ Int32(CpuUsed(recs, s)) > Int32(CpuUsed(recs, t))

BaseChoices(r, recs, ins) ==
  LET fitting == {s \in ins : BaseFits(r, recs, s)}
  IN  {s \in fitting : \A t \in fitting : ~ SortsBefore(recs, t, s)}

-----------------------------------------------------------------------------
(* OneTaskPerNodeScheduler: any instance that no record names.             *)

OneTaskIgnoresRecords(r, recs, ins) ==
  {s \in ins : InsCpu[s] >= ReqCpu[r.call] /\ InsMem[s] >= ReqMem[r.call]}

OneTaskChoices(r, recs, ins) ==
  {s \in ins : /\ On(recs, s) = {}
               /\ InsCpu[s] >= ReqCpu[r.call]
               /\ InsMem[s] >= ReqMem[r.call]}
=============================================================================
