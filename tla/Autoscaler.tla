------------------------------ MODULE Autoscaler ------------------------------
(***************************************************************************)
(* FunctionAutoScaling beside everything FuncManager models.  At every     *)
(* tick it takes a snapshot of the waiting requests, then reads the        *)
(* records of the placed ones; from a window of such samples it computes   *)
(* how many instances each resource spec needs, reads how many there are,  *)
(* and calls ScaleFunction, one spec after the other, with the difference. *)
(* Requests come, are placed and leave in between; clients create and      *)
(* scale functions; statements fail and the server restarts.               *)
(*                                                                         *)
(* Of the request path only what the autoscaler can see is here: a request *)
(* is in the queue, in the queue and recorded, or only recorded.           *)
(***************************************************************************)
EXTENDS FuncManager, FiniteSetsExt

CONSTANTS
  AutoOp,        \* the member of Ops that stands for the autoscaler's own calls
  Reqs,          \* requests that may come
  ReqFn,         \* [Reqs -> Functions]
  ReqCpu, ReqMem,   \* [Reqs -> Nat], what a request requires
  SpecCpu, SpecMem, \* [Specs -> Nat], the size of an instance
  WindowLen,     \* config: auto_scaling_window / auto_scaling_step
  ThresholdNum, ThresholdDen  \* config: auto_scaling_threshold, as a fraction

(* The integer division that gives the window's length yields 0 when the   *)
(* window is shorter than a step; nothing checks the configuration.        *)
ASSUME AutoscalerAssumption ==
  /\ AutoOp \in Ops /\ IsFiniteSet(Reqs) /\ IsFiniteSet(Specs)
  /\ ReqFn \in [Reqs -> Functions]
  /\ ReqCpu \in [Reqs -> Nat] /\ ReqMem \in [Reqs -> Nat]
  /\ SpecCpu \in [Specs -> Nat \ {0}] /\ SpecMem \in [Specs -> Nat \ {0}]
  /\ \A f \in Functions : SpecList[f] # <<>>
  /\ WindowLen \in Nat
  /\ ThresholdNum \in Nat \ {0} /\ ThresholdDen \in Nat \ {0}

(* A spec is a pair of sizes: the code keeps the demand of a function and  *)
(* the count of its instances under [cpu, memory].                         *)
ASSUME SizeAssumption ==
  \A p, q \in Specs :
    p # q /\ FnOf[p] = FnOf[q] => SpecCpu[p] # SpecCpu[q] \/ SpecMem[p] # SpecMem[q]

VARIABLES
  req,   \* where each request is, as the queue and the records tell
  auto,  \* FunctionAutoScaling: its program counter and locals
  held   \* history: requests present ever since the snapshot was taken

autoVars == <<req, auto, held>>
allVars  == <<vars, autoVars>>

Samples == [Reqs -> 0 .. 2]

(* his: hisReqs, the newest first, each entry how often a request is in it *)
Loop == [at |-> "tick", got |-> {}, his |-> <<>>, known |-> {}, todo |-> {}]

AInit ==
  /\ Init
  /\ req = [r \in Reqs |-> "none"] /\ auto = Loop /\ held = {}

-----------------------------------------------------------------------------
(* Requests, as ReqScheduler moves them: Push; the record, while the       *)
(* request is still in the queue; Pop; the deletion of the record.         *)

InQueue(r)   == req[r] \in {"queued", "both"}
HasRecord(r) == req[r] \in {"both", "placed"}
Holds(p, r)  == ReqCpu[r] <= SpecCpu[p] /\ ReqMem[r] <= SpecMem[p]
CanServe(p, r) == FnOf[p] = ReqFn[r] /\ Holds(p, r)

MoveReq(r, from, to) ==
  /\ req[r] = from /\ req' = [req EXCEPT ![r] = to]
  /\ held' = IF to = "done" THEN held \ {r} ELSE held
  /\ UNCHANGED <<vars, auto>>

Comes(r)  == MoveReq(r, "none", "queued")

(* Another request like r.  Bounded: once, and before anything has failed. *)
ComesAgain(r) ==
  /\ req[r] = "done" /\ req' = [req EXCEPT ![r] = "queued"]
  /\ faults = 0 /\ MaxFaults > 0 /\ faults' = 1
  /\ UNCHANGED <<tables, ecs, op, deleting, monitor, auto, held>>

Records(r) ==
  /\ \E s \in Services : service[s] # "unused" /\ CanServe(specOf[s], r)
  /\ MoveReq(r, "queued", "both")
Pops(r)   == MoveReq(r, "both", "placed")
Ends(r)   == MoveReq(r, "placed", "done")

-----------------------------------------------------------------------------
(* GetAllReq: two reads at different times.                                *)

(* The first read is of the queue, the second of the records.              *)
RecordsFirst(n) == {r \in Reqs : IF n = 1 THEN HasRecord(r) ELSE InQueue(r)}

Source(n) == {r \in Reqs : IF n = 1 THEN InQueue(r) ELSE HasRecord(r)}

Tick ==
  /\ auto.at = "tick"
  /\ auto' = [auto EXCEPT !.at = "records", !.got = Source(1)]
  /\ held' = {r \in Reqs : InQueue(r) \/ HasRecord(r)}
  /\ UNCHANGED <<vars, req>>

Untrimmed(his) == his
Trim(his) == SubSeq(his, 1, Min({Len(his), WindowLen}))

(* Until the window is full nothing is computed.                           *)
TakesSample ==
  LET lists == <<auto.got, Source(2)>>
      sample == [r \in Reqs |-> Cardinality({n \in 1 .. 2 : r \in lists[n]})]
      his == <<sample>> \o auto.his IN
  /\ auto.at = "records"
  /\ auto' = [auto EXCEPT !.got = {}, !.his = Trim(his),
                          !.at = IF Len(his) < WindowLen THEN "tick" ELSE "metadata"]
  /\ held' = {} /\ UNCHANGED <<vars, req>>

-----------------------------------------------------------------------------
(* CalResScale.                                                            *)

Smaller(p, q) ==
  \/ SpecCpu[p] < SpecCpu[q]
  \/ SpecCpu[p] = SpecCpu[q] /\ SpecMem[p] < SpecMem[q]

(* A request counts for the smallest spec that holds it, or the largest.   *)
SpecFor ==
  [r \in Reqs |->
     LET all == SpecsOf(ReqFn[r])
         fitting == {p \in all : Holds(p, r)}
     IN IF fitting # {}
        THEN CHOOSE p \in fitting : \A q \in fitting \ {p} : Smaller(p, q)
        ELSE CHOOSE p \in all : \A q \in all \ {p} : Smaller(q, p)]

(* max(cpu/cpu, memory/memory) of an instance, times SpecCpu * SpecMem.    *)
Need ==
  [p \in Specs |->
     [r \in Reqs |-> Max({ReqCpu[r] * SpecMem[p], ReqMem[r] * SpecCpu[p]})]]

(* What the requests of one sample need of spec p, and those of a window.  *)
Load(p, sample) ==
  SumFunctionOnSet([r \in Reqs |-> sample[r] * Need[p][r]], {r \in Reqs : SpecFor[r] = p})

DemandOfLast(p, his) == IF his = <<>> THEN 0 ELSE Load(p, his[Len(his)])

Demand(p, his) == SumFunction([i \in DOMAIN his |-> Load(p, his[i])])

(* The average over the window, divided by the threshold and rounded.      *)
RoundedDown(num, den) == IF den = 0 THEN 0 ELSE num \div den
Rounded(num, den) == IF den = 0 THEN 0 ELSE (2 * num + den) \div (2 * den)

Expected(p, his) ==
  LET avg == Rounded(Demand(p, his) * ThresholdDen,
                     SpecCpu[p] * SpecMem[p] * Len(his) * ThresholdNum)
  IN Min({MaxReplica[p], Max({MinReplica[p], avg})})

ReadsMetadata ==
  /\ auto.at = "metadata"
  /\ auto' = [auto EXCEPT !.at = "instances", !.known = meta]
  /\ UNCHANGED <<vars, req, held>>

ScaleCntOnlyUp(p) == Max({0, Expected(p, auto.his) - Cardinality(RowsOf(p))})

ScaleCnt(p) == Expected(p, auto.his) - Cardinality(RowsOf(p))

ReadsInstances ==
  LET specs == UNION {SpecsOf(f) : f \in auto.known} IN
  /\ auto.at = "instances"
  /\ \A s \in rows : FnOf[specOf[s]] \in auto.known
  /\ auto' = [auto EXCEPT !.at = "scale", !.known = {},
                          !.todo = {<<p, ScaleCnt(p)>> : p \in {q \in specs : ScaleCnt(q) # 0}}]
  /\ UNCHANGED <<vars, req, held>>

(* The server ends and starts again.  The queue is gone; NewReqScheduler   *)
(* clears the records, or fails to, and then they stay for ever.           *)
Dies ==
  /\ auto' = Loop /\ held' = {}
  /\ \E kept \in {{}, {r \in Reqs : HasRecord(r)}} :
       req' = [r \in Reqs |-> CASE req[r] = "none" -> "none"
                                [] r \in kept -> "placed"
                                [] OTHER -> "done"]

(* The count of an instance whose function it did not read is written to a *)
(* nil map, and the panic ends the server.                                 *)
Panics ==
  /\ auto.at = "instances"
  /\ \E s \in rows : FnOf[specOf[s]] \notin auto.known
  /\ ProcessEnds /\ Dies /\ UNCHANGED faults

(* A read of GetAllReq or CalResScale fails: this round is over.           *)
ReadFails ==
  /\ auto.at \in {"records", "metadata", "instances"} /\ Fault("read")
  /\ auto' = [auto EXCEPT !.at = "tick", !.got = {}, !.known = {}] /\ held' = {}
  /\ UNCHANGED <<tables, ecs, op, deleting, monitor, req>>

-----------------------------------------------------------------------------
(* The calls of ScaleFunction; their errors are only logged.               *)

CallEnded == op[AutoOp].pc \in {"idle", "returned", "failed"}

(* Functions in any order, the specs of one function from small to large.  *)
CallsScale(t) ==
  /\ auto.at = "scale" /\ t \in auto.todo /\ CallEnded
  /\ \A u \in auto.todo : FnOf[u[1]] = FnOf[t[1]] => ~ Smaller(u[1], t[1])
  /\ op' = [op EXCEPT ![AutoOp] = ScaleFunction(t[1], t[2])]
  /\ auto' = [auto EXCEPT !.todo = @ \ {t}]
  /\ UNCHANGED <<tables, ecs, deleting, monitor, faults, req, held>>

RoundEnds ==
  /\ auto.at = "scale" /\ auto.todo = {} /\ CallEnded
  /\ op' = [op EXCEPT ![AutoOp] = Idle]
  /\ auto' = [auto EXCEPT !.at = "tick"]
  /\ UNCHANGED <<tables, ecs, deleting, monitor, faults, req, held>>

(* The monitor, as far as it matters here: its upsert brings back a row     *)
(* that it read before the row was removed.  Bounded like the failures.    *)
MonitorBringsBack(s) ==
  /\ rowId[s] # 0 /\ s \notin rows /\ rows' = rows \cup {s}
  /\ faults < MaxFaults /\ faults' = faults + 1
  /\ UNCHANGED <<meta, taskDefs, rowId, ecs, op, deleting, monitor, autoVars>>

-----------------------------------------------------------------------------
Manager(A) == A /\ UNCHANGED autoVars

AutoSteps ==
  \/ Tick \/ TakesSample \/ ReadsMetadata \/ ReadsInstances \/ Panics
  \/ (\E t \in auto.todo : CallsScale(t)) \/ RoundEnds

ANext ==
  \/ AutoSteps \/ ReadFails
  \/ \E r \in Reqs : Comes(r) \/ ComesAgain(r) \/ Records(r) \/ Pops(r) \/ Ends(r)
  \/ \E o \in Ops \ {AutoOp} : Manager(Begins(o))
  \/ \E o \in Ops : Manager(Continues(o))
  \/ \E s \in Services : Manager(AsyncDelete(s)) \/ MonitorBringsBack(s)
  \/ Restart /\ Dies

ASpec == AInit /\ [][ANext]_allVars

(***************************************************************************)
(* The autoscaler's goroutine and the calls in progress run on.  Nothing   *)
(* is assumed of clients, of the monitor, of requests or of failures.      *)
(***************************************************************************)
AFairSpec ==
  /\ ASpec /\ WF_allVars(AutoSteps)
  /\ \A o \in Ops : WF_allVars(Manager(Continues(o)))

-----------------------------------------------------------------------------
(* Properties.                                                             *)

(***************************************************************************)
(* Every variable keeps to the values the code can give it; in particular  *)
(* the window never holds more than WindowLen samples.                     *)
(***************************************************************************)
ATypeOK ==
  /\ req \in [Reqs -> {"none", "queued", "both", "placed", "done"}]
  /\ auto.at \in {"tick", "records", "metadata", "instances", "scale"}
  /\ auto.got \subseteq Reqs /\ held \subseteq Reqs /\ auto.known \subseteq Functions
  /\ auto.his \in Seq(Samples) /\ Len(auto.his) <= WindowLen
  /\ \A t \in auto.todo : t[1] \in Specs /\ t[2] \in Int \ {0}

(***************************************************************************)
(* GetAllReq misses no request that is there from its first read to its    *)
(* second, though the scheduler moves requests from the queue to the       *)
(* records in between (one that moves may be counted twice).               *)
(***************************************************************************)
NoRequestIsMissed ==
  [][TakesSample => \A r \in held : Head(auto'.his)[r] > 0]_allVars

Scalable(p) == FnOf[p] \in meta /\ p \in taskDefs

(***************************************************************************)
(* The autoscaler brings every spec back to the number of instances its    *)
(* window asks for, and keeps it there once failures have stopped: after a *)
(* creation that left no instance, a crash, or a stale row that the        *)
(* monitor brought back.  A spec whose task definition could not be saved  *)
(* is the exception (ScaleFunction refuses it for ever).                   *)
(***************************************************************************)
RowsReachTarget ==
  \A p \in Specs :
    <>[]Scalable(p) => <>[](Cardinality(RowsOf(p)) = Expected(p, auto.his))

(***************************************************************************)
(* Scaling from zero: a request that waits in the queue for ever gets an   *)
(* instance of its spec that runs, if the spec can hold it and its demand  *)
(* is at least half an instance.  (A smaller demand rounds to zero: such a *)
(* request waits for ever under min_replica 0.)  The exception is a row of *)
(* the spec whose service is gone, brought back by the monitor: it counts  *)
(* as an instance, and while it stays the autoscaler asks for no other.    *)
(***************************************************************************)
Suffices(r, p) ==
  /\ Holds(p, r) /\ MaxReplica[p] > 0
  /\ 2 * Need[p][r] * ThresholdDen >= SpecCpu[p] * SpecMem[p] * ThresholdNum

WaitingRequestsGetInstances ==
  \A r \in Reqs :
    LET p == SpecFor[r] IN
    <>[](req[r] = "queued" /\ Scalable(p)) /\ Suffices(r, p) =>
      \/ []<>(\E s \in RowsOf(p) : service[s] = "active")
      \/ <>[](\E s \in RowsOf(p) : service[s] = "gone")

(***************************************************************************)
(* What one round can promise, however the requests and the instances      *)
(* change meanwhile: a request that is in every sample of the window, and  *)
(* by itself suffices for an instance of its spec, finds an instance of    *)
(* that spec in the table, or the round will ask ScaleFunction for one.    *)
(***************************************************************************)
WaitingIsAskedFor ==
  [][ReadsInstances =>
       \A r \in Reqs :
         LET p == SpecFor[r] IN
         /\ auto.his # <<>> /\ \A i \in DOMAIN auto.his : auto.his[i][r] > 0
         /\ ReqFn[r] \in auto.known /\ Suffices(r, p)
         => RowsOf(p) # {} \/ \E t \in auto'.todo : t[1] = p /\ t[2] > 0]_allVars
=============================================================================
