------------------------------ MODULE FuncManager ------------------------------
(***************************************************************************)
(* The control plane of pkg/funcmanager: CreateFunction, ScaleFunction and *)
(* DeleteFunction, issued by any number of clients and by the autoscaler   *)
(* at the same time, the goroutines that delete scaled-down services, and  *)
(* the monitor that saves the status of every instance.  They share the    *)
(* tables func_metadata, func_instance and aws_task_def and the ECS        *)
(* cluster, with no lock and no transaction across statements.             *)
(*                                                                         *)
(* A Spec is one resource spec (cpu and memory) of one function: the code  *)
(* selects instances by exactly that pair.  What an instance's row says of *)
(* its task is left out here; only the row's presence matters.             *)
(***************************************************************************)
EXTENDS Integers, FiniteSets, Sequences

CONSTANTS
  Functions,   \* function names
  Specs,       \* resource specs, each of one function
  SpecList,    \* [Functions -> Seq(Specs)], ResSpecList
  MinReplica,  \* [Specs -> Nat]
  MaxReplica,  \* [Specs -> Nat]
  Services,    \* numbers that stand for ECS service names; bounds the creations
  HotPool,     \* config: launch type of CreateFunction's instances
  ColdPool,    \* config: launch type of ScaleFunction's instances
  Ops,         \* calls of the three operations; bounds their number
  Kinds,       \* the operations they may be
  Counts,      \* the values of ScaleFunctionRequest.scale_cnt
  Faults,      \* the kinds of failure that may happen
  MaxFaults,   \* how many of them
  NoFn, NoSpec \* null values

FaultKinds == {"read", "taskDef", "create", "insert", "deleteRow", "deleteService", "restart"}

ASSUME ManagerAssumption ==
  /\ Services \subseteq Nat \ {0} /\ IsFiniteSet(Services)
  /\ SpecList \in [Functions -> Seq(Specs)]
  /\ MinReplica \in [Specs -> Nat] /\ MaxReplica \in [Specs -> Nat]
  /\ Kinds \subseteq {"create", "scale", "delete"} /\ Counts \subseteq Int
  /\ Faults \subseteq FaultKinds /\ MaxFaults \in Nat
  /\ NoFn \notin Functions /\ NoSpec \notin Specs

VARIABLES
  meta,      \* table func_metadata: the functions it has
  taskDefs,  \* table aws_task_def: the specs it has
  rows,      \* table func_instance: the services it has
  rowId,     \* the id a service's row was given at its insertion; 0 before
  service,   \* ECS: the state of each service
  specOf,    \* the spec a service was created for
  role,      \* and by whom: "hot" by CreateFunction, "cold" by ScaleFunction
  op,        \* the state of each operation
  deleting,  \* services with an AsyncDeleteFuncInstance goroutine
  monitor,   \* the state of MonitorFunctionStatus
  faults     \* how many failures and restarts there have been

tables == <<meta, taskDefs, rows, rowId>>
ecs == <<service, specOf, role>>
vars == <<tables, ecs, op, deleting, monitor, faults>>

SpecsOf(f) == {SpecList[f][i] : i \in DOMAIN SpecList[f]}
FnOf == [p \in Specs |-> CHOOSE f \in Functions : p \in SpecsOf(f)]

ASSUME SpecAssumption ==
  \A p \in Specs : \E f \in Functions : {g \in Functions : p \in SpecsOf(g)} = {f}

(* A client states both bounds, and the server does not compare them.      *)
ASSUME ReplicaAssumption == \A p \in Specs : MinReplica[p] <= MaxReplica[p]

RowsOf(p) == {s \in rows : specOf[s] = p}
RowsOfFn(f) == {s \in rows : FnOf[specOf[s]] = f}
LaunchType(s) == IF role[s] = "hot" THEN HotPool ELSE ColdPool

Idle == [pc |-> "idle", kind |-> "none", fn |-> NoFn, spec |-> NoSpec,
         cnt |-> 0, seen |-> {}, made |-> {}, todo |-> <<>>]

Init ==
  /\ meta = {} /\ taskDefs = {} /\ rows = {} /\ rowId = [s \in Services |-> 0]
  /\ service = [s \in Services |-> "unused"]
  /\ specOf = [s \in Services |-> NoSpec] /\ role = [s \in Services |-> "none"]
  /\ op = [o \in Ops |-> Idle]
  /\ deleting = {}
  /\ monitor = [at |-> "list", todo |-> {}, ins |-> {}]
  /\ faults = 0

Fault(kind) ==
  /\ kind \in Faults /\ faults < MaxFaults
  /\ faults' = faults + 1

At(o, kind, pc) == op[o].kind = kind /\ op[o].pc = pc
Goto(o, pc) == op' = [op EXCEPT ![o].pc = pc]
(* The operation returns, to its client or to the autoscaler.              *)
Return(o) == Goto(o, "returned")
Fail(o)   == Goto(o, "failed")

-----------------------------------------------------------------------------
(* AwsClient.BatchCreateInstance and the insertion of the rows.            *)

(* Service names are fresh, so which of the unused ones is immaterial.     *)
Fresh(n) ==
  CHOOSE M \in SUBSET {s \in Services : service[s] = "unused"} : Cardinality(M) = n
CanCreate(n) == n <= Cardinality({s \in Services : service[s] = "unused"})

Run(M, p, r) ==
  /\ service' = [s \in Services |-> IF s \in M THEN "active" ELSE service[s]]
  /\ specOf' = [s \in Services |-> IF s \in M THEN p ELSE specOf[s]]
  /\ role' = [s \in Services |-> IF s \in M THEN r ELSE role[s]]

NoName == 0

BatchCreateKeepsNames(o, n, p, r) ==
  /\ Fault("create")
  /\ \E k \in 0 .. n - 1 :
       /\ CanCreate(k) /\ Run(Fresh(k), p, r)
       /\ op' = [op EXCEPT ![o].made = @ \cup Fresh(k) \cup {NoName}, ![o].pc = "insert"]

(* One of the goroutines that create a service failed.  The cleanup calls  *)
(* DeleteInstance on the failed entries, whose name is empty: the services *)
(* that were created run on, and their names are dropped.                  *)
BatchCreateFails(o, n, p, r) ==
  /\ Fault("create") /\ Fail(o)
  /\ \E k \in 0 .. n - 1 : CanCreate(k) /\ Run(Fresh(k), p, r)

(* A transaction inserts the rows with increasing ids.  MySQL also leaves  *)
(* gaps between them; only their order matters.                            *)
Insert(M) ==
  LET last == Cardinality({s \in Services : rowId[s] # 0}) IN
  /\ rows' = rows \cup M
  /\ rowId' = [s \in Services |->
                 IF s \in M THEN last + Cardinality({t \in M : t <= s}) ELSE rowId[s]]

InsertRows(o) ==
  /\ op[o].pc = "insert"
  /\ \/ Insert(op[o].made) /\ Return(o) /\ UNCHANGED faults
     \/ Fault("insert") /\ Fail(o) /\ UNCHANGED <<rows, rowId>>
  /\ UNCHANGED <<meta, taskDefs, ecs, deleting, monitor>>

-----------------------------------------------------------------------------
(* CreateFunction.                                                         *)

BeginCreate(o, f) ==
  /\ op[o].pc = "idle" /\ "create" \in Kinds
  /\ op' = [op EXCEPT ![o] = [Idle EXCEPT !.kind = "create", !.fn = f,
                                          !.pc = IF f \in meta THEN "failed" ELSE "define",
                                          !.todo = SpecList[f]]]
  /\ UNCHANGED <<tables, ecs, deleting, monitor, faults>>

(* Task definitions are registered, or reused, and recorded.  A failure to *)
(* record one is only logged; a failure to register one ends the call.     *)
DefineTasks(o) ==
  /\ At(o, "create", "define")
  /\ \/ /\ taskDefs' = taskDefs \cup SpecsOf(op[o].fn)
        /\ Goto(o, "insertMeta") /\ UNCHANGED faults
     \/ \E p \in SpecsOf(op[o].fn) :
          /\ Fault("taskDef") /\ Goto(o, "insertMeta")
          /\ taskDefs' = taskDefs \cup (SpecsOf(op[o].fn) \ {p})
     \/ \E i \in DOMAIN SpecList[op[o].fn] :
          /\ Fault("taskDef") /\ Fail(o)
          /\ taskDefs' = taskDefs \cup {SpecList[op[o].fn][j] : j \in 1 .. i - 1}
  /\ UNCHANGED <<meta, rows, rowId, ecs, deleting, monitor>>

InsertMetaUnchecked(o) ==
  /\ At(o, "create", "insertMeta")
  /\ meta' = meta \cup {op[o].fn} /\ Goto(o, "make")
  /\ UNCHANGED <<taskDefs, rows, rowId, ecs, deleting, monitor, faults>>

InsertMetaLogsErrors(o) ==
  /\ At(o, "create", "insertMeta")
  /\ \/ meta' = meta \cup {op[o].fn} /\ UNCHANGED faults
     \/ Fault("insert") /\ UNCHANGED meta
  /\ Goto(o, "make")
  /\ UNCHANGED <<taskDefs, rows, rowId, ecs, deleting, monitor>>

(* The unique index on function_name refuses a second row.                 *)
InsertMeta(o) ==
  /\ At(o, "create", "insertMeta")
  /\ \/ op[o].fn \in meta /\ Fail(o) /\ UNCHANGED <<meta, faults>>
     \/ /\ op[o].fn \notin meta
        /\ meta' = meta \cup {op[o].fn} /\ Goto(o, "make") /\ UNCHANGED faults
     \/ Fault("insert") /\ Fail(o) /\ UNCHANGED meta
  /\ UNCHANGED <<taskDefs, rows, rowId, ecs, deleting, monitor>>

(* MinReplica hot instances of each spec, one spec after the other.        *)
MakeHot(o) ==
  /\ At(o, "create", "make") /\ op[o].todo # <<>>
  /\ LET p == Head(op[o].todo)
         n == MinReplica[p] IN
       \/ /\ CanCreate(n) /\ Run(Fresh(n), p, "hot")
          /\ op' = [op EXCEPT ![o].todo = Tail(@), ![o].made = @ \cup Fresh(n)]
          /\ UNCHANGED faults
       \/ BatchCreateFails(o, n, p, "hot")
  /\ UNCHANGED <<tables, deleting, monitor>>

AllHotMade(o) ==
  /\ At(o, "create", "make") /\ op[o].todo = <<>>
  /\ Goto(o, "insert")
  /\ UNCHANGED <<tables, ecs, deleting, monitor, faults>>

-----------------------------------------------------------------------------
(* ScaleFunction, called by clients and by FunctionAutoScaling.            *)

ScaleFunction(p, n) ==
  [Idle EXCEPT !.kind = "scale", !.spec = p, !.cnt = n,
               !.pc = IF FnOf[p] \in meta THEN "read" ELSE "failed"]

BeginScale(o, p, n) ==
  /\ op[o].pc = "idle" /\ "scale" \in Kinds
  /\ op' = [op EXCEPT ![o] = ScaleFunction(p, n)]
  /\ UNCHANGED <<tables, ecs, deleting, monitor, faults>>

ReadInstances(o) ==
  /\ At(o, "scale", "read")
  /\ \/ /\ op' = [op EXCEPT ![o].seen = RowsOf(op[o].spec), ![o].pc = "decide"]
        /\ UNCHANGED faults
     \/ Fault("read") /\ Fail(o)
  /\ UNCHANGED <<tables, ecs, deleting, monitor>>

(* The request's count, cut down to stay within the replica bounds.        *)
Uncut(p, current, n) == n

RealScaleCnt(p, current, n) ==
  IF n > 0 /\ current + n > MaxReplica[p] THEN MaxReplica[p] - current
  ELSE IF n < 0 /\ current + n < MinReplica[p] THEN MinReplica[p] - current
  ELSE n

(* Also reads the task definition, which no operation ever deletes.        *)
Decide(o) ==
  LET p == op[o].spec
      n == RealScaleCnt(p, Cardinality(op[o].seen), op[o].cnt) IN
  /\ At(o, "scale", "decide")
  /\ \/ p \notin taskDefs /\ Fail(o) /\ UNCHANGED <<ecs, faults>>
     \/ /\ p \in taskDefs /\ n > 0 /\ CanCreate(n) /\ Run(Fresh(n), p, "cold")
        /\ op' = [op EXCEPT ![o].made = Fresh(n), ![o].pc = "insert"]
        /\ UNCHANGED faults
     \/ p \in taskDefs /\ n > 0 /\ BatchCreateFails(o, n, p, "cold")
     \/ /\ p \in taskDefs /\ n <= 0
        /\ op' = [op EXCEPT ![o].cnt = n, ![o].pc = "shrink"]
        /\ UNCHANGED <<ecs, faults>>
  /\ UNCHANGED <<tables, deleting, monitor>>

(* The instances that may be removed, in the order they were read in.      *)
Removable(o) == {s \in op[o].seen : LaunchType(s) = ColdPool}
FirstOf(S) == CHOOSE s \in S : \A t \in S : rowId[s] <= rowId[t]

ShrinkForgetsService(o) ==
  LET s == FirstOf(Removable(o)) IN
  /\ At(o, "scale", "shrink") /\ op[o].cnt < 0 /\ Removable(o) # {}
  /\ rows' = rows \ {s}
  /\ op' = [op EXCEPT ![o].cnt = @ + 1, ![o].seen = @ \ {s}]
  /\ UNCHANGED <<meta, taskDefs, rowId, ecs, deleting, monitor, faults>>

(* Removes the row, error or not, and leaves the service to a goroutine.   *)
Shrink(o) ==
  LET s == FirstOf(Removable(o)) IN
  /\ At(o, "scale", "shrink") /\ op[o].cnt < 0 /\ Removable(o) # {}
  /\ \/ rows' = rows \ {s} /\ UNCHANGED faults
     \/ Fault("deleteRow") /\ UNCHANGED rows
  /\ deleting' = deleting \cup {s}
  /\ op' = [op EXCEPT ![o].cnt = @ + 1, ![o].seen = @ \ {s}]
  /\ UNCHANGED <<meta, taskDefs, rowId, ecs, monitor>>

ShrinkDone(o) ==
  /\ At(o, "scale", "shrink") /\ (op[o].cnt >= 0 \/ Removable(o) = {})
  /\ Return(o)
  /\ UNCHANGED <<tables, ecs, deleting, monitor, faults>>

(* AsyncDeleteFuncInstance, at the moment it finds no schedule record of   *)
(* the service.  It gives up when ECS refuses.                             *)
AsyncDelete(s) ==
  /\ s \in deleting /\ deleting' = deleting \ {s}
  /\ \/ service' = [service EXCEPT ![s] = "gone"] /\ UNCHANGED faults
     \/ Fault("deleteService") /\ UNCHANGED service
  /\ UNCHANGED <<tables, specOf, role, op, monitor>>

-----------------------------------------------------------------------------
(* DeleteFunction.                                                         *)

BeginDelete(o, f) ==
  /\ op[o].pc = "idle" /\ "delete" \in Kinds
  /\ op' = [op EXCEPT ![o] = [Idle EXCEPT !.kind = "delete", !.fn = f,
                                          !.pc = IF f \in meta THEN "read" ELSE "failed"]]
  /\ UNCHANGED <<tables, ecs, deleting, monitor, faults>>

ReadDoomed(o) ==
  /\ At(o, "delete", "read")
  /\ \/ /\ op' = [op EXCEPT ![o].seen = RowsOfFn(op[o].fn), ![o].pc = "services"]
        /\ UNCHANGED faults
     \/ Fault("read") /\ Fail(o)
  /\ UNCHANGED <<tables, ecs, deleting, monitor>>

(* One service at a time, at once, whatever it is executing.               *)
DeleteService(o) ==
  /\ At(o, "delete", "services") /\ op[o].seen # {}
  /\ LET s == FirstOf(op[o].seen) IN
       /\ op' = [op EXCEPT ![o].seen = @ \ {s}]
       /\ \/ service' = [service EXCEPT ![s] = "gone"] /\ UNCHANGED faults
          \/ Fault("deleteService") /\ UNCHANGED service
  /\ UNCHANGED <<tables, specOf, role, deleting, monitor>>

(* Every row of the function, including those it did not see.              *)
DeleteRows(o) ==
  /\ At(o, "delete", "services") /\ op[o].seen = {}
  /\ \/ rows' = rows \ RowsOfFn(op[o].fn) /\ UNCHANGED faults
     \/ Fault("deleteRow") /\ UNCHANGED rows
  /\ Goto(o, "deleteMeta")
  /\ UNCHANGED <<meta, taskDefs, rowId, ecs, deleting, monitor>>

DeleteMeta(o) ==
  /\ At(o, "delete", "deleteMeta")
  /\ \/ meta' = meta \ {op[o].fn} /\ UNCHANGED faults
     \/ Fault("deleteRow") /\ UNCHANGED meta
  /\ Return(o)
  /\ UNCHANGED <<taskDefs, rows, rowId, ecs, deleting, monitor>>

-----------------------------------------------------------------------------
(* MonitorFunctionStatus: function by function, reads the rows, asks ECS,  *)
(* and saves the rows it could learn something about.                      *)

MonitorLists ==
  /\ monitor.at = "list"
  /\ monitor' = [monitor EXCEPT !.todo = meta, !.at = "read"]
  /\ UNCHANGED <<tables, ecs, op, deleting, faults>>

MonitorReads ==
  /\ monitor.at = "read"
  /\ IF monitor.todo = {}
     THEN monitor' = [monitor EXCEPT !.at = "list"]
     ELSE \E f \in monitor.todo : \E ins \in SUBSET RowsOfFn(f) :
            monitor' = [at |-> "save", todo |-> monitor.todo \ {f}, ins |-> ins]
  /\ UNCHANGED <<tables, ecs, op, deleting, faults>>

(* UpdateFuncInstanceBatch saves with an upsert: the row of a service that *)
(* has been deleted since is inserted again, under its old id.             *)
MonitorSaves ==
  /\ monitor.at = "save"
  /\ rows' = rows \cup monitor.ins
  /\ monitor' = [monitor EXCEPT !.at = "read", !.ins = {}]
  /\ UNCHANGED <<meta, taskDefs, rowId, ecs, op, deleting, faults>>

-----------------------------------------------------------------------------
(* The process is killed and started again: tables and services stay.      *)
ProcessEnds ==
  /\ op' = [o \in Ops |-> IF op[o].pc \in {"idle", "returned", "failed"}
                          THEN op[o] ELSE [op[o] EXCEPT !.pc = "failed"]]
  /\ deleting' = {}
  /\ monitor' = [at |-> "list", todo |-> {}, ins |-> {}]
  /\ UNCHANGED <<tables, ecs>>

Restart == Fault("restart") /\ ProcessEnds

-----------------------------------------------------------------------------
(* The API server hands each request to the manager in a goroutine of its  *)
(* own, and lets it run on when the client goes away.                      *)
Begins(o) ==
  \/ \E f \in Functions : BeginCreate(o, f) \/ BeginDelete(o, f)
  \/ \E p \in Specs, n \in Counts : BeginScale(o, p, n)

Continues(o) ==
  \/ DefineTasks(o) \/ InsertMeta(o) \/ MakeHot(o) \/ AllHotMade(o) \/ InsertRows(o)
  \/ ReadInstances(o) \/ Decide(o) \/ Shrink(o) \/ ShrinkDone(o)
  \/ ReadDoomed(o) \/ DeleteService(o) \/ DeleteRows(o) \/ DeleteMeta(o)

Background ==
  \/ \E s \in Services : AsyncDelete(s)
  \/ MonitorLists \/ MonitorReads \/ MonitorSaves

Next ==
  \/ \E o \in Ops : Begins(o) \/ Continues(o)
  \/ Background \/ Restart

Spec == Init /\ [][Next]_vars

-----------------------------------------------------------------------------
(* Properties.                                                             *)

(***************************************************************************)
(* Every variable keeps to the values the code can give it; in particular  *)
(* no call goes on with, and no row is inserted for, the empty name that a *)
(* failed creation leaves among the names of a batch.                      *)
(***************************************************************************)
TypeOK ==
  /\ meta \subseteq Functions /\ taskDefs \subseteq Specs /\ rows \subseteq Services
  /\ rowId \in [Services -> Nat]
  /\ service \in [Services -> {"unused", "active", "gone"}]
  /\ specOf \in [Services -> Specs \cup {NoSpec}]
  /\ role \in [Services -> {"none", "hot", "cold"}]
  /\ deleting \subseteq Services
  /\ \A o \in Ops :
       /\ op[o].kind \in {"none", "create", "scale", "delete"} /\ op[o].cnt \in Int
       /\ op[o].fn \in Functions \cup {NoFn} /\ op[o].spec \in Specs \cup {NoSpec}
       /\ op[o].seen \subseteq Services /\ op[o].made \subseteq Services
       /\ op[o].todo \in Seq(Specs)
  /\ monitor.at \in {"list", "read", "save"}
  /\ monitor.todo \subseteq Functions /\ monitor.ins \subseteq Services
  /\ faults \in 0 .. MaxFaults

(* Instances that can serve and that nothing is about to delete.           *)
Live(p) == {s \in RowsOf(p) : service[s] = "active" /\ s \notin deleting}

DeleteCalled == \E o \in Ops : op[o].kind = "delete"

(***************************************************************************)
(* Every service that ECS runs, and bills, is in func_instance or in the   *)
(* hands of somebody who will insert or delete it, as long as nothing has  *)
(* failed and no DeleteFunction has been called.  Both conditions matter:  *)
(* a failed BatchCreateInstance, a crash between the removal of a row and  *)
(* of its service, and a ScaleFunction that DeleteFunction overtakes each  *)
(* leave a service that nothing will ever delete.                          *)
(***************************************************************************)
NoServiceIsLost ==
  faults = 0 /\ ~ DeleteCalled =>
    \A s \in Services :
      service[s] = "active" =>
        \/ s \in rows \/ s \in deleting
        \/ \E o \in Ops : s \in op[o].made /\ op[o].pc \in {"make", "insert"}

(***************************************************************************)
(* Scaling never takes the serving instances of a spec below the minimum   *)
(* number of replicas, though concurrent calls decide on stale counts and  *)
(* the monitor brings back rows of deleted services: every call removes    *)
(* the rows it read in the order of their ids, so what one call leaves,    *)
(* the others leave too.  (A DeleteFunction that is killed half way leaves *)
(* dead rows in any place, and then this fails.)                           *)
(***************************************************************************)
MinReplicasAreKept ==
  [][~ DeleteCalled' =>
       \A p \in Specs :
         Cardinality(Live(p)) >= MinReplica[p] => Cardinality(Live(p)') >= MinReplica[p]]_vars

(***************************************************************************)
(* Of several concurrent calls of CreateFunction with one name, one goes   *)
(* on to create instances, until a DeleteFunction frees the name.          *)
(***************************************************************************)
OneCreator ==
  ~ DeleteCalled =>
    \A o1, o2 \in Ops :
      /\ op[o1].kind = "create" /\ op[o1].pc \in {"make", "insert", "returned"}
      /\ op[o2].kind = "create" /\ op[o2].pc \in {"make", "insert", "returned"}
      /\ op[o1].fn = op[o2].fn
      => o1 = o2

(***************************************************************************)
(* Until a DeleteFunction is called, every instance row belongs to a       *)
(* function with metadata, whatever fails: CalResScale counts the rows in  *)
(* a map it makes from the metadata, and panics on any other row.          *)
(***************************************************************************)
RowsHaveMetadata ==
  ~ DeleteCalled => \A s \in rows : FnOf[specOf[s]] \in meta

(***************************************************************************)
(* README: max_replica is the maximum number of function instances.        *)
(***************************************************************************)
MaxReplicasAreKept == \A p \in Specs : Cardinality(RowsOf(p)) <= MaxReplica[p]

(***************************************************************************)
(* funcmanager.go: hot instances, those CreateFunction made, are not       *)
(* removed by scaling down.                                                *)
(***************************************************************************)
HotInstancesAreKept == \A s \in deleting : role[s] # "hot"

(***************************************************************************)
(* apiserver.proto: DeleteFunction "deletes an existing function".  When   *)
(* it is through, and nobody is creating the function anew, no instance of *)
(* the function comes back into the table.  CalResScale relies on this: it *)
(* panics on a row whose function has no metadata.                         *)
(***************************************************************************)
DeletedFunctionsStayDeleted ==
  [][\A f \in Functions \ meta :
       (\A o \in Ops : op[o].fn = f /\ op[o].kind = "create" => op[o].pc \in {"returned", "failed"})
         => RowsOfFn(f)' \subseteq RowsOfFn(f)]_vars
=============================================================================
