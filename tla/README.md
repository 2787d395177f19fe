# A TLA+ model of pixels-spike

pixels-spike runs serverless functions on AWS ECS. A server takes requests to create, scale,
delete and call functions, keeps its state in MySQL, starts ECS services as function instances and
forwards each call to one of them. This directory holds TLA+ modules for its concurrent core, the
TLC configurations that check them on small instances, and TLAPS proofs of theorems that hold for
every instance. Source paths below are relative to the repository's root.

    tlc -workers 2 -config sched_base.cfg MCReqScheduler
    tlapm ServingProofs.tla

## 1. The system

| Component | State | Operations |
|---|---|---|
| API server, `pkg/apiserver` | none | hands each gRPC/HTTP request to the scheduler or the function manager |
| Request scheduler, `pkg/reqscheduler/reqscheduler.go` | the trigger channel; one reply channel per call | `CallFunction` (with retries), `SubmitRequest`, `ScheduleRoutine`/`Schedule`, `CallInstanceFunctionRoutine` |
| Request queue, `pkg/reqscheduler/reqqueue.go` | one FIFO list under a mutex, shared by all functions | `Push`, `Peek`, `Pop`, `Snapshot`, `Len` |
| Placement algorithms, `pkg/reqscheduler/schedule.go` | none | `BaseScheduler`, `OneTaskPerNodeScheduler` |
| Function manager, `pkg/funcmanager/funcmanager.go` | none of its own: it works on the tables and on ECS | `CreateFunction`, `ScaleFunction`, `DeleteFunction`, `AsyncDeleteFuncInstance`, `MonitorFunctionStatus` |
| Autoscaler, `pkg/funcmanager/funcmanager.go:451-623` | a window of snapshots of the waiting and running requests | `FunctionAutoScaling`, `GetAllReq`, `CalResScale` |
| AWS client, `pkg/funcmanager/awsclient.go` | the ECS services, tasks and task definitions (outside the process) | `BatchCreateInstance`, `CreateInstance`, `DeleteInstance`, `RegTaskDef`, `GetAllTasks`, ... |
| Storage, `pkg/storage` | tables `func_metadata`, `func_instance`, `req_scheduler_info`, `aws_task_def` | one method per statement |
| Worker SDK, `sdk/spike-java` | the handler loaded from the user's JAR | `callWorkerFunction` |
| Configuration, logger, utilities, command line, protocol files | constants | |

**How they interact.** A client's `CallFunction` pushes a request on the queue, sends a token on
the unbuffered trigger channel and blocks on the reply channel of the call. One goroutine,
`ScheduleRoutine`, is woken by the token or a ticker. It peeks at the head of the queue, reads the
function's RUNNING instances and its schedule records in two statements, lets the algorithm choose
an instance, inserts a schedule record, pops the queue and starts a goroutine. That goroutine
calls the worker, hands the reply to the client and deletes the record. The function manager and
the scheduler share `func_instance` and `req_scheduler_info`: the manager changes the instances
the scheduler chooses from, and `AsyncDeleteFuncInstance` waits until no record names the service
it is to delete. The autoscaler reads the queue and the records and calls `ScaleFunction` like a
client.

**What is hard about it.** There is no lock but the queue's, and no transaction across statements:
every decision is made on data read earlier. Statements and AWS calls fail one by one. Workers
answer late or never, and go on after the server has given up. A restart forgets the queue and
every goroutine while tables, services and workers stay. `PROJECT.json` lists each hazard with its
line and the properties that cover it.

**What makes each part correct.**
- Scheduler: a call returns exactly one answer, from its own current attempt; a request is in the
  queue or with one goroutine; requests are served in order; every call returns if it can be
  placed.
- Records: they never promise more of an instance than it has; a served request has one; none
  outlives its request.
- Function manager: every service it created is known until it is deleted; replica bounds hold;
  hot instances stay; a deleted function stays deleted; a name has one creator; an instance is
  deleted when its requests have ended.
- Autoscaler: it misses no waiting or running request; it brings every spec to the number of
  instances the demand asks for; it does not stop at zero while a request waits.
- Instance status: an instance that is RUNNING in the table has a task, at the address it names.

## 2. The modules

| Module | Models |
|---|---|
| `Schedulers` | the two placement algorithms |
| `CallContract` | abstract specification of `CallFunction` as its client sees it |
| `ReqScheduler` | clients, queue, `ScheduleRoutine`, the calling goroutines, records, restart |
| `Drain` | `ReqScheduler` together with scale-down, `AsyncDeleteFuncInstance` and the monitor |
| `FuncManager` | `CreateFunction`, `ScaleFunction`, `DeleteFunction`, `AsyncDeleteFuncInstance`, the monitor's save, restart |
| `Autoscaler` | `FuncManager` together with `FunctionAutoScaling` and the requests it samples |
| `InstanceStatus` | the monitor's view of the ECS tasks: `UpdateInstancesStatus` |
| `ReqSchedulerProofs`, `ServingProofs` | theorems about `ReqScheduler`: capacity and placement; where a request is |
| `ContractProofs` | that `ReqScheduler` implements `CallContract` |
| `DrainProofs` | theorems about `Drain` |
| `FuncManagerProofs`, `InstanceStatusProofs` | theorems about `FuncManager` and `InstanceStatus` |
| `AutoscalerProofs` | theorems about `Autoscaler`: its samples, demand and targets; what stays true of `FuncManager` beside it |
| `FiniteOrders` | lemmas on finite sets, least and greatest elements and sums that the proofs use |
| `MCReqScheduler`, `MCDrain`, `MCFuncManager`, `MCAutoscaler`, `MCInstanceStatus` | the values of the constants for TLC |

`Drain` and `Autoscaler` extend `ReqScheduler` and `FuncManager`: each takes over the actions and
variables of the other module, adds its own, and says what every step leaves alone.

Some definitions stand just before a definition of the code's behaviour and are not used by the
specification (`PopForgotten`, `PushesFront`, `Uncut`, ...). Each is a plausible mistake in that
piece of code. Put in place of the definition it precedes, it makes a property fail; this is how
we know that the property depends on the code. `PROJECT.json` pairs them under `mutants`.

### Schedulers

Each algorithm is an operator returning the *set* of instances it may choose: `BaseScheduler`
sorts with the unstable `sort.Slice` after ranging over a map, `OneTaskPerNodeScheduler` draws at
random. Sums of cpu and memory wrap around at int32 (`Int32`, scaled down to `MaxInt`). A sum over
records is the cardinality of a set of `<<record, unit>>` pairs, so that facts about sums follow
from facts about finite sets, without recursion.

### ReqScheduler

`phase[c]` is where the client goroutine of call `c` is in `CallFunction`; `attempt[c]` is its
loop counter. A request is `[call, attempt]`: sonyflake gives every attempt a fresh id. `at`,
`peeked`, `found`, `recorded`, `chosen` are the program counter and the locals of `Schedule`;
`routine[r]` is the program counter of the goroutine serving `r`; `executing` is the set of
requests a worker is really working on, which the server does not see. `reqInfo` is the record
table and `ready` is the part of `func_instance` the scheduler's query selects.

| Action | Code |
|---|---|
| `CallFunction`, `NextIDFails`, `SubmitRequest` | `reqscheduler.go:172-229` |
| `Tick`, `Trigger` (with `Peek`) | `ScheduleRoutine`, and the peek that begins `Schedule` |
| `ReadInstances`, `ReadRecords`, `Place`, `PopAndCall` | the database accesses and the pop of `Schedule`, one step each |
| `Dial`, `DialFails`, `Answer`, `Expire` | `CallInstanceFunction`; the worker's `callWorkerFunction` |
| `Reply` | the send on, and the client's receive from, the unbuffered reply channel |
| `DeleteRecord` | `DeleteReqScheduleInfo` at the end of the goroutine |
| `WorkerEnds` | a worker ends an execution that nobody waits for any more, or dies |
| `InstanceChanges` | any write of the function manager to `func_instance` that the query can see |
| `Restart` | kill and start; `NewReqScheduler` clears the records or logs that it could not |

The steps are cut where other goroutines can get in: at each statement, channel operation, mutex
section and worker call. The code between two of them touches only locals and is one step. The
failures are `flake` (no id), `read`, `write` (the insert fails), `lostAck` (the insert is
committed but reported as failed), `delete` and `clean` (the deletion of records fails).
`MaxFaults` bounds how many happen in a behaviour and `MaxRestarts` the restarts; the code has no
such bounds.

### Drain

`ReqScheduler` leaves open who changes the instances (`InstanceChanges`). `Drain` says what a
scale-down does. `drain[s]` is where the removal of instance `s` is: `polling` and `deleting` are
the program counter of its `AsyncDeleteFuncInstance` goroutine, `gone` and `abandoned` how it
ended. The variable `back` is history: the removed instances whose row was RUNNING again.

| Action | Code |
|---|---|
| `ScaleDown` | `funcmanager.go:234-245`: the row goes, a goroutine starts |
| `FindsNoRecord`, `DeleteInstance` | one poll of `AsyncDeleteFuncInstance` that finds no record; the deletion |
| `Monitor` | `UpdateInstancesStatus`; its upsert may bring the row back |
| `RestartDrain` | `Restart`; the goroutine is forgotten, the service runs on |
| `RequestPath` | all actions of `ReqScheduler`; a deleted service is not reached |

A poll that finds a record, or fails, changes nothing and is left out.

### CallContract

A call is `idle`, `active`, then `ok`, `failed` or `lost`. While it is active it has at most one
try, which is dispatched and answered; only a good answer of that try makes the call succeed, and
it fails at its `MaxRetry`-th bad one. Neither queue, scheduler nor records appear. `ReqScheduler`
maps its state to these three variables in `Contract`, and `KeepsContract` says that every step of
the request path is a step of the contract or leaves it alone. What the refinement rules out is an
answer of an earlier attempt reaching a later one, a lost attempt and a retry too few or too many.

### FuncManager

`meta`, `taskDefs`, `rows` are the tables, `rowId` the insertion order of the instance rows;
`service`, `specOf`, `role` say what ECS runs, for which spec and who created it. The gRPC server
runs every request in a goroutine and the handlers ignore the client's context, so `Begins` may
happen in any state and a call in progress runs on (`Continues`). `op[o]` is one call in progress:
its program counter `pc` and locals (`seen`: the instances it read, `made`: the services it
created and not yet inserted, `cnt`: how many it still has to remove). `deleting` holds the
services with an `AsyncDeleteFuncInstance` goroutine. The operations of a resource spec depend
only on the rows of that spec, which the code selects by the pair of cpu and memory.

| Action | Code in `funcmanager.go` |
|---|---|
| `BeginCreate`, `DefineTasks`, `InsertMeta`, `MakeHot`, `AllHotMade`, `InsertRows` | `CreateFunction` |
| `BeginScale`, `ReadInstances`, `Decide`, `InsertRows`, `Shrink`, `ShrinkDone` | `ScaleFunction` |
| `AsyncDelete` | `AsyncDeleteFuncInstance`, when it finds no record |
| `BeginDelete`, `ReadDoomed`, `DeleteService`, `DeleteRows`, `DeleteMeta` | `DeleteFunction` |
| `MonitorLists`, `MonitorReads`, `MonitorSaves` | `MonitorFunctionStatus`, `UpdateInstancesStatus` |
| `Restart` | kill and start; tables and services stay |

Reads without an order clause return rows by their primary key (InnoDB's order for this query),
which decides the instances a scale-down removes. ECS is modelled by what the manager asks of it:
a service is `active` from its creation to its deletion. `MonitorReads` picks any subset of the
rows as the ones ECS reports a task for; what it saves in them is in `InstanceStatus`.

The failures are `read` (a query), `taskDef` (the definition cannot be registered, or is
registered and not saved, which is only logged), `create` (some services of a batch), `insert`,
`deleteRow` and `deleteService`; a `restart` is counted with them.

### Autoscaler

`req[r]` is where a request is as far as the autoscaler can see: in the queue, in the queue and
recorded (`both`, between the insert and the pop of `Schedule`), or only recorded (`placed`).
`auto` is the program counter and the locals of `FunctionAutoScaling`, `GetAllReq` and
`CalResScale`; its window `his` holds samples, newest first, each saying how often a request is in
it. One member of `Ops`, `AutoOp`, is the call of `ScaleFunction` it waits for. The variable
`held` is history: the requests that have been there since the snapshot.

| Action | Code |
|---|---|
| `Comes`, `ComesAgain`, `Records`, `Pops`, `Ends` | `Push`, the record, `Pop`, the deletion of the record |
| `Tick`, `TakesSample` | `funcmanager.go:456-472`: the two reads of `GetAllReq`; the window |
| `ReadsMetadata`, `ReadsInstances` | `CalResScale`, at its two reads; the rest computes on locals |
| `Panics` | `funcmanager.go:567`: an instance of a function it did not read |
| `ReadFails` | a query fails; the round is skipped |
| `CallsScale`, `RoundEnds` | `funcmanager.go:478-495` |
| `Restart /\ Dies` | the process ends: window, queue and calls are lost, records cleared or not |

The demand is a fraction in the model and a float64 in the code. `Demand` (the sum of the `Load`
of the samples) and `Rounded` compute on a common denominator, so `Rounded` is `math.Round` of the
exact value. Specs of a function are distinct sizes (`SizeAssumption`), as the code's map from
size to count supposes. The monitor is reduced to what matters here: an upsert of a row that was
removed (`MonitorBringsBack`), counted with the failures. `ComesAgain` is another request like one
that has ended; it stands for the second of two requests after one another, comes once and uses up
one of the failures, which keeps the instance small. A request has at most one record here: the
second record that a lost acknowledgement leaves (see `ReqScheduler`) would count a request three
times in a sample, which adds to the demand and takes nothing from the properties.

### InstanceStatus

`owner`, `last`, `desired` are the ECS tasks, which start, run, stop and are replaced at any time;
`row` is what `func_instance` says of each service; `old` are the rows not saved for ten seconds;
`monitor` is the program counter and the locals of `UpdateInstancesStatus`. Tasks are numbered in
the order of their creation, and a task's number also stands for its address.

| Action | Code in `funcmanager.go` |
|---|---|
| `ReadRows` | `MonitorFunctionStatus`: the rows of a function |
| `ListTasks` | one turn of the loop of step 1: `GetAllTasks` |
| `DescribeTasks` | step 2, or the early return without tasks |
| `SaveRows` | the loop over `updateIns` with `GetPublicIpv4`, and the batch save |
| `Ages` | ten seconds pass after a save |
| `TaskStarts`, `TaskRuns`, `TaskStops`, `TaskEnds` | ECS, not in this repository |

The positions of the tasks in the common list are kept (`index`), because the code finds a task in
the answer by its position. ECS lists the tasks of a service in any order; the model takes from
the code that its description answers for every task and in the order of the request.

What a look-up of an address finds is `HasAddress`. Tasks run in awsvpc mode, so a running one has
a network interface with a private address. A public one is assigned only to services of launch
type Fargate, and only under `use_public_ipv4` (`awsclient.go:123`); for any other service
`GetPublicIpv4` then returns an empty address and no error. A task that pends or has stopped may
have no interface attached (`MayBeDetached`), and its row has no address either. A failed look-up
is a failure of kind `address`.

## 3. What the runs check

| Run | Instance | What it shows |
|---|---|---|
| `sched_base` | 3 calls, a 1-unit and a 2-unit instance, one attempt, 1 failure of any kind, base algorithm | no overcommitment; a served request has its record; a waiting call is in exactly one place; what leaves the queue is its head, for a goroutine, and what comes goes to its end; its head waits only for room |
| `sched_one_task` | 2 calls with 2 attempts, 2 instances, 1 failure, 1 restart, one-task algorithm | one record per instance; replies reach the attempt that waits; no record is forgotten |
| `drain` | 2 calls with 2 attempts, 1 instance they fit on together, removed at any time, 1 failed id, 1 restart | the request path implements `CallContract`; a deletion cuts off at most one call |
| `sched_returns` | 2 calls of 2 functions with 2 attempts in one queue, 1 failure, fair | every call returns once the instances stay RUNNING |
| `fm_all` | 4 operations of any kind, scaling by +2 and -2, 3 services, 1 failure or restart | one creator per name; no service is lost; every row has metadata; the minimum of replicas is kept |
| `autoscale` | 1 function with a small and a large spec, 1 request that comes at most twice, a creation, a window of 2, 5 services, 2 failures or restarts, fair | no request is missed; what waits through the window is asked for; every spec reaches its target; a waiting request gets a live instance, unless a row of a dead one stands in its place |
| `status_catch_up` | 2 services, one with and one without a public address, 2 tasks, 2 failures, fair | a RUNNING row points to its service's own task or, as below, nowhere; rows catch up; the status of a task never goes back |

Five runs end in a violation, each of a sentence in the repository:

- `one_task_executes`: a comment in `schedule.go` says that the one-task scheduler keeps each node
  to one task. It keeps each node to one *record* (`OneRecordPerNode`). When the call to a worker
  times out, its record is deleted while the worker runs on, and the retry can land on the same
  node.
- `fm_max`: the documentation calls `max_replica` the maximum number of instances. `ScaleFunction`
  checks it against a count read earlier; two calls pass the check and both create.
- `fm_hot`: comments say that a scale-down spares hot instances. It recognises them by their
  launch type, and the defaults give both pools the same one.
- `fm_delete`: `DeleteFunction` deletes the function, but a monitor that read its instances before
  saves them afterwards, with an upsert, and the rows are back.
- `status_no_task`: the comment "no need to update" stands where `UpdateInstancesStatus` returns
  when it has found no task for any row it looked at. The rows it has just marked NOT_CREATED are
  then not saved, and say RUNNING until a round finds a task for one of the rows it looks at.

### Which statements are conditional, and why

- `RunningRowsPointToTheirTask` and `RowsCatchUp` promise an address only where the code can find
  one. With `use_public_ipv4`, the default, an instance of launch type EC2 or FargateSpot has
  none: its row is RUNNING without an address for ever, with no failure at all, and the scheduler
  places requests on it. Elsewhere a RUNNING row lacks its address only after a failure, and until
  a later refresh.
- `NoOvercommit` is checked in `sched_base`, which has no restart (`MaxRestarts` is 0), and for
  every number of restarts by the theorem `NeverOvercommits`; `sched_one_task` has a restart.
- `NoRecordIsForgotten` assumes that no deletion of records fails. A failed one is logged and not
  repeated, and the capacity stays reserved until the next restart.
- `NoServiceIsLost` covers histories before the first failure, restart and `DeleteFunction`. After
  a `BatchCreateInstance` that partly failed, a restart between the removal of a row and of its
  service, or a `DeleteFunction` that overtakes a `ScaleFunction`, the code does leave services
  that nothing will delete.
- `MinReplicasAreKept` covers scaling with failures and restarts, but not a `DeleteFunction`,
  which is meant to go below the minimum, and whose death half way leaves dead rows with low ids
  that later counts include. `RowsHaveMetadata` holds until a `DeleteFunction` too: afterwards the
  monitor may bring a row back (`fm_delete`), and `CalResScale` panics on it.
- `AtMostOneIsCutOff` is about services whose row has not come back. A row that the monitor brings
  back while the goroutine waits is used for new requests, and nothing bounds how many of them the
  deletion interrupts.
- `RowsReachTarget` is about specs with a task definition and a function with metadata. When the
  definition could not be saved, which is only logged, `ScaleFunction` refuses the spec for ever.
  It counts rows, as the code does: a dead row that the monitor brought back counts.
- `WaitingRequestsGetInstances` asks for an instance that runs, and has that dead row as its
  exception: while it stays, the autoscaler takes it for an instance and the request waits for
  ever. Without the exception the run `autoscale` finds the property violated.
- `WaitingIsAskedFor` and `WaitingRequestsGetInstances` need a spec that holds the request, of
  which it asks for at least half an instance. The demand is rounded: with `min_replica` 0 a
  smaller request waits for ever.
- `EveryCallReturns` assumes that every call fits some instance of its function and that all of
  them stay RUNNING from some point on. Its run leaves two failures out: an insert of a record
  that is committed but reported as failed (such a record holds the capacity that its own request
  waits for), and a failed deletion of a record (its capacity is lost until a restart). With
  either the head of the queue may wait for ever, and with it every call behind it, of any
  function: only the worker call has a timeout, not the time in the queue.

### Bounds, and why they are enough

Two clients suffice for every interaction between two calls, since they meet only in the queue,
the trigger channel and the records; `sched_base` has a third so that one can be served, one be
placed and one wait. Two attempts give a stale answer a later attempt to reach. One instance that
one call fills and one that two calls share make both the full and the partly full case happen.
One failure at a time at any place reaches each error path in each state. One restart reaches a
recovery from every state. In `FuncManager`, two concurrent decisions on one stale count need two
operations, and a creation before them a third; the fourth gives a later decision on what they
left. In `InstanceStatus` two tasks are either one of each service, whose answers share a list, or
one service's two, where the newer replaces the older, for the service with a public address and
the one without. Three services let the count reach the maximum and pass the minimum. What the
larger instances could add to the capacity properties is settled by the proofs. In `Drain` one
instance on which both calls fit lets one call run while the other is placed. In `Autoscaler` the
request fits the large spec only and fills half of it, which is what `Rounded` has to round up;
five services let the small spec reach its maximum while removed and lost ones stay behind; a
window of two takes a sample before and after a change. The request comes a second time so that it
can wait beside a row of the large spec that an earlier demand left and the monitor brought back.

Symmetry is used for operations in `FuncManager` and calls in `Drain`, in runs without liveness,
whose definitions treat them alike. All runs check for deadlock.

### Fairness

`FairSpec` is used by `sched_returns` and `status_catch_up`. In `InstanceStatus` it says that the
monitor's loop goes on and that time passes; nothing is assumed of ECS. In `Autoscaler`,
`AFairSpec` says that the autoscaler's goroutine and the calls in progress run on: Go schedules
them, the ticker ticks, statements end. Nothing is assumed of clients, of requests, of the
monitor, of the goroutines that delete services, or of failures.

In `ReqScheduler`, weak fairness of a goroutine's next step states that Go schedules runnable
goroutines, that the ticker ticks, and that each statement ends. Weak fairness of `Expire` states
that the deadline which `CallInstanceFunction` puts on the RPC fires; the variant without it
(`KeepaliveOnly`) violates the property. `Trigger` has strong fairness: the routine is again and
again at its `select`, and a Go `select` chooses uniformly among ready channels, so that no sender
is passed over for ever. Nothing is assumed of workers, of clients that have not called, of the
function manager or of failures (whose number is bounded).

## 4. What is proved

For any sets of calls, functions and services, sizes, bounds and either algorithm:

| Theorem | Module | Statement |
|---|---|---|
| `TypeCorrect` | `ReqSchedulerProofs` | `Spec => []TypeOK` |
| `NeverOvercommits` | `ReqSchedulerProofs` | `Spec => []NoOvercommit` |
| `NeverSharesANode` | `ReqSchedulerProofs` | `Spec => []OneRecordPerNode` |
| `HeadsWaitOnlyForRoom` | `ReqSchedulerProofs` | `Spec => HeadWaitsOnlyForRoom` |
| `WaitingCallsAreInOnePlace` | `ServingProofs` | `Spec => []EveryWaitingCallIsInOnePlace` |
| `NoReplyGoesAstray` | `ServingProofs` | `Spec => []NoStrayReply` |
| `RequestsAreServedInOrder` | `ServingProofs` | `Spec => ServedInOrder` |
| `ServedAreRecorded` | `ServingProofs` | `Spec => []ServedRequestsAreRecorded` |
| `RecordsAreRemembered` | `ServingProofs` | `Spec => []NoRecordIsForgotten` |
| `RequestPathKeepsContract` | `ContractProofs` | `Spec => KeepsContract` |
| `DrainImplementsRequestPath` | `DrainProofs` | `DSpec => Spec` |
| `DeletionCutsOffAtMostOne` | `DrainProofs` | `DSpec => AtMostOneIsCutOff` |
| `TypesAreKept` | `FuncManagerProofs` | `Spec => []TypeOK` |
| `NoServiceIsEverLost` | `FuncManagerProofs` | `Spec => []NoServiceIsLost` |
| `OneCreatorAtMost` | `FuncManagerProofs` | `Spec => []OneCreator` |
| `AllRowsHaveMetadata` | `FuncManagerProofs` | `Spec => []RowsHaveMetadata` |
| `MinReplicasAreNeverLost` | `FuncManagerProofs` | `Spec => MinReplicasAreKept` |
| `StatusTypesAreKept` | `InstanceStatusProofs` | `Spec => []TypeOK` |
| `RowsPointToTheirTask` | `InstanceStatusProofs` | `Spec => []RunningRowsPointToTheirTask` |
| `StatusesGoForward` | `InstanceStatusProofs` | `Spec => StatusGoesForward` |
| `AutoscalerTypesAreKept` | `AutoscalerProofs` | `ASpec => []ATypeOK` |
| `WaitingRequestsAreAskedFor` | `AutoscalerProofs` | `ASpec => WaitingIsAskedFor` |
| `TargetsStayWithinLimits` | `AutoscalerProofs` | `ASpec =>` every target is within its spec's limits, and the minimum if the window has length 0 |
| `TypesAreKeptUnderLoad` | `AutoscalerProofs` | `ASpec => []TypeOK` |
| `OneCreatorUnderLoad` | `AutoscalerProofs` | `ASpec => []OneCreator` |
| `RowsHaveMetadataUnderLoad` | `AutoscalerProofs` | `ASpec => []RowsHaveMetadata` |
| `MinReplicasAreKeptUnderLoad` | `AutoscalerProofs` | `ASpec => MinReplicasAreKept` |
| `NoRequestIsEverMissed` | `AutoscalerProofs` | `ASpec => NoRequestIsMissed`, for a window of at least 1 |

**Type correctness** needs `TypeInv`: a record's number is the count of the rows its request has,
so the table must be finite, and past `Peek` the routine must hold a request.

**Capacity.** `NoOvercommit` is not inductive: the step that inserts a record decides on a
snapshot. `LoadInv` adds what makes the decision safe.
- `SnapshotIsSafe`: at the decision, the records that were read include all the function's records
  still in the table. Other goroutines only delete, and the single `ScheduleRoutine` is the only
  one that inserts. The snapshot therefore overestimates the load, and itself fits.
- `RecordsAtHome`, `FoundAtHome`: a record's instance belongs to the record's function, and so do
  the instances the routine has read. The snapshot holds the records of one function only, and
  this is why no other function's records can be missing from an instance's load.
- `Fits` says that the load is a finite set of units within the instance's size.

`ChoiceHasRoom` then shows that what either algorithm chooses has room for the request,
`PlacedRecordFits` that the table with the new record fits, and one lemma per group of actions
that `LoadInv` is kept. The one-task algorithm keeps the capacity too: an empty instance that is
large enough fits the request.

The converse is `HeadWaitsOnlyForRoom`. `LoadTyped` shows that no sum of an instance that has room
leaves int32, so the check accepts it, and `FirstInOrder` that the order by cpu, memory and use
has a first element on any set of instances: its comparisons, taken one after the other, each
leave the least of those before.

**Where a request is.** `EveryWaitingCallIsInOnePlace` and `NoStrayReply` hold together or not at
all: that a reply finds its attempt waiting rests on the attempt being nowhere else. `PlaceInv`
conjoins them with three facts.
- `HoldsHead`: what the routine has peeked is still the head of the queue when it pops, because
  nobody else pops.
- `QueuedAreNew`: a queued request has no goroutine.
- `StartedAreMade`: a request with a goroutine has been made by its call.

`ServedInOrder` is about every step. That what a goroutine takes over is the head, which leaves,
follows from `HoldsHead`; that every request which leaves is taken over needs `QueuedAreNew` too:
a request that had a goroutine before would leave without starting one. Only a restart empties the
queue otherwise. `RecordInv` adds `PlacedIsRecorded` (between the insert and the pop, the record
of the chosen instance is there) to get `ServedRequestsAreRecorded` and `NoRecordIsForgotten`.

**The contract.** The refinement mapping of `Contract` is split by call into `StatusOf`,
`FailuresOf` and `TryOf`. For each action a lemma says what it does to the three, using `PlaceInv`
where it matters: a `Reply` is a step of the contract because the goroutine's attempt is the
current one, and `PopAndCall` begins a try because the popped request is the current one of an
active call. All other steps leave the mapped state alone.

**Removal of instances.** Every step of `Drain` is a step of `ReqScheduler` or leaves its
variables alone, so its theorems carry over. `AtMostOneIsCutOff` needs `DrainInv`.
`RemovedAreNotReady`: a removed instance whose row has not come back is not read as RUNNING again.
`FewPending`: once a poll has found no record of it, at most one request is pending there
(`PendingOn`: placed and not popped, or being called), and none while the routine still has the
instance among those it read. When the poll finds no record, nothing is pending, because by
`RecordInv` whatever is pending is recorded; after that only the one round of `Schedule` that had
read the row can add a request.

**The control plane.** Every theorem about `FuncManager` rests on `HandInv`: what a call has
created and not yet inserted (`HeldBy`) is new to the table, and no two calls hold the same
service. With it the ids of the rows are distinct, which the order of removals needs, and what a
call inserts is a service it did create, which is what is hard in `TypeOK`. `NoServiceIsLost` is
then inductive by itself: the services a call creates go to its hands, from there to the table,
and from the table to a goroutine.

`KnownInv` gives `OneCreator` and `RowsHaveMetadata`: whoever can still bring a row into the table
(a creator, a scaling call that has not decided yet, a call with services in hand, the monitor
with the rows it will save) does so for a function with metadata, and of two creators of one
function the second would have been refused by the unique index.

`MinReplicasAreKept` is about calls that decide on stale counts, and no call knows what another
removes. `KeptInv` makes it local: an instance that has ceased to be live has at least
`MinReplica` *superiors*, instances of its spec that scaling never removes or that have a higher
id; they need not be live. A call leaves at least the minimum of the instances it read
(`CutKeepsMinimum`), and removes them in the order of their ids, so whatever it removes has that
many superiors. `EnoughAreLive` draws the conclusion: the superiors of the *last* instance to have
ceased are all live. So a spec that once had the minimum of rows keeps as many live instances. It
is the order of the removals that counts; the code has it from the order in which MySQL reads the
rows, by primary key.

**Instance status.** `RunningRowsPointToTheirTask` compares a row with the tasks of the moment,
while what is saved in it was read two calls of ECS earlier. `StatusInv` carries the ownership
through the round: the places that `index` gives a service hold tasks of that service
(`PlacesAreItsOwn`, which appending to the list does not disturb), the answers are about the
listed tasks place by place (`AnswersMatch`), and a row names a task of its service
(`RowsNameTheirTask`). All three survive what ECS does in between because a task that has started
keeps its service. `NewestIsItsOwn` then shows that what a row is given is about a task of its
own. The address follows: a task that runs has an interface, so the row gets what `HasAddress`
says there is to find, unless the look-up fails.

`StatusGoesForward` puts the three memories of a task in order: what the row shows is not ahead of
the answer (`AnswersAreNewer`), and neither the answer nor the row is ahead of ECS (`AnswersLag`,
`RowsLag`), where a task only moves on (`TasksMoveOn`). A row that says NOT_CREATED still names
the task it last had. That this task does not come back rests on two facts: when the service had
nothing to list, the named task was stopped (`UnlistedAreStopped`), and a task that is listed was
not given up (`ListedAreNotGivenUp`), since ECS never wants a stopped task to run again.

**The autoscaler.** `NoRequestIsMissed` follows from `HeldAreSeen`: between the two reads
of `GetAllReq`, a request present since the first is in what that read returned, or has a record,
which the second will find. It is the order of the reads that matters, and that `Schedule` inserts
the record before it pops the request. A window of length 0 keeps no sample, and the theorem
excludes it.

The demand is a fold over the window of a fold over the requests, and the provers cannot
instantiate the library's induction theorems. `FiniteOrders` proves what is needed of a sum by
minimal counterexample: of the subsets of a finite set that lack the property, one is minimal; it
is not empty, and without its first element it would have the property. `AddsUpExists` and
`AddsUpAgree` so show that the function the library's fold chooses exists and is the same for
every set, `SumEquation` gives the step of the recursion, `SumIsNat` and `SumHasTerm` the type and
the bounds. With them `DemandCounts` says that the demand is at least the window's length times
what a request present in every sample needs, and `AsksForInstance` follows it through division,
rounding and limits to a target of at least 1. `SpecForHolds` needs that the order of the specs is
total, which is what `SizeAssumption` says.

`Autoscaler` runs `FuncManager` with steps that `FuncManager` alone does not have: calls that the
autoscaler begins, a panic, and rows that return. `HostsOrManages` shows that each step is one of
`FuncManager` or a `HostStep`, in which services and metadata stay, calls fail or begin, and the
only rows to come are those of services that had one. `HandInv`, `KnownInv` and `KeptInv` are kept
by a `HostStep` too (`HostHands`, `KnownHosted`, `KeptHosted`), so that types, the single creator,
the metadata of rows and the minimum of replicas hold beside the autoscaler. `NoServiceIsLost`
does not: it is about histories without failures, and the panic of `CalResScale` ends creating
calls without one.

**Assumptions.** `ResourceAssumption`: the sets are finite and the requirements are not negative.
`HeadroomAssumption`: adding a requirement to a full instance stays within int32. The server
validates neither; a negative or huge requirement in a call is outside the theorems.
`SchedulerAssumption`, `NullAssumption` and `ManagerAssumption` type the other constants, with at
least one attempt per call and finitely many services. `SpecAssumption`: each spec is of one
function. `AutoscalerAssumption` types the autoscaler's and has every function state at least one
spec (the server does not check it, and `CalResScale` would index an empty list at
`funcmanager.go:575` as soon as such a function is called), and `SizeAssumption` says that the
specs of a function differ in cpu or memory, by which the code tells them apart.
`StatusAssumption` types the constants of `InstanceStatus`: finitely many services and tasks,
numbered. `ReplicaAssumption`: a client does not state a minimum above the maximum; the server
does not compare them, and with such bounds scaling up to the maximum removes instances.

**Only model-checked**: liveness, that is `EveryCallReturns`, `RowsCatchUp`, `RowsReachTarget` and
`WaitingRequestsGetInstances` (TLAPS has no rule for fairness, which needs ENABLED). Every other
property of a passing run is a theorem.

## 5. What is not modelled

- Configuration, logging, start-up, message conversion, JAR loading: no state that the properties
  see.
- `max_retry` of 0 or less, with which `CallFunction` returns without trying.
- Negative or overflowing requirements (see above).
- The cpu and memory of a record and of its call are the same value in the code, copied unchanged;
  the model reads them from the call.
- The address of an instance: a stale one makes `DialFails`; that another task now has it is not
  modelled.
- A spec that the function does not have, in `ScaleFunction` or in a row.
- Aborts of a statement by MySQL after a wait on a lock, other than as a failure of that
  statement.
- The limit of 100 tasks in one description, and answers of ECS that are incomplete or out of
  order.
- Whether the drain of an instance ends: it does not if requests keep being placed on a row that
  came back, or if a record of it could not be deleted.
- The rounding of float64 in the autoscaler's sums. A window shorter than a step has length 0,
  with which the demand is 0 for ever; the module and the theorems allow it, the run has a window
  of 2.
- Read-only requests (`GetAllFunctions`, `GetFunctionResources`, `GetReqScheduleInfo`) and
  `GetStat` of the queue, which nothing calls.

## 6. Plan

Done, in this order: `Schedulers` and `ReqScheduler` (the request path is what every call goes
through), `CallContract` and its refinement, the theorems on types and capacity, `FuncManager`,
`InstanceStatus`, `Autoscaler`, `Drain`, and the remaining theorems about the request path, those
about `FuncManager`, `InstanceStatus` and `Autoscaler`, with the lemmas on sums. Left: the
composition of `InstanceStatus` with `FuncManager`, which so far agree only on the rows they
share, and a theorem on how far concurrent scaling can exceed the maximum.
