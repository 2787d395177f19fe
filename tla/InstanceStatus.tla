---------------------------- MODULE InstanceStatus ----------------------------
(***************************************************************************)
(* How table func_instance learns what runs: the monitor of                *)
(* pkg/funcmanager reads the rows of a function, lists and describes the   *)
(* ECS tasks of the rows that are due, and saves their status and address. *)
(* ECS starts, stops and replaces tasks at any time in between, and its    *)
(* calls fail.  The scheduler sends requests to the address of a row that  *)
(* says RUNNING.                                                           *)
(*                                                                         *)
(* The rows of one function; functions are monitored one after the other   *)
(* and share no row.  Insertion and deletion of rows is FuncManager's.     *)
(***************************************************************************)
EXTENDS Integers, FiniteSets, Sequences, Functions

CONSTANTS
  Services,       \* numbers that stand for service names, in the order of the rows
  Tasks,          \* numbers that stand for tasks, in the order of their creation
  UsePublicIpv4,  \* config: addresses are looked up in another AWS call
  Fargate,        \* the services created with instance type Fargate
  Faults,         \* the kinds of failure that may happen
  MaxFaults       \* bound on their number

FaultKinds == {"list", "describe", "address", "write"}
NoTask == 0

ASSUME StatusAssumption ==
  /\ Services \subseteq Nat /\ IsFiniteSet(Services)
  /\ Tasks \subseteq Nat \ {NoTask} /\ IsFiniteSet(Tasks)
  /\ UsePublicIpv4 \in BOOLEAN /\ Fargate \subseteq Services
  /\ Faults \subseteq FaultKinds /\ MaxFaults \in Nat

VARIABLES
  owner,    \* ECS: the service a task belongs to
  last,     \* ECS: lastStatus of each task
  desired,  \* ECS: desiredStatus of each task
  row,      \* table func_instance
  old,      \* the rows whose updated_at is more than ten seconds ago
  monitor,  \* where UpdateInstancesStatus is, and its locals
  faults

ecs  == <<owner, last, desired>>
vars == <<ecs, row, old, monitor, faults>>

(* ListTasks reports the tasks that are meant to run.                      *)
Listed(s) == {t \in Tasks : owner[t] = s /\ desired[t] = "RUNNING"}

Rest == [at |-> "read", todo |-> {}, upd |-> {}, list |-> <<>>,
         index |-> [s \in Services |-> {}], out |-> <<>>]

Init ==
  /\ owner = [t \in Tasks |-> -1]
  /\ last = [t \in Tasks |-> "none"] /\ desired = [t \in Tasks |-> "none"]
  /\ row = [s \in Services |->
              [last |-> "NOT_CREATE", desired |-> "", task |-> NoTask, addr |-> NoTask]]
  /\ old = {}
  /\ monitor = Rest
  /\ faults = 0

Fault(kind) == kind \in Faults /\ faults < MaxFaults /\ faults' = faults + 1

-----------------------------------------------------------------------------
(* ECS keeps one task of a service, and may start the next before it stops *)
(* the last.                                                               *)

TaskStarts(s) ==
  /\ Cardinality(Listed(s)) < 2
  /\ \E t \in Tasks :
       /\ last[t] = "none" /\ \A u \in Tasks : u < t => last[u] # "none"
       /\ owner' = [owner EXCEPT ![t] = s]
       /\ last' = [last EXCEPT ![t] = "PENDING"]
       /\ desired' = [desired EXCEPT ![t] = "RUNNING"]
  /\ UNCHANGED <<row, old, monitor, faults>>

TaskRuns(t) ==
  /\ last[t] = "PENDING" /\ desired[t] = "RUNNING"
  /\ last' = [last EXCEPT ![t] = "RUNNING"]
  /\ UNCHANGED <<owner, desired, row, old, monitor, faults>>

(* ECS stops a task, or it dies.                                           *)
TaskStops(t) ==
  /\ desired[t] = "RUNNING"
  /\ desired' = [desired EXCEPT ![t] = "STOPPED"]
  /\ last' \in {last, [last EXCEPT ![t] = "STOPPED"]}
  /\ UNCHANGED <<owner, row, old, monitor, faults>>

TaskEnds(t) ==
  /\ desired[t] = "STOPPED" /\ last[t] # "STOPPED"
  /\ last' = [last EXCEPT ![t] = "STOPPED"]
  /\ UNCHANGED <<owner, desired, row, old, monitor, faults>>

-----------------------------------------------------------------------------
(* UpdateInstancesStatus.                                                  *)

(* Ten seconds pass after the last save of a row.                          *)
Ages(s) ==
  /\ s \notin old
  /\ old' = old \cup {s}
  /\ UNCHANGED <<ecs, row, monitor, faults>>

DueIfUnsettled(s) == row[s].last # row[s].desired

Due(s) == row[s].last # row[s].desired \/ s \in old

AfterListing(todo) == IF todo = {} THEN "describe" ELSE "list"

ReadRows ==
  /\ monitor.at = "read"
  /\ LET due == {s \in Services : Due(s)} IN
       monitor' = [Rest EXCEPT !.at = AfterListing(due), !.todo = due]
  /\ UNCHANGED <<ecs, row, old, faults>>

(* The places of the last k elements of a list that had n before them.     *)
PlacesFromTheLast(n, k) == n .. n + k - 1

Places(n, k) == n + 1 .. n + k

(* The tasks are appended, in the order ECS lists them in, to one list for *)
(* all services; index remembers the places of each service's.  A service  *)
(* that cannot be listed is left out of this round.                        *)
ListTasks ==
  /\ monitor.at = "list"
  /\ LET s == CHOOSE s \in monitor.todo : \A u \in monitor.todo : s <= u
         n == Len(monitor.list)
         next == [monitor EXCEPT !.todo = @ \ {s},
                                 !.at = AfterListing(monitor.todo \ {s})] IN
       \/ /\ \E tasks \in Bijection(1 .. Cardinality(Listed(s)), Listed(s)) :
               monitor' = [next EXCEPT
                 !.upd = @ \cup {s},
                 !.list = @ \o tasks,
                 !.index[s] = Places(n, Cardinality(Listed(s)))]
          /\ UNCHANGED faults
       \/ Fault("list") /\ monitor' = next
  /\ UNCHANGED <<ecs, row, old>>

(* With no task at all the round ends here and nothing is saved.  The      *)
(* answer has the tasks in the order of the request.                       *)
DescribeTasks ==
  /\ monitor.at = "describe"
  /\ \/ /\ monitor.list = <<>>
        /\ monitor' = Rest /\ UNCHANGED faults
     \/ /\ monitor.list # <<>>
        /\ monitor' = [monitor EXCEPT !.at = "save",
             !.out = [i \in DOMAIN monitor.list |->
                        LET t == monitor.list[i] IN
                        [task |-> t, last |-> last[t], desired |-> desired[t]]]]
        /\ UNCHANGED faults
     \/ monitor.list # <<>> /\ Fault("describe") /\ monitor' = Rest
  /\ UNCHANGED <<ecs, row, old>>

(* The newest of the service's tasks.                                      *)
Newest(s) ==
  LET mine == {monitor.out[i] : i \in monitor.index[s]}
  IN  CHOOSE d \in mine : \A e \in mine : e.task <= d.task

(* With UsePublicIpv4, only services on Fargate are created with a public  *)
(* address for their tasks.  The look-up of any other answers, without an  *)
(* error, that there is none.                                              *)
HasAddress(s) == UsePublicIpv4 => s \in Fargate

KeepsTheAddress(s, unknown) ==
  LET d == Newest(s) IN
  [last |-> d.last, desired |-> d.desired, task |-> d.task,
   addr |-> IF HasAddress(s) /\ s \notin unknown THEN d.task ELSE row[s].addr]

PendsWithoutAddress(s, unknown) ==
  LET d == Newest(s) IN
  [last |-> IF s \in unknown THEN "PENDING" ELSE d.last, desired |-> d.desired, task |-> d.task,
   addr |-> IF HasAddress(s) /\ s \notin unknown THEN d.task ELSE NoTask]

ShowsTask(s, unknown) ==
  LET d == Newest(s) IN
  [last |-> d.last, desired |-> d.desired, task |-> d.task,
   addr |-> IF HasAddress(s) /\ s \notin unknown THEN d.task ELSE NoTask]

(* A service without a task loses its status, and nothing else.            *)
Save(unknown) ==
  /\ row' = [s \in Services |->
               IF s \notin monitor.upd THEN row[s]
               ELSE IF monitor.index[s] = {} THEN [row[s] EXCEPT !.last = "NOT_CREATED"]
               ELSE ShowsTask(s, unknown)]
  /\ old' = old \ monitor.upd

(* A task that runs has a network interface attached; one that pends or    *)
(* has stopped may have none, and then its row is left without an address. *)
Described == {s \in monitor.upd : monitor.index[s] # {}}
MayBeDetached == {s \in Described : Newest(s).last # "RUNNING"}

(* The addresses are looked up and the rows saved in a transaction.  A     *)
(* failure to look one up is ignored, one to save is only logged.          *)
SaveRows ==
  /\ monitor.at = "save"
  /\ monitor' = Rest
  /\ \/ \E detached \in SUBSET MayBeDetached :
          \/ Save(detached) /\ UNCHANGED faults
          \/ /\ UsePublicIpv4 /\ Fault("address")
             /\ \E s \in Described : Save(detached \cup {s})
     \/ Fault("write") /\ UNCHANGED <<row, old>>
  /\ UNCHANGED ecs

-----------------------------------------------------------------------------
Next ==
  \/ \E s \in Services : TaskStarts(s) \/ Ages(s)
  \/ \E t \in Tasks : TaskRuns(t) \/ TaskStops(t) \/ TaskEnds(t)
  \/ ReadRows \/ ListTasks \/ DescribeTasks \/ SaveRows

Spec == Init /\ [][Next]_vars

(***************************************************************************)
(* The monitor's loop goes on, and time passes.  Nothing is assumed of ECS.*)
(***************************************************************************)
Monitors == ReadRows \/ ListTasks \/ DescribeTasks \/ SaveRows

FairSpec == Spec /\ WF_vars(Monitors) /\ \A s \in Services : WF_vars(Ages(s))

-----------------------------------------------------------------------------
(* Properties.                                                             *)

(***************************************************************************)
(* Every variable keeps to the values the code can give it.                *)
(***************************************************************************)
RowStatuses == {"NOT_CREATE", "NOT_CREATED", "PENDING", "RUNNING", "STOPPED"}

TypeOK ==
  /\ owner \in [Tasks -> Services \cup {-1}]
  /\ last \in [Tasks -> {"none", "PENDING", "RUNNING", "STOPPED"}]
  /\ desired \in [Tasks -> {"none", "RUNNING", "STOPPED"}]
  /\ row \in [Services -> [last : RowStatuses, desired : {"", "RUNNING", "STOPPED"},
                           task : Tasks \cup {NoTask}, addr : Tasks \cup {NoTask}]]
  /\ old \subseteq Services
  /\ monitor.at \in {"read", "list", "describe", "save"}
  /\ monitor.todo \subseteq Services /\ monitor.upd \subseteq Services
  /\ monitor.list \in Seq(Tasks)
  /\ monitor.index \in [Services -> SUBSET (DOMAIN monitor.list)]
  /\ faults \in 0 .. MaxFaults

(***************************************************************************)
(* A row that says RUNNING sends its requests nowhere but to a task of its *)
(* own service, the one whose status it shows, although the answers for    *)
(* several services come in one list and a task may be replaced between    *)
(* two rounds.  It is without an address always if its service has no      *)
(* public one and UsePublicIpv4 asks for it, though the scheduler places   *)
(* requests on it; and otherwise only if a call failed.                    *)
(***************************************************************************)
RunningRowsPointToTheirTask ==
  \A s \in Services :
    row[s].last = "RUNNING" =>
      /\ row[s].task # NoTask /\ owner[row[s].task] = s
      /\ IF HasAddress(s) THEN row[s].addr = row[s].task \/ (faults > 0 /\ row[s].addr = NoTask)
         ELSE row[s].addr = NoTask

(***************************************************************************)
(* The status a row shows of a task never goes back: from running to       *)
(* pending, or from "NOT_CREATED" to any, although an answer is saved after*)
(* ECS has moved on, rounds fail half way, and a round that finds no task  *)
(* leaves the name of the last one in the row.                             *)
(***************************************************************************)
Stage(status) ==
  CASE status = "PENDING" -> 1 [] status = "RUNNING" -> 2 [] status = "STOPPED" -> 3
    [] OTHER -> 4

StatusGoesForward ==
  [][\A s \in Services :
       row[s].task # NoTask /\ row'[s].task = row[s].task =>
         Stage(row[s].last) <= Stage(row'[s].last)]_vars

(***************************************************************************)
(* The table catches up: when a service has settled on one running task,   *)
(* its row says so in the end, whatever the other services do and whichever*)
(* calls failed before; with the task's address, unless UsePublicIpv4 asks *)
(* for a public one and the service has none.                              *)
(***************************************************************************)
Settled(s) == \E t \in Tasks : Listed(s) = {t} /\ last[t] = "RUNNING"

RowsCatchUp ==
  \A s \in Services :
    <>[]Settled(s) =>
      <>[](/\ row[s].last = "RUNNING" /\ row[s].task \in Listed(s)
           /\ HasAddress(s) => row[s].addr = row[s].task)

(***************************************************************************)
(* funcmanager.go says "no need to update" where UpdateInstancesStatus     *)
(* returns for lack of tasks: no row it has looked at is out of date.      *)
(***************************************************************************)
NoNeedToUpdate ==
  monitor.at = "describe" /\ monitor.list = <<>> =>
    \A s \in monitor.upd : row[s].last # "RUNNING"
=============================================================================
