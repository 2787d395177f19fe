------------------------- MODULE InstanceStatusProofs --------------------------
(***************************************************************************)
(* Theorems about InstanceStatus, for any number of services and tasks and *)
(* any failures.                                                           *)
(***************************************************************************)
EXTENDS InstanceStatus, FiniteOrders, SequenceTheorems

-----------------------------------------------------------------------------
(* The inductive invariant.                                                *)

Started(t) == last[t] # "none"

EcsTyped ==
  /\ owner \in [Tasks -> Services \cup {-1}]
  /\ last \in [Tasks -> {"none", "PENDING", "RUNNING", "STOPPED"}]
  /\ desired \in [Tasks -> {"none", "RUNNING", "STOPPED"}]
  /\ \A t \in Tasks : IF Started(t) THEN owner[t] \in Services /\ desired[t] # "none"
                      ELSE desired[t] = "none"

Rows ==
  [last : RowStatuses, desired : {"", "RUNNING", "STOPPED"},
   task : Tasks \cup {NoTask}, addr : Tasks \cup {NoTask}]

TableTyped == row \in [Services -> Rows] /\ old \subseteq Services /\ faults \in 0 .. MaxFaults

Answers ==
  [task : Tasks, last : {"PENDING", "RUNNING", "STOPPED"}, desired : {"RUNNING", "STOPPED"}]

MonitorTyped ==
  /\ monitor \in [at : {"read", "list", "describe", "save"}, todo : SUBSET Services,
                  upd : SUBSET Services, list : Seq(Tasks),
                  index : [Services -> SUBSET Nat], out : Seq(Answers)]
  /\ monitor.at = "list" => monitor.todo # {}

(* The places of a service in the list hold tasks of that service.         *)
PlacesAreItsOwn ==
  /\ \A i \in 1 .. Len(monitor.list) : Started(monitor.list[i])
  /\ \A s \in Services : \A i \in monitor.index[s] :
       i \in 1 .. Len(monitor.list) /\ owner[monitor.list[i]] = s

(* The answer is about the tasks of the list, place by place.              *)
AnswersMatch ==
  monitor.at = "save" =>
    /\ Len(monitor.out) = Len(monitor.list)
    /\ \A i \in 1 .. Len(monitor.list) : monitor.out[i].task = monitor.list[i]

RowsNameTheirTask ==
  \A s \in Services : row[s].task # NoTask => Started(row[s].task) /\ owner[row[s].task] = s

StatusInv ==
  EcsTyped /\ TableTyped /\ MonitorTyped /\ PlacesAreItsOwn /\ AnswersMatch /\ RowsNameTheirTask
    /\ RunningRowsPointToTheirTask

LEMMA StatusInvTypes == StatusInv => TypeOK
<1> SUFFICES ASSUME StatusInv PROVE TypeOK
  OBVIOUS
<1>1. monitor.list \in Seq(Tasks) /\ monitor.index \in [Services -> SUBSET Nat]
  BY DEF StatusInv, MonitorTyped
<1>2. DOMAIN monitor.list = 1 .. Len(monitor.list)
  BY <1>1
<1>3. monitor.index \in [Services -> SUBSET (DOMAIN monitor.list)]
  BY <1>1, <1>2 DEF StatusInv, PlacesAreItsOwn
<1>4. /\ monitor.at \in {"read", "list", "describe", "save"}
      /\ monitor.todo \subseteq Services /\ monitor.upd \subseteq Services
  BY DEF StatusInv, MonitorTyped
<1> QED
  BY <1>1, <1>3, <1>4 DEF StatusInv, EcsTyped, TableTyped, TypeOK, Rows

LEMMA RestTyped ==
  /\ Rest \in [at : {"read", "list", "describe", "save"}, todo : SUBSET Services,
               upd : SUBSET Services, list : Seq(Tasks),
               index : [Services -> SUBSET Nat], out : Seq(Answers)]
  /\ Rest.at = "read" /\ Rest.todo = {} /\ Rest.list = <<>>
  /\ Rest.index = [s \in Services |-> {}]
<1>1. <<>> \in Seq(Tasks) /\ <<>> \in Seq(Answers)
  OBVIOUS
<1> QED
  BY <1>1 DEF Rest

LEMMA StatusInit == Init => StatusInv
<1> SUFFICES ASSUME Init PROVE StatusInv
  OBVIOUS
<1>1. EcsTyped
  BY DEF Init, EcsTyped, Started
<1>2. TableTyped
  <2>1. [last |-> "NOT_CREATE", desired |-> "", task |-> NoTask, addr |-> NoTask] \in Rows
    BY DEF Rows, RowStatuses
  <2>2. row \in [Services -> Rows]
    BY <2>1 DEF Init
  <2>3. 0 \in 0 .. MaxFaults
    BY StatusAssumption
  <2> QED
    BY <2>2, <2>3 DEF Init, TableTyped
<1>3. MonitorTyped
  BY RestTyped DEF Init, MonitorTyped
<1>4. PlacesAreItsOwn /\ AnswersMatch
  <2>1. /\ monitor.at = "read" /\ monitor.list = <<>>
        /\ \A s \in Services : monitor.index[s] = {}
    BY RestTyped DEF Init
  <2>2. 1 .. Len(monitor.list) = {}
    BY <2>1
  <2> QED
    BY <2>1, <2>2 DEF PlacesAreItsOwn, AnswersMatch
<1>5. RowsNameTheirTask /\ RunningRowsPointToTheirTask
  BY DEF Init, RowsNameTheirTask, RunningRowsPointToTheirTask
<1> QED
  BY <1>1, <1>2, <1>3, <1>4, <1>5 DEF StatusInv

-----------------------------------------------------------------------------
(* The steps.                                                              *)

(* A task that has started keeps its service.                              *)
LEMMA EcsSteps ==
  ASSUME StatusInv,
         \/ \E s \in Services : TaskStarts(s)
         \/ \E t \in Tasks : TaskRuns(t) \/ TaskStops(t) \/ TaskEnds(t)
  PROVE  StatusInv'
<1>1. UNCHANGED <<row, old, monitor, faults>>
  BY DEF TaskStarts, TaskRuns, TaskStops, TaskEnds
<1>2. EcsTyped' /\ \A t \in Tasks : Started(t) => Started(t)' /\ owner'[t] = owner[t]
  <2>1. ASSUME NEW s \in Services, TaskStarts(s)
        PROVE  EcsTyped' /\ \A t \in Tasks : Started(t) => Started(t)' /\ owner'[t] = owner[t]
    BY <2>1 DEF TaskStarts, StatusInv, EcsTyped, Started
  <2>2. ASSUME NEW t \in Tasks, TaskRuns(t)
        PROVE  EcsTyped' /\ \A u \in Tasks : Started(u) => Started(u)' /\ owner'[u] = owner[u]
    BY <2>2 DEF TaskRuns, StatusInv, EcsTyped, Started
  <2>3. ASSUME NEW t \in Tasks, TaskStops(t)
        PROVE  EcsTyped' /\ \A u \in Tasks : Started(u) => Started(u)' /\ owner'[u] = owner[u]
    BY <2>3 DEF TaskStops, StatusInv, EcsTyped, Started
  <2>4. ASSUME NEW t \in Tasks, TaskEnds(t)
        PROVE  EcsTyped' /\ \A u \in Tasks : Started(u) => Started(u)' /\ owner'[u] = owner[u]
    BY <2>4 DEF TaskEnds, StatusInv, EcsTyped, Started
  <2> QED
    BY <2>1, <2>2, <2>3, <2>4
<1>3. TableTyped' /\ MonitorTyped' /\ AnswersMatch'
  BY <1>1 DEF StatusInv, TableTyped, MonitorTyped, AnswersMatch
<1>4. PlacesAreItsOwn'
  <2>1. \A i \in 1 .. Len(monitor.list) : monitor.list[i] \in Tasks
    BY DEF StatusInv, MonitorTyped
  <2> QED
    BY <1>1, <1>2, <2>1 DEF StatusInv, PlacesAreItsOwn
<1>5. \A s \in Services : row[s].task \in Tasks \cup {NoTask}
  BY DEF StatusInv, TableTyped, Rows
<1>6. RowsNameTheirTask'
  BY <1>1, <1>2, <1>5 DEF StatusInv, RowsNameTheirTask
<1>7. RunningRowsPointToTheirTask'
  BY <1>1, <1>6 DEF StatusInv, RunningRowsPointToTheirTask, RowsNameTheirTask
<1> QED
  BY <1>2, <1>3, <1>4, <1>6, <1>7 DEF StatusInv

(* Steps that leave the tasks and the rows alone.                          *)
LEMMA MonitorMoves ==
  ASSUME StatusInv, UNCHANGED <<ecs, row>>, old' \subseteq Services,
         faults' \in 0 .. MaxFaults, faults' >= faults,
         MonitorTyped', PlacesAreItsOwn', AnswersMatch'
  PROVE  StatusInv'
<1>1. EcsTyped' /\ TableTyped' /\ RowsNameTheirTask'
  BY DEF StatusInv, EcsTyped, TableTyped, RowsNameTheirTask, Started, ecs
<1>2. RunningRowsPointToTheirTask'
  BY DEF StatusInv, TableTyped, RunningRowsPointToTheirTask, ecs
<1> QED
  BY <1>1, <1>2 DEF StatusInv

LEMMA FaultsGrow ==
  ASSUME TableTyped, UNCHANGED faults \/ (\E kind \in FaultKinds : Fault(kind))
  PROVE  faults' \in 0 .. MaxFaults /\ faults' >= faults
BY StatusAssumption DEF TableTyped, Fault

LEMMA AgesKeeps == ASSUME StatusInv, NEW s \in Services, Ages(s) PROVE StatusInv'
<1>1. /\ UNCHANGED <<ecs, row, monitor, faults>> /\ old' = old \cup {s}
  BY DEF Ages
<1>2. MonitorTyped' /\ PlacesAreItsOwn' /\ AnswersMatch'
  BY <1>1 DEF StatusInv, MonitorTyped, PlacesAreItsOwn, AnswersMatch, Started, ecs
<1> QED
  BY <1>1, <1>2, FaultsGrow, MonitorMoves DEF StatusInv, TableTyped

LEMMA ReadRowsKeeps == ASSUME StatusInv, ReadRows PROVE StatusInv'
<1> DEFINE due == {s \in Services : Due(s)}
<1>1. /\ monitor' = [Rest EXCEPT !.at = AfterListing(due), !.todo = due]
      /\ UNCHANGED <<ecs, row, old, faults>>
  BY DEF ReadRows
<1>2. due \in SUBSET Services
  OBVIOUS
<1> HIDE DEF due
<1>3. MonitorTyped' /\ monitor'.index = [s \in Services |-> {}] /\ monitor'.list = <<>>
          /\ monitor'.at # "save"
  BY <1>1, <1>2, RestTyped DEF MonitorTyped, AfterListing
<1>4. PlacesAreItsOwn' /\ AnswersMatch'
  BY <1>3 DEF PlacesAreItsOwn, AnswersMatch
<1> QED
  BY <1>1, <1>3, <1>4, FaultsGrow, MonitorMoves DEF StatusInv, TableTyped

(* The service that is listed next.                                        *)
LEMMA ListedService ==
  ASSUME StatusInv, monitor.at = "list"
  PROVE  (CHOOSE s \in monitor.todo : \A u \in monitor.todo : s <= u) \in Services
<1>1. monitor.todo \subseteq Services /\ monitor.todo # {} /\ IsFiniteSet(monitor.todo)
  BY StatusAssumption, FS_Subset DEF StatusInv, MonitorTyped
<1>2. PICK u \in monitor.todo : \A v \in monitor.todo : u <= v
  <2> DEFINE num == [u \in monitor.todo |-> u]
  <2>1. num \in [monitor.todo -> Int]
    <3>1. \A v \in monitor.todo : v \in Nat
      BY <1>1, StatusAssumption
    <3> QED
      BY <3>1
  <2>2. \E u \in monitor.todo : \A v \in monitor.todo : num[u] <= num[v]
    <3> HIDE DEF num
    <3> QED
      BY <1>1, <2>1, SmallestNumber
  <2> QED
    BY <2>2
<1> QED
  BY <1>1, <1>2

(* The tasks of one more service are appended.                             *)
LEMMA ListTasksKeeps == ASSUME StatusInv, ListTasks PROVE StatusInv'
<1> DEFINE s == CHOOSE s \in monitor.todo : \A u \in monitor.todo : s <= u
           n == Len(monitor.list)
           todo == monitor.todo \ {s}
           next == [monitor EXCEPT !.todo = todo, !.at = AfterListing(todo)]
           listed(tasks) == [next EXCEPT !.upd = @ \cup {s}, !.list = @ \o tasks,
                               !.index[s] = Places(n, Cardinality(Listed(s)))]
<1>1. s \in Services
  BY ListedService DEF ListTasks
<1>2. /\ UNCHANGED <<ecs, row, old>> /\ monitor.at = "list"
      /\ \/ /\ \E tasks \in Bijection(1 .. Cardinality(Listed(s)), Listed(s)) :
                  monitor' = listed(tasks)
            /\ UNCHANGED faults
         \/ Fault("list") /\ monitor' = next
  BY DEF ListTasks
<1>3. n \in Nat /\ monitor.list \in Seq(Tasks) /\ todo \in SUBSET Services
  BY DEF StatusInv, MonitorTyped
<1>4. /\ monitor \in [at : {"read", "list", "describe", "save"}, todo : SUBSET Services,
                       upd : SUBSET Services, list : Seq(Tasks),
                       index : [Services -> SUBSET Nat], out : Seq(Answers)]
      /\ AfterListing(todo) \in {"list", "describe"}
      /\ AfterListing(todo) = "list" => todo # {}
  BY DEF StatusInv, MonitorTyped, AfterListing
<1>5. faults' \in 0 .. MaxFaults /\ faults' >= faults
  <2>1. UNCHANGED faults \/ \E kind \in FaultKinds : Fault(kind)
    BY <1>2 DEF FaultKinds
  <2> QED
    BY <2>1, FaultsGrow DEF StatusInv
<1> HIDE DEF s, todo, next, listed
<1>6. CASE \E tasks \in Bijection(1 .. Cardinality(Listed(s)), Listed(s)) :
             monitor' = listed(tasks)
  <2> DEFINE k == Cardinality(Listed(s))
  <2>1. PICK tasks \in [1 .. k -> Listed(s)] :
          monitor' = [monitor EXCEPT !.todo = todo, !.at = AfterListing(todo),
                        !.upd = @ \cup {s}, !.list = @ \o tasks,
                        !.index[s] = Places(n, k)]
    BY <1>6, <1>4 DEF Bijection, Injection, listed, next
  <2>2. k \in Nat /\ Listed(s) \subseteq Tasks
    BY StatusAssumption, FS_Subset, FS_CardinalityType DEF Listed
  <2> HIDE DEF k
  <2>3. tasks \in Seq(Tasks) /\ Len(tasks) = k
    BY <2>2
  <2>4. \A i \in 1 .. k : Started(tasks[i]) /\ owner[tasks[i]] = s
    BY <2>1 DEF Listed, Started, StatusInv, EcsTyped
  <2> DEFINE list == monitor.list \o tasks
  <2>5. /\ list \in Seq(Tasks) /\ Len(list) = n + k
        /\ \A i \in 1 .. n : list[i] = monitor.list[i]
        /\ \A i \in n + 1 .. n + k : i - n \in 1 .. k /\ list[i] = tasks[i - n]
    BY <1>3, <2>2, <2>3
  <2>6. Places(n, k) \in SUBSET Nat
    BY <1>3, <2>2 DEF Places
  <2>7. /\ monitor'.list = list /\ monitor'.at = AfterListing(todo)
        /\ monitor'.index = [monitor.index EXCEPT ![s] = Places(n, k)]
    BY <2>1, <1>4
  <2> HIDE DEF list
  <2>8. MonitorTyped'
    BY <1>1, <1>3, <1>4, <2>1, <2>5, <2>6, <2>7 DEF MonitorTyped
  <2>9. \A i \in 1 .. n + k : Started(list[i])
    BY <1>3, <2>2, <2>4, <2>5 DEF StatusInv, PlacesAreItsOwn
  <2>10. \A u \in Services : \A i \in monitor'.index[u] :
           i \in 1 .. n + k /\ owner[list[i]] = u
    <3> SUFFICES ASSUME NEW u \in Services, NEW i \in monitor'.index[u]
                 PROVE  i \in 1 .. n + k /\ owner[list[i]] = u
      OBVIOUS
    <3>1. CASE u = s
      BY <1>1, <1>3, <1>4, <2>2, <2>4, <2>5, <2>7, <3>1 DEF Places
    <3>2. CASE u # s
      BY <1>1, <1>3, <1>4, <2>2, <2>5, <2>7, <3>2 DEF StatusInv, PlacesAreItsOwn
    <3> QED
      BY <3>1, <3>2
  <2>11. PlacesAreItsOwn'
    BY <1>2, <2>5, <2>7, <2>9, <2>10 DEF PlacesAreItsOwn, Started, ecs
  <2>12. AnswersMatch'
    BY <1>4, <2>7 DEF AnswersMatch
  <2> QED
    BY <1>2, <1>5, <2>8, <2>11, <2>12, MonitorMoves DEF StatusInv, TableTyped
<1>7. CASE monitor' = next
  <2>1. /\ monitor'.list = monitor.list /\ monitor'.index = monitor.index
        /\ monitor'.at = AfterListing(todo)
    BY <1>4, <1>7 DEF next
  <2>2. MonitorTyped'
    BY <1>3, <1>4, <1>7 DEF MonitorTyped, next
  <2>3. PlacesAreItsOwn'
    BY <1>2, <2>1 DEF StatusInv, PlacesAreItsOwn, Started, ecs
  <2>4. AnswersMatch'
    BY <1>4, <2>1 DEF AnswersMatch
  <2> QED
    BY <1>2, <1>5, <2>2, <2>3, <2>4, MonitorMoves DEF StatusInv, TableTyped
<1> QED
  BY <1>2, <1>6, <1>7

LEMMA DescribeTasksKeeps == ASSUME StatusInv, DescribeTasks PROVE StatusInv'
<1>1. UNCHANGED <<ecs, row, old>>
  BY DEF DescribeTasks
<1>2. faults' \in 0 .. MaxFaults /\ faults' >= faults
  <2>1. UNCHANGED faults \/ \E kind \in FaultKinds : Fault(kind)
    BY DEF DescribeTasks, FaultKinds
  <2> QED
    BY <2>1, FaultsGrow DEF StatusInv
<1>3. CASE monitor' = Rest
  <2>1. MonitorTyped' /\ PlacesAreItsOwn' /\ AnswersMatch'
    BY <1>3, RestTyped DEF MonitorTyped, PlacesAreItsOwn, AnswersMatch
  <2> QED
    BY <1>1, <1>2, <2>1, MonitorMoves DEF StatusInv, TableTyped
<1>4. CASE monitor' # Rest
  <2> DEFINE out == [i \in DOMAIN monitor.list |->
                       LET t == monitor.list[i] IN
                       [task |-> t, last |-> last[t], desired |-> desired[t]]]
  <2>1. monitor' = [monitor EXCEPT !.at = "save", !.out = out]
    BY <1>4 DEF DescribeTasks
  <2>2. /\ monitor \in [at : {"read", "list", "describe", "save"}, todo : SUBSET Services,
                         upd : SUBSET Services, list : Seq(Tasks),
                         index : [Services -> SUBSET Nat], out : Seq(Answers)]
        /\ DOMAIN monitor.list = 1 .. Len(monitor.list) /\ Len(monitor.list) \in Nat
        /\ \A i \in 1 .. Len(monitor.list) : monitor.list[i] \in Tasks
    BY DEF StatusInv, MonitorTyped
  <2>3. \A i \in 1 .. Len(monitor.list) : out[i] \in Answers /\ out[i].task = monitor.list[i]
    BY <2>2 DEF StatusInv, PlacesAreItsOwn, EcsTyped, Started, Answers
  <2>4. out \in Seq(Answers) /\ Len(out) = Len(monitor.list)
    <3>1. out \in [1 .. Len(monitor.list) -> Answers]
      BY <2>2, <2>3
    <3> HIDE DEF out
    <3> QED
      BY <2>2, <3>1
  <2> HIDE DEF out
  <2>5. /\ monitor'.at = "save" /\ monitor'.out = out /\ monitor'.list = monitor.list
        /\ monitor'.index = monitor.index
    BY <2>1, <2>2
  <2>6. MonitorTyped'
    BY <2>1, <2>2, <2>4 DEF MonitorTyped
  <2>7. PlacesAreItsOwn' /\ AnswersMatch'
    BY <1>1, <2>3, <2>4, <2>5 DEF StatusInv, PlacesAreItsOwn, AnswersMatch, Started, ecs
  <2> QED
    BY <1>1, <1>2, <2>6, <2>7, MonitorMoves DEF StatusInv, TableTyped
<1> QED
  BY <1>3, <1>4

(* The newest of a service's tasks is one of its own.                      *)
LEMMA NewestIsItsOwn ==
  ASSUME StatusInv, monitor.at = "save", NEW s \in Services, monitor.index[s] # {}
  PROVE  /\ \E i \in monitor.index[s] : Newest(s) = monitor.out[i]
         /\ Newest(s) \in Answers
         /\ Started(Newest(s).task) /\ owner[Newest(s).task] = s
<1> DEFINE mine == {monitor.out[i] : i \in monitor.index[s]}
<1>1. \A i \in monitor.index[s] :
        /\ i \in 1 .. Len(monitor.out) /\ monitor.out[i] \in Answers
        /\ Started(monitor.out[i].task) /\ owner[monitor.out[i].task] = s
  BY DEF StatusInv, PlacesAreItsOwn, AnswersMatch, MonitorTyped
<1>2. mine \subseteq Answers /\ mine # {}
  BY <1>1
<1>3. IsFiniteSet(mine)
  <2>1. IsFiniteSet(1 .. Len(monitor.out)) /\ monitor.index[s] \subseteq 1 .. Len(monitor.out)
    <3>1. Len(monitor.out) \in Nat
      BY DEF StatusInv, MonitorTyped
    <3>2. \A k \in Nat : IsFiniteSet(1 .. k)
      BY FS_Interval
    <3>3. IsFiniteSet(1 .. Len(monitor.out))
      BY <3>1, <3>2
    <3> QED
      BY <1>1, <3>3
  <2>2. IsFiniteSet(monitor.index[s])
    BY <2>1, FS_Subset
  <2> DEFINE f == [i \in monitor.index[s] |-> monitor.out[i]]
  <2>3. f \in Surjection(monitor.index[s], mine)
    BY DEF Surjection
  <2> HIDE DEF f, mine
  <2> QED
    BY <2>2, <2>3, FS_Surjection
<1>4. \E d \in mine : \A e \in mine : e.task <= d.task
  <2> DEFINE num == [d \in mine |-> d.task]
  <2> HIDE DEF mine
  <2>1. num \in [mine -> Int]
    <3>1. \A d \in mine : d.task \in Nat
      BY <1>2, StatusAssumption DEF Answers
    <3> QED
      BY <3>1
  <2>2. \E d \in mine : \A e \in mine : num[e] <= num[d]
    <3> HIDE DEF num
    <3> QED
      BY <1>2, <1>3, <2>1, LargestNumber
  <2> QED
    BY <2>2
<1>5. Newest(s) \in mine
  BY <1>4 DEF Newest
<1> QED
  BY <1>1, <1>5

LEMMA SaveKeeps ==
  ASSUME StatusInv, monitor.at = "save", NEW unknown, Save(unknown), UNCHANGED ecs,
         faults' \in 0 .. MaxFaults, faults' >= faults,
         unknown \subseteq MayBeDetached \/ faults' > 0
  PROVE  /\ row' \in [Services -> Rows] /\ old' \subseteq Services
         /\ RowsNameTheirTask' /\ RunningRowsPointToTheirTask'
<1>1. \A s \in Services :
        /\ row'[s] \in Rows
        /\ row'[s].task # NoTask => Started(row'[s].task) /\ owner[row'[s].task] = s
        /\ row'[s].last = "RUNNING" =>
             /\ row'[s].task # NoTask
             /\ IF HasAddress(s)
                THEN row'[s].addr = row'[s].task \/ (faults' > 0 /\ row'[s].addr = NoTask)
                ELSE row'[s].addr = NoTask
  <2> SUFFICES ASSUME NEW s \in Services
               PROVE  /\ row'[s] \in Rows
                      /\ row'[s].task # NoTask =>
                           Started(row'[s].task) /\ owner[row'[s].task] = s
                      /\ row'[s].last = "RUNNING" =>
                           /\ row'[s].task # NoTask
                           /\ IF HasAddress(s)
                              THEN \/ row'[s].addr = row'[s].task
                                   \/ faults' > 0 /\ row'[s].addr = NoTask
                              ELSE row'[s].addr = NoTask
    OBVIOUS
  <2>1. row[s] \in Rows /\ faults \in Nat
    BY StatusAssumption DEF StatusInv, TableTyped
  <2>2. CASE s \notin monitor.upd
    <3>1. row'[s] = row[s]
      BY <2>2 DEF Save
    <3> QED
      BY <2>1, <3>1 DEF StatusInv, RowsNameTheirTask, RunningRowsPointToTheirTask
  <2>3. CASE s \in monitor.upd /\ monitor.index[s] = {}
    <3>1. row'[s] = [row[s] EXCEPT !.last = "NOT_CREATED"]
      BY <2>3 DEF Save
    <3>2. row'[s] \in Rows /\ row'[s].last # "RUNNING" /\ row'[s].task = row[s].task
      BY <2>1, <3>1 DEF Rows, RowStatuses
    <3> QED
      BY <3>2 DEF StatusInv, RowsNameTheirTask
  <2>4. CASE s \in monitor.upd /\ monitor.index[s] # {}
    <3> DEFINE d == Newest(s)
    <3>1. d \in Answers /\ Started(d.task) /\ owner[d.task] = s /\ d.task # NoTask
      BY <2>4, NewestIsItsOwn, StatusAssumption DEF Answers
    <3>2. row'[s] = [last |-> d.last, desired |-> d.desired, task |-> d.task,
                     addr |-> IF HasAddress(s) /\ s \notin unknown THEN d.task ELSE NoTask]
      BY <2>4 DEF Save, ShowsTask
    <3> HIDE DEF d
    <3>3. d.last \in RowStatuses /\ d.desired \in {"RUNNING", "STOPPED"} /\ d.task \in Tasks
      BY <3>1 DEF Answers, RowStatuses
    <3>4. row'[s] \in Rows
      <4> DEFINE a == IF HasAddress(s) /\ s \notin unknown THEN d.task ELSE NoTask
      <4>1. a \in Tasks \cup {NoTask}
        BY <3>3
      <4>2. row'[s] = [last |-> d.last, desired |-> d.desired, task |-> d.task, addr |-> a]
        BY <3>2
      <4> HIDE DEF a
      <4>3. ASSUME NEW l \in RowStatuses, NEW w \in {"", "RUNNING", "STOPPED"},
                   NEW t \in Tasks \cup {NoTask}, NEW u \in Tasks \cup {NoTask}
            PROVE  [last |-> l, desired |-> w, task |-> t, addr |-> u] \in Rows
        BY DEF Rows
      <4>4. d.desired \in {"", "RUNNING", "STOPPED"} /\ d.task \in Tasks \cup {NoTask}
        BY <3>3
      <4>5. [last |-> d.last, desired |-> d.desired, task |-> d.task, addr |-> a] \in Rows
        BY <3>3, <4>1, <4>3, <4>4
      <4> QED
        BY <4>2, <4>5
    <3>5. /\ row'[s].task = d.task /\ row'[s].last = d.last
          /\ row'[s].addr = IF HasAddress(s) /\ s \notin unknown THEN d.task ELSE NoTask
      BY <3>2
    <3>6. d.last = "RUNNING" /\ s \in unknown => faults' > 0
      BY DEF MayBeDetached, d
    <3> QED
      BY <3>1, <3>4, <3>5, <3>6
  <2> QED
    BY <2>2, <2>3, <2>4
<1>2. row' = [s \in Services |-> row'[s]] /\ old' \subseteq Services
  BY DEF Save, StatusInv, TableTyped
<1>3. row' \in [Services -> Rows]
  BY <1>1, <1>2
<1>4. RowsNameTheirTask' /\ RunningRowsPointToTheirTask'
  BY <1>1 DEF RowsNameTheirTask, RunningRowsPointToTheirTask, Started, ecs
<1> QED
  BY <1>2, <1>3, <1>4

LEMMA SaveRowsKeeps == ASSUME StatusInv, SaveRows PROVE StatusInv'
<1>1. monitor.at = "save" /\ monitor' = Rest /\ UNCHANGED ecs
  BY DEF SaveRows
<1>2. faults' \in 0 .. MaxFaults /\ faults' >= faults
  <2>1. UNCHANGED faults \/ \E kind \in FaultKinds : Fault(kind)
    BY DEF SaveRows, FaultKinds
  <2> QED
    BY <2>1, FaultsGrow DEF StatusInv
<1>3. MonitorTyped' /\ PlacesAreItsOwn' /\ AnswersMatch'
  BY <1>1, RestTyped DEF MonitorTyped, PlacesAreItsOwn, AnswersMatch
<1>4. CASE UNCHANGED <<row, old>>
  BY <1>1, <1>2, <1>3, <1>4, MonitorMoves DEF StatusInv, TableTyped
<1>5. ASSUME NEW unknown, Save(unknown), unknown \subseteq MayBeDetached \/ faults' > 0
      PROVE  StatusInv'
  <2>1. /\ row' \in [Services -> Rows] /\ old' \subseteq Services
        /\ RowsNameTheirTask' /\ RunningRowsPointToTheirTask'
    BY <1>1, <1>2, <1>5, SaveKeeps
  <2>2. EcsTyped' /\ TableTyped'
    BY <1>1, <1>2, <2>1 DEF StatusInv, EcsTyped, TableTyped, Started, ecs
  <2> QED
    BY <1>3, <2>1, <2>2 DEF StatusInv
<1>6. Fault("address") => faults' > 0
  BY StatusAssumption DEF Fault, StatusInv, TableTyped
<1> QED
  BY <1>4, <1>5, <1>6 DEF SaveRows

LEMMA StatusNext == ASSUME StatusInv, [Next]_vars PROVE StatusInv'
<1>1. CASE \/ \E s \in Services : TaskStarts(s)
           \/ \E t \in Tasks : TaskRuns(t) \/ TaskStops(t) \/ TaskEnds(t)
  BY <1>1, EcsSteps
<1>2. CASE \E s \in Services : Ages(s)
  BY <1>2, AgesKeeps
<1>3. CASE ReadRows
  BY <1>3, ReadRowsKeeps
<1>4. CASE ListTasks
  BY <1>4, ListTasksKeeps
<1>5. CASE DescribeTasks
  BY <1>5, DescribeTasksKeeps
<1>6. CASE SaveRows
  BY <1>6, SaveRowsKeeps
<1>7. CASE UNCHANGED vars
  <2>1. MonitorTyped' /\ PlacesAreItsOwn' /\ AnswersMatch'
    BY <1>7 DEF StatusInv, MonitorTyped, PlacesAreItsOwn, AnswersMatch, Started, vars, ecs
  <2> QED
    BY <1>7, <2>1, FaultsGrow, MonitorMoves DEF StatusInv, TableTyped, vars
<1> QED
  BY <1>1, <1>2, <1>3, <1>4, <1>5, <1>6, <1>7 DEF Next

-----------------------------------------------------------------------------
(* What the rows and the monitor know is old, and never runs ahead of ECS. *)

(* A task that is listed was not given up in this row.                     *)
ListedAreNotGivenUp ==
  \A s \in Services : \A i \in monitor.index[s] :
    row[s].task = monitor.list[i] => row[s].last # "NOT_CREATED"

(* If a service had no task to list, the one its row names is gone.        *)
UnlistedAreStopped ==
  \A s \in monitor.upd :
    monitor.index[s] = {} /\ row[s].task # NoTask => desired[row[s].task] = "STOPPED"

(* A row shows a stage its task has reached, or that it was stopped.       *)
RowsLag ==
  \A s \in Services :
    row[s].task # NoTask =>
      IF row[s].last = "NOT_CREATED" THEN desired[row[s].task] = "STOPPED"
      ELSE Stage(row[s].last) <= Stage(last[row[s].task])

(* An answer is newer than the row, and older than ECS.                    *)
AnswersAreNewer ==
  monitor.at = "save" =>
    \A s \in Services : \A i \in monitor.index[s] :
      row[s].task = monitor.list[i] => Stage(row[s].last) <= Stage(monitor.out[i].last)

AnswersLag ==
  monitor.at = "save" =>
    \A i \in 1 .. Len(monitor.list) :
      Stage(monitor.out[i].last) <= Stage(last[monitor.list[i]])

ForwardInv ==
  ListedAreNotGivenUp /\ UnlistedAreStopped /\ RowsLag /\ AnswersAreNewer /\ AnswersLag

LEMMA StageTyped == ASSUME NEW status PROVE Stage(status) \in 1 .. 4
BY DEF Stage

LEMMA ForwardInit == Init => ForwardInv
<1> SUFFICES ASSUME Init PROVE ForwardInv
  OBVIOUS
<1>1. /\ monitor.at = "read" /\ monitor.upd = {}
      /\ \A s \in Services : monitor.index[s] = {} /\ row[s].task = NoTask
  BY RestTyped DEF Init, Rest
<1> QED
  BY <1>1 DEF ForwardInv, ListedAreNotGivenUp, UnlistedAreStopped, RowsLag, AnswersAreNewer,
    AnswersLag

(* A task that has started only moves on, and a stopped one is never meant *)
(* to run again.                                                           *)
LEMMA TasksMoveOn ==
  ASSUME StatusInv, [Next]_vars, NEW t \in Tasks, Started(t)
  PROVE  /\ Stage(last[t]) <= Stage(last'[t])
         /\ desired[t] = "STOPPED" => desired'[t] = "STOPPED"
<1> USE DEF StatusInv, EcsTyped, Started, Stage
<1>1. ASSUME NEW s \in Services, TaskStarts(s)
      PROVE  last'[t] = last[t] /\ desired'[t] = desired[t]
  BY <1>1 DEF TaskStarts
<1>2. ASSUME NEW u \in Tasks, TaskRuns(u)
      PROVE  /\ Stage(last[t]) <= Stage(last'[t]) /\ desired' = desired
  BY <1>2 DEF TaskRuns
<1>3. ASSUME NEW u \in Tasks, TaskStops(u) \/ TaskEnds(u)
      PROVE  /\ last'[t] = last[t] \/ last'[t] = "STOPPED"
             /\ desired'[t] = desired[t] \/ desired'[t] = "STOPPED"
  BY <1>3 DEF TaskStops, TaskEnds
<1>4. CASE UNCHANGED ecs
  BY <1>4 DEF ecs
<1>5. ASSUME NEW x
      PROVE  /\ Stage(x) <= Stage(x)
             /\ x \in {"PENDING", "RUNNING"} => Stage(x) <= Stage("STOPPED")
  OBVIOUS
<1> HIDE DEF Stage
<1>6. UNCHANGED ecs \/ (\E s \in Services : TaskStarts(s))
        \/ \E u \in Tasks : TaskRuns(u) \/ TaskStops(u) \/ TaskEnds(u)
  BY DEF Next, Ages, ReadRows, ListTasks, DescribeTasks, SaveRows, vars
<1>7. last[t] \in {"PENDING", "RUNNING", "STOPPED"}
  OBVIOUS
<1> QED
  BY <1>1, <1>2, <1>3, <1>4, <1>5, <1>6, <1>7

(* What is old stays old when only the tasks, or the round, move on.       *)
LEMMA OldStaysOld ==
  ASSUME StatusInv, ForwardInv, [Next]_vars, UNCHANGED row
  PROVE  /\ RowsLag'
         /\ UNCHANGED monitor => ForwardInv'
<1>1. \A s \in Services : row[s].task # NoTask => row[s].task \in Tasks /\ Started(row[s].task)
  BY DEF StatusInv, TableTyped, Rows, RowsNameTheirTask
<1>2. \A t \in Tasks : Started(t) => /\ Stage(last[t]) <= Stage(last'[t])
                                     /\ desired[t] = "STOPPED" => desired'[t] = "STOPPED"
  BY TasksMoveOn
<1>3. \A status : Stage(status) \in Int
  BY StageTyped
<1>4. RowsLag'
  BY <1>1, <1>2, <1>3 DEF ForwardInv, RowsLag
<1>5. ASSUME UNCHANGED monitor PROVE ForwardInv'
  <2>1. \A i \in 1 .. Len(monitor.list) : monitor.list[i] \in Tasks /\ Started(monitor.list[i])
    BY DEF StatusInv, MonitorTyped, PlacesAreItsOwn
  <2>2. AnswersLag'
    <3> SUFFICES ASSUME monitor.at = "save", NEW i \in 1 .. Len(monitor.list)
                 PROVE  Stage(monitor.out[i].last) <= Stage(last'[monitor.list[i]])
      BY <1>5 DEF AnswersLag
    <3>1. Stage(monitor.out[i].last) <= Stage(last[monitor.list[i]])
      BY DEF ForwardInv, AnswersLag
    <3>2. Stage(last[monitor.list[i]]) <= Stage(last'[monitor.list[i]])
      BY <1>2, <2>1
    <3> QED
      BY <1>3, <3>1, <3>2
  <2>3. UnlistedAreStopped'
    <3>1. monitor.upd \subseteq Services
      BY DEF StatusInv, MonitorTyped
    <3> QED
      BY <1>1, <1>2, <1>5, <3>1 DEF ForwardInv, UnlistedAreStopped
  <2>4. ListedAreNotGivenUp' /\ AnswersAreNewer'
    BY <1>5 DEF ForwardInv, ListedAreNotGivenUp, AnswersAreNewer
  <2> QED
    BY <1>4, <2>2, <2>3, <2>4 DEF ForwardInv
<1> QED
  BY <1>4, <1>5

(* A round that ends, or begins, knows nothing.                            *)
LEMMA FreshRoundForward ==
  ASSUME RowsLag', monitor'.at # "save", monitor'.upd = {},
         \A s \in Services : monitor'.index[s] = {}
  PROVE  ForwardInv'
BY DEF ForwardInv, ListedAreNotGivenUp, UnlistedAreStopped, AnswersAreNewer, AnswersLag

LEMMA ListTasksForward ==
  ASSUME StatusInv, ForwardInv, ListTasks PROVE ForwardInv'
<1> DEFINE s == CHOOSE s \in monitor.todo : \A u \in monitor.todo : s <= u
           n == Len(monitor.list)
           k == Cardinality(Listed(s))
           todo == monitor.todo \ {s}
           next == [monitor EXCEPT !.todo = todo, !.at = AfterListing(todo)]
           listed(tasks) == [next EXCEPT !.upd = @ \cup {s}, !.list = @ \o tasks,
                               !.index[s] = Places(n, k)]
<1>1. UNCHANGED <<ecs, row, old>>
        /\ (\/ \E tasks \in Bijection(1 .. k, Listed(s)) : monitor' = listed(tasks)
            \/ monitor' = next)
  BY DEF ListTasks
<1>2. n \in Nat /\ monitor.list \in Seq(Tasks)
  BY DEF StatusInv, MonitorTyped
<1>3. monitor \in [at : {"read", "list", "describe", "save"}, todo : SUBSET Services,
                   upd : SUBSET Services, list : Seq(Tasks),
                   index : [Services -> SUBSET Nat], out : Seq(Answers)]
        /\ AfterListing(todo) # "save"
  BY DEF StatusInv, MonitorTyped, AfterListing
<1>4. IsFiniteSet(Listed(s)) /\ k \in Nat /\ Listed(s) \subseteq Tasks
  BY StatusAssumption, FS_Subset, FS_CardinalityType DEF Listed
<1>5. RowsLag'
  BY <1>1 DEF ForwardInv, RowsLag, ecs
<1>6. \A t \in Listed(s) : desired[t] = "RUNNING"
  BY DEF Listed
<1>7. \A u \in Services : row[u].task \in Tasks \cup {NoTask}
  BY DEF StatusInv, TableTyped, Rows
<1>8. NoTask \notin Tasks
  BY StatusAssumption
<1>9. k = 0 => Listed(s) = {}
  BY <1>4, FS_EmptySet
<1>10. \A u \in Services :
         u = s /\ Listed(s) = {} /\ row[u].task # NoTask => desired[row[u].task] = "STOPPED"
  BY <1>7 DEF Listed, StatusInv, EcsTyped, RowsNameTheirTask
<1> HIDE DEF s, k, todo, next, listed
<1>11. CASE monitor' = next
  <2>1. /\ monitor'.list = monitor.list /\ monitor'.index = monitor.index
        /\ monitor'.upd = monitor.upd /\ monitor'.at # "save"
    BY <1>3, <1>11 DEF next
  <2> QED
    BY <1>1, <1>5, <2>1 DEF ForwardInv, ListedAreNotGivenUp, UnlistedAreStopped,
      AnswersAreNewer, AnswersLag, ecs
<1>12. ASSUME NEW tasks \in Bijection(1 .. k, Listed(s)), monitor' = listed(tasks)
       PROVE  ForwardInv'
  <2>1. tasks \in [1 .. k -> Listed(s)] /\ tasks \in Seq(Tasks) /\ Len(tasks) = k
    BY <1>4 DEF Bijection, Injection
  <2> DEFINE list == monitor.list \o tasks
  <2>2. /\ \A i \in 1 .. n : list[i] = monitor.list[i]
        /\ \A i \in n + 1 .. n + k : list[i] \in Listed(s)
    BY <1>2, <1>4, <2>1
  <2> HIDE DEF list
  <2>3. /\ monitor'.list = list /\ monitor'.at # "save" /\ monitor'.upd = monitor.upd \cup {s}
        /\ monitor'.index = [monitor.index EXCEPT ![s] = Places(n, k)]
    BY <1>3, <1>12 DEF listed, next, list
  <2>4. \A u \in Services : u # s => monitor'.index[u] = monitor.index[u]
    BY <1>3, <2>3
  <2>5. s \in Services => monitor'.index[s] = n + 1 .. n + k
    BY <1>3, <2>3 DEF Places
  <2>6. ListedAreNotGivenUp'
    <3> SUFFICES ASSUME NEW u \in Services, NEW i \in monitor'.index[u], row[u].task = list[i]
                 PROVE  row[u].last # "NOT_CREATED"
      BY <1>1, <2>3 DEF ListedAreNotGivenUp
    <3>1. CASE u = s
      <4>1. row[u].task \in Listed(s)
        BY <2>2, <2>5, <3>1
      <4>2. row[u].task # NoTask /\ desired[row[u].task] = "RUNNING"
        BY <1>4, <1>6, <1>8, <4>1
      <4> QED
        BY <4>2 DEF ForwardInv, RowsLag
    <3>2. CASE u # s
      <4>1. i \in monitor.index[u] /\ i \in 1 .. n
        BY <2>4, <3>2 DEF StatusInv, PlacesAreItsOwn
      <4> QED
        BY <2>2, <4>1 DEF ForwardInv, ListedAreNotGivenUp
    <3> QED
      BY <3>1, <3>2
  <2>7. UnlistedAreStopped'
    <3> SUFFICES ASSUME NEW u \in monitor'.upd, u \in Services, monitor'.index[u] = {},
                        row[u].task # NoTask
                 PROVE  desired[row[u].task] = "STOPPED"
      <4>1. monitor'.upd \subseteq Services
        <5>1. s \in Services
          BY ListedService DEF s, ListTasks
        <5> QED
          BY <1>3, <2>3, <5>1
      <4> QED
        BY <1>1, <4>1 DEF UnlistedAreStopped, ecs
    <3>1. CASE u = s
      <4>1. n + 1 .. n + k = {}
        BY <2>5, <3>1
      <4>2. k = 0
        <5>1. k > 0 => n + 1 \in n + 1 .. n + k
          BY <1>2, <1>4
        <5> QED
          BY <1>4, <4>1, <5>1
      <4> QED
        BY <1>9, <1>10, <3>1, <4>2
    <3>2. CASE u # s
      BY <2>3, <2>4, <3>2 DEF ForwardInv, UnlistedAreStopped
    <3> QED
      BY <3>1, <3>2
  <2> QED
    BY <1>5, <2>3, <2>6, <2>7 DEF ForwardInv, AnswersAreNewer, AnswersLag
<1> QED
  BY <1>1, <1>11, <1>12

LEMMA DescribeTasksForward ==
  ASSUME StatusInv, ForwardInv, DescribeTasks PROVE ForwardInv'
<1>1. UNCHANGED <<ecs, row, old>>
  BY DEF DescribeTasks
<1>2. RowsLag'
  BY <1>1 DEF ForwardInv, RowsLag, ecs
<1>3. CASE monitor' = Rest
  <2>1. monitor'.at # "save" /\ monitor'.upd = {} /\ \A s \in Services : monitor'.index[s] = {}
    BY <1>3 DEF Rest
  <2> QED
    BY <1>2, <2>1, FreshRoundForward
<1>4. CASE monitor' # Rest
  <2> DEFINE out == [i \in DOMAIN monitor.list |->
                       LET t == monitor.list[i] IN
                       [task |-> t, last |-> last[t], desired |-> desired[t]]]
  <2>1. monitor' = [monitor EXCEPT !.at = "save", !.out = out]
    BY <1>4 DEF DescribeTasks
  <2>2. /\ monitor \in [at : {"read", "list", "describe", "save"}, todo : SUBSET Services,
                         upd : SUBSET Services, list : Seq(Tasks),
                         index : [Services -> SUBSET Nat], out : Seq(Answers)]
        /\ DOMAIN monitor.list = 1 .. Len(monitor.list)
    BY DEF StatusInv, MonitorTyped
  <2>3. \A i \in 1 .. Len(monitor.list) : out[i].last = last[monitor.list[i]]
    BY <2>2
  <2> HIDE DEF out
  <2>4. /\ monitor'.out = out /\ monitor'.list = monitor.list
        /\ monitor'.index = monitor.index /\ monitor'.upd = monitor.upd
    BY <2>1, <2>2
  <2>5. AnswersLag'
    <3>1. \A status : Stage(status) <= Stage(status)
      BY StageTyped
    <3> QED
      BY <1>1, <2>3, <2>4, <3>1 DEF AnswersLag, ecs
  <2>6. AnswersAreNewer'
    <3> SUFFICES ASSUME NEW s \in Services, NEW i \in monitor.index[s],
                        row[s].task = monitor.list[i]
                 PROVE  Stage(row[s].last) <= Stage(out[i].last)
      BY <1>1, <2>4 DEF AnswersAreNewer
    <3>1. i \in 1 .. Len(monitor.list) /\ monitor.list[i] \in Tasks /\ monitor.list[i] # NoTask
      <4>1. i \in 1 .. Len(monitor.list)
        BY DEF StatusInv, PlacesAreItsOwn
      <4>2. monitor.list[i] \in Tasks
        BY <2>2, <4>1
      <4> QED
        BY <4>1, <4>2, StatusAssumption
    <3>2. row[s].last # "NOT_CREATED"
      BY DEF ForwardInv, ListedAreNotGivenUp
    <3> QED
      BY <2>3, <3>1, <3>2 DEF ForwardInv, RowsLag
  <2>7. ListedAreNotGivenUp' /\ UnlistedAreStopped'
    BY <1>1, <2>4 DEF ForwardInv, ListedAreNotGivenUp, UnlistedAreStopped, ecs
  <2> QED
    BY <1>2, <2>5, <2>6, <2>7 DEF ForwardInv
<1> QED
  BY <1>3, <1>4

(* What a save makes of a row.                                             *)
LEMMA SavedRows ==
  ASSUME StatusInv, ForwardInv, SaveRows, NEW s \in Services
  PROVE  \/ row'[s] = row[s]
         \/ /\ row'[s].task = row[s].task /\ row'[s].last = "NOT_CREATED"
            /\ row[s].task # NoTask => desired[row[s].task] = "STOPPED"
         \/ /\ row'[s].last # "NOT_CREATED"
            /\ Stage(row'[s].last) <= Stage(last[row'[s].task])
            /\ row'[s].task = row[s].task => Stage(row[s].last) <= Stage(row'[s].last)
<1>1. monitor.at = "save" /\ (UNCHANGED row \/ \E unknown : Save(unknown))
  BY DEF SaveRows
<1>2. CASE UNCHANGED row
  BY <1>2
<1>3. ASSUME NEW unknown, Save(unknown)
      PROVE  \/ row'[s] = row[s]
             \/ /\ row'[s].task = row[s].task /\ row'[s].last = "NOT_CREATED"
                /\ row[s].task # NoTask => desired[row[s].task] = "STOPPED"
             \/ /\ row'[s].last # "NOT_CREATED"
                /\ Stage(row'[s].last) <= Stage(last[row'[s].task])
                /\ row'[s].task = row[s].task => Stage(row[s].last) <= Stage(row'[s].last)
  <2>1. CASE s \notin monitor.upd
    BY <1>3, <2>1 DEF Save
  <2>2. CASE s \in monitor.upd /\ monitor.index[s] = {}
    <3>1. row'[s] = [row[s] EXCEPT !.last = "NOT_CREATED"] /\ row[s] \in Rows
      BY <1>3, <2>2 DEF Save, StatusInv, TableTyped
    <3>2. row'[s].task = row[s].task /\ row'[s].last = "NOT_CREATED"
      BY <3>1 DEF Rows
    <3> QED
      BY <2>2, <3>2 DEF ForwardInv, UnlistedAreStopped
  <2>3. CASE s \in monitor.upd /\ monitor.index[s] # {}
    <3>1. PICK i \in monitor.index[s] : Newest(s) = monitor.out[i]
      BY <1>1, <2>3, NewestIsItsOwn
    <3>2. row'[s].last = monitor.out[i].last /\ row'[s].task = monitor.out[i].task
      <4>1. row'[s] = ShowsTask(s, unknown)
        BY <1>3, <2>3 DEF Save
      <4>2. /\ ShowsTask(s, unknown).last = Newest(s).last
            /\ ShowsTask(s, unknown).task = Newest(s).task
        BY DEF ShowsTask
      <4> QED
        BY <3>1, <4>1, <4>2
    <3>3. i \in 1 .. Len(monitor.list) /\ monitor.out[i].task = monitor.list[i]
            /\ monitor.out[i] \in Answers
      BY <1>1 DEF StatusInv, PlacesAreItsOwn, AnswersMatch, MonitorTyped
    <3>4. monitor.out[i].last # "NOT_CREATED"
      BY <3>3 DEF Answers
    <3>5. Stage(monitor.out[i].last) <= Stage(last[monitor.list[i]])
      BY <1>1, <3>3 DEF ForwardInv, AnswersLag
    <3>6. row[s].task = monitor.list[i] => Stage(row[s].last) <= Stage(monitor.out[i].last)
      BY <1>1, <3>1 DEF ForwardInv, AnswersAreNewer
    <3> QED
      BY <3>2, <3>3, <3>4, <3>5, <3>6
  <2> QED
    BY <2>1, <2>2, <2>3
<1> QED
  BY <1>1, <1>2, <1>3

LEMMA ForwardNext == ASSUME StatusInv, ForwardInv, [Next]_vars PROVE ForwardInv'
<1>1. CASE ListTasks
  BY <1>1, ListTasksForward
<1>2. CASE DescribeTasks
  BY <1>2, DescribeTasksForward
<1>3. CASE ReadRows
  <2>1. UNCHANGED row /\ monitor'.at # "save" /\ monitor'.upd = {}
          /\ \A s \in Services : monitor'.index[s] = {}
    BY <1>3 DEF ReadRows, Rest, AfterListing
  <2> QED
    BY <2>1, OldStaysOld, FreshRoundForward
<1>4. CASE SaveRows
  <2>1. monitor'.at # "save" /\ monitor'.upd = {} /\ \A s \in Services : monitor'.index[s] = {}
    BY <1>4 DEF SaveRows, Rest
  <2>2. RowsLag'
    <3>1. UNCHANGED <<last, desired>>
      BY <1>4 DEF SaveRows, ecs
    <3> SUFFICES ASSUME NEW s \in Services, row'[s].task # NoTask
                 PROVE  IF row'[s].last = "NOT_CREATED" THEN desired[row'[s].task] = "STOPPED"
                        ELSE Stage(row'[s].last) <= Stage(last[row'[s].task])
      BY <3>1 DEF RowsLag
    <3> QED
      BY <1>4, SavedRows DEF ForwardInv, RowsLag
  <2> QED
    BY <2>1, <2>2, FreshRoundForward
<1>5. CASE UNCHANGED <<row, monitor>>
  BY <1>5, OldStaysOld
<1> QED
  BY <1>1, <1>2, <1>3, <1>4, <1>5
  DEF Next, TaskStarts, TaskRuns, TaskStops, TaskEnds, Ages, vars

LEMMA GoesForward ==
  ASSUME StatusInv, ForwardInv, [Next]_vars, NEW s \in Services,
         row[s].task # NoTask, row'[s].task = row[s].task
  PROVE  Stage(row[s].last) <= Stage(row'[s].last)
<1>1. \A status : Stage(status) \in 1 .. 4
  BY StageTyped
<1>2. CASE UNCHANGED row
  BY <1>1, <1>2
<1>3. CASE SaveRows
  <2>1. Stage("NOT_CREATED") = 4
    BY DEF Stage
  <2> QED
    BY <1>1, <1>3, <2>1, SavedRows
<1> QED
  BY <1>2, <1>3 DEF Next, TaskStarts, TaskRuns, TaskStops, TaskEnds, Ages, ReadRows, ListTasks,
    DescribeTasks, vars

-----------------------------------------------------------------------------
(* The theorems.                                                           *)

LEMMA StatusHolds == Spec => []StatusInv
BY StatusInit, StatusNext, PTL DEF Spec

(* Every variable keeps to the values the code can give it, the places of  *)
(* every service's tasks among them.                                       *)
THEOREM StatusTypesAreKept == Spec => []TypeOK
BY StatusHolds, StatusInvTypes, PTL

(* A row that says RUNNING names a task of its own service, and has the    *)
(* address of that task or none: although the answers for all services come*)
(* in one list, and tasks are replaced between the calls of a round.  It   *)
(* never has one if UsePublicIpv4 asks for a public address and the service*)
(* was not created on Fargate; otherwise it lacks it only after a failure. *)
THEOREM RowsPointToTheirTask == Spec => []RunningRowsPointToTheirTask
<1>1. StatusInv => RunningRowsPointToTheirTask
  BY DEF StatusInv
<1> QED
  BY <1>1, StatusHolds, PTL

(* The status a row shows of one task never goes back.                     *)
THEOREM StatusesGoForward == Spec => StatusGoesForward
<1>1. StatusInv /\ ForwardInv /\ [Next]_vars => ForwardInv'
  BY ForwardNext
<1>2. StatusInv /\ ForwardInv /\ [Next]_vars =>
        [\A s \in Services :
           row[s].task # NoTask /\ row'[s].task = row[s].task =>
             Stage(row[s].last) <= Stage(row'[s].last)]_vars
  BY GoesForward
<1> QED
  BY <1>1, <1>2, StatusHolds, ForwardInit, PTL DEF Spec, StatusGoesForward
=============================================================================
