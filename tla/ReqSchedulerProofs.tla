-------------------------- MODULE ReqSchedulerProofs --------------------------
(***************************************************************************)
(* Theorems about ReqScheduler, for every set of calls and services, every *)
(* size of them, every bound on failures and restarts and both scheduling  *)
(* algorithms: type correctness, that neither algorithm lets the records   *)
(* promise more of an instance than it has, and that neither passes over an*)
(* instance that has room.                                                 *)
(***************************************************************************)
EXTENDS ReqScheduler, FiniteOrders, FiniteSetTheorems, TLAPS

(***************************************************************************)
(* The type invariant, made inductive: a record's number is the number of  *)
(* rows its request already has, so the table must be finite; and whenever *)
(* ScheduleRoutine is past its Peek it holds a request.                    *)
(***************************************************************************)
TypeInv ==
  /\ TypeOK
  /\ IsFiniteSet(reqInfo)
  /\ at # "select" => peeked \in Requests
  /\ at = "pop" => chosen \in Services

LEMMA CurrentIsRequest ==
  ASSUME NEW c \in Calls, attempt \in [Calls -> 1 .. MaxRetry]
  PROVE  Current(c) \in Requests
BY DEF Current, Requests

(* What a client's retry does to its two variables.                        *)
LEMMA RetryTyped ==
  ASSUME TypeOK, NEW c \in Calls, RetryOrFail(c)
  PROVE  phase' \in [Calls -> Phases] /\ attempt' \in [Calls -> 1 .. MaxRetry]
<1>1. MaxRetry \in Nat \ {0}
  BY SchedulerAssumption
<1>2. CASE attempt[c] = MaxRetry
  BY <1>2 DEF RetryOrFail, TypeOK, Phases, Finished
<1>3. CASE attempt[c] # MaxRetry
  <2>1. attempt[c] + 1 \in 1 .. MaxRetry
    BY <1>1, <1>3 DEF TypeOK
  <2> QED
    BY <1>3, <2>1 DEF RetryOrFail, TypeOK, Phases, Finished
<1> QED
  BY <1>2, <1>3

(* Both algorithms choose among the instances they are given.              *)
LEMMA ChoicesAreOffered ==
  ASSUME NEW r, NEW recs, NEW ins
  PROVE  Choices(r, recs, ins) \subseteq ins
BY DEF Choices, OneTaskChoices, BaseChoices

LEMMA NewRecordTyped ==
  ASSUME TypeInv, at = "place", NEW s \in Services
  PROVE  NewRecord(s) \in Records
<1>1. IsFiniteSet({rec \in reqInfo : rec.req = peeked})
  BY FS_Subset DEF TypeInv
<1>2. Cardinality({rec \in reqInfo : rec.req = peeked}) \in Nat
  BY <1>1, FS_CardinalityType
<1> QED
  BY <1>2 DEF NewRecord, Records, TypeInv

LEMMA PeekTyped ==
  ASSUME TypeInv, Peek
  PROVE  /\ at' \in {"select", "instances", "records", "place", "pop"}
         /\ peeked' \in Requests \cup {NoReq}
         /\ found' \subseteq Services /\ recorded' \subseteq Records
         /\ chosen' \in Services \cup {NoSvc}
         /\ at' # "select" => peeked' \in Requests
         /\ at' = "pop" => chosen' \in Services
<1>1. CASE queue = <<>>
  BY <1>1 DEF Peek, schedVars, TypeInv, TypeOK
<1>2. CASE queue # <<>>
  <2>1. Head(queue) \in Requests
    BY <1>2 DEF TypeInv, TypeOK
  <2> QED
    BY <1>2, <2>1 DEF Peek, TypeInv, TypeOK
<1> QED
  BY <1>1, <1>2

LEMMA TypeInit == Init => TypeInv
<1> SUFFICES ASSUME Init PROVE TypeInv
  OBVIOUS
<1>1. IsFiniteSet(reqInfo)
  BY FS_EmptySet DEF Init
<1>2. MaxRetry \in Nat \ {0} /\ InitialReady \subseteq Services /\ MaxFaults \in Nat /\ MaxRestarts \in Nat
  BY SchedulerAssumption
<1>3. queue \in Seq(Requests)
  BY DEF Init
<1> QED
  BY <1>1, <1>2, <1>3 DEF Init, TypeInv, TypeOK, Phases, Finished, Stages

(* Deleting rows, and adding one, keep the table finite and typed.         *)
LEMMA RowsTyped ==
  ASSUME TypeInv
  PROVE  /\ \A r : Without(reqInfo, r) \subseteq Records /\ IsFiniteSet(Without(reqInfo, r))
         /\ \A rec \in Records :
              reqInfo \cup {rec} \subseteq Records /\ IsFiniteSet(reqInfo \cup {rec})
<1>1. ASSUME NEW r
      PROVE  Without(reqInfo, r) \subseteq Records /\ IsFiniteSet(Without(reqInfo, r))
  BY FS_Subset DEF Without, TypeInv, TypeOK
<1>2. ASSUME NEW rec \in Records
      PROVE  reqInfo \cup {rec} \subseteq Records /\ IsFiniteSet(reqInfo \cup {rec})
  BY FS_AddElement DEF TypeInv, TypeOK
<1> QED
  BY <1>1, <1>2

LEMMA FaultTyped ==
  ASSUME TypeOK, NEW kind, Fault(kind)
  PROVE  faults' \in 0 .. MaxFaults /\ restarts' \in 0 .. MaxRestarts
BY SchedulerAssumption DEF Fault, TypeOK

LEMMA ToSelectTyped ==
  ASSUME ToSelect
  PROVE  /\ at' = "select" /\ peeked' \in Requests \cup {NoReq}
         /\ found' \subseteq Services /\ recorded' \subseteq Records
         /\ chosen' \in Services \cup {NoSvc}
BY DEF ToSelect

LEMMA TypeClients ==
  ASSUME TypeInv, NEW c \in Calls,
         CallFunction(c) \/ NextIDFails(c) \/ SubmitRequest(c) \/ Trigger(c)
  PROVE  TypeInv'
<1> USE DEF callVars, schedVars, callee, counters
<1>1. CASE CallFunction(c)
  BY <1>1 DEF CallFunction, TypeInv, TypeOK, Phases
<1>2. CASE NextIDFails(c)
  BY <1>2, RetryTyped, FaultTyped DEF NextIDFails, TypeInv, TypeOK
<1>3. CASE SubmitRequest(c)
  BY <1>3, CurrentIsRequest DEF SubmitRequest, TypeInv, TypeOK, Phases
<1>4. CASE Trigger(c)
  BY <1>4, PeekTyped DEF Trigger, TypeInv, TypeOK, Phases
<1> QED
  BY <1>1, <1>2, <1>3, <1>4

LEMMA TypeScheduling ==
  ASSUME TypeInv, Tick \/ ReadInstances \/ ReadRecords \/ Place \/ PopAndCall
  PROVE  TypeInv'
<1> USE DEF callVars, schedVars, callee, counters
<1>1. CASE Tick
  BY <1>1, PeekTyped DEF Tick, TypeInv, TypeOK
<1>2. CASE ReadInstances
  <2>1. CASE Fault("read") /\ ToSelect
    BY <1>2, <2>1, FaultTyped, ToSelectTyped DEF ReadInstances, TypeInv, TypeOK
  <2>2. CASE ~ (Fault("read") /\ ToSelect)
    BY <1>2, <2>2 DEF ReadInstances, TypeInv, TypeOK
  <2> QED
    BY <2>1, <2>2
<1>3. CASE ReadRecords
  <2>1. CASE Fault("read") /\ ToSelect
    BY <1>3, <2>1, FaultTyped, ToSelectTyped DEF ReadRecords, TypeInv, TypeOK
  <2>2. CASE ~ (Fault("read") /\ ToSelect)
    BY <1>3, <2>2 DEF ReadRecords, RecordsOf, TypeInv, TypeOK
  <2> QED
    BY <2>1, <2>2
<1>4. CASE Place
  <2>1. CASE ToSelect /\ UNCHANGED <<reqInfo, counters>>
    BY <1>4, <2>1, ToSelectTyped DEF Place, TypeInv, TypeOK
  <2>2. CASE \E s \in Choices(peeked, recorded, found) :
               /\ reqInfo' = reqInfo \cup {NewRecord(s)}
               /\ at' = "pop" /\ chosen' = s /\ UNCHANGED <<peeked, found, recorded, counters>>
    <3>1. PICK s \in Choices(peeked, recorded, found) :
               /\ reqInfo' = reqInfo \cup {NewRecord(s)}
               /\ at' = "pop" /\ chosen' = s /\ UNCHANGED <<peeked, found, recorded, counters>>
      BY <2>2
    <3>2. s \in Services /\ at = "place"
      BY <1>4, ChoicesAreOffered DEF Place, TypeInv, TypeOK
    <3>3. reqInfo' \subseteq Records /\ IsFiniteSet(reqInfo')
      BY <3>1, <3>2, NewRecordTyped, RowsTyped
    <3> QED
      BY <1>4, <3>1, <3>2, <3>3 DEF Place, TypeInv, TypeOK
  <2>3. CASE \E s \in Choices(peeked, recorded, found) :
               Fault("lostAck") /\ reqInfo' = reqInfo \cup {NewRecord(s)} /\ ToSelect
    <3>1. PICK s \in Choices(peeked, recorded, found) :
               Fault("lostAck") /\ reqInfo' = reqInfo \cup {NewRecord(s)} /\ ToSelect
      BY <2>3
    <3>2. s \in Services /\ at = "place"
      BY <1>4, ChoicesAreOffered DEF Place, TypeInv, TypeOK
    <3>3. reqInfo' \subseteq Records /\ IsFiniteSet(reqInfo')
      BY <3>1, <3>2, NewRecordTyped, RowsTyped
    <3> QED
      BY <1>4, <3>1, <3>3, FaultTyped, ToSelectTyped DEF Place, TypeInv, TypeOK
  <2>4. CASE Fault("write") /\ ToSelect /\ UNCHANGED reqInfo
    BY <1>4, <2>4, FaultTyped, ToSelectTyped DEF Place, TypeInv, TypeOK
  <2> QED
    BY <1>4, <2>1, <2>2, <2>3, <2>4 DEF Place
<1>5. CASE PopAndCall
  <2>1. queue' \in Seq(Requests)
    <3>1. CASE queue = <<>>
      BY <1>5, <3>1 DEF PopAndCall, TypeInv, TypeOK
    <3>2. CASE queue # <<>>
      BY <1>5, <3>2 DEF PopAndCall, TypeInv, TypeOK
    <3> QED
      BY <3>1, <3>2
  <2> QED
    BY <1>5, <2>1, ToSelectTyped DEF PopAndCall, TypeInv, TypeOK, Stages
<1> QED
  BY <1>1, <1>2, <1>3, <1>4, <1>5

LEMMA TypeServing ==
  ASSUME TypeInv, NEW r \in Requests,
         \/ Dial(r) \/ DialFails(r) \/ Answer(r) \/ Expire(r) \/ WorkerEnds(r)
         \/ Reply(r) \/ DeleteRecord(r)
  PROVE  TypeInv'
<1> USE DEF callVars, schedVars, callee, counters
<1>1. ASSUME NEW from, NEW to \in Stages, SetStage(r, from, to)
      PROVE  routine' \in [Requests -> Stages]
  BY <1>1 DEF SetStage, TypeInv, TypeOK
<1>2. {"await", "okReply", "errReply", "cleanup", "done"} \subseteq Stages
  BY DEF Stages
<1>3. CASE Dial(r)
  BY <1>1, <1>2, <1>3 DEF Dial, TypeInv, TypeOK
<1>4. CASE DialFails(r)
  BY <1>1, <1>2, <1>4 DEF DialFails, TypeInv, TypeOK
<1>5. CASE Answer(r)
  BY <1>1, <1>2, <1>5 DEF Answer, TypeInv, TypeOK
<1>6. CASE Expire(r)
  BY <1>1, <1>2, <1>6 DEF Expire, TypeInv, TypeOK
<1>7. CASE WorkerEnds(r)
  BY <1>7 DEF WorkerEnds, TypeInv, TypeOK
<1>8. CASE Reply(r)
  <2>1. r.call \in Calls
    BY DEF Requests
  <2>2. phase' \in [Calls -> Phases] /\ attempt' \in [Calls -> 1 .. MaxRetry]
    BY <1>8, <2>1, RetryTyped DEF Reply, TypeInv, TypeOK, Phases, Finished
  <2> QED
    BY <1>1, <1>2, <1>8, <2>2 DEF Reply, TypeInv, TypeOK
<1>9. CASE DeleteRecord(r)
  <2>1. routine' \in [Requests -> Stages]
    BY <1>1, <1>2, <1>9 DEF DeleteRecord
  <2>2. reqInfo' \subseteq Records /\ IsFiniteSet(reqInfo')
    BY <1>9, RowsTyped DEF DeleteRecord, TypeInv, TypeOK
  <2>3. faults' \in 0 .. MaxFaults /\ restarts' \in 0 .. MaxRestarts
    BY <1>9, FaultTyped DEF DeleteRecord, TypeInv, TypeOK
  <2> QED
    BY <1>9, <2>1, <2>2, <2>3 DEF DeleteRecord, TypeInv, TypeOK
<1> QED
  BY <1>3, <1>4, <1>5, <1>6, <1>7, <1>8, <1>9

LEMMA TypeEnvironment ==
  ASSUME TypeInv, (\E s \in Services : InstanceChanges(s)) \/ Restart
  PROVE  TypeInv'
<1> USE DEF callVars, schedVars, callee, counters
<1>1. CASE \E s \in Services : InstanceChanges(s)
  BY <1>1 DEF InstanceChanges, TypeInv, TypeOK
<1>2. CASE Restart
  <2>1. faults' \in 0 .. MaxFaults
    BY <1>2, SchedulerAssumption DEF Restart, TypeInv, TypeOK
  <2>2. reqInfo' \subseteq Records /\ IsFiniteSet(reqInfo')
    <3>1. CASE reqInfo' = {}
      BY <3>1, FS_EmptySet
    <3>2. CASE reqInfo' = reqInfo
      BY <3>2 DEF TypeInv, TypeOK
    <3> QED
      BY <1>2, <3>1, <3>2 DEF Restart
  <2>3. phase' \in [Calls -> Phases]
    BY <1>2 DEF Restart, RestartProcess, TypeInv, TypeOK, Phases, Finished
  <2>4. routine' \in [Requests -> Stages]
    BY <1>2 DEF Restart, RestartProcess, TypeInv, TypeOK, Stages
  <2>5. restarts' \in 0 .. MaxRestarts /\ queue' \in Seq(Requests)
    BY <1>2, SchedulerAssumption DEF Restart, RestartProcess, TypeInv, TypeOK
  <2> QED
    BY <1>2, <2>1, <2>2, <2>3, <2>4, <2>5, ToSelectTyped DEF Restart, RestartProcess, TypeInv, TypeOK
<1> QED
  BY <1>1, <1>2

LEMMA TypeNext == TypeInv /\ [Next]_vars => TypeInv'
<1> SUFFICES ASSUME TypeInv, [Next]_vars PROVE TypeInv'
  OBVIOUS
<1>1. CASE \E c \in Calls : CallFunction(c) \/ NextIDFails(c) \/ SubmitRequest(c) \/ Trigger(c)
  BY <1>1, TypeClients
<1>2. CASE Tick \/ ReadInstances \/ ReadRecords \/ Place \/ PopAndCall
  BY <1>2, TypeScheduling
<1>3. CASE \E r \in Requests :
             \/ Dial(r) \/ DialFails(r) \/ Answer(r) \/ Expire(r) \/ WorkerEnds(r)
             \/ Reply(r) \/ DeleteRecord(r)
  BY <1>3, TypeServing
<1>4. CASE (\E s \in Services : InstanceChanges(s)) \/ Restart
  BY <1>4, TypeEnvironment
<1>5. CASE UNCHANGED vars
  BY <1>5 DEF vars, schedVars, callee, counters, TypeInv, TypeOK
<1> QED
  BY <1>1, <1>2, <1>3, <1>4, <1>5 DEF Next

(***************************************************************************)
(* Every variable keeps to its type in every reachable state.              *)
(***************************************************************************)
THEOREM TypeCorrect == Spec => []TypeOK
<1>1. TypeInv => TypeOK
  BY DEF TypeInv
<1> QED
  BY <1>1, TypeInit, TypeNext, PTL DEF Spec

-----------------------------------------------------------------------------
(* Sums over records.                                                      *)

LEMMA UnitsOfSubset ==
  ASSUME NEW S, NEW T, S \subseteq T, NEW need
  PROVE  Units(S, need) \subseteq Units(T, need)
BY DEF Units

LEMMA UnitsOfNew ==
  ASSUME NEW S, NEW n, NEW need
  PROVE  Units(S \cup {n}, need) = Units(S, need) \cup ({n} \X (1 .. need[n.req.call]))
BY DEF Units

LEMMA OwnUnits ==
  ASSUME NEW n, NEW k \in Nat
  PROVE  /\ IsFiniteSet({n} \X (1 .. k))
         /\ Cardinality({n} \X (1 .. k)) = k
<1>1. IsFiniteSet({n}) /\ Cardinality({n}) = 1
  BY FS_Singleton
<1>2. IsFiniteSet(1 .. k) /\ Cardinality(1 .. k) = k
  BY FS_Interval
<1>3. /\ IsFiniteSet({n} \X (1 .. k))
      /\ Cardinality({n} \X (1 .. k)) = 1 * Cardinality(1 .. k)
  BY <1>1, <1>2, FS_Product
<1> QED
  BY <1>2, <1>3

(* Forgetting records never raises the load of an instance.                *)
LEMMA LoadOfSubset ==
  ASSUME NEW S, NEW T, S \subseteq T, NEW need, IsFiniteSet(Units(T, need)), NEW s
  PROVE  /\ Cardinality(Units(On(S, s), need)) \in Nat
         /\ Cardinality(Units(On(T, s), need)) \in Nat
         /\ Cardinality(Units(On(S, s), need)) <= Cardinality(Units(On(T, s), need))
<1>1. Units(On(T, s), need) \subseteq Units(T, need)
  BY UnitsOfSubset DEF On
<1>2. IsFiniteSet(Units(On(T, s), need))
  BY <1>1, FS_Subset
<1>3. Units(On(S, s), need) \subseteq Units(On(T, s), need)
  BY UnitsOfSubset DEF On
<1>4. /\ IsFiniteSet(Units(On(S, s), need))
      /\ Cardinality(Units(On(S, s), need)) <= Cardinality(Units(On(T, s), need))
  BY <1>2, <1>3, FS_Subset
<1> QED
  BY <1>2, <1>4, FS_CardinalityType

(* A new record adds at most its own need to the instance it names, and    *)
(* nothing to any other.                                                   *)
LEMMA LoadOfNew ==
  ASSUME NEW S, NEW n, NEW need, IsFiniteSet(Units(S, need)), need[n.req.call] \in Nat, NEW s
  PROVE  /\ n.svc # s => Units(On(S \cup {n}, s), need) = Units(On(S, s), need)
         /\ n.svc = s =>
              Cardinality(Units(On(S \cup {n}, s), need))
                <= Cardinality(Units(On(S, s), need)) + need[n.req.call]
         /\ IsFiniteSet(Units(S \cup {n}, need))
<1>1. CASE n.svc # s
  <2>1. On(S \cup {n}, s) = On(S, s)
    BY <1>1 DEF On
  <2>2. IsFiniteSet(Units(S, need) \cup ({n} \X (1 .. need[n.req.call])))
    BY OwnUnits, FS_Union
  <2>3. IsFiniteSet(Units(S \cup {n}, need))
    <3>1. Units(S \cup {n}, need) = Units(S, need) \cup ({n} \X (1 .. need[n.req.call]))
      BY UnitsOfNew
    <3> QED
      BY <2>2, <3>1
  <2>4. Units(On(S \cup {n}, s), need) = Units(On(S, s), need)
    BY <2>1
  <2> QED
    BY <1>1, <2>3, <2>4
<1>2. CASE n.svc = s
  <2> DEFINE A == Units(On(S, s), need)
             B == {n} \X (1 .. need[n.req.call])
  <2>1. On(S \cup {n}, s) = On(S, s) \cup {n}
    BY <1>2 DEF On
  <2>2. Units(On(S \cup {n}, s), need) = A \cup B
    <3>1. Units(On(S, s) \cup {n}, need) = A \cup B
      BY UnitsOfNew
    <3> QED
      BY <2>1, <3>1
  <2>3. IsFiniteSet(A) /\ Cardinality(A) \in Nat
    <3>1. A \subseteq Units(S, need)
      BY UnitsOfSubset DEF On
    <3> QED
      BY <3>1, FS_Subset, FS_CardinalityType
  <2>4. IsFiniteSet(B) /\ Cardinality(B) = need[n.req.call]
    BY OwnUnits
  <2>5. Cardinality(A \cup B) = Cardinality(A) + Cardinality(B) - Cardinality(A \cap B)
    BY <2>3, <2>4, FS_Union
  <2>6. Cardinality(A \cap B) \in Nat
    BY <2>3, FS_Intersection, FS_CardinalityType
  <2>7. IsFiniteSet(Units(S, need) \cup B)
    BY <2>4, FS_Union
  <2>8. Units(S \cup {n}, need) = Units(S, need) \cup B
    BY UnitsOfNew
  <2> HIDE DEF A, B
  <2>9. Cardinality(A \cup B) <= Cardinality(A) + need[n.req.call]
    BY <2>3, <2>4, <2>5, <2>6
  <2> QED
    BY <1>2, <2>2, <2>7, <2>8, <2>9 DEF A
<1> QED
  BY <1>1, <1>2

-----------------------------------------------------------------------------
(* Neither algorithm overcommits an instance.                              *)

(* The records leave no instance with more load than it has, and the sums  *)
(* are over finite sets.                                                   *)
Fits(recs) ==
  /\ IsFiniteSet(Units(recs, ReqCpu)) /\ IsFiniteSet(Units(recs, ReqMem))
  /\ \A s \in Services : CpuUsed(recs, s) <= InsCpu[s] /\ MemUsed(recs, s) <= InsMem[s]

(* A record names an instance of its request's own function.               *)
RecordsAtHome == \A rec \in reqInfo : OwnerOf[rec.svc] = FuncOf[rec.req.call]

(* What Schedule has read is still good when it decides: its instances are *)
(* of the request's function, and its records, though other goroutines may *)
(* have deleted some, lack none that the table has.                        *)
FoundAtHome ==
  at \in {"records", "place"} => \A s \in found : OwnerOf[s] = FuncOf[peeked.call]

SnapshotIsSafe ==
  at = "place" => RecordsOf(reqInfo, FuncOf[peeked.call]) \subseteq recorded /\ Fits(recorded)

(***************************************************************************)
(* The inductive invariant.  NoOvercommit alone is not inductive: a step   *)
(* that writes a record decides on a snapshot, so the invariant must say   *)
(* that the snapshot overestimates the load, and that only the request's   *)
(* own function, whose records the snapshot holds, loads the instance.     *)
(***************************************************************************)
LoadInv ==
  /\ TypeInv
  /\ Fits(reqInfo) /\ OneRecordPerNode
  /\ RecordsAtHome /\ FoundAtHome /\ SnapshotIsSafe

LEMMA FitsSubset ==
  ASSUME NEW S, NEW T, S \subseteq T, Fits(T)
  PROVE  Fits(S)
<1>1. IsFiniteSet(Units(S, ReqCpu)) /\ IsFiniteSet(Units(S, ReqMem))
  BY UnitsOfSubset, FS_Subset DEF Fits
<1>2. ASSUME NEW s \in Services
      PROVE  CpuUsed(S, s) <= InsCpu[s] /\ MemUsed(S, s) <= InsMem[s]
  <2>1. /\ CpuUsed(S, s) \in Nat /\ CpuUsed(T, s) \in Nat
        /\ CpuUsed(S, s) <= CpuUsed(T, s)
    BY LoadOfSubset DEF Fits, CpuUsed
  <2>2. /\ MemUsed(S, s) \in Nat /\ MemUsed(T, s) \in Nat
        /\ MemUsed(S, s) <= MemUsed(T, s)
    BY LoadOfSubset DEF Fits, MemUsed
  <2> QED
    BY <2>1, <2>2, ResourceAssumption DEF Fits
<1> QED
  BY <1>1, <1>2 DEF Fits

(* On an instance that fits, the check of either algorithm is exact: no    *)
(* sum leaves int32.                                                       *)
LEMMA ChoiceHasRoom ==
  ASSUME NEW r \in Requests, NEW recs, Fits(recs), NEW ins \in SUBSET Services,
         NEW s \in Choices(r, recs, ins)
  PROVE  /\ CpuUsed(recs, s) + ReqCpu[r.call] <= InsCpu[s]
         /\ MemUsed(recs, s) + ReqMem[r.call] <= InsMem[s]
<1>1. s \in Services /\ r.call \in Calls
  BY ChoicesAreOffered DEF Requests
<1>2. /\ ReqCpu[r.call] \in Nat /\ ReqMem[r.call] \in Nat /\ MaxInt \in Nat
      /\ InsCpu[s] \in Nat /\ InsMem[s] \in Nat
      /\ InsCpu[s] + ReqCpu[r.call] <= MaxInt /\ InsMem[s] + ReqMem[r.call] <= MaxInt
  BY <1>1, ResourceAssumption, HeadroomAssumption
<1>3. CpuUsed(recs, s) \in Nat /\ MemUsed(recs, s) \in Nat
  <2>1. Cardinality(Units(On(recs, s), ReqCpu)) \in Nat
    BY LoadOfSubset DEF Fits
  <2>2. Cardinality(Units(On(recs, s), ReqMem)) \in Nat
    BY LoadOfSubset DEF Fits
  <2> QED
    BY <2>1, <2>2 DEF CpuUsed, MemUsed
<1>4. CASE SchedulerType = "one_task_per_node"
  <2>1. On(recs, s) = {} /\ InsCpu[s] >= ReqCpu[r.call] /\ InsMem[s] >= ReqMem[r.call]
    BY <1>4 DEF Choices, OneTaskChoices
  <2>2. \A need : Units({}, need) = {}
    BY DEF Units
  <2>3. CpuUsed(recs, s) = 0 /\ MemUsed(recs, s) = 0
    BY <2>1, <2>2, FS_EmptySet DEF CpuUsed, MemUsed
  <2> QED
    BY <1>2, <2>1, <2>3
<1>5. CASE SchedulerType # "one_task_per_node"
  <2>1. /\ Int32(CpuUsed(recs, s) + ReqCpu[r.call]) <= InsCpu[s]
        /\ Int32(MemUsed(recs, s) + ReqMem[r.call]) <= InsMem[s]
    BY <1>5 DEF Choices, BaseChoices, BaseFits
  <2>2. CpuUsed(recs, s) <= InsCpu[s] /\ MemUsed(recs, s) <= InsMem[s]
    BY <1>1 DEF Fits
  <2>3. /\ CpuUsed(recs, s) + ReqCpu[r.call] \in -MaxInt - 1 .. MaxInt
        /\ MemUsed(recs, s) + ReqMem[r.call] \in -MaxInt - 1 .. MaxInt
    BY <1>2, <1>3, <2>2
  <2> QED
    BY <2>1, <2>3 DEF Int32
<1> QED
  BY <1>4, <1>5

(* The heart of the argument: the row Place writes fits.                   *)
LEMMA PlacedRecordFits ==
  ASSUME LoadInv, at = "place", NEW s \in Choices(peeked, recorded, found)
  PROVE  /\ Fits(reqInfo \cup {NewRecord(s)})
         /\ OwnerOf[s] = FuncOf[peeked.call]
         /\ SchedulerType = "one_task_per_node" => \A rec \in reqInfo : rec.svc # s
<1> DEFINE n == NewRecord(s)
           after == reqInfo \cup {n}
<1>1. n.req = peeked /\ n.svc = s
  BY DEF NewRecord
<1>2. s \in found /\ s \in Services /\ OwnerOf[s] = FuncOf[peeked.call]
  BY ChoicesAreOffered DEF LoadInv, FoundAtHome, TypeInv, TypeOK
<1>3. On(reqInfo, s) \subseteq On(recorded, s)
  BY <1>2 DEF LoadInv, RecordsAtHome, SnapshotIsSafe, RecordsOf, On
<1>4. peeked \in Requests /\ peeked.call \in Calls /\ ReqCpu[peeked.call] \in Nat
                          /\ ReqMem[peeked.call] \in Nat
  BY ResourceAssumption DEF LoadInv, TypeInv, Requests
<1>5. Fits(recorded) /\ Fits(reqInfo) /\ found \in SUBSET Services
  BY DEF LoadInv, SnapshotIsSafe, TypeInv, TypeOK
<1>6. /\ CpuUsed(recorded, s) + ReqCpu[peeked.call] <= InsCpu[s]
      /\ MemUsed(recorded, s) + ReqMem[peeked.call] <= InsMem[s]
  BY <1>4, <1>5, ChoiceHasRoom
<1>7. ASSUME NEW need, NEW cap \in Int, IsFiniteSet(Units(reqInfo, need)),
             IsFiniteSet(Units(recorded, need)), need[peeked.call] \in Nat,
             Cardinality(Units(On(recorded, s), need)) + need[peeked.call] <= cap
      PROVE  Cardinality(Units(On(after, s), need)) <= cap
  <2>1. Units(On(On(reqInfo, s), s), need) = Units(On(reqInfo, s), need)
    <3>1. On(On(reqInfo, s), s) = On(reqInfo, s)
      BY DEF On
    <3> QED
      BY <3>1
  <2>2. Units(On(On(recorded, s), s), need) = Units(On(recorded, s), need)
    <3>1. On(On(recorded, s), s) = On(recorded, s)
      BY DEF On
    <3> QED
      BY <3>1
  <2>3. IsFiniteSet(Units(On(recorded, s), need))
    <3>1. Units(On(recorded, s), need) \subseteq Units(recorded, need)
      BY UnitsOfSubset DEF On
    <3> QED
      BY <1>7, <3>1, FS_Subset
  <2>4. /\ Cardinality(Units(On(On(reqInfo, s), s), need)) \in Nat
        /\ Cardinality(Units(On(On(recorded, s), s), need)) \in Nat
        /\ Cardinality(Units(On(On(reqInfo, s), s), need))
             <= Cardinality(Units(On(On(recorded, s), s), need))
    BY <1>3, <2>3, LoadOfSubset
  <2>5. Cardinality(Units(On(after, s), need))
          <= Cardinality(Units(On(reqInfo, s), need)) + need[peeked.call]
    BY <1>1, <1>7, LoadOfNew
  <2>6. Cardinality(Units(On(after, s), need)) \in Nat
    <3>1. IsFiniteSet(Units(after, need))
      BY <1>1, <1>7, LoadOfNew
    <3> QED
      BY <3>1, LoadOfSubset
  <2> HIDE DEF after
  <2> QED
    BY <1>7, <2>1, <2>2, <2>4, <2>5, <2>6
<1>8. IsFiniteSet(Units(after, ReqCpu)) /\ IsFiniteSet(Units(after, ReqMem))
  BY <1>1, <1>4, <1>5, LoadOfNew DEF Fits
<1>9. ASSUME NEW t \in Services
      PROVE  CpuUsed(after, t) <= InsCpu[t] /\ MemUsed(after, t) <= InsMem[t]
  <2>1. CASE t = s
    <3>1. InsCpu[s] \in Int /\ InsMem[s] \in Int
      BY <1>2, ResourceAssumption
    <3>2. /\ IsFiniteSet(Units(reqInfo, ReqCpu)) /\ IsFiniteSet(Units(recorded, ReqCpu))
          /\ IsFiniteSet(Units(reqInfo, ReqMem)) /\ IsFiniteSet(Units(recorded, ReqMem))
      BY <1>5 DEF Fits
    <3>3. Cardinality(Units(On(after, s), ReqCpu)) <= InsCpu[s]
      BY <1>4, <1>6, <1>7, <3>1, <3>2 DEF CpuUsed
    <3>4. Cardinality(Units(On(after, s), ReqMem)) <= InsMem[s]
      BY <1>4, <1>6, <1>7, <3>1, <3>2 DEF MemUsed
    <3> QED
      BY <2>1, <3>3, <3>4 DEF CpuUsed, MemUsed
  <2>2. CASE t # s
    <3>1. On(after, t) = On(reqInfo, t)
      BY <1>1, <2>2 DEF On
    <3> QED
      BY <1>5, <3>1 DEF Fits, CpuUsed, MemUsed
  <2> QED
    BY <2>1, <2>2
<1>10. Fits(after)
  BY <1>8, <1>9 DEF Fits
<1>11. ASSUME SchedulerType = "one_task_per_node", NEW rec \in reqInfo
       PROVE  rec.svc # s
  BY <1>3, <1>11 DEF Choices, OneTaskChoices, On
<1> QED
  BY <1>2, <1>10, <1>11

LEMMA LoadInit == Init => LoadInv
<1> SUFFICES ASSUME Init PROVE LoadInv
  OBVIOUS
<1>1. \A need : Units({}, need) = {}
  BY DEF Units
<1>2. \A s : CpuUsed({}, s) = 0 /\ MemUsed({}, s) = 0
  BY <1>1, FS_EmptySet DEF CpuUsed, MemUsed, On
<1>3. Fits({})
  BY <1>1, <1>2, FS_EmptySet, ResourceAssumption DEF Fits
<1> QED
  BY <1>3, TypeInit
  DEF Init, LoadInv, OneRecordPerNode, RecordsAtHome, FoundAtHome, SnapshotIsSafe

(* Steps that only delete rows, and leave ScheduleRoutine alone or at its  *)
(* select, keep the invariant.                                             *)
LEMMA FewerRows ==
  ASSUME LoadInv, TypeInv', reqInfo' \subseteq reqInfo, at' = "select" \/ UNCHANGED schedVars
  PROVE  LoadInv'
<1>1. Fits(reqInfo')
  BY FitsSubset DEF LoadInv
<1>2. OneRecordPerNode' /\ RecordsAtHome'
  BY DEF LoadInv, OneRecordPerNode, RecordsAtHome
<1>3. FoundAtHome' /\ SnapshotIsSafe'
  <2>1. CASE at' = "select"
    BY <2>1 DEF FoundAtHome, SnapshotIsSafe
  <2>2. CASE UNCHANGED schedVars
    <3>1. UNCHANGED <<at, peeked, found, recorded>>
      BY <2>2 DEF schedVars
    <3>2. FoundAtHome'
      BY <3>1 DEF LoadInv, FoundAtHome
    <3>3. at = "place" => RecordsOf(reqInfo', FuncOf[peeked.call]) \subseteq recorded
      BY DEF LoadInv, SnapshotIsSafe, RecordsOf
    <3>4. at = "place" => Fits(recorded)
      BY DEF LoadInv, SnapshotIsSafe
    <3>5. Fits(recorded)' <=> Fits(recorded)
      BY <3>1 DEF Fits, CpuUsed, MemUsed, Units, On
    <3> QED
      BY <3>1, <3>2, <3>3, <3>4, <3>5 DEF SnapshotIsSafe, RecordsOf
  <2> QED
    BY <2>1, <2>2
<1>4. Fits(reqInfo)' <=> Fits(reqInfo')
  BY DEF Fits, CpuUsed, MemUsed, Units, On
<1> QED
  BY <1>1, <1>2, <1>3, <1>4 DEF LoadInv

(* The step that writes a row keeps it, acknowledged or not.               *)
LEMMA OneMoreRow ==
  ASSUME LoadInv, TypeInv', at = "place",
         NEW s \in Choices(peeked, recorded, found),
         reqInfo' = reqInfo \cup {NewRecord(s)}, at' \in {"select", "pop"}
  PROVE  LoadInv'
<1> DEFINE n == NewRecord(s)
<1>1. n.req = peeked /\ n.svc = s
  BY DEF NewRecord
<1>2. /\ Fits(reqInfo \cup {n})
      /\ OwnerOf[s] = FuncOf[peeked.call]
      /\ SchedulerType = "one_task_per_node" => \A rec \in reqInfo : rec.svc # s
  BY PlacedRecordFits
<1>3. OneRecordPerNode'
  <2> HIDE DEF n
  <2> QED
    BY <1>1, <1>2 DEF LoadInv, OneRecordPerNode, n
<1>4. RecordsAtHome'
  BY <1>1, <1>2 DEF LoadInv, RecordsAtHome
<1>5. Fits(reqInfo')
  BY <1>2
<1>6. Fits(reqInfo)' <=> Fits(reqInfo')
  BY DEF Fits, CpuUsed, MemUsed, Units, On
<1> QED
  BY <1>3, <1>4, <1>5, <1>6 DEF LoadInv, FoundAtHome, SnapshotIsSafe

(* Every action but Schedule's own steps.                                  *)
LEMMA LoadOthers ==
  ASSUME LoadInv, TypeInv',
         \/ \E c \in Calls : CallFunction(c) \/ NextIDFails(c) \/ SubmitRequest(c)
         \/ \E r \in Requests :
              \/ Dial(r) \/ DialFails(r) \/ Answer(r) \/ Expire(r) \/ WorkerEnds(r)
              \/ Reply(r) \/ DeleteRecord(r)
         \/ \E s \in Services : InstanceChanges(s)
         \/ Restart
         \/ UNCHANGED vars
  PROVE  LoadInv'
<1>1. reqInfo' \subseteq reqInfo
  BY DEF CallFunction, NextIDFails, SubmitRequest, Dial, DialFails, Answer, Expire,
         WorkerEnds, Reply, DeleteRecord, Without, InstanceChanges, Restart, vars
<1>2. at' = "select" \/ UNCHANGED schedVars
  BY DEF CallFunction, NextIDFails, SubmitRequest, Dial, DialFails, Answer, Expire,
         WorkerEnds, Reply, DeleteRecord, InstanceChanges, Restart, RestartProcess,
         ToSelect, vars
<1> QED
  BY <1>1, <1>2, FewerRows

LEMMA LoadScheduling ==
  ASSUME LoadInv, TypeInv',
         \/ Tick \/ \E c \in Calls : Trigger(c)
         \/ ReadInstances \/ ReadRecords \/ Place \/ PopAndCall
  PROVE  LoadInv'
<1>1. CASE Tick \/ \E c \in Calls : Trigger(c)
  <2>1. reqInfo' = reqInfo /\ at' \in {"select", "instances"}
    BY <1>1 DEF Tick, Trigger, Peek, schedVars
  <2>2. Fits(reqInfo)' <=> Fits(reqInfo)
    BY <2>1 DEF Fits, CpuUsed, MemUsed, Units, On
  <2> QED
    BY <2>1, <2>2
    DEF LoadInv, OneRecordPerNode, RecordsAtHome, FoundAtHome, SnapshotIsSafe
<1>2. CASE ReadInstances
  <2>1. CASE at' = "select"
    BY <1>2, <2>1, FewerRows DEF ReadInstances
  <2>2. CASE at' # "select"
    <3>1. /\ at' = "records" /\ reqInfo' = reqInfo /\ peeked' = peeked
          /\ found' = {s \in ready : OwnerOf[s] = FuncOf[peeked.call]}
      BY <1>2, <2>2 DEF ReadInstances, ToSelect
    <3>2. Fits(reqInfo)' <=> Fits(reqInfo)
      BY <3>1 DEF Fits, CpuUsed, MemUsed, Units, On
    <3> QED
      BY <3>1, <3>2
      DEF LoadInv, OneRecordPerNode, RecordsAtHome, FoundAtHome, SnapshotIsSafe
  <2> QED
    BY <2>1, <2>2
<1>3. CASE ReadRecords
  <2>1. CASE at' = "select"
    BY <1>3, <2>1, FewerRows DEF ReadRecords
  <2>2. CASE at' # "select"
    <3>1. /\ at = "records" /\ at' = "place" /\ reqInfo' = reqInfo /\ peeked' = peeked
          /\ found' = found /\ recorded' = RecordsOf(reqInfo, FuncOf[peeked.call])
      BY <1>3, <2>2 DEF ReadRecords, ToSelect
    <3>2. Fits(reqInfo)' <=> Fits(reqInfo)
      BY <3>1 DEF Fits, CpuUsed, MemUsed, Units, On
    <3>3. Fits(recorded')
      BY <3>1, FitsSubset DEF LoadInv, RecordsOf
    <3>4. Fits(recorded)' <=> Fits(recorded')
      BY DEF Fits, CpuUsed, MemUsed, Units, On
    <3>5. SnapshotIsSafe'
      BY <3>1, <3>3, <3>4 DEF SnapshotIsSafe, RecordsOf
    <3> QED
      BY <3>1, <3>2, <3>5 DEF LoadInv, OneRecordPerNode, RecordsAtHome, FoundAtHome
  <2> QED
    BY <2>1, <2>2
<1>4. CASE Place
  <2>1. CASE reqInfo' = reqInfo
    <3>1. CASE at' = "select"
      BY <2>1, <3>1, FewerRows
    <3>2. CASE at' # "select"
      BY <1>4, <3>2, OneMoreRow DEF Place, ToSelect
    <3> QED
      BY <3>1, <3>2
  <2>2. CASE reqInfo' # reqInfo
    BY <1>4, <2>2, OneMoreRow DEF Place, ToSelect
  <2> QED
    BY <2>1, <2>2
<1>5. CASE PopAndCall
  BY <1>5, FewerRows DEF PopAndCall, ToSelect
<1> QED
  BY <1>1, <1>2, <1>3, <1>4, <1>5

LEMMA LoadNext == LoadInv /\ [Next]_vars => LoadInv'
<1> SUFFICES ASSUME LoadInv, [Next]_vars PROVE LoadInv'
  OBVIOUS
<1>1. TypeInv'
  BY TypeNext DEF LoadInv
<1> QED
  BY <1>1, LoadOthers, LoadScheduling DEF Next

LEMMA LoadInvariant == Spec => []LoadInv
BY LoadInit, LoadNext, PTL DEF Spec

(***************************************************************************)
(* Whatever fails and however often the server restarts, the records never *)
(* promise more cpu or memory of an instance than it has: the check that   *)
(* either algorithm makes on its snapshot is still good when it writes.    *)
(***************************************************************************)
THEOREM NeverOvercommits == Spec => []NoOvercommit
<1>1. LoadInv => NoOvercommit
  BY DEF LoadInv, Fits, NoOvercommit
<1> QED
  BY <1>1, LoadInvariant, PTL

(***************************************************************************)
(* OneTaskPerNodeScheduler never has two records on one instance.          *)
(***************************************************************************)
THEOREM NeverSharesANode == Spec => []OneRecordPerNode
<1>1. LoadInv => OneRecordPerNode
  BY DEF LoadInv
<1> QED
  BY <1>1, LoadInvariant, PTL

-----------------------------------------------------------------------------
(* Neither algorithm passes over an instance that has room.                *)

LEMMA LoadTyped ==
  ASSUME NEW r \in Requests, NEW recs, Fits(recs), NEW s \in Services
  PROVE  /\ CpuUsed(recs, s) \in Nat /\ MemUsed(recs, s) \in Nat
         /\ Int32(CpuUsed(recs, s)) = CpuUsed(recs, s)
         /\ HasRoom(r, recs, s) => BaseFits(r, recs, s)
<1>1. CpuUsed(recs, s) \in Nat
  BY LoadOfSubset DEF Fits, CpuUsed
<1>2. MemUsed(recs, s) \in Nat
  BY LoadOfSubset DEF Fits, MemUsed
<1>3. /\ MaxInt \in Nat /\ InsCpu[s] \in Nat /\ InsMem[s] \in Nat
      /\ ReqCpu[r.call] \in Nat /\ ReqMem[r.call] \in Nat
      /\ InsCpu[s] + ReqCpu[r.call] <= MaxInt /\ InsMem[s] + ReqMem[r.call] <= MaxInt
  BY ResourceAssumption, HeadroomAssumption DEF Requests
<1>4. CpuUsed(recs, s) \in -MaxInt - 1 .. MaxInt
  <2>1. CpuUsed(recs, s) <= InsCpu[s]
    BY DEF Fits
  <2> QED
    BY <1>1, <1>3, <2>1
<1>5. ASSUME HasRoom(r, recs, s) PROVE BaseFits(r, recs, s)
  <2>1. /\ CpuUsed(recs, s) + ReqCpu[r.call] \in -MaxInt - 1 .. MaxInt
        /\ MemUsed(recs, s) + ReqMem[r.call] \in -MaxInt - 1 .. MaxInt
    BY <1>1, <1>2, <1>3, <1>5 DEF HasRoom
  <2> QED
    BY <1>5, <2>1 DEF HasRoom, BaseFits, Int32
<1> QED
  BY <1>1, <1>2, <1>4, <1>5 DEF Int32

(* The order that the fitting instances are sorted in has a first element. *)
LEMMA FirstInOrder ==
  ASSUME NEW S \in SUBSET Services, S # {},
         NEW used \in [Services -> Int]
  PROVE  \E s \in S : \A t \in S :
           ~ (\/ InsCpu[t] < InsCpu[s]
              \/ InsCpu[t] = InsCpu[s] /\ InsMem[t] < InsMem[s]
              \/ InsCpu[t] = InsCpu[s] /\ InsMem[t] = InsMem[s] /\ used[t] > used[s])
<1>1. \A T \in SUBSET Services : IsFiniteSet(T)
  BY ResourceAssumption, FS_Subset
<1>2. ASSUME NEW T \in SUBSET S, T # {}, NEW num \in [Services -> Int]
      PROVE  \E s \in T : \A t \in T : num[s] <= num[t]
  <2> DEFINE on == [t \in T |-> num[t]]
  <2>1. on \in [T -> Int]
    OBVIOUS
  <2>2. \E s \in T : \A t \in T : on[s] <= on[t]
    <3> HIDE DEF on
    <3> QED
      BY <1>1, <1>2, <2>1, SmallestNumber
  <2> QED
    BY <2>2
<1>3. InsCpu \in [Services -> Int] /\ InsMem \in [Services -> Int]
  BY ResourceAssumption
<1>4. PICK a \in S : \A t \in S : InsCpu[a] <= InsCpu[t]
  BY <1>2, <1>3
<1> DEFINE A == {t \in S : InsCpu[t] = InsCpu[a]}
<1>5. PICK b \in A : \A t \in A : InsMem[b] <= InsMem[t]
  <2>1. A \in SUBSET S /\ A # {}
    OBVIOUS
  <2> HIDE DEF A
  <2> QED
    BY <1>2, <1>3, <2>1
<1> DEFINE B == {t \in A : InsMem[t] = InsMem[b]}
           neg == [t \in Services |-> 0 - used[t]]
<1>6. PICK s \in B : \A t \in B : neg[s] <= neg[t]
  <2>1. B \in SUBSET S /\ B # {} /\ neg \in [Services -> Int]
    OBVIOUS
  <2> HIDE DEF B, neg
  <2> QED
    BY <1>2, <2>1
<1>7. ASSUME NEW t \in S
      PROVE  ~ (\/ InsCpu[t] < InsCpu[s]
                \/ InsCpu[t] = InsCpu[s] /\ InsMem[t] < InsMem[s]
                \/ InsCpu[t] = InsCpu[s] /\ InsMem[t] = InsMem[s] /\ used[t] > used[s])
  <2>1. s \in S /\ InsCpu[s] = InsCpu[a] /\ InsMem[s] = InsMem[b]
    BY <1>6
  <2>2. t \in Services /\ s \in Services
    BY <2>1
  <2>3. /\ InsCpu[t] \in Int /\ InsCpu[s] \in Int /\ InsMem[t] \in Int /\ InsMem[s] \in Int
        /\ used[t] \in Int /\ used[s] \in Int
    BY <1>3, <2>2
  <2>4. InsCpu[s] <= InsCpu[t]
    BY <1>4, <2>1
  <2>5. InsCpu[t] = InsCpu[s] => InsMem[s] <= InsMem[t]
    BY <1>5, <2>1
  <2>6. InsCpu[t] = InsCpu[s] /\ InsMem[t] = InsMem[s] => used[t] <= used[s]
    <3>1. t \in B => 0 - used[s] <= 0 - used[t]
      BY <1>6, <2>2
    <3> QED
      BY <2>1, <2>3, <3>1
  <2> QED
    BY <2>3, <2>4, <2>5, <2>6
<1>8. s \in S
  BY <1>6
<1> QED
  BY <1>7, <1>8

LEMMA RoomIsFound ==
  ASSUME NEW r \in Requests, NEW recs, Fits(recs), NEW ins \in SUBSET Services,
         NEW s \in ins, HasRoom(r, recs, s)
  PROVE  Choices(r, recs, ins) # {}
<1>1. CASE SchedulerType = "one_task_per_node"
  <2>1. InsCpu[s] >= ReqCpu[r.call] /\ InsMem[s] >= ReqMem[r.call]
    <3>1. /\ CpuUsed(recs, s) \in Nat /\ MemUsed(recs, s) \in Nat
          /\ InsCpu[s] \in Nat /\ InsMem[s] \in Nat
          /\ ReqCpu[r.call] \in Nat /\ ReqMem[r.call] \in Nat
      BY LoadTyped, ResourceAssumption DEF Requests
    <3> QED
      BY <3>1 DEF HasRoom
  <2>2. s \in OneTaskChoices(r, recs, ins)
    BY <1>1, <2>1 DEF HasRoom, OneTaskChoices
  <2> QED
    BY <1>1, <2>2 DEF Choices
<1>2. CASE SchedulerType # "one_task_per_node"
  <2> DEFINE fitting == {t \in ins : BaseFits(r, recs, t)}
             used == [t \in Services |-> CpuUsed(recs, t)]
  <2>1. fitting \in SUBSET Services /\ fitting # {}
    BY LoadTyped
  <2>2. \A t \in Services : used[t] = Int32(CpuUsed(recs, t)) /\ used[t] \in Int
    BY LoadTyped
  <2>3. used \in [Services -> Int]
    BY <2>2
  <2> HIDE DEF used
  <2>4. \E t \in fitting : \A u \in fitting : ~ SortsBefore(recs, u, t)
    <3> HIDE DEF fitting
    <3>1. PICK t \in fitting : \A u \in fitting :
            ~ (\/ InsCpu[u] < InsCpu[t]
               \/ InsCpu[u] = InsCpu[t] /\ InsMem[u] < InsMem[t]
               \/ InsCpu[u] = InsCpu[t] /\ InsMem[u] = InsMem[t] /\ used[u] > used[t])
      BY <2>1, <2>3, FirstInOrder
    <3>2. \A u \in fitting : ~ SortsBefore(recs, u, t)
      BY <2>1, <2>2, <3>1 DEF SortsBefore
    <3> QED
      BY <3>2
  <2> QED
    BY <1>2, <2>4 DEF Choices, BaseChoices
<1> QED
  BY <1>1, <1>2

(***************************************************************************)
(* A decision that is not disturbed by a failure leaves the request at the *)
(* head of the queue only if no instance that was read has room for it     *)
(* beside the records that were read: no overflow of a sum hides one, and  *)
(* the order that the fitting instances are sorted in always has a first.  *)
(***************************************************************************)
THEOREM HeadsWaitOnlyForRoom == Spec => HeadWaitsOnlyForRoom
<1>1. ASSUME LoadInv, Place, at' = "select", faults' = faults, NEW s \in found
      PROVE  ~ HasRoom(peeked, recorded, s)
  <2>1. Choices(peeked, recorded, found) = {}
    <3>1. ASSUME NEW kind, Fault(kind) PROVE FALSE
      BY <1>1, <3>1 DEF Fault, LoadInv, TypeInv, TypeOK
    <3> QED
      BY <1>1, <3>1 DEF Place
  <2>2. peeked \in Requests /\ Fits(recorded) /\ found \in SUBSET Services
    BY <1>1 DEF Place, LoadInv, SnapshotIsSafe, TypeInv, TypeOK
  <2> QED
    BY <1>1, <2>1, <2>2, RoomIsFound
<1>2. LoadInv /\ [Next]_vars =>
        [Place /\ at' = "select" /\ faults' = faults =>
           \A s \in found : ~ HasRoom(peeked, recorded, s)]_vars
  BY <1>1
<1> QED
  BY <1>2, LoadInvariant, PTL DEF Spec, HeadWaitsOnlyForRoom
=============================================================================
