----------------------------- MODULE ReqScheduler -----------------------------
(***************************************************************************)
(* The request path of pkg/reqscheduler: clients call CallFunction, which  *)
(* pushes a request on the process-wide FIFO queue, wakes the single       *)
(* ScheduleRoutine goroutine and waits on the call's own channel for the   *)
(* reply.  ScheduleRoutine serves only the head of the queue; a placed     *)
(* request gets a goroutine of its own that calls the worker, hands the    *)
(* reply to the client and deletes the schedule record.                    *)
(*                                                                         *)
(* Goroutines interleave at every database access, channel operation and   *)
(* worker call.  Database statements may fail, workers may answer late or  *)
(* never, and the server may be killed and restarted.                      *)
(***************************************************************************)
EXTENDS Schedulers, Sequences

CONSTANTS
  Functions,      \* function names
  FuncOf,         \* [Calls -> Functions], CallFunctionRequest.function_name
  OwnerOf,        \* [Services -> Functions], FuncInstance.FunctionName
  SchedulerType,  \* config: "one_task_per_node"; anything else is "base"
  MaxRetry,       \* config: attempts per call
  Faults,         \* the kinds of failure that may happen
  MaxFaults,      \* bound on their number
  MaxRestarts,    \* bound on the number of server restarts
  InitialReady,   \* the instances that are RUNNING at the start
  NoReq, NoSvc    \* null values

FaultKinds == {"flake", "read", "write", "lostAck", "delete", "clean"}

ASSUME SchedulerAssumption ==
  /\ FuncOf \in [Calls -> Functions]
  /\ OwnerOf \in [Services -> Functions]
  /\ MaxRetry \in Nat \ {0}
  /\ Faults \subseteq FaultKinds
  /\ MaxFaults \in Nat /\ MaxRestarts \in Nat
  /\ InitialReady \subseteq Services
  /\ NoSvc \notin Services

(* A request is one attempt of a call; sonyflake gives each its own id.    *)
Requests == [call : Calls, attempt : 1 .. MaxRetry]

ASSUME NullAssumption == NoReq \notin Requests

Records == [req : Requests, svc : Services, nth : Nat]

VARIABLES
  phase,      \* where each client goroutine is in CallFunction
  attempt,    \* CallFunction's loop counter, from 1
  queue,      \* ReqQueue.qu
  at,         \* where ScheduleRoutine is
  peeked,     \* Schedule: req
  found,      \* Schedule: funcInstances
  recorded,   \* Schedule: reqScheduleInfo
  chosen,     \* Schedule: chosenIns
  reqInfo,    \* MySQL table req_scheduler_info
  ready,      \* rows of table func_instance with last_status RUNNING
  routine,    \* where each request's CallInstanceFunctionRoutine is
  target,     \* the instance that goroutine calls
  executing,  \* requests that a worker is executing
  faults,     \* failures so far
  restarts    \* restarts so far

callVars  == <<phase, attempt>>
schedVars == <<at, peeked, found, recorded, chosen>>
callee    == <<routine, target, executing>>
counters  == <<faults, restarts>>
vars == <<phase, attempt, queue, schedVars, reqInfo, ready, callee, counters>>

Current(c) == [call |-> c, attempt |-> attempt[c]]
RecordsOf(recs, f) == {rec \in recs : FuncOf[rec.req.call] = f}
Without(recs, r) == {rec \in recs : rec.req # r}

Finished == {"ok", "failed", "lost"}
Phases == {"idle", "submit", "trigger", "wait"} \cup Finished
Stages == {"none", "dial", "await", "okReply", "errReply", "cleanup", "done"}
(* The goroutine has taken the request and has not handed over its reply.  *)
Serving == {"dial", "await", "okReply", "errReply"}

Fault(kind) ==
  /\ kind \in Faults /\ faults < MaxFaults
  /\ faults' = faults + 1 /\ UNCHANGED restarts

Init ==
  /\ phase = [c \in Calls |-> "idle"] /\ attempt = [c \in Calls |-> 1]
  /\ queue = <<>>
  /\ at = "select" /\ peeked = NoReq /\ found = {} /\ recorded = {} /\ chosen = NoSvc
  /\ reqInfo = {} /\ ready = InitialReady
  /\ routine = [r \in Requests |-> "none"] /\ target = [r \in Requests |-> NoSvc]
  /\ executing = {}
  /\ faults = 0 /\ restarts = 0

-----------------------------------------------------------------------------
(* Clients: CallFunction and SubmitRequest.                                *)

CallFunction(c) ==
  /\ phase[c] = "idle"
  /\ phase' = [phase EXCEPT ![c] = "submit"]
  /\ UNCHANGED <<attempt, queue, schedVars, reqInfo, ready, callee, counters>>

(* An attempt of c failed: the loop goes on, or gives up at the last one.  *)
RetriesOnceMore(c) ==
  /\ phase' = [phase EXCEPT ![c] = "submit"]
  /\ attempt' = [attempt EXCEPT ![c] = @ + 1]

RetryOrFail(c) ==
  IF attempt[c] = MaxRetry
  THEN phase' = [phase EXCEPT ![c] = "failed"] /\ UNCHANGED attempt
  ELSE /\ phase' = [phase EXCEPT ![c] = "submit"]
       /\ attempt' = [attempt EXCEPT ![c] = @ + 1]

(* flake.NextID reports an error: nothing was queued.                      *)
NextIDFails(c) ==
  /\ phase[c] = "submit" /\ Fault("flake")
  /\ RetryOrFail(c)
  /\ UNCHANGED <<queue, schedVars, reqInfo, ready, callee>>

PushesFront(c) ==
  /\ phase[c] = "submit"
  /\ queue' = <<Current(c)>> \o queue
  /\ phase' = [phase EXCEPT ![c] = "trigger"]
  /\ UNCHANGED <<attempt, schedVars, reqInfo, ready, callee, counters>>

SubmitRequest(c) ==
  /\ phase[c] = "submit"
  /\ queue' = Append(queue, Current(c))
  /\ phase' = [phase EXCEPT ![c] = "trigger"]
  /\ UNCHANGED <<attempt, schedVars, reqInfo, ready, callee, counters>>

-----------------------------------------------------------------------------
(* ScheduleRoutine and Schedule.                                           *)

ToSelect ==
  at' = "select" /\ peeked' = NoReq /\ found' = {} /\ recorded' = {} /\ chosen' = NoSvc

(* Schedule starts by peeking at the queue, and returns if it is empty.    *)
Peek ==
  IF queue = <<>>
  THEN UNCHANGED schedVars
  ELSE at' = "instances" /\ peeked' = Head(queue) /\ UNCHANGED <<found, recorded, chosen>>

Tick ==
  /\ at = "select"
  /\ Peek
  /\ UNCHANGED <<callVars, queue, reqInfo, ready, callee, counters>>

(* triggerCh is unbuffered: SubmitRequest returns when the routine takes   *)
(* the token.                                                              *)
Trigger(c) ==
  /\ at = "select" /\ phase[c] = "trigger"
  /\ phase' = [phase EXCEPT ![c] = "wait"]
  /\ Peek
  /\ UNCHANGED <<attempt, queue, reqInfo, ready, callee, counters>>

ReadInstances ==
  /\ at = "instances"
  /\ \/ /\ found' = {s \in ready : OwnerOf[s] = FuncOf[peeked.call]}
        /\ at' = "records" /\ UNCHANGED <<peeked, recorded, chosen, counters>>
     \/ Fault("read") /\ ToSelect
  /\ UNCHANGED <<callVars, queue, reqInfo, ready, callee>>

ReadRecords ==
  /\ at = "records"
  /\ \/ /\ recorded' = RecordsOf(reqInfo, FuncOf[peeked.call])
        /\ at' = "place" /\ UNCHANGED <<peeked, found, chosen, counters>>
     \/ Fault("read") /\ ToSelect
  /\ UNCHANGED <<callVars, queue, reqInfo, ready, callee>>

Choices(r, recs, ins) ==
  IF SchedulerType = "one_task_per_node"
  THEN OneTaskChoices(r, recs, ins)
  ELSE BaseChoices(r, recs, ins)

(* The row Save inserts: gorm gives it a fresh primary key, so a request   *)
(* whose earlier insert was not acknowledged gets a second row.            *)
NewRecord(s) ==
  [req |-> peeked, svc |-> s, nth |-> Cardinality({rec \in reqInfo : rec.req = peeked})]

(* The algorithm chooses an instance and UpdateReqScheduleInfo records it. *)
(* An error leaves the request in the queue, whether or not the row was    *)
(* written.                                                                *)
Place ==
  /\ at = "place"
  /\ \/ /\ Choices(peeked, recorded, found) = {}
        /\ ToSelect /\ UNCHANGED <<reqInfo, counters>>
     \/ \E s \in Choices(peeked, recorded, found) :
          \/ /\ reqInfo' = reqInfo \cup {NewRecord(s)}
             /\ at' = "pop" /\ chosen' = s /\ UNCHANGED <<peeked, found, recorded, counters>>
          \/ /\ Fault("lostAck")
             /\ reqInfo' = reqInfo \cup {NewRecord(s)} /\ ToSelect
     \/ /\ Choices(peeked, recorded, found) # {}
        /\ Fault("write") /\ ToSelect /\ UNCHANGED reqInfo
  /\ UNCHANGED <<callVars, queue, ready, callee>>

(* reqQueue.Pop, then go CallInstanceFunctionRoutine(req, ip).             *)
PopForgotten ==
  /\ at = "pop"
  /\ routine' = [routine EXCEPT ![peeked] = "dial"]
  /\ target' = [target EXCEPT ![peeked] = chosen]
  /\ ToSelect
  /\ UNCHANGED <<callVars, queue, reqInfo, ready, executing, counters>>

PopAndCall ==
  /\ at = "pop"
  /\ queue' = IF queue = <<>> THEN queue ELSE Tail(queue)
  /\ routine' = [routine EXCEPT ![peeked] = "dial"]
  /\ target' = [target EXCEPT ![peeked] = chosen]
  /\ ToSelect
  /\ UNCHANGED <<callVars, reqInfo, ready, executing, counters>>

-----------------------------------------------------------------------------
(* CallInstanceFunctionRoutine and CallInstanceFunction.                   *)

SetStage(r, from, to) ==
  /\ routine[r] = from
  /\ routine' = [routine EXCEPT ![r] = to]

(* The RPC reaches the worker, which starts executing the request.         *)
Dial(r) ==
  /\ SetStage(r, "dial", "await")
  /\ executing' = executing \cup {r}
  /\ UNCHANGED <<callVars, queue, schedVars, reqInfo, ready, target, counters>>

(* No connection, for instance because the address is stale.               *)
DialFails(r) ==
  /\ SetStage(r, "dial", "errReply")
  /\ UNCHANGED <<callVars, queue, schedVars, reqInfo, ready, target, executing, counters>>

(* The worker's handler returned, or threw.                                *)
Answer(r) ==
  /\ r \in executing
  /\ SetStage(r, "await", "okReply") \/ SetStage(r, "await", "errReply")
  /\ executing' = executing \ {r}
  /\ UNCHANGED <<callVars, queue, schedVars, reqInfo, ready, target, counters>>

KeepaliveOnly(r) ==
  /\ r \notin executing
  /\ SetStage(r, "await", "errReply")
  /\ UNCHANGED <<callVars, queue, schedVars, reqInfo, ready, target, executing, counters>>

(* RequestTimeout or the keepalive expired.  The worker is not told: its   *)
(* handler, if it is still running, runs on.                               *)
Expire(r) ==
  /\ SetStage(r, "await", "errReply")
  /\ UNCHANGED <<callVars, queue, schedVars, reqInfo, ready, target, executing, counters>>

(* A worker ends an execution nobody waits for, or dies.                   *)
WorkerEnds(r) ==
  /\ r \in executing
  /\ executing' = executing \ {r}
  /\ UNCHANGED <<callVars, queue, schedVars, reqInfo, ready, routine, target, counters>>

ReplyForgetsError(r) ==
  /\ phase[r.call] = "wait"
  /\ SetStage(r, "okReply", "cleanup") \/ SetStage(r, "errReply", "cleanup")
  /\ phase' = [phase EXCEPT ![r.call] = "ok"]
  /\ UNCHANGED <<attempt, queue, schedVars, reqInfo, ready, target, executing, counters>>

(* RespPayloadChan is unbuffered and belongs to the call: the send and the *)
(* client's receive are one step, whichever attempt the client is in.      *)
Reply(r) ==
  LET c == r.call IN
  /\ phase[c] = "wait"
  /\ \/ /\ SetStage(r, "okReply", "cleanup")
        /\ phase' = [phase EXCEPT ![c] = "ok"] /\ UNCHANGED attempt
     \/ /\ SetStage(r, "errReply", "cleanup")
        /\ RetryOrFail(c)
  /\ UNCHANGED <<queue, schedVars, reqInfo, ready, target, executing, counters>>

(* DeleteReqScheduleInfo deletes every row of the request.  Its error is   *)
(* only logged.                                                            *)
DeleteRecordEarly(r) ==
  /\ routine[r] \in {"await", "cleanup"}
  /\ routine' = [routine EXCEPT ![r] = IF @ = "cleanup" THEN "done" ELSE @]
  /\ reqInfo' = Without(reqInfo, r)
  /\ UNCHANGED <<callVars, queue, schedVars, ready, target, executing, counters>>

DeleteRecord(r) ==
  /\ SetStage(r, "cleanup", "done")
  /\ \/ reqInfo' = Without(reqInfo, r) /\ UNCHANGED counters
     \/ Fault("delete") /\ UNCHANGED reqInfo
  /\ UNCHANGED <<callVars, queue, schedVars, ready, target, executing>>

-----------------------------------------------------------------------------
(* The environment: FuncManager and the server process.                    *)

(* FuncManager's writes to func_instance, as far as the query for RUNNING  *)
(* rows can see them: an instance turns RUNNING, or leaves that state or   *)
(* the table.                                                              *)
InstanceChanges(s) ==
  /\ ready' \in {ready \cup {s}, ready \ {s}}
  /\ UNCHANGED <<callVars, queue, schedVars, reqInfo, callee, counters>>

(* The process is killed and started again.  Every goroutine, channel and  *)
(* the queue are lost; NewReqScheduler then clears the schedule records,   *)
(* and only logs a failure to do so.  Workers know nothing of it.          *)
RestartProcess ==
  /\ restarts < MaxRestarts /\ restarts' = restarts + 1
  /\ phase' = [c \in Calls |-> IF phase[c] \in Finished \cup {"idle"} THEN phase[c] ELSE "lost"]
  /\ queue' = <<>>
  /\ ToSelect
  /\ routine' = [r \in Requests |-> IF routine[r] = "none" THEN "none" ELSE "done"]
  /\ UNCHANGED <<attempt, ready, target, executing>>

RestartKeepsRecords == RestartProcess /\ UNCHANGED <<reqInfo, faults>>

Restart ==
  /\ RestartProcess
  /\ \/ reqInfo' = {} /\ UNCHANGED faults
     \/ /\ "clean" \in Faults /\ faults < MaxFaults
        /\ faults' = faults + 1 /\ UNCHANGED reqInfo

-----------------------------------------------------------------------------
Schedule == ReadInstances \/ ReadRecords \/ Place \/ PopAndCall

Next ==
  \/ \E c \in Calls :
       CallFunction(c) \/ NextIDFails(c) \/ SubmitRequest(c) \/ Trigger(c)
  \/ Tick
  \/ ReadInstances \/ ReadRecords \/ Place \/ PopAndCall
  \/ \E r \in Requests :
       \/ Dial(r) \/ DialFails(r) \/ Answer(r) \/ Expire(r) \/ WorkerEnds(r)
       \/ Reply(r) \/ DeleteRecord(r)
  \/ \E s \in Services : InstanceChanges(s)
  \/ Restart

Spec == Init /\ [][Next]_vars

(***************************************************************************)
(* Goroutines that can run do run, the ticker ticks, and the deadline of a *)
(* worker call ends it.  Nothing is assumed of clients that have not       *)
(* called yet, of workers, of FuncManager or of failures.                  *)
(***************************************************************************)
Fairness ==
  /\ \A c \in Calls : WF_vars(SubmitRequest(c)) /\ SF_vars(Trigger(c))
  /\ WF_vars(Tick) /\ WF_vars(Schedule)
  /\ \A r \in Requests :
       /\ WF_vars(Dial(r) \/ DialFails(r)) /\ WF_vars(Expire(r))
       /\ WF_vars(Reply(r)) /\ WF_vars(DeleteRecord(r))

FairSpec == Spec /\ Fairness

-----------------------------------------------------------------------------
(* Properties.                                                             *)

(***************************************************************************)
(* Every variable keeps to the values the code can give it.                *)
(***************************************************************************)
TypeOK ==
  /\ phase \in [Calls -> Phases] /\ attempt \in [Calls -> 1 .. MaxRetry]
  /\ queue \in Seq(Requests)
  /\ at \in {"select", "instances", "records", "place", "pop"}
  /\ peeked \in Requests \cup {NoReq}
  /\ found \subseteq Services /\ recorded \subseteq Records
  /\ chosen \in Services \cup {NoSvc}
  /\ reqInfo \subseteq Records /\ ready \subseteq Services
  /\ routine \in [Requests -> Stages] /\ target \in [Requests -> Services \cup {NoSvc}]
  /\ executing \subseteq Requests
  /\ faults \in 0 .. MaxFaults /\ restarts \in 0 .. MaxRestarts

(***************************************************************************)
(* BaseScheduler never promises more cpu or memory of an instance than it  *)
(* has, although the rows and the records it decides on were read at       *)
(* different times and other goroutines delete records meanwhile, and      *)
(* although inserts fail with and without effect and the server restarts.  *)
(***************************************************************************)
NoOvercommit ==
  \A s \in Services :
    CpuUsed(reqInfo, s) <= InsCpu[s] /\ MemUsed(reqInfo, s) <= InsMem[s]

(***************************************************************************)
(* OneTaskPerNodeScheduler never places a request on an instance that a    *)
(* record still names, whatever happened between its reads and its write.  *)
(***************************************************************************)
OneRecordPerNode ==
  SchedulerType = "one_task_per_node" =>
    \A rec1, rec2 \in reqInfo : rec1.svc = rec2.svc => rec1 = rec2

(***************************************************************************)
(* While a goroutine is calling a worker, or still holds its reply, the    *)
(* record that reserves the worker's resources is in the table: the reply  *)
(* is handed over first and the record deleted after it.                   *)
(***************************************************************************)
ServedRequestsAreRecorded ==
  \A r \in Requests :
    routine[r] \in Serving => \E rec \in reqInfo : rec.req = r /\ rec.svc = target[r]

(***************************************************************************)
(* A client blocked in CallFunction is answered for: its current attempt   *)
(* is in the queue once, or with one goroutine, never both and never       *)
(* neither; and the queue holds nothing else.                              *)
(***************************************************************************)
EveryWaitingCallIsInOnePlace ==
  /\ \A c \in Calls :
       phase[c] \in {"trigger", "wait"} =>
         (\E i \in 1 .. Len(queue) : queue[i] = Current(c))
           <=> routine[Current(c)] \notin Serving
  /\ \A i \in 1 .. Len(queue) :
       /\ phase[queue[i].call] \in {"trigger", "wait"}
       /\ queue[i] = Current(queue[i].call)
       /\ \A j \in 1 .. Len(queue) : queue[j] = queue[i] => j = i

(***************************************************************************)
(* All attempts of a call share one unbuffered channel.  A goroutine that  *)
(* has a reply to send serves the attempt its client waits for, so no      *)
(* reply reaches a later attempt and no goroutine blocks on the channel    *)
(* for ever, keeping its record.                                           *)
(***************************************************************************)
NoStrayReply ==
  \A r \in Requests :
    routine[r] \in Serving =>
      phase[r.call] \in {"trigger", "wait"} /\ attempt[r.call] = r.attempt

(***************************************************************************)
(* As long as no delete fails, a record's capacity comes back: a record    *)
(* belongs to a goroutine that will still delete it, or to the head of     *)
(* the queue (whose insert was not acknowledged, or which is about to be   *)
(* popped).                                                                *)
(***************************************************************************)
NoRecordIsForgotten ==
  {"delete", "clean"} \cap Faults = {} =>
    \A rec \in reqInfo :
      \/ routine[rec.req] \in Serving \cup {"cleanup"}
      \/ queue # <<>> /\ rec.req = Head(queue)

(***************************************************************************)
(* Requests are served in the order of their submission: a goroutine takes *)
(* over the request that is the oldest in the queue, and it alone leaves.  *)
(* Nothing else happens to the queue: it grows at its end, a request leaves*)
(* it for a goroutine, or it is lost with the process.  Peek and Pop are   *)
(* separate critical sections and rely on this.                            *)
(***************************************************************************)
TakenOver(r) == routine[r] = "none" /\ routine'[r] = "dial"

ServedInOrder ==
  [][/\ \A r \in Requests :
          TakenOver(r) => queue # <<>> /\ r = Head(queue) /\ queue' = Tail(queue)
     /\ \/ UNCHANGED queue \/ restarts' # restarts
        \/ \E r \in Requests : queue' = Append(queue, r) \/ TakenOver(r)]_vars

(***************************************************************************)
(* The head of the queue holds up every request behind it, of any function.*)
(* Unless a statement fails, a decision leaves it there only if no instance*)
(* that was read has room for it beside the records that were read: by the *)
(* numbers themselves, whatever the sums are in int32 and in whatever order*)
(* the instances are tried.                                                *)
(***************************************************************************)
HasRoom(r, recs, s) ==
  /\ CpuUsed(recs, s) + ReqCpu[r.call] <= InsCpu[s]
  /\ MemUsed(recs, s) + ReqMem[r.call] <= InsMem[s]
  /\ SchedulerType = "one_task_per_node" => On(recs, s) = {}

HeadWaitsOnlyForRoom ==
  [][Place /\ at' = "select" /\ faults' = faults =>
       \A s \in found : ~ HasRoom(peeked, recorded, s)]_vars

(***************************************************************************)
(* Once every instance stays RUNNING, every call that began returns:       *)
(* nothing is stuck behind the head of the queue, in the trigger channel   *)
(* or on a reply channel.                                                  *)
(***************************************************************************)
EveryCallReturns ==
  <>[](ready = Services) =>
    \A c \in Calls : phase[c] = "submit" ~> phase[c] \in Finished

(***************************************************************************)
(* schedule.go says of OneTaskPerNodeScheduler that it ensures that each   *)
(* node executes only one task.                                            *)
(***************************************************************************)
NodeExecutesOneTask ==
  \A r1, r2 \in executing : target[r1] = target[r2] => r1 = r2

(***************************************************************************)
(* The request path implements the contract of CallFunction: a call is     *)
(* answered from the worker call of its current attempt, and is tried      *)
(* MaxRetry times before it is reported failed.                            *)
(***************************************************************************)
Contract ==
  INSTANCE CallContract WITH
    status <- [c \in Calls |->
                 IF phase[c] \in Finished \cup {"idle"} THEN phase[c] ELSE "active"],
    failures <- [c \in Calls |->
                   IF phase[c] = "failed" THEN MaxRetry ELSE attempt[c] - 1],
    try <- [c \in Calls |->
              CASE routine[Current(c)] \in {"dial", "await"} -> "running"
                [] routine[Current(c)] = "okReply" -> "good"
                [] routine[Current(c)] = "errReply" -> "bad"
                [] OTHER -> "none"]

KeepsContract == Contract!Spec
=============================================================================
