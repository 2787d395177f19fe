------------------------------ MODULE DrainProofs ------------------------------
(***************************************************************************)
(* Theorems about Drain: the removal of instances changes nothing of what  *)
(* is proved of the request path, and cuts off at most one call.           *)
(***************************************************************************)
EXTENDS Drain, ServingProofs

Stops == {"none", "polling", "deleting", "gone", "abandoned"}

(* The calls that the deletion of s would cut off: those in progress, and  *)
(* the one that Schedule has recorded and is about to start.               *)
PendingOn(s) == {r \in Requests : r \in Calling(s) \/ (at = "pop" /\ chosen = s /\ r = peeked)}

(* The row of a removed instance is gone, unless the monitor wrote it.     *)
RemovedAreNotReady == \A s \in Services \ back : drain[s] # "none" => s \notin ready

(* Once the poll has found no record, one request may still be placed: the *)
(* one Schedule is at, if it has read the row before the removal.          *)
FewPending ==
  \A s \in Services \ back :
    drain[s] = "deleting" =>
      /\ \A r1, r2 \in PendingOn(s) : r1 = r2
      /\ at \in {"records", "place"} /\ s \in found => PendingOn(s) = {}

(***************************************************************************)
(* The inductive invariant.  It needs RecordInv: that the poll finds no    *)
(* record means that no call is pending only because every call that is    *)
(* served, or about to be, is recorded.                                    *)
(***************************************************************************)
DrainInv ==
  /\ RecordInv
  /\ drain \in [Services -> Stops]
  /\ RemovedAreNotReady /\ FewPending

(***************************************************************************)
(* Each step of Drain is one of ReqScheduler, or leaves its state alone.   *)
(***************************************************************************)
LEMMA DrainSteps == DNext => [Next]_vars
<1> SUFFICES ASSUME DNext PROVE [Next]_vars
  OBVIOUS
<1>1. CASE RequestPath
  BY <1>1 DEF RequestPath, Next, Schedule
<1>2. CASE \E s \in Services : ScaleDown(s) \/ FindsNoRecord(s) \/ DeleteInstance(s) \/ Monitor(s)
  BY <1>2 DEF ScaleDown, FindsNoRecord, DeleteInstance, Monitor, InstanceChanges, Next, counters
<1>3. CASE RestartDrain
  BY <1>3 DEF RestartDrain, Next
<1> QED
  BY <1>1, <1>2, <1>3 DEF DNext

(***************************************************************************)
(* With the removal of instances running beside it the request path is     *)
(* still the one specified: whatever is proved of Spec holds of DSpec.     *)
(***************************************************************************)
THEOREM DrainImplementsRequestPath == DSpec => Spec
<1>1. DInit => Init
  BY DEF DInit
<1>2. [DNext]_allVars => [Next]_vars
  BY DrainSteps DEF allVars
<1> QED
  BY <1>1, <1>2, PTL DEF DSpec, Spec

LEMMA DrainInit == DInit => DrainInv
<1> SUFFICES ASSUME DInit PROVE DrainInv
  OBVIOUS
<1>1. RecordInv
  BY RecordInit DEF DInit
<1>2. \A s \in Services : drain[s] = "none"
  BY DEF DInit
<1>3. drain \in [Services -> Stops]
  BY DEF DInit, Stops
<1> QED
  BY <1>1, <1>2, <1>3 DEF DrainInv, RemovedAreNotReady, FewPending

(* Steps of the request path that begin no call and read no row.           *)
LEMMA PendingOnlyShrinks ==
  ASSUME DrainInv, UNCHANGED drainVars, UNCHANGED <<ready, found>>,
         \A s \in Services : PendingOn(s)' \subseteq PendingOn(s),
         at' \in {"records", "place"} => at \in {"records", "place"}
  PROVE  RemovedAreNotReady' /\ FewPending'
<1>1. UNCHANGED <<drain, back>>
  BY DEF drainVars
<1>2. RemovedAreNotReady'
  BY <1>1 DEF DrainInv, RemovedAreNotReady
<1>3. FewPending'
  BY <1>1 DEF DrainInv, FewPending
<1> QED
  BY <1>2, <1>3

LEMMA DrainServing ==
  ASSUME DrainInv, UNCHANGED drainVars, NEW r \in Requests,
         \/ Dial(r) \/ DialFails(r) \/ Answer(r) \/ Expire(r) \/ WorkerEnds(r)
         \/ Reply(r) \/ DeleteRecord(r)
  PROVE  RemovedAreNotReady' /\ FewPending'
<1>1. UNCHANGED <<ready, found, at, peeked, chosen, target>>
  BY DEF Dial, DialFails, Answer, Expire, WorkerEnds, Reply, DeleteRecord, schedVars
<1>2. \/ routine' = routine
      \/ \E to \in {"okReply", "errReply", "cleanup", "done"} : routine' = [routine EXCEPT ![r] = to]
      \/ routine[r] = "dial" /\ routine' = [routine EXCEPT ![r] = "await"]
  BY DEF Dial, DialFails, Answer, Expire, WorkerEnds, Reply, DeleteRecord, SetStage
<1>3. routine \in [Requests -> Stages]
  BY DEF DrainInv, RecordInv, PlaceInv, TypeInv, TypeOK
<1>4. \A x \in Requests : routine'[x] \in {"dial", "await"} => routine[x] \in {"dial", "await"}
  BY <1>2, <1>3
<1>5. \A s \in Services : PendingOn(s)' \subseteq PendingOn(s)
  BY <1>1, <1>4 DEF PendingOn, Calling
<1> QED
  BY <1>1, <1>5, PendingOnlyShrinks

LEMMA DrainClients ==
  ASSUME DrainInv, UNCHANGED drainVars,
         \/ \E c \in Calls : CallFunction(c) \/ NextIDFails(c) \/ SubmitRequest(c) \/ Trigger(c)
         \/ Tick
  PROVE  RemovedAreNotReady' /\ FewPending'
<1>1. UNCHANGED <<ready, found, chosen, routine, target>>
  BY DEF CallFunction, NextIDFails, SubmitRequest, Trigger, Tick, Peek, schedVars, callee
<1>2. UNCHANGED <<at, peeked>> \/ at' \in {"select", "instances"}
  BY DEF CallFunction, NextIDFails, SubmitRequest, Trigger, Tick, Peek, schedVars
<1>3. \A s \in Services : PendingOn(s)' \subseteq PendingOn(s)
  BY <1>1, <1>2 DEF PendingOn, Calling
<1> QED
  BY <1>1, <1>2, <1>3, PendingOnlyShrinks

(* The heart of the argument: Schedule finds no removed instance any more, *)
(* and the one it may still hold gives it no more than one call.           *)
LEMMA DrainScheduling ==
  ASSUME DrainInv, UNCHANGED drainVars, Schedule
  PROVE  RemovedAreNotReady' /\ FewPending'
<1>1. UNCHANGED <<ready, drain, back>>
  BY DEF drainVars, Schedule, ReadInstances, ReadRecords, Place, PopAndCall
<1>2. RemovedAreNotReady'
  BY <1>1 DEF DrainInv, RemovedAreNotReady
<1> SUFFICES ASSUME NEW s \in Services \ back, drain[s] = "deleting"
             PROVE  /\ \A r1, r2 \in PendingOn(s)' : r1 = r2
                    /\ at' \in {"records", "place"} /\ s \in found' => PendingOn(s)' = {}
  BY <1>1, <1>2 DEF FewPending
<1>3. /\ \A r1, r2 \in PendingOn(s) : r1 = r2
      /\ at \in {"records", "place"} /\ s \in found => PendingOn(s) = {}
      /\ s \notin ready
  BY DEF DrainInv, FewPending, RemovedAreNotReady
<1>4. CASE ReadInstances \/ ReadRecords
  <2>1. UNCHANGED <<routine, target>> /\ at # "pop" /\ at' # "pop"
    BY <1>4 DEF ReadInstances, ReadRecords, ToSelect, callee
  <2>2. PendingOn(s)' = PendingOn(s)
    BY <2>1 DEF PendingOn, Calling
  <2>3. at' \in {"records", "place"} /\ s \in found' => at \in {"records", "place"} /\ s \in found
    BY <1>3, <1>4 DEF ReadInstances, ReadRecords, ToSelect
  <2> QED
    BY <1>3, <2>2, <2>3
<1>5. CASE Place
  <2>1. UNCHANGED <<routine, target>> /\ at = "place"
    BY <1>5 DEF Place, callee
  <2>2. \/ at' = "select"
        \/ at' = "pop" /\ peeked' = peeked /\ chosen' \in found
    BY <1>5, ChoicesAreOffered DEF Place, ToSelect
  <2>3. CASE at' = "pop" /\ chosen' = s
    <3>1. PendingOn(s) = {}
      BY <1>3, <2>1, <2>2, <2>3
    <3>2. PendingOn(s)' \subseteq {peeked'}
      BY <2>1, <2>3, <3>1 DEF PendingOn, Calling
    <3> QED
      BY <2>3, <3>2
  <2>4. CASE ~ (at' = "pop" /\ chosen' = s)
    <3>1. PendingOn(s)' \subseteq PendingOn(s)
      BY <2>1, <2>4 DEF PendingOn, Calling
    <3> QED
      BY <1>3, <2>2, <3>1
  <2> QED
    BY <2>3, <2>4
<1>6. CASE PopAndCall
  <2>1. peeked \in Requests /\ at = "pop" /\ at' = "select"
    BY <1>6, PeekedIsNew DEF PopAndCall, ToSelect, DrainInv, RecordInv
  <2>2. \A x \in Requests \ {peeked} : routine'[x] = routine[x] /\ target'[x] = target[x]
    BY <1>6, <2>1 DEF PopAndCall, DrainInv, RecordInv, PlaceInv, TypeInv, TypeOK
  <2>3. target'[peeked] = chosen
    BY <1>6, <2>1 DEF PopAndCall, DrainInv, RecordInv, PlaceInv, TypeInv, TypeOK
  <2>4. PendingOn(s)' \subseteq PendingOn(s)
    BY <2>1, <2>2, <2>3 DEF PendingOn, Calling
  <2> QED
    BY <1>3, <2>1, <2>4
<1> QED
  BY <1>4, <1>5, <1>6 DEF Schedule

(* A poll that finds no record: nothing is pending.                        *)
LEMMA NothingPending ==
  ASSUME RecordInv, NEW s \in Services, On(reqInfo, s) = {}
  PROVE  PendingOn(s) = {}
<1> SUFFICES ASSUME NEW r \in PendingOn(s) PROVE FALSE
  OBVIOUS
<1>1. CASE r \in Calling(s)
  BY <1>1 DEF Calling, RecordInv, ServedRequestsAreRecorded, Serving, On
<1>2. CASE at = "pop" /\ chosen = s
  BY <1>2 DEF RecordInv, PlacedIsRecorded, On
<1> QED
  BY <1>1, <1>2 DEF PendingOn

LEMMA DrainRemoval ==
  ASSUME DrainInv, NEW s \in Services,
         ScaleDown(s) \/ FindsNoRecord(s) \/ DeleteInstance(s) \/ Monitor(s)
  PROVE  drain' \in [Services -> Stops] /\ RemovedAreNotReady' /\ FewPending'
<1>1. UNCHANGED <<at, peeked, found, chosen, routine, target>>
  BY DEF ScaleDown, FindsNoRecord, DeleteInstance, Monitor, InstanceChanges, vars, schedVars, callee
<1>2. \A t \in Services : PendingOn(t)' = PendingOn(t)
  BY <1>1 DEF PendingOn, Calling
<1>3. drain \in [Services -> Stops]
  BY DEF DrainInv
<1>4. CASE ScaleDown(s)
  <2>1. /\ drain[s] = "none" /\ drain' = [drain EXCEPT ![s] = "polling"]
        /\ back' = back /\ ready' = ready \ {s}
    BY <1>4 DEF ScaleDown, MoveDrain
  <2> QED
    BY <1>1, <1>2, <1>3, <2>1 DEF Stops, DrainInv, RemovedAreNotReady, FewPending
<1>5. CASE FindsNoRecord(s)
  <2>1. /\ drain[s] = "polling" /\ drain' = [drain EXCEPT ![s] = "deleting"]
        /\ back' = back /\ ready' = ready
    BY <1>5 DEF FindsNoRecord, MoveDrain, vars
  <2>2. PendingOn(s) = {}
    BY <1>5, NothingPending DEF FindsNoRecord, DrainInv
  <2>3. drain' \in [Services -> Stops] /\ RemovedAreNotReady'
    BY <1>3, <2>1 DEF Stops, DrainInv, RemovedAreNotReady
  <2>4. FewPending'
    BY <1>1, <1>2, <1>3, <2>1, <2>2 DEF DrainInv, FewPending
  <2> QED
    BY <2>3, <2>4
<1>6. CASE DeleteInstance(s)
  <2>1. /\ drain[s] = "deleting"
        /\ \E to \in {"gone", "abandoned"} : drain' = [drain EXCEPT ![s] = to]
        /\ back' = back /\ ready' = ready
    BY <1>6 DEF DeleteInstance, MoveDrain, vars
  <2> QED
    BY <1>1, <1>2, <1>3, <2>1 DEF Stops, DrainInv, RemovedAreNotReady, FewPending
<1>7. CASE Monitor(s)
  <2>1. /\ drain' = drain /\ back \subseteq back'
        /\ drain[s] # "none" /\ s \in ready' => s \in back'
        /\ \A t \in Services \ {s} : t \in ready' => t \in ready
    BY <1>7 DEF Monitor, InstanceChanges
  <2>2. RemovedAreNotReady'
    BY <2>1 DEF DrainInv, RemovedAreNotReady
  <2>3. FewPending'
    BY <1>1, <1>2, <2>1 DEF DrainInv, FewPending
  <2> QED
    BY <1>3, <2>1, <2>2, <2>3
<1> QED
  BY <1>4, <1>5, <1>6, <1>7

LEMMA DrainRestart ==
  ASSUME DrainInv, RestartDrain
  PROVE  drain' \in [Services -> Stops] /\ RemovedAreNotReady' /\ FewPending'
<1>1. /\ ready' = ready /\ back' = back
      /\ drain' = [s \in Services |->
                     IF drain[s] \in {"polling", "deleting"} THEN "abandoned" ELSE drain[s]]
  BY DEF RestartDrain, Restart, RestartProcess
<1>2. drain' \in [Services -> Stops] /\ RemovedAreNotReady'
  BY <1>1 DEF Stops, DrainInv, RemovedAreNotReady
<1>3. \A s \in Services : drain'[s] # "deleting"
  BY <1>1
<1> QED
  BY <1>2, <1>3 DEF FewPending

LEMMA DrainNext == DrainInv /\ [DNext]_allVars => DrainInv'
<1> SUFFICES ASSUME DrainInv, [DNext]_allVars PROVE DrainInv'
  OBVIOUS
<1>1. RecordInv'
  <2>1. [Next]_vars
    BY DrainSteps DEF allVars
  <2> QED
    BY <2>1, RecordNext DEF DrainInv
<1>2. CASE RequestPath /\ UNCHANGED drainVars
  <2>1. drain' \in [Services -> Stops]
    BY <1>2 DEF drainVars, DrainInv
  <2>2. RemovedAreNotReady' /\ FewPending'
    BY <1>2, DrainClients, DrainScheduling, DrainServing DEF RequestPath
  <2> QED
    BY <1>1, <2>1, <2>2 DEF DrainInv
<1>3. CASE UNCHANGED allVars
  <2>1. UNCHANGED drainVars /\ UNCHANGED <<ready, found, at, peeked, chosen, routine, target>>
    BY <1>3 DEF allVars, vars, schedVars, callee
  <2>2. \A s \in Services : PendingOn(s)' \subseteq PendingOn(s)
    BY <2>1 DEF PendingOn, Calling
  <2>3. RemovedAreNotReady' /\ FewPending'
    BY <2>1, <2>2, PendingOnlyShrinks
  <2> QED
    BY <1>1, <2>1, <2>3 DEF DrainInv, drainVars
<1>4. CASE \E s \in Services : ScaleDown(s) \/ FindsNoRecord(s) \/ DeleteInstance(s) \/ Monitor(s)
  BY <1>1, <1>4, DrainRemoval DEF DrainInv
<1>5. CASE RestartDrain
  BY <1>1, <1>5, DrainRestart DEF DrainInv
<1> QED
  BY <1>2, <1>3, <1>4, <1>5 DEF DNext

LEMMA DrainInvariant == DSpec => []DrainInv
BY DrainInit, DrainNext, PTL DEF DSpec

LEMMA AtMostOneElement ==
  ASSUME NEW S, \A x, y \in S : x = y
  PROVE  Cardinality(S) <= 1
<1>1. CASE S = {}
  BY <1>1, FS_EmptySet
<1>2. CASE S # {}
  <2>1. PICK x \in S : S = {x}
    BY <1>2
  <2> QED
    BY <2>1, FS_Singleton
<1> QED
  BY <1>1, <1>2

(***************************************************************************)
(* The deletion of a service whose row stayed away cuts off at most one    *)
(* call, for any number of calls, instances, failures and restarts.        *)
(***************************************************************************)
THEOREM DeletionCutsOffAtMostOne == DSpec => AtMostOneIsCutOff
<1> DEFINE Few == \A s \in Services \ back :
                    drain[s] = "deleting" /\ drain'[s] = "gone" => Cardinality(Calling(s)) <= 1
<1>1. DrainInv => Few
  <2> SUFFICES ASSUME DrainInv, NEW s \in Services \ back, drain[s] = "deleting"
               PROVE  Cardinality(Calling(s)) <= 1
    BY DEF Few
  <2>1. Calling(s) \subseteq PendingOn(s)
    BY DEF Calling, PendingOn
  <2>2. \A r1, r2 \in Calling(s) : r1 = r2
    BY <2>1 DEF DrainInv, FewPending
  <2> QED
    BY <2>2, AtMostOneElement
<1>2. Few => [Few]_allVars
  OBVIOUS
<1> QED
  BY <1>1, <1>2, DrainInvariant, PTL DEF AtMostOneIsCutOff
=============================================================================
