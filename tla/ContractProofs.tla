---------------------------- MODULE ContractProofs -----------------------------
(***************************************************************************)
(* The theorem that the request path implements CallContract, for every    *)
(* instance of the constants: each of its steps is a step of the contract  *)
(* under the refinement mapping of ReqScheduler, or leaves it unchanged.   *)
(***************************************************************************)
EXTENDS ServingProofs

(* The refinement mapping, one call at a time.                             *)
StatusOf(c) == IF phase[c] \in Finished \cup {"idle"} THEN phase[c] ELSE "active"
FailuresOf(c) == IF phase[c] = "failed" THEN MaxRetry ELSE attempt[c] - 1
TryOf(c) ==
  CASE routine[Current(c)] \in {"dial", "await"} -> "running"
    [] routine[Current(c)] = "okReply" -> "good"
    [] routine[Current(c)] = "errReply" -> "bad"
    [] OTHER -> "none"

(* A step leaves what the contract sees of a call as it was.               *)
Unseen(c) ==
  StatusOf(c)' = StatusOf(c) /\ FailuresOf(c)' = FailuresOf(c) /\ TryOf(c)' = TryOf(c)

(* Contract steps in terms of the mapping.                                 *)
LEMMA MapStutter ==
  ASSUME \A c \in Calls : Unseen(c)
  PROVE  UNCHANGED Contract!vars
BY DEF Contract!vars, Unseen, StatusOf, FailuresOf, TryOf

LEMMA MapBegin ==
  ASSUME NEW c \in Calls, \A d \in Calls \ {c} : Unseen(d),
         StatusOf(c) = "idle", StatusOf(c)' = "active",
         FailuresOf(c)' = FailuresOf(c), TryOf(c)' = TryOf(c)
  PROVE  Contract!Begin(c)
BY DEF Contract!Begin, Unseen, StatusOf, FailuresOf, TryOf

LEMMA MapFail ==
  ASSUME NEW c \in Calls, \A d \in Calls \ {c} : Unseen(d),
         StatusOf(c) = "active", TryOf(c) \in {"none", "bad"},
         FailuresOf(c)' = FailuresOf(c) + 1, TryOf(c)' = "none",
         StatusOf(c)' = IF FailuresOf(c)' = MaxRetry THEN "failed" ELSE StatusOf(c)
  PROVE  Contract!Fail(c)
<1> DEFINE Statuses == [d \in Calls |-> StatusOf(d)]
           Failures == [d \in Calls |-> FailuresOf(d)]
           Tries    == [d \in Calls |-> TryOf(d)]
<1>1. /\ Failures' = [Failures EXCEPT ![c] = Failures[c] + 1]
      /\ Tries' = [Tries EXCEPT ![c] = "none"]
      /\ Statuses' = [Statuses EXCEPT ![c] = IF Failures'[c] = MaxRetry THEN "failed" ELSE Statuses[c]]
  BY DEF Unseen
<1>2. Statuses[c] = "active" /\ Tries[c] \in {"none", "bad"}
  OBVIOUS
<1> QED
  BY <1>1, <1>2 DEF Contract!Fail, StatusOf, FailuresOf, TryOf

LEMMA MapDispatch ==
  ASSUME NEW c \in Calls, \A d \in Calls \ {c} : Unseen(d),
         StatusOf(c) = "active", TryOf(c) = "none", TryOf(c)' = "running",
         StatusOf(c)' = StatusOf(c), FailuresOf(c)' = FailuresOf(c)
  PROVE  Contract!Dispatch(c)
BY DEF Contract!Dispatch, Unseen, StatusOf, FailuresOf, TryOf

LEMMA MapAnswer ==
  ASSUME NEW c \in Calls, \A d \in Calls \ {c} : Unseen(d),
         TryOf(c) = "running", TryOf(c)' \in {"good", "bad"},
         StatusOf(c)' = StatusOf(c), FailuresOf(c)' = FailuresOf(c)
  PROVE  Contract!Answer(c)
<1> DEFINE Statuses == [d \in Calls |-> StatusOf(d)]
           Failures == [d \in Calls |-> FailuresOf(d)]
           Tries    == [d \in Calls |-> TryOf(d)]
<1>1. Statuses' = Statuses /\ Failures' = Failures
  BY DEF Unseen
<1>2. Tries' = [Tries EXCEPT ![c] = TryOf(c)']
  BY DEF Unseen
<1>3. Tries[c] = "running" /\ \E outcome \in {"good", "bad"} : Tries' = [Tries EXCEPT ![c] = outcome]
  BY <1>2
<1> QED
  BY <1>1, <1>3 DEF Contract!Answer, StatusOf, FailuresOf, TryOf

LEMMA MapSucceed ==
  ASSUME NEW c \in Calls, \A d \in Calls \ {c} : Unseen(d),
         StatusOf(c) = "active", TryOf(c) = "good",
         StatusOf(c)' = "ok", TryOf(c)' = "none", FailuresOf(c)' = FailuresOf(c)
  PROVE  Contract!Succeed(c)
BY DEF Contract!Succeed, Unseen, StatusOf, FailuresOf, TryOf

LEMMA MapLose ==
  ASSUME \A c \in Calls :
           /\ StatusOf(c)' = IF StatusOf(c) = "active" THEN "lost" ELSE StatusOf(c)
           /\ TryOf(c)' = "none" /\ FailuresOf(c)' = FailuresOf(c)
  PROVE  Contract!Lose
BY DEF Contract!Lose, StatusOf, FailuresOf, TryOf

LEMMA MapInit == Init => Contract!Init
<1> SUFFICES ASSUME Init PROVE Contract!Init
  OBVIOUS
<1>1. \A c \in Calls : Current(c) \in Requests
  <2>1. attempt \in [Calls -> 1 .. MaxRetry]
    BY SchedulerAssumption DEF Init
  <2> QED
    BY <2>1, CurrentIsRequest
<1>2. \A c \in Calls : StatusOf(c) = "idle" /\ FailuresOf(c) = 0 /\ TryOf(c) = "none"
  BY <1>1 DEF Init, StatusOf, FailuresOf, TryOf
<1> QED
  BY <1>2 DEF Contract!Init, StatusOf, FailuresOf, TryOf

-----------------------------------------------------------------------------
(* Steps of the request path.                                              *)

LEMMA CallsTyped ==
  ASSUME PlaceInv, NEW c \in Calls
  PROVE  /\ attempt[c] \in 1 .. MaxRetry /\ MaxRetry \in Nat /\ phase[c] \in Phases
         /\ Current(c) \in Requests /\ Current(c).call = c /\ Current(c).attempt = attempt[c]
BY SchedulerAssumption, CurrentIsRequest DEF PlaceInv, TypeInv, TypeOK, Current

(* What only clients' queueing, ScheduleRoutine's reading, workers and     *)
(* FuncManager do.                                                         *)
LEMMA SamePhase ==
  ASSUME UNCHANGED <<attempt, routine>>,
         \A c \in Calls : StatusOf(c)' = StatusOf(c) /\ (phase'[c] = "failed" <=> phase[c] = "failed")
  PROVE  \A c \in Calls : Unseen(c)
BY DEF Unseen, FailuresOf, TryOf, Current

LEMMA RefineClients ==
  ASSUME PlaceInv, NEW c \in Calls,
         CallFunction(c) \/ NextIDFails(c) \/ SubmitRequest(c) \/ Trigger(c)
  PROVE  Contract!Begin(c) \/ Contract!Fail(c) \/ UNCHANGED Contract!vars
<1>1. /\ attempt[c] \in 1 .. MaxRetry /\ MaxRetry \in Nat
      /\ phase \in [Calls -> Phases] /\ attempt \in [Calls -> 1 .. MaxRetry]
  BY CallsTyped DEF PlaceInv, TypeInv, TypeOK
<1>2. CASE CallFunction(c)
  <2>1. UNCHANGED <<attempt, routine>> /\ phase[c] = "idle" /\ phase' = [phase EXCEPT ![c] = "submit"]
    BY <1>2 DEF CallFunction, callee
  <2>2. \A d \in Calls \ {c} : Unseen(d)
    BY <1>1, <2>1 DEF Unseen, StatusOf, FailuresOf, TryOf, Current
  <2>3. StatusOf(c) = "idle" /\ StatusOf(c)' = "active"
    BY <1>1, <2>1 DEF StatusOf, Finished
  <2>4. FailuresOf(c)' = FailuresOf(c) /\ TryOf(c)' = TryOf(c)
    BY <1>1, <2>1 DEF FailuresOf, TryOf, Current
  <2> QED
    BY <2>2, <2>3, <2>4, MapBegin
<1>3. CASE NextIDFails(c)
  <2>1. phase[c] = "submit" /\ routine' = routine /\ RetryOrFail(c)
    BY <1>3 DEF NextIDFails, callee
  <2>2. \A d \in Calls \ {c} : phase'[d] = phase[d] /\ attempt'[d] = attempt[d]
    BY <1>1, <2>1 DEF RetryOrFail
  <2>3. \A d \in Calls \ {c} : Unseen(d)
    BY <2>1, <2>2 DEF Unseen, StatusOf, FailuresOf, TryOf, Current
  <2>4. routine[Current(c)] = "none"
    BY <2>1, CallsTyped DEF PlaceInv, StartedAreMade
  <2>5. StatusOf(c) = "active" /\ TryOf(c) = "none" /\ FailuresOf(c) = attempt[c] - 1
    BY <2>1, <2>4 DEF StatusOf, TryOf, FailuresOf, Finished
  <2>6. CASE attempt[c] = MaxRetry
    <3>1. phase'[c] = "failed" /\ attempt' = attempt
      BY <1>1, <2>1, <2>6 DEF RetryOrFail
    <3>2. TryOf(c)' = "none"
      BY <2>1, <2>4, <3>1 DEF TryOf, Current
    <3>3. StatusOf(c)' = "failed" /\ FailuresOf(c)' = MaxRetry
      BY <3>1 DEF StatusOf, FailuresOf, Finished
    <3>4. FailuresOf(c)' = FailuresOf(c) + 1
      BY <1>1, <2>5, <2>6, <3>3
    <3> QED
      BY <2>3, <2>5, <3>2, <3>3, <3>4, MapFail
  <2>7. CASE attempt[c] # MaxRetry
    <3>1. phase'[c] = "submit" /\ attempt'[c] = attempt[c] + 1 /\ attempt'[c] \in 1 .. MaxRetry
      BY <1>1, <2>1, <2>7 DEF RetryOrFail
    <3>2. Current(c)' = [call |-> c, attempt |-> attempt[c] + 1] /\ Current(c)' \in Requests
      BY <3>1 DEF Current, Requests
    <3>3. routine[Current(c)'] = "none"
      BY <1>1, <3>2 DEF PlaceInv, StartedAreMade
    <3>4. TryOf(c)' = "none"
      BY <2>1, <3>3 DEF TryOf
    <3>5. StatusOf(c)' = "active" /\ FailuresOf(c)' = attempt[c]
      BY <1>1, <3>1 DEF StatusOf, FailuresOf, Finished
    <3>6. FailuresOf(c)' = FailuresOf(c) + 1 /\ FailuresOf(c)' # MaxRetry
      BY <1>1, <2>5, <2>7, <3>5
    <3> QED
      BY <2>3, <2>5, <3>4, <3>5, <3>6, MapFail
  <2> QED
    BY <2>6, <2>7
<1>4. CASE SubmitRequest(c) \/ Trigger(c)
  <2>1. /\ UNCHANGED <<attempt, routine>> /\ phase[c] \in {"submit", "trigger"}
        /\ \E p \in {"trigger", "wait"} : phase' = [phase EXCEPT ![c] = p]
    BY <1>4 DEF SubmitRequest, Trigger, callee
  <2>2. phase'[c] \in {"trigger", "wait"} /\ \A d \in Calls \ {c} : phase'[d] = phase[d]
    BY <1>1, <2>1
  <2>3. \A d \in Calls : StatusOf(d)' = StatusOf(d) /\ (phase'[d] = "failed" <=> phase[d] = "failed")
    BY <2>1, <2>2 DEF StatusOf, Finished
  <2> QED
    BY <2>1, <2>3, SamePhase, MapStutter
<1> QED
  BY <1>2, <1>3, <1>4

LEMMA RefinePop ==
  ASSUME PlaceInv, PopAndCall, NEW c \in Calls, c = peeked.call
  PROVE  Contract!Dispatch(c)
<1>1. peeked \in Requests /\ routine[peeked] = "none"
  BY PeekedIsNew DEF PopAndCall, Requests
<1>2. peeked = Current(c) /\ phase[c] \in {"trigger", "wait"}
  <2>1. queue \in Seq(Requests) /\ queue # <<>> /\ peeked = Head(queue)
    BY DEF PlaceInv, TypeInv, TypeOK, HoldsHead, PopAndCall
  <2>2. 1 \in 1 .. Len(queue) /\ peeked = queue[1]
    BY <2>1, EmptySeq
  <2> QED
    BY <2>2 DEF PlaceInv, EveryWaitingCallIsInOnePlace
<1>3. /\ UNCHANGED <<phase, attempt>> /\ routine'[peeked] = "dial"
      /\ \A r \in Requests \ {peeked} : routine'[r] = routine[r]
  BY <1>1 DEF PopAndCall, callVars, PlaceInv, TypeInv, TypeOK
<1>4. ASSUME NEW d \in Calls PROVE StatusOf(d)' = StatusOf(d) /\ FailuresOf(d)' = FailuresOf(d)
  BY <1>3 DEF StatusOf, FailuresOf
<1>5. ASSUME NEW d \in Calls \ {c} PROVE Unseen(d)
  <2>1. Current(d) \in Requests \ {peeked} /\ Current(d)' = Current(d)
    BY <1>2, <1>3, CallsTyped DEF Current
  <2>2. TryOf(d)' = TryOf(d)
    BY <1>3, <2>1 DEF TryOf
  <2> QED
    BY <1>4, <2>2 DEF Unseen
<1>6. TryOf(c) = "none" /\ TryOf(c)' = "running"
  <2>1. Current(c)' = peeked
    BY <1>2, <1>3 DEF Current
  <2>2. routine[Current(c)] = "none" /\ routine'[Current(c)'] = "dial"
    BY <1>1, <1>2, <1>3, <2>1
  <2> QED
    BY <2>2 DEF TryOf
<1>7. StatusOf(c) = "active"
  BY <1>2 DEF StatusOf, Finished
<1> QED
  BY <1>4, <1>5, <1>6, <1>7, MapDispatch

(* The goroutine of a request moves on, and no client notices.             *)
LEMMA RefineServing ==
  ASSUME PlaceInv, NEW r \in Requests, NEW c \in Calls, c = r.call,
         \/ Dial(r) \/ DialFails(r) \/ Answer(r) \/ Expire(r) \/ WorkerEnds(r)
         \/ DeleteRecord(r)
  PROVE  Contract!Answer(c) \/ UNCHANGED Contract!vars
<1>1. UNCHANGED <<phase, attempt>> /\ routine \in [Requests -> Stages]
  BY DEF Dial, DialFails, Answer, Expire, WorkerEnds, DeleteRecord, callVars,
         PlaceInv, TypeInv, TypeOK
<1>2. \A d \in Calls :
        /\ Current(d) \in Requests /\ Current(d)' = Current(d)
        /\ StatusOf(d)' = StatusOf(d) /\ FailuresOf(d)' = FailuresOf(d)
  BY <1>1, CallsTyped DEF Current, StatusOf, FailuresOf
<1>3. CASE WorkerEnds(r)
  BY <1>2, <1>3, MapStutter DEF WorkerEnds, Unseen, TryOf
<1>4. CASE \/ Dial(r) /\ routine[r] = "dial" /\ routine' = [routine EXCEPT ![r] = "await"]
           \/ DeleteRecord(r) /\ routine[r] = "cleanup" /\ routine' = [routine EXCEPT ![r] = "done"]
  <2>1. \A x \in Requests : \/ routine'[x] = routine[x]
                            \/ routine[x] = "dial" /\ routine'[x] = "await"
                            \/ routine[x] = "cleanup" /\ routine'[x] = "done"
    BY <1>1, <1>4
  <2>2. \A d \in Calls : TryOf(d)' = TryOf(d)
    BY <1>2, <2>1 DEF TryOf
  <2> QED
    BY <1>2, <2>2, MapStutter DEF Unseen
<1>5. CASE DialFails(r) \/ Answer(r) \/ Expire(r)
  <2>1. /\ routine[r] \in {"dial", "await"} /\ routine'[r] \in {"okReply", "errReply"}
        /\ \A x \in Requests \ {r} : routine'[x] = routine[x]
    BY <1>1, <1>5 DEF DialFails, Answer, Expire, SetStage
  <2>2. Current(c) = r
    BY <2>1, OwnRequest DEF PlaceInv, NoStrayReply, Serving
  <2>3. ASSUME NEW d \in Calls \ {c} PROVE Unseen(d)
    <3>1. Current(d) \in Requests \ {r}
      BY <2>2, CallsTyped
    <3>2. TryOf(d)' = TryOf(d)
      BY <1>2, <2>1, <3>1 DEF TryOf
    <3> QED
      BY <1>2, <3>2 DEF Unseen
  <2>4. TryOf(c) = "running" /\ TryOf(c)' \in {"good", "bad"}
    <3>1. routine[Current(c)] \in {"dial", "await"} /\ routine'[Current(c)'] \in {"okReply", "errReply"}
      BY <1>2, <2>1, <2>2
    <3> QED
      BY <3>1 DEF TryOf
  <2> QED
    BY <1>2, <2>3, <2>4, MapAnswer
<1> QED
  BY <1>3, <1>4, <1>5 DEF Dial, DeleteRecord, SetStage

(* The reply decides the call's current try.                               *)
LEMMA RefineReply ==
  ASSUME PlaceInv, NEW r \in Requests, NEW c \in Calls, c = r.call, Reply(r)
  PROVE  Contract!Succeed(c) \/ Contract!Fail(c)
<1>1. /\ routine \in [Requests -> Stages] /\ phase \in [Calls -> Phases]
      /\ attempt \in [Calls -> 1 .. MaxRetry] /\ MaxRetry \in Nat
  BY SchedulerAssumption DEF PlaceInv, TypeInv, TypeOK
<1>2. /\ phase[c] = "wait" /\ routine[r] \in {"okReply", "errReply"}
      /\ routine' = [routine EXCEPT ![r] = "cleanup"]
  BY DEF Reply, SetStage
<1>3. routine'[r] = "cleanup" /\ \A x \in Requests \ {r} : routine'[x] = routine[x]
  BY <1>1, <1>2
<1>4. Current(c) = r
  BY <1>2, OwnRequest DEF PlaceInv, NoStrayReply, Serving
<1>5. \A d \in Calls \ {c} : phase'[d] = phase[d] /\ attempt'[d] = attempt[d]
  BY <1>1 DEF Reply, RetryOrFail
<1>6. ASSUME NEW d \in Calls \ {c} PROVE Unseen(d)
  <2>1. Current(d) \in Requests \ {r} /\ Current(d)' = Current(d)
    BY <1>4, <1>5, CallsTyped DEF Current
  <2>2. TryOf(d)' = TryOf(d)
    BY <1>3, <2>1 DEF TryOf
  <2> QED
    BY <1>5, <2>2 DEF Unseen, StatusOf, FailuresOf
<1>7. StatusOf(c) = "active" /\ FailuresOf(c) = attempt[c] - 1
  BY <1>2 DEF StatusOf, FailuresOf, Finished
<1>8. CASE routine[r] = "okReply"
  <2>1. phase'[c] = "ok" /\ attempt' = attempt
    BY <1>1, <1>8 DEF Reply, SetStage
  <2>2. TryOf(c) = "good" /\ TryOf(c)' = "none"
    <3>1. routine[Current(c)] = "okReply" /\ routine'[Current(c)'] = "cleanup"
      BY <1>3, <1>4, <1>8, <2>1 DEF Current
    <3> QED
      BY <3>1 DEF TryOf
  <2>3. StatusOf(c)' = "ok" /\ FailuresOf(c)' = FailuresOf(c)
    BY <1>7, <2>1 DEF StatusOf, FailuresOf, Finished
  <2> QED
    BY <1>6, <1>7, <2>2, <2>3, MapSucceed
<1>9. CASE routine[r] = "errReply"
  <2>1. RetryOrFail(c)
    BY <1>9 DEF Reply, SetStage
  <2>2. TryOf(c) = "bad"
    BY <1>4, <1>9 DEF TryOf
  <2>3. CASE attempt[c] = MaxRetry
    <3>1. phase'[c] = "failed" /\ attempt' = attempt
      BY <1>1, <2>1, <2>3 DEF RetryOrFail
    <3>2. routine'[Current(c)'] = "cleanup"
      BY <1>3, <1>4, <3>1 DEF Current
    <3>3. TryOf(c)' = "none" /\ StatusOf(c)' = "failed" /\ FailuresOf(c)' = MaxRetry
      BY <3>1, <3>2 DEF TryOf, StatusOf, FailuresOf, Finished
    <3>4. FailuresOf(c)' = FailuresOf(c) + 1
      BY <1>1, <1>7, <2>3, <3>3
    <3> QED
      BY <1>6, <1>7, <2>2, <3>3, <3>4, MapFail
  <2>4. CASE attempt[c] # MaxRetry
    <3>1. phase'[c] = "submit" /\ attempt'[c] = attempt[c] + 1 /\ attempt'[c] \in 1 .. MaxRetry
      BY <1>1, <2>1, <2>4 DEF RetryOrFail
    <3>2. Current(c)' = [call |-> c, attempt |-> attempt[c] + 1] /\ Current(c)' \in Requests \ {r}
      <4>1. Current(c)' = [call |-> c, attempt |-> attempt[c] + 1] /\ Current(c)' \in Requests
        BY <3>1 DEF Current, Requests
      <4>2. r.attempt = attempt[c]
        BY <1>4 DEF Current
      <4> QED
        BY <1>1, <4>1, <4>2
    <3>3. routine'[Current(c)'] = "none"
      BY <1>1, <1>3, <3>2 DEF PlaceInv, StartedAreMade
    <3>4. TryOf(c)' = "none"
      BY <3>3 DEF TryOf
    <3>5. StatusOf(c)' = "active" /\ FailuresOf(c)' = attempt[c]
      BY <1>1, <3>1 DEF StatusOf, FailuresOf, Finished
    <3>6. FailuresOf(c)' = FailuresOf(c) + 1 /\ FailuresOf(c)' # MaxRetry
      BY <1>1, <1>7, <2>4, <3>5
    <3> QED
      BY <1>6, <1>7, <2>2, <3>4, <3>5, <3>6, MapFail
  <2> QED
    BY <2>3, <2>4
<1> QED
  BY <1>2, <1>8, <1>9

LEMMA RefineRestart ==
  ASSUME PlaceInv, RestartProcess
  PROVE  Contract!Lose
<1>1. attempt' = attempt /\ \A r \in Requests : routine'[r] \in {"none", "done"}
  BY DEF RestartProcess
<1>2. \A c \in Calls :
        phase'[c] = IF phase[c] \in Finished \cup {"idle"} THEN phase[c] ELSE "lost"
  BY DEF RestartProcess
<1>3. \A c \in Calls : FailuresOf(c)' = FailuresOf(c)
  BY <1>1, <1>2 DEF FailuresOf, Finished
<1>4. \A c \in Calls : TryOf(c)' = "none"
  <2>1. \A c \in Calls : Current(c)' \in Requests
    BY <1>1, CallsTyped DEF Current
  <2> QED
    BY <1>1, <2>1 DEF TryOf
<1>5. \A c \in Calls :
        StatusOf(c)' = IF StatusOf(c) = "active" THEN "lost" ELSE StatusOf(c)
  BY <1>2 DEF StatusOf, Finished
<1> QED
  BY <1>3, <1>4, <1>5, MapLose

LEMMA RefineNext == PlaceInv /\ [Next]_vars => [Contract!Next]_Contract!vars
<1> SUFFICES ASSUME PlaceInv, [Next]_vars PROVE Contract!Next \/ UNCHANGED Contract!vars
  OBVIOUS
<1>1. CASE \/ Tick \/ ReadInstances \/ ReadRecords \/ Place
           \/ \E s \in Services : InstanceChanges(s)
           \/ UNCHANGED vars
  <2>1. UNCHANGED <<phase, attempt, routine>>
    BY <1>1 DEF Tick, ReadInstances, ReadRecords, Place, InstanceChanges, vars, callVars, callee
  <2>2. \A c \in Calls : StatusOf(c)' = StatusOf(c) /\ (phase'[c] = "failed" <=> phase[c] = "failed")
    BY <2>1 DEF StatusOf
  <2> QED
    BY <2>1, <2>2, SamePhase, MapStutter
<1>2. CASE \E c \in Calls : CallFunction(c) \/ NextIDFails(c) \/ SubmitRequest(c) \/ Trigger(c)
  BY <1>2, RefineClients DEF Contract!Next
<1>3. CASE PopAndCall
  <2>1. peeked.call \in Calls
    BY <1>3, PeekedIsNew DEF PopAndCall, Requests
  <2> QED
    BY <1>3, <2>1, RefinePop DEF Contract!Next
<1>4. CASE \E r \in Requests :
             \/ Dial(r) \/ DialFails(r) \/ Answer(r) \/ Expire(r) \/ WorkerEnds(r)
             \/ Reply(r) \/ DeleteRecord(r)
  <2>1. PICK r \in Requests :
             \/ Dial(r) \/ DialFails(r) \/ Answer(r) \/ Expire(r) \/ WorkerEnds(r)
             \/ Reply(r) \/ DeleteRecord(r)
    BY <1>4
  <2>2. r.call \in Calls
    BY DEF Requests
  <2> QED
    BY <2>1, <2>2, RefineServing, RefineReply DEF Contract!Next
<1>5. CASE Restart
  BY <1>5, RefineRestart DEF Restart, Contract!Next
<1> QED
  BY <1>1, <1>2, <1>3, <1>4, <1>5 DEF Next

(***************************************************************************)
(* The request path implements the contract of CallFunction: each call is  *)
(* answered from its own current try, is tried at most MaxRetry times, and *)
(* fails only when all of them have.                                       *)
(***************************************************************************)
THEOREM RequestPathKeepsContract == Spec => KeepsContract
BY PlaceInvariant, MapInit, RefineNext, PTL DEF Spec, KeepsContract, Contract!Spec
=============================================================================
