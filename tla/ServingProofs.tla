----------------------------- MODULE ServingProofs -----------------------------
(***************************************************************************)
(* Theorems about ReqScheduler that follow a request from CallFunction to  *)
(* the deletion of its schedule record: a waiting call is in one place, no *)
(* reply goes astray, a request that a worker serves is recorded, no       *)
(* record is forgotten, and requests are served in order.                  *)
(***************************************************************************)
EXTENDS ReqSchedulerProofs, SequenceTheorems

(* Past its Peek, ScheduleRoutine holds the head of the queue: clients     *)
(* only append, and nobody else pops.                                      *)
HoldsHead == at # "select" => queue # <<>> /\ peeked = Head(queue)

QueuedAreNew == \A i \in 1 .. Len(queue) : routine[queue[i]] = "none"

(* A goroutine was started for an attempt its call has made.               *)
StartedAreMade ==
  \A r \in Requests :
    routine[r] # "none" =>
      /\ r.attempt <= attempt[r.call]
      /\ phase[r.call] \in {"idle", "submit"} => r.attempt < attempt[r.call]

(***************************************************************************)
(* The inductive invariant on the places of a request.  A request is new,  *)
(* then queued, then served: the two properties of the runs are inductive  *)
(* only with what connects the queue, ScheduleRoutine and the goroutines.  *)
(***************************************************************************)
PlaceInv ==
  /\ TypeInv
  /\ HoldsHead /\ QueuedAreNew /\ StartedAreMade
  /\ EveryWaitingCallIsInOnePlace /\ NoStrayReply

LEMMA OwnRequest ==
  ASSUME NEW r \in Requests, attempt[r.call] = r.attempt
  PROVE  Current(r.call) = r
BY DEF Current, Requests

LEMMA QueuedTyped ==
  ASSUME TypeOK, NEW i \in 1 .. Len(queue)
  PROVE  queue[i] \in Requests /\ queue[i].call \in Calls
<1>1. queue[i] \in Requests
  BY ElementOfSeq DEF TypeOK
<1> QED
  BY <1>1 DEF Requests

LEMMA PlaceInit == Init => PlaceInv
<1> SUFFICES ASSUME Init PROVE PlaceInv
  OBVIOUS
<1>1. queue = <<>> /\ Len(queue) = 0 /\ \A r \in Requests : routine[r] = "none"
  BY DEF Init
<1>2. \A c \in Calls : phase[c] = "idle"
  BY DEF Init
<1>3. at = "select"
  BY DEF Init
<1> QED
  BY <1>1, <1>2, <1>3, TypeInit
  DEF PlaceInv, HoldsHead, QueuedAreNew, StartedAreMade, EveryWaitingCallIsInOnePlace,
      NoStrayReply, Serving

(* Steps that move ScheduleRoutine only.                                   *)
LEMMA PlaceSameRequests ==
  ASSUME PlaceInv, TypeInv', UNCHANGED <<phase, attempt, queue, routine>>, HoldsHead'
  PROVE  PlaceInv'
<1>1. QueuedAreNew' /\ StartedAreMade' /\ NoStrayReply'
  BY DEF PlaceInv, QueuedAreNew, StartedAreMade, NoStrayReply
<1>2. EveryWaitingCallIsInOnePlace'
  BY DEF PlaceInv, EveryWaitingCallIsInOnePlace, Current
<1> QED
  BY <1>1, <1>2 DEF PlaceInv

(* CallFunction begins, or an attempt ends before anything was queued.     *)
LEMMA PlaceUnqueued ==
  ASSUME PlaceInv, TypeInv', UNCHANGED <<queue, at, peeked, routine>>, NEW c \in Calls,
         phase[c] \in {"idle", "submit"}, phase'[c] \in {"submit", "failed"},
         attempt'[c] \in {attempt[c], attempt[c] + 1},
         \A d \in Calls \ {c} : phase'[d] = phase[d] /\ attempt'[d] = attempt[d]
  PROVE  PlaceInv'
<1>1. attempt[c] \in Int /\ MaxRetry \in Nat
  BY SchedulerAssumption DEF PlaceInv, TypeInv, TypeOK
<1>2. HoldsHead' /\ QueuedAreNew'
  BY DEF PlaceInv, HoldsHead, QueuedAreNew
<1>3. StartedAreMade'
  <2> SUFFICES ASSUME NEW r \in Requests, routine[r] # "none"
               PROVE  /\ r.attempt <= attempt'[r.call]
                      /\ phase'[r.call] \in {"idle", "submit"} => r.attempt < attempt'[r.call]
    BY DEF StartedAreMade
  <2>1. r.call \in Calls /\ r.attempt \in Int
    BY <1>1 DEF Requests
  <2>2. /\ r.attempt <= attempt[r.call]
        /\ phase[r.call] \in {"idle", "submit"} => r.attempt < attempt[r.call]
    BY DEF PlaceInv, StartedAreMade
  <2> QED
    BY <1>1, <2>1, <2>2
<1>4. NoStrayReply'
  BY DEF PlaceInv, NoStrayReply, Requests
<1>5. EveryWaitingCallIsInOnePlace'
  <2>1. ASSUME NEW i \in 1 .. Len(queue)
        PROVE  /\ queue[i] \in Requests /\ queue[i].call \in Calls /\ queue[i].call # c
               /\ phase'[queue[i].call] = phase[queue[i].call]
               /\ attempt'[queue[i].call] = attempt[queue[i].call]
    <3>1. queue[i] \in Requests /\ queue[i].call \in Calls
      BY QueuedTyped DEF PlaceInv, TypeInv
    <3>2. phase[queue[i].call] \in {"trigger", "wait"}
      BY DEF PlaceInv, EveryWaitingCallIsInOnePlace
    <3> QED
      BY <3>1, <3>2
  <2>2. ASSUME NEW d \in Calls, phase'[d] \in {"trigger", "wait"}
        PROVE  d # c /\ phase'[d] = phase[d] /\ attempt'[d] = attempt[d]
    BY <2>2
  <2> QED
    BY <2>1, <2>2 DEF PlaceInv, EveryWaitingCallIsInOnePlace, Current
<1> QED
  BY <1>2, <1>3, <1>4, <1>5 DEF PlaceInv

(* A request joins the queue: it is new, as no goroutine was started for   *)
(* an attempt that its call has not made.                                  *)
LEMMA PlaceSubmit ==
  ASSUME PlaceInv, TypeInv', NEW c \in Calls, SubmitRequest(c)
  PROVE  PlaceInv'
<1> DEFINE n == Current(c)
<1>1. n \in Requests /\ n.call = c /\ n.attempt = attempt[c] /\ attempt[c] \in Int
  BY CurrentIsRequest, SchedulerAssumption DEF PlaceInv, TypeInv, TypeOK, Current
<1>2. routine[n] = "none"
  BY <1>1 DEF PlaceInv, StartedAreMade, SubmitRequest
<1>3. queue \in Seq(Requests) /\ Len(queue) \in Nat
  BY DEF PlaceInv, TypeInv, TypeOK
<1>4. /\ Len(queue') = Len(queue) + 1 /\ queue' # <<>>
      /\ \A i \in 1 .. Len(queue) : queue'[i] = queue[i]
      /\ queue'[Len(queue) + 1] = n
      /\ queue # <<>> => Head(queue') = Head(queue)
  BY <1>1, <1>3, AppendProperties, HeadTailAppend DEF SubmitRequest
<1>5. /\ UNCHANGED <<attempt, at, peeked, routine>>
      /\ phase[c] = "submit" /\ phase' = [phase EXCEPT ![c] = "trigger"]
  BY DEF SubmitRequest, schedVars, callee
<1>6. phase'[c] = "trigger" /\ \A d \in Calls \ {c} : phase'[d] = phase[d]
  BY <1>5 DEF PlaceInv, TypeInv, TypeOK
<1> HIDE DEF n
<1>7. HoldsHead'
  BY <1>4, <1>5 DEF PlaceInv, HoldsHead
<1>8. QueuedAreNew'
  BY <1>2, <1>3, <1>4, <1>5 DEF PlaceInv, QueuedAreNew
<1>9. StartedAreMade' /\ NoStrayReply'
  BY <1>5, <1>6 DEF PlaceInv, StartedAreMade, NoStrayReply, Requests
<1>10. ASSUME NEW i \in 1 .. Len(queue)
       PROVE  /\ queue[i].call \in Calls /\ queue[i].call # c
              /\ queue[i] = Current(queue[i].call)
  <2>1. queue[i] \in Requests /\ queue[i].call \in Calls
    BY QueuedTyped DEF PlaceInv, TypeInv
  <2>2. phase[queue[i].call] \in {"trigger", "wait"} /\ queue[i] = Current(queue[i].call)
    BY DEF PlaceInv, EveryWaitingCallIsInOnePlace
  <2> QED
    BY <1>5, <2>1, <2>2
<1>11. \A d : Current(d)' = Current(d)
  BY <1>5 DEF Current
<1>12. EveryWaitingCallIsInOnePlace'
  <2>1. ASSUME NEW d \in Calls, phase'[d] \in {"trigger", "wait"}
        PROVE  (\E i \in 1 .. Len(queue') : queue'[i] = Current(d))
                 <=> routine[Current(d)] \notin Serving
    <3>1. CASE d = c
      <4>1. routine[Current(d)] \notin Serving
        BY <1>2, <3>1 DEF n, Serving
      <4> QED
        BY <1>3, <1>4, <3>1, <4>1 DEF n
    <3>2. CASE d # c
      <4>1. Current(d) # n
        BY <3>2 DEF Current, n
      <4>2. (\E i \in 1 .. Len(queue) : queue[i] = Current(d))
              <=> routine[Current(d)] \notin Serving
        BY <1>6, <2>1, <3>2 DEF PlaceInv, EveryWaitingCallIsInOnePlace
      <4> QED
        BY <1>3, <1>4, <4>1, <4>2
    <3> QED
      BY <3>1, <3>2
  <2>2. ASSUME NEW i \in 1 .. Len(queue')
        PROVE  /\ phase'[queue'[i].call] \in {"trigger", "wait"}
               /\ queue'[i] = Current(queue'[i].call)
               /\ \A j \in 1 .. Len(queue') : queue'[j] = queue'[i] => j = i
    <3>1. \A k \in 1 .. Len(queue) : queue[k] # n
      BY <1>1, <1>10
    <3>2. CASE i = Len(queue) + 1
      <4>1. queue'[i] = n
        BY <1>4, <3>2
      <4>2. n = Current(n.call)
        BY <1>1 DEF n
      <4> QED
        BY <1>1, <1>3, <1>4, <1>6, <3>1, <3>2, <4>1, <4>2
    <3>3. CASE i \in 1 .. Len(queue)
      <4>1. queue'[i] = queue[i]
        BY <1>4, <3>3
      <4>2. phase[queue[i].call] \in {"trigger", "wait"}
        BY <3>3 DEF PlaceInv, EveryWaitingCallIsInOnePlace
      <4>3. \A j \in 1 .. Len(queue) : queue[j] = queue[i] => j = i
        BY <3>3 DEF PlaceInv, EveryWaitingCallIsInOnePlace
      <4> QED
        BY <1>3, <1>4, <1>6, <1>10, <3>1, <3>3, <4>1, <4>2, <4>3
    <3> QED
      BY <1>3, <1>4, <3>2, <3>3
  <2> QED
    BY <1>5, <1>11, <2>1, <2>2 DEF EveryWaitingCallIsInOnePlace
<1> QED
  BY <1>7, <1>8, <1>9, <1>12 DEF PlaceInv

(* The head of the queue gets its goroutine, and it alone leaves.          *)
LEMMA PlacePop ==
  ASSUME PlaceInv, TypeInv', PopAndCall
  PROVE  PlaceInv'
<1>1. queue \in Seq(Requests) /\ queue # <<>> /\ Len(queue) \in Nat \ {0}
  BY EmptySeq DEF PlaceInv, TypeInv, TypeOK, HoldsHead, PopAndCall
<1>2. /\ peeked = queue[1] /\ peeked \in Requests /\ peeked.call \in Calls
      /\ peeked = Current(peeked.call)
      /\ phase[peeked.call] \in {"trigger", "wait"}
  <2>1. peeked = queue[1] /\ 1 \in 1 .. Len(queue)
    BY <1>1 DEF PlaceInv, HoldsHead, PopAndCall
  <2>2. peeked \in Requests /\ peeked.call \in Calls
    BY <2>1, QueuedTyped DEF PlaceInv, TypeInv
  <2> QED
    BY <2>1, <2>2 DEF PlaceInv, EveryWaitingCallIsInOnePlace
<1>3. /\ Len(queue') = Len(queue) - 1
      /\ \A i \in 1 .. Len(queue') : queue'[i] = queue[i + 1] /\ i + 1 \in 1 .. Len(queue)
  BY <1>1, HeadTailProperties DEF PopAndCall
<1>4. /\ UNCHANGED <<phase, attempt>> /\ at' = "select"
      /\ routine'[peeked] = "dial"
      /\ \A r \in Requests \ {peeked} : routine'[r] = routine[r]
  BY <1>2 DEF PopAndCall, callVars, ToSelect, PlaceInv, TypeInv, TypeOK
<1>5. ASSUME NEW i \in 1 .. Len(queue')
      PROVE  queue'[i] # peeked /\ queue'[i] \in Requests
  <2>1. queue'[i] = queue[i + 1] /\ i + 1 \in 1 .. Len(queue) /\ i + 1 # 1 /\ 1 \in 1 .. Len(queue)
    BY <1>1, <1>3
  <2>2. queue[i + 1] \in Requests
    BY <2>1, QueuedTyped DEF PlaceInv, TypeInv
  <2>3. \A k \in 1 .. Len(queue) : \A j \in 1 .. Len(queue) : queue[j] = queue[k] => j = k
    BY DEF PlaceInv, EveryWaitingCallIsInOnePlace
  <2> QED
    BY <1>2, <2>1, <2>2, <2>3
<1>6. HoldsHead'
  BY <1>4 DEF HoldsHead
<1>7. QueuedAreNew'
  BY <1>3, <1>4, <1>5 DEF PlaceInv, QueuedAreNew
<1>8. StartedAreMade'
  <2>1. peeked.attempt = attempt[peeked.call]
    BY <1>2 DEF Current
  <2>2. attempt[peeked.call] \in Int
    BY <1>2, SchedulerAssumption DEF PlaceInv, TypeInv, TypeOK
  <2> QED
    BY <1>2, <1>4, <2>1, <2>2 DEF PlaceInv, StartedAreMade
<1>9. NoStrayReply'
  BY <1>2, <1>4 DEF PlaceInv, NoStrayReply, Current
<1>10. \A d : Current(d)' = Current(d)
  BY <1>4 DEF Current
<1>11. EveryWaitingCallIsInOnePlace'
  <2>1. ASSUME NEW d \in Calls, phase[d] \in {"trigger", "wait"}
        PROVE  (\E i \in 1 .. Len(queue') : queue'[i] = Current(d))
                 <=> routine'[Current(d)] \notin Serving
    <3>1. CASE Current(d) = peeked
      BY <1>4, <1>5, <3>1 DEF Serving
    <3>2. CASE Current(d) # peeked
      <4>1. (\E i \in 1 .. Len(queue) : queue[i] = Current(d))
              <=> routine[Current(d)] \notin Serving
        BY <2>1 DEF PlaceInv, EveryWaitingCallIsInOnePlace
      <4>2. Current(d) \in Requests
        BY CurrentIsRequest DEF PlaceInv, TypeInv, TypeOK
      <4>3. ASSUME NEW i \in 1 .. Len(queue), queue[i] = Current(d)
            PROVE  \E j \in 1 .. Len(queue') : queue'[j] = Current(d)
        <5>1. i # 1 /\ i - 1 \in 1 .. Len(queue')
          BY <1>1, <1>2, <1>3, <3>2, <4>3
        <5>2. queue'[i - 1] = queue[i]
          BY <1>1, <1>3, <5>1
        <5> QED
          BY <4>3, <5>1, <5>2
      <4> QED
        BY <1>3, <1>4, <3>2, <4>1, <4>2, <4>3
    <3> QED
      BY <3>1, <3>2
  <2>2. ASSUME NEW i \in 1 .. Len(queue')
        PROVE  /\ phase[queue'[i].call] \in {"trigger", "wait"}
               /\ queue'[i] = Current(queue'[i].call)
               /\ \A j \in 1 .. Len(queue') : queue'[j] = queue'[i] => j = i
    <3>1. queue'[i] = queue[i + 1] /\ i + 1 \in 1 .. Len(queue)
      BY <1>3
    <3>2. /\ phase[queue[i + 1].call] \in {"trigger", "wait"}
          /\ queue[i + 1] = Current(queue[i + 1].call)
          /\ \A j \in 1 .. Len(queue) : queue[j] = queue[i + 1] => j = i + 1
      BY <3>1 DEF PlaceInv, EveryWaitingCallIsInOnePlace
    <3>3. ASSUME NEW j \in 1 .. Len(queue'), queue'[j] = queue'[i]
          PROVE  j = i
      <4>1. queue'[j] = queue[j + 1] /\ j + 1 \in 1 .. Len(queue)
        BY <1>3
      <4>2. j + 1 = i + 1
        BY <3>1, <3>2, <3>3, <4>1
      <4> QED
        BY <4>2
    <3> QED
      BY <3>1, <3>2, <3>3
  <2> QED
    BY <1>4, <1>10, <2>1, <2>2 DEF EveryWaitingCallIsInOnePlace
<1> QED
  BY <1>6, <1>7, <1>8, <1>9, <1>11 DEF PlaceInv

(* The goroutine of a request goes from one stage to the next, and is on   *)
(* one side of its reply before and after.                                 *)
LEMMA PlaceMoves ==
  ASSUME PlaceInv, TypeInv', UNCHANGED <<phase, attempt, queue, at, peeked>>,
         NEW r \in Requests, routine[r] # "none",
         NEW to \in Stages \ {"none"}, routine' = [routine EXCEPT ![r] = to],
         routine[r] \in Serving <=> to \in Serving
  PROVE  PlaceInv'
<1>1. /\ routine'[r] = to
      /\ \A x \in Requests \ {r} : routine'[x] = routine[x]
  BY DEF PlaceInv, TypeInv, TypeOK
<1>2. \A i \in 1 .. Len(queue) : queue[i] \in Requests /\ queue[i] # r
  BY QueuedTyped DEF PlaceInv, TypeInv, QueuedAreNew
<1>3. \A x \in Requests : routine'[x] \in Serving <=> routine[x] \in Serving
  BY <1>1
<1>4. \A c \in Calls : Current(c) \in Requests
  BY CurrentIsRequest DEF PlaceInv, TypeInv, TypeOK
<1>5. HoldsHead' /\ QueuedAreNew' /\ NoStrayReply'
  BY <1>1, <1>2, <1>3 DEF PlaceInv, HoldsHead, QueuedAreNew, NoStrayReply
<1>6. StartedAreMade'
  BY <1>1 DEF PlaceInv, StartedAreMade
<1>7. \A c : Current(c)' = Current(c)
  BY DEF Current
<1>8. EveryWaitingCallIsInOnePlace'
  BY <1>3, <1>4, <1>7 DEF PlaceInv, EveryWaitingCallIsInOnePlace
<1> QED
  BY <1>5, <1>6, <1>8 DEF PlaceInv

(* A reply reaches the client of its own attempt, which has nothing in the *)
(* queue and no other goroutine.                                           *)
LEMMA PlaceReply ==
  ASSUME PlaceInv, TypeInv', NEW r \in Requests, Reply(r)
  PROVE  PlaceInv'
<1> DEFINE c == r.call
<1>1. /\ c \in Calls /\ r.attempt \in Int /\ attempt[c] \in Int /\ phase[c] = "wait"
      /\ attempt[c] + 1 \in Int
  BY SchedulerAssumption DEF Requests, Reply, PlaceInv, TypeInv, TypeOK
<1>2. routine[r] \in {"okReply", "errReply"} /\ routine' = [routine EXCEPT ![r] = "cleanup"]
  BY DEF Reply, SetStage
<1>3. /\ routine'[r] = "cleanup"
      /\ \A x \in Requests \ {r} : routine'[x] = routine[x]
  BY <1>2 DEF PlaceInv, TypeInv, TypeOK
<1>4. UNCHANGED <<queue, at, peeked>>
  BY DEF Reply, schedVars
<1>5. /\ phase'[c] \in {"ok", "failed", "submit"}
      /\ attempt'[c] \in {attempt[c], attempt[c] + 1}
      /\ phase'[c] = "submit" => attempt'[c] = attempt[c] + 1
      /\ \A d \in Calls \ {c} : phase'[d] = phase[d] /\ attempt'[d] = attempt[d]
  BY <1>1 DEF Reply, RetryOrFail, PlaceInv, TypeInv, TypeOK
<1>6. attempt[c] = r.attempt /\ r = Current(c)
  BY <1>2, OwnRequest DEF PlaceInv, NoStrayReply, Serving
<1>7. ASSUME NEW i \in 1 .. Len(queue)
      PROVE  /\ queue[i] \in Requests \ {r} /\ queue[i].call \in Calls /\ queue[i].call # c
  <2>1. queue[i] \in Requests /\ queue[i].call \in Calls
    BY QueuedTyped DEF PlaceInv, TypeInv
  <2>2. queue[i] = Current(queue[i].call)
    BY DEF PlaceInv, EveryWaitingCallIsInOnePlace
  <2>3. queue[i] # r
    BY <1>2 DEF PlaceInv, QueuedAreNew
  <2> QED
    BY <1>6, <2>1, <2>2, <2>3
<1> HIDE DEF c
<1>8. HoldsHead' /\ QueuedAreNew'
  BY <1>3, <1>4, <1>7 DEF PlaceInv, HoldsHead, QueuedAreNew
<1>9. StartedAreMade'
  <2> SUFFICES ASSUME NEW x \in Requests, routine'[x] # "none"
               PROVE  /\ x.attempt <= attempt'[x.call]
                      /\ phase'[x.call] \in {"idle", "submit"} => x.attempt < attempt'[x.call]
    BY DEF StartedAreMade
  <2>1. x.call \in Calls /\ x.attempt \in Int /\ routine[x] # "none"
    BY <1>2, <1>3, SchedulerAssumption DEF Requests
  <2>2. /\ x.attempt <= attempt[x.call]
        /\ phase[x.call] \in {"idle", "submit"} => x.attempt < attempt[x.call]
    BY <2>1 DEF PlaceInv, StartedAreMade
  <2> QED
    BY <1>1, <1>5, <2>1, <2>2
<1>10. NoStrayReply'
  <2> SUFFICES ASSUME NEW x \in Requests, routine'[x] \in Serving
               PROVE  phase'[x.call] \in {"trigger", "wait"} /\ attempt'[x.call] = x.attempt
    BY DEF NoStrayReply
  <2>1. x # r /\ routine[x] \in Serving /\ x.call \in Calls
    BY <1>3 DEF Serving, Requests
  <2>2. phase[x.call] \in {"trigger", "wait"} /\ attempt[x.call] = x.attempt
    BY <2>1 DEF PlaceInv, NoStrayReply
  <2>3. x.call # c
    BY <1>6, <2>1, <2>2, OwnRequest
  <2> QED
    BY <1>5, <2>1, <2>2, <2>3
<1>11. EveryWaitingCallIsInOnePlace'
  <2>1. ASSUME NEW d \in Calls, phase'[d] \in {"trigger", "wait"}
        PROVE  /\ phase[d] \in {"trigger", "wait"} /\ Current(d)' = Current(d)
               /\ routine'[Current(d)] = routine[Current(d)]
    <3>1. d # c
      BY <1>5, <2>1
    <3>2. phase[d] \in {"trigger", "wait"} /\ Current(d)' = Current(d)
      BY <1>5, <2>1, <3>1 DEF Current
    <3>3. Current(d) # r /\ Current(d) \in Requests
      BY <1>6, <3>1, CurrentIsRequest DEF Current, PlaceInv, TypeInv, TypeOK
    <3> QED
      BY <1>3, <3>2, <3>3
  <2>2. ASSUME NEW i \in 1 .. Len(queue)
        PROVE  /\ phase'[queue[i].call] = phase[queue[i].call]
               /\ Current(queue[i].call)' = Current(queue[i].call)
    BY <1>4, <1>5, <1>7 DEF Current
  <2> QED
    BY <1>4, <2>1, <2>2 DEF PlaceInv, EveryWaitingCallIsInOnePlace
<1> QED
  BY <1>8, <1>9, <1>10, <1>11 DEF PlaceInv

(* The process restarts: nothing is queued and nobody waits.               *)
LEMMA PlaceRestart ==
  ASSUME PlaceInv, TypeInv', RestartProcess
  PROVE  PlaceInv'
<1>1. queue' = <<>> /\ at' = "select" /\ attempt' = attempt
  BY DEF RestartProcess, ToSelect
<1>2. \A c \in Calls :
        /\ phase'[c] \notin {"trigger", "wait"}
        /\ phase'[c] \in {"idle", "submit"} => phase[c] = "idle"
  BY DEF RestartProcess, Finished
<1>3. \A r \in Requests : routine'[r] \in {"none", "done"} /\ (routine'[r] # "none" => routine[r] # "none")
  BY DEF RestartProcess
<1>4. HoldsHead' /\ QueuedAreNew' /\ NoStrayReply'
  BY <1>1, <1>3 DEF HoldsHead, QueuedAreNew, NoStrayReply, Serving
<1>5. StartedAreMade'
  <2>1. \A r \in Requests : r.call \in Calls
    BY DEF Requests
  <2> QED
    BY <1>1, <1>2, <1>3, <2>1 DEF PlaceInv, StartedAreMade
<1>6. EveryWaitingCallIsInOnePlace'
  BY <1>1, <1>2 DEF EveryWaitingCallIsInOnePlace
<1> QED
  BY <1>4, <1>5, <1>6 DEF PlaceInv

(* A client hands over its token, and Schedule may start in the same step. *)
LEMMA PlaceTrigger ==
  ASSUME PlaceInv, TypeInv', NEW c \in Calls, Trigger(c)
  PROVE  PlaceInv'
<1>1. /\ UNCHANGED <<attempt, queue, routine>> /\ at = "select"
      /\ phase[c] = "trigger" /\ phase'[c] = "wait"
      /\ \A d \in Calls \ {c} : phase'[d] = phase[d]
  BY DEF Trigger, callee, PlaceInv, TypeInv, TypeOK
<1>2. HoldsHead'
  BY <1>1 DEF Trigger, Peek, schedVars, PlaceInv, HoldsHead
<1>3. \A r \in Requests : r.call \in Calls
  BY DEF Requests
<1>4. \A i \in 1 .. Len(queue) : queue[i].call \in Calls
  BY QueuedTyped DEF PlaceInv, TypeInv
<1>5. QueuedAreNew' /\ StartedAreMade' /\ NoStrayReply'
  BY <1>1, <1>3 DEF PlaceInv, QueuedAreNew, StartedAreMade, NoStrayReply
<1>6. EveryWaitingCallIsInOnePlace'
  <2>1. \A d : Current(d)' = Current(d)
    BY <1>1 DEF Current
  <2> QED
    BY <1>1, <1>4, <2>1 DEF PlaceInv, EveryWaitingCallIsInOnePlace
<1> QED
  BY <1>2, <1>5, <1>6 DEF PlaceInv

LEMMA PlaceClients ==
  ASSUME PlaceInv, TypeInv', NEW c \in Calls,
         CallFunction(c) \/ NextIDFails(c) \/ SubmitRequest(c) \/ Trigger(c)
  PROVE  PlaceInv'
<1>1. phase \in [Calls -> Phases] /\ attempt \in [Calls -> 1 .. MaxRetry]
  BY DEF PlaceInv, TypeInv, TypeOK
<1>2. CASE CallFunction(c)
  BY <1>1, <1>2, PlaceUnqueued DEF CallFunction, schedVars, callee
<1>3. CASE NextIDFails(c)
  BY <1>1, <1>3, PlaceUnqueued DEF NextIDFails, RetryOrFail, schedVars, callee
<1> QED
  BY <1>2, <1>3, PlaceSubmit, PlaceTrigger

LEMMA PlaceScheduling ==
  ASSUME PlaceInv, TypeInv', Tick \/ ReadInstances \/ ReadRecords \/ Place \/ PopAndCall
  PROVE  PlaceInv'
<1>1. CASE Tick
  <2>1. HoldsHead'
    BY <1>1 DEF Tick, Peek, schedVars, PlaceInv, HoldsHead
  <2> QED
    BY <1>1, <2>1, PlaceSameRequests DEF Tick, callVars, callee
<1>2. CASE ReadInstances \/ ReadRecords \/ Place
  <2>1. at # "select" /\ queue' = queue /\ (at' = "select" \/ peeked' = peeked)
    BY <1>2 DEF ReadInstances, ReadRecords, Place, ToSelect
  <2>2. HoldsHead'
    BY <2>1 DEF PlaceInv, HoldsHead
  <2> QED
    BY <1>2, <2>2, PlaceSameRequests DEF ReadInstances, ReadRecords, Place, callVars, callee
<1> QED
  BY <1>1, <1>2, PlacePop

LEMMA PlaceServing ==
  ASSUME PlaceInv, TypeInv', NEW r \in Requests,
         \/ Dial(r) \/ DialFails(r) \/ Answer(r) \/ Expire(r) \/ WorkerEnds(r)
         \/ Reply(r) \/ DeleteRecord(r)
  PROVE  PlaceInv'
<1>1. CASE Dial(r) \/ DialFails(r) \/ Answer(r) \/ Expire(r)
  <2>1. /\ UNCHANGED <<phase, attempt, queue, at, peeked>>
        /\ routine[r] \in {"dial", "await"}
        /\ \E to \in {"await", "okReply", "errReply"} : routine' = [routine EXCEPT ![r] = to]
    BY <1>1 DEF Dial, DialFails, Answer, Expire, SetStage, callVars, schedVars
  <2> QED
    BY <2>1, PlaceMoves DEF Stages, Serving
<1>2. CASE DeleteRecord(r)
  BY <1>2, PlaceMoves DEF DeleteRecord, SetStage, callVars, schedVars, Stages, Serving
<1>3. CASE WorkerEnds(r)
  <2>1. UNCHANGED <<phase, attempt, queue, at, peeked, routine>>
    BY <1>3 DEF WorkerEnds, callVars, schedVars
  <2>2. HoldsHead'
    BY <2>1 DEF PlaceInv, HoldsHead
  <2> QED
    BY <2>1, <2>2, PlaceSameRequests
<1> QED
  BY <1>1, <1>2, <1>3, PlaceReply

LEMMA PlaceNext == PlaceInv /\ [Next]_vars => PlaceInv'
<1> SUFFICES ASSUME PlaceInv, [Next]_vars PROVE PlaceInv'
  OBVIOUS
<1>1. TypeInv'
  BY TypeNext DEF PlaceInv
<1>2. CASE (\E s \in Services : InstanceChanges(s)) \/ UNCHANGED vars
  <2>1. UNCHANGED <<phase, attempt, queue, at, peeked, routine>>
    BY <1>2 DEF InstanceChanges, vars, callVars, schedVars, callee
  <2>2. HoldsHead'
    BY <2>1 DEF PlaceInv, HoldsHead
  <2> QED
    BY <1>1, <2>1, <2>2, PlaceSameRequests
<1>3. CASE Restart
  BY <1>1, <1>3, PlaceRestart DEF Restart
<1> QED
  BY <1>1, <1>2, <1>3, PlaceClients, PlaceScheduling, PlaceServing DEF Next

LEMMA PlaceInvariant == Spec => []PlaceInv
BY PlaceInit, PlaceNext, PTL DEF Spec

(***************************************************************************)
(* A call that waits is in the queue once or with one goroutine, whatever  *)
(* fails and however its attempts, the ticker and the trigger interleave.  *)
(***************************************************************************)
THEOREM WaitingCallsAreInOnePlace == Spec => []EveryWaitingCallIsInOnePlace
<1>1. PlaceInv => EveryWaitingCallIsInOnePlace
  BY DEF PlaceInv
<1> QED
  BY <1>1, PlaceInvariant, PTL

(***************************************************************************)
(* No goroutine sends a reply that the call's current attempt does not     *)
(* wait for, although all attempts share one channel.                      *)
(***************************************************************************)
THEOREM NoReplyGoesAstray == Spec => []NoStrayReply
<1>1. PlaceInv => NoStrayReply
  BY DEF PlaceInv
<1> QED
  BY <1>1, PlaceInvariant, PTL

(* While ScheduleRoutine is about to pop, no goroutine serves that request *)
(* or is about to delete its records.                                      *)
LEMMA PeekedIsNew ==
  ASSUME PlaceInv, at # "select"
  PROVE  peeked \in Requests /\ routine[peeked] = "none"
<1>1. queue \in Seq(Requests) /\ queue # <<>> /\ 1 \in 1 .. Len(queue) /\ peeked = queue[1]
  <2>1. queue \in Seq(Requests) /\ queue # <<>> /\ peeked = Head(queue)
    BY DEF PlaceInv, TypeInv, TypeOK, HoldsHead
  <2>2. Len(queue) \in Nat \ {0}
    BY <2>1, EmptySeq
  <2> QED
    BY <2>1, <2>2
<1> QED
  BY <1>1 DEF PlaceInv, TypeInv, QueuedAreNew

(***************************************************************************)
(* Requests are taken over in the order of their submission: what a        *)
(* goroutine starts on is the head of the queue, and nothing is lost from  *)
(* the queue, moved or put into its middle, unless the process ends.       *)
(***************************************************************************)
THEOREM RequestsAreServedInOrder == Spec => ServedInOrder
<1> DEFINE HeadGoes == \A r \in Requests : TakenOver(r) =>
                         queue # <<>> /\ r = Head(queue) /\ queue' = Tail(queue)
           EndsOnly == \/ UNCHANGED queue \/ restarts' # restarts
                       \/ \E r \in Requests : queue' = Append(queue, r) \/ TakenOver(r)
<1>1. ASSUME PlaceInv, [Next]_vars PROVE HeadGoes
  <2> SUFFICES ASSUME NEW r \in Requests, TakenOver(r)
               PROVE  queue # <<>> /\ r = Head(queue) /\ queue' = Tail(queue)
    OBVIOUS
  <2>1. routine \in [Requests -> Stages] /\ routine[r] = "none" /\ routine'[r] = "dial"
    BY <1>1 DEF PlaceInv, TypeInv, TypeOK, TakenOver
  <2>2. PopAndCall
    BY <1>1, <2>1
    DEF Next, vars, callee, CallFunction, NextIDFails, SubmitRequest, Trigger, Tick,
        ReadInstances, ReadRecords, Place, Dial, DialFails, Answer, Expire,
        WorkerEnds, Reply, DeleteRecord, SetStage, InstanceChanges, Restart, RestartProcess
  <2>3. r = peeked
    BY <2>1, <2>2 DEF PopAndCall
  <2> QED
    BY <1>1, <2>2, <2>3 DEF PlaceInv, HoldsHead, PopAndCall
<1>2. ASSUME PlaceInv, [Next]_vars PROVE EndsOnly
  <2>1. CASE PopAndCall
    <3>1. peeked \in Requests /\ routine[peeked] = "none"
      BY <1>2, <2>1, PeekedIsNew DEF PopAndCall
    <3>2. routine'[peeked] = "dial"
      BY <1>2, <2>1, <3>1 DEF PopAndCall, PlaceInv, TypeInv, TypeOK
    <3> QED
      BY <3>1, <3>2 DEF TakenOver
  <2>2. ASSUME NEW c \in Calls, SubmitRequest(c) PROVE EndsOnly
    <3>1. queue' = Append(queue, Current(c)) /\ Current(c) \in Requests
      BY <1>2, <2>2 DEF SubmitRequest, Current, Requests, PlaceInv, TypeInv, TypeOK
    <3> QED
      BY <3>1
  <2>3. CASE Restart
    BY <1>2, <2>3 DEF Restart, RestartProcess, PlaceInv, TypeInv, TypeOK
  <2>4. CASE UNCHANGED vars
    BY <2>4 DEF vars
  <2> QED
    BY <1>2, <2>1, <2>2, <2>3, <2>4
    DEF Next, callVars, CallFunction, NextIDFails, Trigger, Tick, ReadInstances,
        ReadRecords, Place, Dial, DialFails, Answer, Expire, WorkerEnds, Reply,
        DeleteRecord, InstanceChanges
<1>3. HeadGoes /\ EndsOnly => [HeadGoes /\ EndsOnly]_vars
  OBVIOUS
<1> QED
  BY <1>1, <1>2, <1>3, PlaceInvariant, PTL DEF ServedInOrder, Spec

-----------------------------------------------------------------------------
(* Records.                                                                *)

PlacedIsRecorded == at = "pop" => \E rec \in reqInfo : rec.req = peeked /\ rec.svc = chosen

(***************************************************************************)
(* The inductive invariant on records.  Between the insert and the pop the *)
(* record belongs to no goroutine yet; that no other goroutine deletes it  *)
(* meanwhile follows from PlaceInv, as the head of the queue is new.       *)
(***************************************************************************)
RecordInv ==
  /\ PlaceInv
  /\ PlacedIsRecorded /\ ServedRequestsAreRecorded /\ NoRecordIsForgotten

LEMMA RecordInit == Init => RecordInv
<1> SUFFICES ASSUME Init PROVE RecordInv
  OBVIOUS
<1> QED
  BY PlaceInit
  DEF Init, RecordInv, PlacedIsRecorded, ServedRequestsAreRecorded, NoRecordIsForgotten, Serving

(* Steps that neither write nor delete a record.                           *)
LEMMA RecordSameRows ==
  ASSUME RecordInv, PlaceInv', reqInfo' = reqInfo,
         \A r \in Requests :
           /\ routine'[r] \in Serving => routine[r] \in Serving /\ target'[r] = target[r]
           /\ routine[r] \in Serving \cup {"cleanup"} => routine'[r] \in Serving \cup {"cleanup"},
         queue # <<>> => queue' # <<>> /\ Head(queue') = Head(queue),
         at' = "pop" => UNCHANGED <<at, peeked, chosen>>
  PROVE  RecordInv'
<1>1. PlacedIsRecorded' /\ ServedRequestsAreRecorded'
  BY DEF RecordInv, PlacedIsRecorded, ServedRequestsAreRecorded
<1>2. \A rec \in reqInfo : rec.req \in Requests
  BY DEF RecordInv, PlaceInv, TypeInv, TypeOK, Records
<1>3. NoRecordIsForgotten'
  BY <1>2 DEF RecordInv, NoRecordIsForgotten
<1> QED
  BY <1>1, <1>3 DEF RecordInv

LEMMA RecordClients ==
  ASSUME RecordInv, PlaceInv', NEW c \in Calls,
         CallFunction(c) \/ NextIDFails(c) \/ SubmitRequest(c) \/ Trigger(c)
  PROVE  RecordInv'
<1>1. UNCHANGED <<reqInfo, routine, target>>
  BY DEF CallFunction, NextIDFails, SubmitRequest, Trigger, callee
<1>2. at' = "pop" => UNCHANGED <<at, peeked, chosen>>
  BY DEF CallFunction, NextIDFails, SubmitRequest, Trigger, Peek, schedVars
<1>3. queue # <<>> => queue' # <<>> /\ Head(queue') = Head(queue)
  <2>1. queue \in Seq(Requests) /\ Current(c) \in Requests
    BY CurrentIsRequest DEF RecordInv, PlaceInv, TypeInv, TypeOK
  <2>2. CASE SubmitRequest(c)
    BY <2>1, <2>2, AppendProperties, HeadTailAppend DEF SubmitRequest
  <2>3. CASE ~ SubmitRequest(c)
    BY <2>3 DEF CallFunction, NextIDFails, Trigger
  <2> QED
    BY <2>2, <2>3
<1> QED
  BY <1>1, <1>2, <1>3, RecordSameRows

LEMMA RecordServing ==
  ASSUME RecordInv, PlaceInv', NEW r \in Requests,
         \/ Dial(r) \/ DialFails(r) \/ Answer(r) \/ Expire(r) \/ WorkerEnds(r)
         \/ Reply(r)
  PROVE  RecordInv'
<1>1. UNCHANGED <<reqInfo, queue, at, peeked, chosen, target>>
  BY DEF Dial, DialFails, Answer, Expire, WorkerEnds, Reply, schedVars
<1>2. \/ routine' = routine
      \/ /\ routine[r] \in Serving
         /\ \E to \in Serving \cup {"cleanup"} : routine' = [routine EXCEPT ![r] = to]
  BY DEF Dial, DialFails, Answer, Expire, WorkerEnds, Reply, SetStage, Serving
<1>3. routine \in [Requests -> Stages]
  BY DEF RecordInv, PlaceInv, TypeInv, TypeOK
<1>4. \A x \in Requests :
        /\ routine'[x] \in Serving => routine[x] \in Serving
        /\ routine[x] \in Serving \cup {"cleanup"} => routine'[x] \in Serving \cup {"cleanup"}
  BY <1>2, <1>3
<1> QED
  BY <1>1, <1>4, RecordSameRows

(* Only the goroutine of a request deletes the request's records, and only *)
(* after its reply.                                                        *)
LEMMA RecordDelete ==
  ASSUME RecordInv, PlaceInv', NEW r \in Requests, DeleteRecord(r)
  PROVE  RecordInv'
<1>1. /\ UNCHANGED <<queue, at, peeked, chosen, target>>
      /\ routine[r] = "cleanup" /\ routine' = [routine EXCEPT ![r] = "done"]
      /\ routine \in [Requests -> Stages]
  BY DEF DeleteRecord, SetStage, schedVars, RecordInv, PlaceInv, TypeInv, TypeOK
<1>2. routine'[r] = "done" /\ \A x \in Requests \ {r} : routine'[x] = routine[x]
  BY <1>1
<1>3. \/ reqInfo' = Without(reqInfo, r)
      \/ reqInfo' = reqInfo /\ "delete" \in Faults
  BY DEF DeleteRecord, Fault
<1>4. \A rec \in reqInfo : rec.req # r => rec \in reqInfo'
  BY <1>3 DEF Without
<1>5. PlacedIsRecorded'
  BY <1>1, <1>4, PeekedIsNew DEF RecordInv, PlacedIsRecorded
<1>6. ServedRequestsAreRecorded'
  BY <1>1, <1>2, <1>4 DEF RecordInv, ServedRequestsAreRecorded, Serving
<1>7. NoRecordIsForgotten'
  <2>1. \A rec \in reqInfo : rec.req \in Requests
    BY DEF RecordInv, PlaceInv, TypeInv, TypeOK, Records
  <2> QED
    BY <1>1, <1>2, <1>3, <2>1 DEF RecordInv, NoRecordIsForgotten, Without
<1> QED
  BY <1>5, <1>6, <1>7 DEF RecordInv

LEMMA RecordPlace ==
  ASSUME RecordInv, PlaceInv', Place
  PROVE  RecordInv'
<1>1. /\ UNCHANGED <<queue, routine, target>>
      /\ queue # <<>> /\ peeked = Head(queue)
  BY DEF Place, callee, RecordInv, PlaceInv, HoldsHead
<1>2. CASE reqInfo' = reqInfo /\ at' = "select"
  BY <1>1, <1>2, RecordSameRows
<1>3. CASE \E s \in Choices(peeked, recorded, found) :
             /\ reqInfo' = reqInfo \cup {NewRecord(s)}
             /\ at' = "select" \/ (at' = "pop" /\ chosen' = s /\ peeked' = peeked)
  <2>1. PICK s \in Choices(peeked, recorded, found) :
             /\ reqInfo' = reqInfo \cup {NewRecord(s)}
             /\ at' = "select" \/ (at' = "pop" /\ chosen' = s /\ peeked' = peeked)
    BY <1>3
  <2>2. NewRecord(s).req = peeked /\ NewRecord(s).svc = s
    BY DEF NewRecord
  <2>3. PlacedIsRecorded'
    BY <2>1, <2>2 DEF PlacedIsRecorded
  <2>4. ServedRequestsAreRecorded'
    BY <1>1, <2>1 DEF RecordInv, ServedRequestsAreRecorded
  <2>5. NoRecordIsForgotten'
    BY <1>1, <2>1, <2>2 DEF RecordInv, NoRecordIsForgotten
  <2> QED
    BY <2>3, <2>4, <2>5 DEF RecordInv
<1> QED
  BY <1>2, <1>3 DEF Place, ToSelect

LEMMA RecordPop ==
  ASSUME RecordInv, PlaceInv', PopAndCall
  PROVE  RecordInv'
<1>1. peeked \in Requests /\ queue # <<>> /\ peeked = Head(queue) /\ at = "pop"
  BY PeekedIsNew DEF PopAndCall, RecordInv, PlaceInv, HoldsHead
<1>2. /\ reqInfo' = reqInfo /\ at' = "select"
      /\ routine'[peeked] = "dial" /\ target'[peeked] = chosen
      /\ \A x \in Requests \ {peeked} : routine'[x] = routine[x] /\ target'[x] = target[x]
  BY <1>1 DEF PopAndCall, ToSelect, RecordInv, PlaceInv, TypeInv, TypeOK
<1>3. PlacedIsRecorded'
  BY <1>2 DEF PlacedIsRecorded
<1>4. ServedRequestsAreRecorded'
  BY <1>1, <1>2 DEF RecordInv, PlacedIsRecorded, ServedRequestsAreRecorded
<1>5. NoRecordIsForgotten'
  <2>1. \A rec \in reqInfo : rec.req \in Requests
    BY DEF RecordInv, PlaceInv, TypeInv, TypeOK, Records
  <2> QED
    BY <1>1, <1>2, <2>1 DEF RecordInv, NoRecordIsForgotten, Serving
<1> QED
  BY <1>3, <1>4, <1>5 DEF RecordInv

LEMMA RecordRestart ==
  ASSUME RecordInv, PlaceInv', Restart
  PROVE  RecordInv'
<1>1. PlacedIsRecorded'
  BY DEF Restart, RestartProcess, ToSelect, PlacedIsRecorded
<1>2. ServedRequestsAreRecorded'
  BY DEF Restart, RestartProcess, ServedRequestsAreRecorded, Serving
<1>3. NoRecordIsForgotten'
  BY DEF Restart, NoRecordIsForgotten
<1> QED
  BY <1>1, <1>2, <1>3 DEF RecordInv

LEMMA RecordNext == RecordInv /\ [Next]_vars => RecordInv'
<1> SUFFICES ASSUME RecordInv, [Next]_vars PROVE RecordInv'
  OBVIOUS
<1>1. PlaceInv'
  BY PlaceNext DEF RecordInv
<1>2. CASE Tick \/ ReadInstances \/ ReadRecords
  <2>1. UNCHANGED <<reqInfo, queue, routine, target>> /\ at' # "pop"
    BY <1>2 DEF Tick, Peek, ReadInstances, ReadRecords, ToSelect, schedVars, callee
  <2> QED
    BY <1>1, <2>1, RecordSameRows
<1>3. CASE (\E s \in Services : InstanceChanges(s)) \/ UNCHANGED vars
  <2>1. UNCHANGED <<reqInfo, queue, at, peeked, chosen, routine, target>>
    BY <1>3 DEF InstanceChanges, vars, schedVars, callee
  <2> QED
    BY <1>1, <2>1, RecordSameRows
<1> QED
  BY <1>1, <1>2, <1>3, RecordClients, RecordServing, RecordDelete, RecordPlace, RecordPop,
     RecordRestart
  DEF Next

LEMMA RecordInvariant == Spec => []RecordInv
BY RecordInit, RecordNext, PTL DEF Spec

(***************************************************************************)
(* A request that a worker serves, or whose reply is on its way, has its   *)
(* record: what it uses is never given to another request.                 *)
(***************************************************************************)
THEOREM ServedAreRecorded == Spec => []ServedRequestsAreRecorded
<1>1. RecordInv => ServedRequestsAreRecorded
  BY DEF RecordInv
<1> QED
  BY <1>1, RecordInvariant, PTL

(***************************************************************************)
(* Unless a delete fails, every record has a goroutine that will delete it *)
(* or belongs to the head of the queue.                                    *)
(***************************************************************************)
THEOREM RecordsAreRemembered == Spec => []NoRecordIsForgotten
<1>1. RecordInv => NoRecordIsForgotten
  BY DEF RecordInv
<1> QED
  BY <1>1, RecordInvariant, PTL
=============================================================================
