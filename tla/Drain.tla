-------------------------------- MODULE Drain ---------------------------------
(***************************************************************************)
(* The request path together with the removal of instances: ScaleFunction  *)
(* removes an instance's row and leaves the service to a goroutine,        *)
(* AsyncDeleteFuncInstance, which waits until no schedule record names the *)
(* service and then deletes it.  The two sides share func_instance and     *)
(* req_scheduler_info and no lock: the scheduler may hold a row it read    *)
(* before the removal, the goroutine a list of records read before a       *)
(* placement, and the monitor's upsert may bring the row back.             *)
(***************************************************************************)
EXTENDS ReqScheduler

VARIABLES
  drain,  \* where the removal of each instance is
  back    \* history: removed instances whose row was RUNNING in the table again

drainVars == <<drain, back>>
allVars == <<vars, drainVars>>

DInit == Init /\ drain = [s \in Services |-> "none"] /\ back = {}

MoveDrain(s, from, to) == drain[s] = from /\ drain' = [drain EXCEPT ![s] = to]

-----------------------------------------------------------------------------
(* The scale-down of an instance.  A failure to delete the row is          *)
(* only logged; that is as if the row came back at once.                   *)
ScaleDown(s) ==
  /\ ready' = ready \ {s}
  /\ MoveDrain(s, "none", "polling")
  /\ UNCHANGED <<callVars, queue, schedVars, reqInfo, callee, counters, back>>

FindsIgnoringRecords(s) ==
  /\ MoveDrain(s, "polling", "deleting")
  /\ UNCHANGED <<vars, back>>

(* A poll finds no record of the service.                                  *)
FindsNoRecord(s) ==
  /\ On(reqInfo, s) = {}
  /\ MoveDrain(s, "polling", "deleting")
  /\ UNCHANGED <<vars, back>>

(* DeleteInstance.  When ECS refuses, the goroutine gives up all the same. *)
DeleteInstance(s) ==
  /\ MoveDrain(s, "deleting", "gone") \/ MoveDrain(s, "deleting", "abandoned")
  /\ UNCHANGED <<vars, back>>

(* The monitor changes rows; it may also bring back a removed one.         *)
Monitor(s) ==
  /\ InstanceChanges(s)
  /\ back' = IF s \in ready' /\ drain[s] # "none" THEN back \cup {s} ELSE back
  /\ UNCHANGED drain

RestartDrain ==
  /\ Restart
  /\ drain' = [s \in Services |->
                 IF drain[s] \in {"polling", "deleting"} THEN "abandoned" ELSE drain[s]]
  /\ UNCHANGED back

RequestPath ==
  \/ \E c \in Calls :
       CallFunction(c) \/ NextIDFails(c) \/ SubmitRequest(c) \/ Trigger(c)
  \/ Tick \/ Schedule
  \/ \E r \in Requests :
       \/ target[r] \in Services /\ drain[target[r]] # "gone" /\ Dial(r)
       \/ DialFails(r) \/ Answer(r) \/ Expire(r) \/ WorkerEnds(r)
       \/ Reply(r) \/ DeleteRecord(r)

DNext ==
  \/ RequestPath /\ UNCHANGED drainVars
  \/ \E s \in Services : ScaleDown(s) \/ FindsNoRecord(s) \/ DeleteInstance(s) \/ Monitor(s)
  \/ RestartDrain

DSpec == DInit /\ [][DNext]_allVars

-----------------------------------------------------------------------------
(* Properties.                                                             *)

Calling(s) == {r \in Requests : target[r] = s /\ routine[r] \in {"dial", "await"}}

(***************************************************************************)
(* When AsyncDeleteFuncInstance deletes a service, at most one call to it  *)
(* is in progress: one that Schedule placed on a row it had read before    *)
(* the removal, after the goroutine had read the records.  Every other     *)
(* call is waited for.  (When the monitor brings the row back, the         *)
(* scheduler goes on to use it, and no bound holds.)                       *)
(***************************************************************************)
AtMostOneIsCutOff ==
  [][\A s \in Services \ back :
       drain[s] = "deleting" /\ drain'[s] = "gone" => Cardinality(Calling(s)) <= 1]_allVars
=============================================================================
