----------------------------- MODULE CallContract -----------------------------
(***************************************************************************)
(* What CallFunction promises its client, with no queue, scheduler, record *)
(* or goroutine in sight: a call is tried at most MaxRetry times, one try  *)
(* at a time; it succeeds only by the answer to the try that is running,   *)
(* and fails only after MaxRetry tries have failed.  Only the death of the *)
(* server process leaves a call without an outcome.                        *)
(***************************************************************************)
EXTENDS Integers

CONSTANTS
  Calls,     \* the CallFunction requests that clients issue
  MaxRetry   \* config: attempts per call

VARIABLES
  status,    \* what the client knows of each call
  failures,  \* how many tries of the call have failed
  try        \* the call's current try: none yet, running, or answered

vars == <<status, failures, try>>

Init ==
  /\ status = [c \in Calls |-> "idle"]
  /\ failures = [c \in Calls |-> 0]
  /\ try = [c \in Calls |-> "none"]

Begin(c) ==
  /\ status[c] = "idle"
  /\ status' = [status EXCEPT ![c] = "active"]
  /\ UNCHANGED <<failures, try>>

Dispatch(c) ==
  /\ status[c] = "active" /\ try[c] = "none"
  /\ try' = [try EXCEPT ![c] = "running"]
  /\ UNCHANGED <<status, failures>>

Answer(c) ==
  /\ try[c] = "running"
  /\ \E outcome \in {"good", "bad"} : try' = [try EXCEPT ![c] = outcome]
  /\ UNCHANGED <<status, failures>>

(* The try was answered badly, or could not be submitted.                  *)
Fail(c) ==
  /\ status[c] = "active" /\ try[c] \in {"none", "bad"}
  /\ failures' = [failures EXCEPT ![c] = @ + 1]
  /\ try' = [try EXCEPT ![c] = "none"]
  /\ status' = [status EXCEPT ![c] = IF failures'[c] = MaxRetry THEN "failed" ELSE @]

Succeed(c) ==
  /\ status[c] = "active" /\ try[c] = "good"
  /\ status' = [status EXCEPT ![c] = "ok"]
  /\ try' = [try EXCEPT ![c] = "none"]
  /\ UNCHANGED failures

(* The server process dies.                                                *)
Lose ==
  /\ status' = [c \in Calls |-> IF status[c] = "active" THEN "lost" ELSE status[c]]
  /\ try' = [c \in Calls |-> "none"]
  /\ UNCHANGED failures

Next ==
  \/ \E c \in Calls : Begin(c) \/ Dispatch(c) \/ Answer(c) \/ Fail(c) \/ Succeed(c)
  \/ Lose

Spec == Init /\ [][Next]_vars
=============================================================================
