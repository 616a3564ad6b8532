-------------------------- MODULE ExecutionRecord --------------------------
(***************************************************************************)
(* What the adoption execution service promises to everybody who reads its *)
(* tables (src/starcom/adoption_execution.py), without workers, sandbox,   *)
(* leases or rows: an execution is requested once, goes forward to one     *)
(* terminal status and stays there, and its outbox effect is completed     *)
(* only when it has ended, or is given up.                                 *)
(*                                                                         *)
(* AdoptionExecution implements it, with its workers.  Qualification, on   *)
(* which the architecture stages stand, implements it as well: what those  *)
(* stages are shown of executions is no less than the service does.        *)
(***************************************************************************)
CONSTANT Executions

VARIABLES status,   \* status[e]: the last transition of e, "NONE" before its request
          outbox    \* outbox[e]: what has become of its effect

records == <<status, outbox>>

Terminal == {"SUCCEEDED", "FAILED_NO_EFFECT", "FAILED_ROLLED_BACK", "ROLLBACK_FAILED"}

Init == /\ status = [e \in Executions |-> "NONE"]
        /\ outbox = [e \in Executions |-> "NONE"]

\* request_execution records the request and its effect in one transaction.
Request(e) ==
    /\ status[e] = "NONE" /\ outbox[e] = "NONE"
    /\ status' = [status EXCEPT ![e] = "REQUESTED"]
    /\ outbox' = [outbox EXCEPT ![e] = "OPEN"]

\* append_transition: no effect without RUNNING, and nothing after the end.
Advance(e, s) ==
    /\ \/ status[e] = "REQUESTED" /\ s \in {"RUNNING", "FAILED_NO_EFFECT"}
       \/ status[e] = "RUNNING" /\ s \in Terminal
    /\ status' = [status EXCEPT ![e] = s]
    /\ UNCHANGED outbox

\* _terminalize completes the effect of an execution that has ended.
Complete(e) ==
    /\ outbox[e] = "OPEN"
    /\ status[e] \in Terminal
    /\ outbox' = [outbox EXCEPT ![e] = "SUCCEEDED"]
    /\ UNCHANGED status

\* recover_expired gives up the effects whose attempts are used up, whatever
\* the status of their executions.
Exhaust(S) ==
    /\ S # {}
    /\ \A e \in S : outbox[e] = "OPEN"
    /\ outbox' = [e \in Executions |-> IF e \in S THEN "DEAD" ELSE outbox[e]]
    /\ UNCHANGED status

Next == \/ \E e \in Executions : Request(e) \/ Complete(e)
        \/ \E e \in Executions, s \in {"RUNNING"} \cup Terminal : Advance(e, s)
        \/ \E S \in SUBSET Executions : Exhaust(S)

Spec == Init /\ [][Next]_records

-----------------------------------------------------------------------------

\* A completed effect belongs to an execution that has ended.
CompletedAfterTheEnd == \A e \in Executions : outbox[e] = "SUCCEEDED" => status[e] \in Terminal

\* An execution that has ended, and an effect that is completed or given up,
\* stay so; and no execution takes a step back.
Forward ==
    \A e \in Executions :
        /\ status[e] \in Terminal => status'[e] = status[e]
        /\ status[e] # "NONE" => status'[e] # "NONE"
        /\ status[e] = "RUNNING" => status'[e] # "REQUESTED"
        /\ outbox[e] \in {"SUCCEEDED", "DEAD"} => outbox'[e] = outbox[e]

GoesForward == [][Forward]_records
=============================================================================
