----------------------------- MODULE LeaseQueue -----------------------------
(***************************************************************************)
(* What the durable outbox promises to the workers that drain it, without  *)
(* clocks, timestamps, SQL or a ledger: every enqueued effect is handed    *)
(* out at most budget times, a lease is fenced by the attempt it was       *)
(* granted with, and a settled effect never moves again.                   *)
(*                                                                         *)
(* A lease is identified by the attempt number it was granted with: the    *)
(* code draws a fresh uuid4 token at every claim, and every claim raises   *)
(* attempt_count, so tokens and attempts of one effect match one to one.   *)
(***************************************************************************)
EXTENDS Naturals

CONSTANTS Effects,      \* identities of the effects (the idempotency keys)
          Budgets       \* the retry budgets callers ask for

VARIABLES phase,        \* phase[e]: status of e, "NONE" before it is enqueued
          attempts,     \* attempts[e]: how many leases were granted on e
          budget        \* budget[e]: max_attempts of e

qvars == <<phase, attempts, budget>>

Phases == {"NONE", "PENDING", "LEASED", "SUCCEEDED", "TERMINAL_FAILED"}
Settled == {"SUCCEEDED", "TERMINAL_FAILED"}

Init == /\ phase = [e \in Effects |-> "NONE"]
        /\ attempts = [e \in Effects |-> 0]
        /\ budget = [e \in Effects |-> 0]

\* New effects become deliverable with their retry budget; a transaction may
\* enqueue many.
Enqueue(S, max) ==
    /\ S # {}
    /\ \A e \in S : phase[e] = "NONE"
    /\ phase' = [e \in Effects |-> IF e \in S THEN "PENDING" ELSE phase[e]]
    /\ budget' = [e \in Effects |-> IF e \in S THEN max ELSE budget[e]]
    /\ UNCHANGED attempts

\* A worker takes a batch of deliverable effects; each grant is an attempt.
Claim(S) ==
    /\ S # {}
    /\ \A e \in S : phase[e] = "PENDING"
    /\ phase' = [e \in Effects |-> IF e \in S THEN "LEASED" ELSE phase[e]]
    /\ attempts' = [e \in Effects |-> IF e \in S THEN attempts[e] + 1 ELSE attempts[e]]
    /\ UNCHANGED budget

\* The holder of the lease granted at attempt a reports success.
Succeed(e, a) ==
    /\ phase[e] = "LEASED"
    /\ attempts[e] = a
    /\ phase' = [phase EXCEPT ![e] = "SUCCEEDED"]
    /\ UNCHANGED <<attempts, budget>>

\* Leases end without success: the effect is retried while budget remains.
Release(S) ==
    /\ S # {}
    /\ \A e \in S : phase[e] = "LEASED"
    /\ phase' = [e \in Effects |->
                    IF e \notin S THEN phase[e]
                    ELSE IF attempts[e] >= budget[e] THEN "TERMINAL_FAILED"
                    ELSE "PENDING"]
    /\ UNCHANGED <<attempts, budget>>

Next == \/ \E S \in SUBSET Effects, max \in Budgets : Enqueue(S, max)
        \/ \E S \in SUBSET Effects : Claim(S) \/ Release(S)
        \/ \E e \in Effects : Succeed(e, attempts[e])

Spec == Init /\ [][Next]_qvars

-----------------------------------------------------------------------------
(* Properties                                                              *)

\* What a worker may rely on: an effect is leased only while it is deliverable,
\* every lease counts as one attempt, and an effect that has succeeded or
\* failed for good is never forgotten, leased or settled again.
SettledForGood ==
    [][\A e \in Effects :
          /\ phase[e] \in Settled => phase'[e] = phase[e] /\ attempts'[e] = attempts[e]
          /\ phase[e] # "NONE" => phase'[e] # "NONE" /\ budget'[e] = budget[e]
          /\ attempts'[e] # attempts[e] => /\ phase[e] = "PENDING" /\ phase'[e] = "LEASED"
                                          /\ attempts'[e] = attempts[e] + 1]_qvars

=============================================================================
