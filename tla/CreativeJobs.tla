---------------------------- MODULE CreativeJobs ----------------------------
(***************************************************************************)
(* creative.py: the request of a creative job, which nothing in src/       *)
(* executes.  request stores the job and enqueues one effect for it in the *)
(* same transaction; the outbox belongs to everybody, so that somebody may *)
(* have enqueued an effect of that id before, and workers may lease it at  *)
(* any time.  The outbox is what LeaseQueue says of it (DurableOutbox).    *)
(*                                                                         *)
(* Job rows, their inputs and their one transition never change.  A replay *)
(* writes nothing and is no step: Returned says when it is answered.       *)
(***************************************************************************)
EXTENDS ConsumedDecisions

CONSTANTS Jobs,    \* forms of request: id, idempotency key, digest, operator
          Posts,   \* effects of outsiders: effect id, payload and actor
          Tries    \* max_attempts of a job's effect, 3 in the code

\* digest stands for the whole plan, id and key included.
ASSUME JobAssumption ==
    /\ Jobs \subseteq [id : Names, key : Names, digest : Names, by : Actors]
    /\ Posts \subseteq [id : {f.id : f \in Jobs}, digest : Names, by : Actors]
    /\ Tries \in Nat \ {0}

VARIABLES jobs,                     \* creative_jobs
          posted,                   \* posted[j]: who enqueued the effect of j, and what
          phase, attempts, budget   \* the outbox, by job id

effects == <<phase, attempts, budget>>
jobVars == <<jobs, posted, effects>>

JobIds == {f.id : f \in Jobs}

\* Effect creative:job:<id> is named by the id of its job.
Outbox == INSTANCE LeaseQueue WITH Effects <- JobIds, Budgets <- {Tries}

Nobody == [digest |-> "", by |-> ""]

\* An outsider enqueues under the id of a job, with the job's payload or another.
PostEffect(p) ==
    /\ Outbox!Enqueue({p.id}, Tries)
    /\ posted' = [posted EXCEPT ![p.id] = [digest |-> p.digest, by |-> p.by]]
    /\ UNCHANGED jobs

\* A worker leases effects, settles one, or lets leases end.
WorkOnEffects ==
    /\ \/ \E S \in SUBSET JobIds : Outbox!Claim(S) \/ Outbox!Release(S)
       \/ \E j \in JobIds : Outbox!Succeed(j, attempts[j])
    /\ UNCHANGED <<jobs, posted>>

\* enqueue_in_transaction: an effect with the same payload is returned as it is.
EnqueueOnce(f) ==
    \/ /\ Outbox!Enqueue({f.id}, Tries)
       /\ posted' = [posted EXCEPT ![f.id] = [digest |-> f.digest, by |-> f.by]]
    \/ /\ phase[f.id] # "NONE" /\ posted[f.id].digest = f.digest
       /\ UNCHANGED <<posted, effects>>

JobFresh(f, d) ==
    \A j \in jobs : j.form.id # f.id /\ j.form.key # f.key /\ j.decision # d

JobAuthorized(f, d) ==
    AuthorizesExactly(d, f.by, "creative.job.request", f.id, <<f.digest>>)

\* request
RequestJob(f, d) ==
    /\ JobFresh(f, d)
    /\ JobAuthorized(f, d)
    /\ EnqueueOnce(f)
    /\ jobs' = jobs \cup {[form |-> f, decision |-> d]}

\* Bug: the effect is judged by its status alone.
JobPending(j) ==
    /\ JobAuthorized(j.form, j.decision)
    /\ posted[j.form.id] = [digest |-> j.form.digest, by |-> j.form.by]
    /\ phase[j.form.id] = "PENDING"

\* verify finds no defect: the ledger event of the effect is that of its
\* enqueuing, which every lease and every release replaces, by the operator.
JobVerifies(j) ==
    /\ JobAuthorized(j.form, j.decision)
    /\ posted[j.form.id] = [digest |-> j.form.digest, by |-> j.form.by]
    /\ phase[j.form.id] = "PENDING" /\ attempts[j.form.id] = 0

\* request again: the job of this form and decision is returned, if it verifies;
\* any other answer is a refusal.
Returned(f, d) == \E j \in jobs : j.form = f /\ j.decision = d /\ JobVerifies(j)

JobInit ==
    /\ Outbox!Init
    /\ jobs = {} /\ posted = [j \in JobIds |-> Nobody]

JobNext ==
    \/ \E p \in Posts : PostEffect(p)
    \/ \E f \in Jobs, d \in Decisions : RequestJob(f, d)
    \/ WorkOnEffects

JobSpec == JobInit /\ [][JobNext]_jobVars

-----------------------------------------------------------------------------
(* Properties                                                              *)

\* A request that is on record already is answered with the record.
ExactReplayReturns == \A j \in jobs : Returned(j.form, j.decision)

\* In whatever order an outsider and request enqueue, the effect under the id of
\* a job is there and carries the plan of the job; and what verify once reports
\* of a job it goes on reporting: a lease that ends makes the effect PENDING
\* again and does not hide that somebody had it.
JobsKeepTheirEffect ==
    [][/\ \A j \in jobs : phase[j.form.id] # "NONE" /\ posted[j.form.id].digest = j.form.digest
       /\ \A j \in jobs : JobVerifies(j)' => JobVerifies(j)]_jobVars
=============================================================================
