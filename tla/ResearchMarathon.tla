-------------------------- MODULE ResearchMarathon --------------------------
(***************************************************************************)
(* ResearchMarathonService of src/starcom/research_marathon.py: a plan of  *)
(* partitions that is fanned out to the durable outbox (LeaseQueue),       *)
(* worked off by leaseholders whose evidence goes to a research campaign,  *)
(* and closed when every partition is proven.                              *)
(*                                                                         *)
(* claim, begin_partition_attempt, complete_partition, fail_partition and  *)
(* close_pending_certification read in one transaction and write in a      *)
(* later one.  The reads are steps of their own here, so that processes    *)
(* interleave between them.  That the caller is authorized is left to the  *)
(* trust plane: each transition has its own decision.                      *)
(***************************************************************************)
EXTENDS ResearchCampaign, Sequences

CONSTANTS Partitions,      \* the partitions of the admitted plan
          Workers,         \* processes that hold one lease at a time
          Coordinators,    \* processes that close the marathon
          MaxAttempts,     \* retry_policy.max_attempts of the plan
          MaxTransitions   \* bound: pauses and resumes stop at this journal length

NoPartition == "none"

\* Request keys are marathon:partition:attempt:number; others are in use by
\* callers that share the campaign.
ASSUME MarathonAssumption == /\ MaxAttempts \in Nat \ {0}
                             /\ MaxTransitions \in Nat
                             /\ Partitions # {} /\ NoPartition \notin Partitions
                             /\ Partitions \X (1..MaxAttempts) \subseteq Keys
                             /\ 1 \in Waves

VARIABLES phase, attempts, budget,   \* the effects of the topic, see LeaseQueue
          journal,    \* the states in research_marathon_transitions, in order
          leases,     \* leases[p]: the workers p was leased to (EFFECT_LEASED events)
          bound,      \* research_marathon_partition_attempts: which worker began <<p, n>>
          proof,      \* proof[p]: the evidence its completion was computed from
          worker,     \* worker[w]: where w is in its call
          closing     \* coordinators between the checks of close and its transaction

queue == <<phase, attempts, budget>>
marathon == <<journal, leases, bound, proof>>
vars == <<queue, campaign, marathon, worker, closing>>

Queue == INSTANCE LeaseQueue WITH Effects <- Partitions, Budgets <- {MaxAttempts}

States == {"PLANNED_NOT_STARTED", "ACTIVE", "PAUSED", "COMPLETE_PENDING_CERTIFICATION"}
Current == IF journal = <<>> THEN "NOT_ADMITTED" ELSE journal[Len(journal)]
Enter(s) == journal' = Append(journal, s)

\* The attempts mapped to a partition, and what is on record for them.
Mapped(p) == {n \in 1..MaxAttempts : bound[<<p, n>>] # {}}
EvidenceOf(p) == [n \in Mapped(p) |-> research[<<p, n>>]]
NoProof == [n \in {} |-> NotBegun]

Places == {"idle", "claiming", "leased", "beginning", "binding", "proving", "failing"}
Idle == [at |-> "idle", p |-> NoPartition, n |-> 0, proof |-> NoProof]

\* The outbox takes the token of worker w for the live lease of its effect.
Holds(w) == phase[worker[w].p] = "LEASED" /\ attempts[worker[w].p] = worker[w].n

Go(w, at) == worker' = [worker EXCEPT ![w].at = at]
Leave(w) == worker' = [worker EXCEPT ![w] = Idle]

Init == /\ CampaignInit
        /\ Queue!Init
        /\ journal = <<>>
        /\ leases = [p \in Partitions |-> <<>>]
        /\ bound = [k \in Partitions \X (1..MaxAttempts) |-> {}]
        /\ proof = [p \in Partitions |-> NoProof]
        /\ worker = [w \in Workers |-> Idle]
        /\ closing = {}

-----------------------------------------------------------------------------
(* The state of the marathon                                               *)

\* admit_plan of a signed plan over a campaign without evidence.
Admit == /\ journal = <<>>
         /\ CampaignEmpty
         /\ Enter("PLANNED_NOT_STARTED")
         /\ UNCHANGED <<queue, campaign, leases, bound, proof, worker, closing>>

\* start: the transition and one effect for each partition in one transaction.
Start == /\ Current = "PLANNED_NOT_STARTED"
         /\ CampaignEmpty
         /\ Enter("ACTIVE")
         /\ Queue!Enqueue(Partitions, MaxAttempts)
         /\ UNCHANGED <<campaign, leases, bound, proof, worker, closing>>

PauseOrResume == /\ Len(journal) < MaxTransitions
                 /\ \/ Current = "ACTIVE" /\ Enter("PAUSED")
                    \/ Current = "PAUSED" /\ Enter("ACTIVE")
                 /\ UNCHANGED <<queue, campaign, leases, bound, proof, worker, closing>>

Running == Current \in {"ACTIVE", "PAUSED"}

\* Bug: an effect that failed for good is not open and does not count.
NothingOpen == \A p \in Partitions : phase[p] \notin {"PENDING", "LEASED"}

\* progress: every partition has a completion and a succeeded effect.
AllProven == \A p \in Partitions : proof[p] # NoProof /\ phase[p] = "SUCCEEDED"

CheckClose(c) ==
    /\ c \notin closing
    /\ Running
    /\ AllProven
    /\ CampaignClean
    /\ closing' = closing \cup {c}
    /\ UNCHANGED <<queue, campaign, marathon, worker>>

\* Bug: the state is not read again in the transaction.
CloseUnchecked(c) ==
    /\ c \in closing
    /\ closing' = closing \ {c}
    /\ Enter("COMPLETE_PENDING_CERTIFICATION")
    /\ UNCHANGED <<queue, campaign, leases, bound, proof, worker>>

\* The transaction of close; it raises when the marathon was closed meanwhile.
Close(c) ==
    /\ c \in closing
    /\ closing' = closing \ {c}
    /\ IF Running THEN Enter("COMPLETE_PENDING_CERTIFICATION") ELSE UNCHANGED journal
    /\ UNCHANGED <<queue, campaign, leases, bound, proof, worker>>

-----------------------------------------------------------------------------
(* Workers                                                                 *)

\* claim looks at the state of the marathon before the outbox's transaction.
AskToClaim(w) ==
    /\ worker[w].at = "idle"
    /\ Current = "ACTIVE"
    /\ Go(w, "claiming")
    /\ UNCHANGED <<queue, campaign, marathon, closing>>

Claim(w, p) ==
    /\ worker[w].at = "claiming"
    /\ Queue!Claim({p})
    /\ leases' = [leases EXCEPT ![p] = Append(leases[p], w)]
    /\ worker' = [worker EXCEPT ![w] = [at |-> "leased", p |-> p, n |-> attempts[p] + 1,
                                        proof |-> NoProof]]
    /\ UNCHANGED <<campaign, journal, bound, proof, closing>>

\* recover_expired, called by nothing in src/ but by an operator: the lease is
\* over although its worker may not know.
Recover(p) == /\ Queue!Release({p})
              /\ UNCHANGED <<campaign, marathon, worker, closing>>

\* begin_partition_attempt: the state and the lease are checked first.  Of an
\* attempt that is mapped already the mapping is returned.
CheckBegin(w) ==
    /\ worker[w].at = "leased"
    /\ Current = "ACTIVE"
    /\ Holds(w)
    /\ bound[<<worker[w].p, worker[w].n>>] = {}
    /\ Go(w, "beginning")
    /\ UNCHANGED <<queue, campaign, marathon, closing>>

\* Its research attempt, always of wave 1, in a transaction of its own.
BeginResearch(w) ==
    LET k == <<worker[w].p, worker[w].n>>
    IN /\ worker[w].at = "beginning"
       /\ IF Begun(k) THEN UNCHANGED campaign ELSE BeginNew(k, 1)
       /\ Go(w, "binding")
       /\ UNCHANGED <<queue, marathon, closing>>

\* Bug: the mapping is filed under the effect's attempt count, not the lease's.
BindLatest(w) ==
    LET k == <<worker[w].p, attempts[worker[w].p]>>
    IN /\ worker[w].at = "binding"
       /\ bound' = IF bound[k] = {} THEN [bound EXCEPT ![k] = {w}] ELSE bound
       /\ Go(w, "leased")
       /\ UNCHANGED <<queue, campaign, journal, leases, proof, closing>>

\* The mapping of the attempt; neither state nor lease is looked at again.
Bind(w) ==
    LET k == <<worker[w].p, worker[w].n>>
    IN /\ worker[w].at = "binding"
       /\ bound' = IF bound[k] = {} THEN [bound EXCEPT ![k] = {w}] ELSE bound
       /\ Go(w, "leased")
       /\ UNCHANGED <<queue, campaign, journal, leases, proof, closing>>

\* Bug: one backed success is enough, whatever the other attempts lack.
SomeSuccess(e) == \E n \in DOMAIN e : e[n].receipt = "SUCCESS" /\ Backed(e[n])

\* _partition_evidence accepts what is on record.
Sufficient(e) == /\ \A n \in DOMAIN e : e[n].receipt # "NONE" /\ Backed(e[n])
                 /\ \E n \in DOMAIN e : e[n].receipt = "SUCCESS"

\* complete_partition collects and digests the evidence ...
Collect(w) ==
    LET p == worker[w].p
    IN /\ worker[w].at = "leased"
       /\ proof[p] = NoProof
       /\ Current = "ACTIVE"
       /\ Holds(w)
       /\ Sufficient(EvidenceOf(p))
       /\ worker' = [worker EXCEPT ![w].at = "proving", ![w].proof = EvidenceOf(p)]
       /\ UNCHANGED <<queue, campaign, marathon, closing>>

\* Bug: the completion is committed before the effect is settled.
CompleteFirst(w) ==
    LET p == worker[w].p
    IN /\ worker[w].at = "proving"
       /\ proof[p] = NoProof
       /\ Holds(w)
       /\ proof' = [proof EXCEPT ![p] = worker[w].proof]
       /\ Leave(w)
       /\ UNCHANGED <<queue, campaign, journal, leases, bound, closing>>

\* ... and stores it together with the success of the effect.
Complete(w) ==
    LET p == worker[w].p
    IN /\ worker[w].at = "proving"
       /\ proof[p] = NoProof
       /\ Queue!Succeed(p, worker[w].n)
       /\ proof' = [proof EXCEPT ![p] = worker[w].proof]
       /\ Leave(w)
       /\ UNCHANGED <<campaign, journal, leases, bound, closing>>

\* fail_partition: the checks, then the outbox's fail.
CheckFail(w) ==
    /\ worker[w].at = "leased"
    /\ Current = "ACTIVE"
    /\ Holds(w)
    /\ Go(w, "failing")
    /\ UNCHANGED <<queue, campaign, marathon, closing>>

Fail(w) ==
    /\ worker[w].at = "failing"
    /\ Holds(w)
    /\ Queue!Release({worker[w].p})
    /\ Leave(w)
    /\ UNCHANGED <<campaign, marathon, closing>>

\* A call returns a stored result, is refused (also by the outbox, also
\* because the lease has expired), or its process dies.
Abandon(w) == /\ worker[w].at # "idle"
              /\ Leave(w)
              /\ UNCHANGED <<queue, campaign, marathon, closing>>

-----------------------------------------------------------------------------
\* Other callers share the campaign.
Outside == /\ \E k \in Keys \ (Partitions \X (1..MaxAttempts)), wave \in Waves : BeginNew(k, wave)
           /\ UNCHANGED <<queue, marathon, worker, closing>>

Recording == EvidenceStep /\ UNCHANGED <<queue, marathon, worker, closing>>

WorkerStep(w) == \/ AskToClaim(w) \/ (\E p \in Partitions : Claim(w, p))
                 \/ CheckBegin(w) \/ BeginResearch(w) \/ Bind(w)
                 \/ Collect(w) \/ Complete(w)
                 \/ CheckFail(w) \/ Fail(w) \/ Abandon(w)

Coordination == \/ Admit \/ Start \/ PauseOrResume
                \/ \E c \in Coordinators : CheckClose(c) \/ Close(c)

Next == \/ Coordination
        \/ \E w \in Workers : WorkerStep(w)
        \/ \E p \in Partitions : Recover(p)
        \/ Recording
        \/ Outside

Spec == Init /\ [][Next]_vars

-----------------------------------------------------------------------------
(* Properties                                                              *)

Evidences == UNION {[S -> Attempt] : S \in SUBSET (1..MaxAttempts)}
Call == [at : Places, p : Partitions \cup {NoPartition}, n : 0..MaxAttempts, proof : Evidences]

\* Every variable has its type; no partition is leased more often than the
\* plan allows.
TypeOK == /\ CampaignTypeOK
          /\ phase \in [Partitions -> Queue!Phases]
          /\ attempts \in [Partitions -> 0..MaxAttempts]
          /\ budget \in [Partitions -> {0, MaxAttempts}]
          /\ journal \in Seq(States)
          /\ leases \in [Partitions -> Seq(Workers)]
          /\ bound \in [Partitions \X (1..MaxAttempts) -> SUBSET Workers]
          /\ proof \in [Partitions -> Evidences]
          /\ worker \in [Workers -> Call]
          /\ closing \subseteq Coordinators

\* The outbox and the completions tell the same story in every state: an
\* effect has succeeded exactly if its partition has a proof.
ProvenIfSucceeded == \A p \in Partitions : phase[p] = "SUCCEEDED" <=> proof[p] # NoProof

\* A proof never loses its backing: each attempt it covers is mapped and has
\* the receipt it had, one of them succeeded with an observation and a
\* cursor, and none of that is ever taken back.
ProofsAreBacked ==
    \A p \in Partitions : proof[p] # NoProof =>
        /\ \A n \in DOMAIN proof[p] :
              /\ n \in Mapped(p)
              /\ proof[p][n].receipt # "NONE"
              /\ proof[p][n].receipt = research[<<p, n>>].receipt
              /\ proof[p][n].observations <= research[<<p, n>>].observations
              /\ proof[p][n].cursors \subseteq research[<<p, n>>].cursors
        /\ \E n \in DOMAIN proof[p] : /\ proof[p][n].receipt = "SUCCESS"
                                      /\ proof[p][n].observations > 0
                                      /\ proof[p][n].cursors # {}

\* However late an attempt is mapped, it belongs to the worker the lease with
\* its number was granted to, and its request was persisted before.
AttemptsAreLeased ==
    \A p \in Partitions : \A n \in Mapped(p) :
        /\ n <= Len(leases[p])
        /\ bound[<<p, n>>] = {leases[p][n]}
        /\ research[<<p, n>>].wave = 1

\* The journal is the path its verifier accepts, and ends with the first
\* close: coordinators that checked together do not close twice.
JournalIsLegal ==
    \A i \in 1..Len(journal) :
        IF i = 1 THEN journal[i] = "PLANNED_NOT_STARTED"
        ELSE <<journal[i - 1], journal[i]>> \in
               {<<"PLANNED_NOT_STARTED", "ACTIVE">>, <<"ACTIVE", "PAUSED">>, <<"PAUSED", "ACTIVE">>,
                <<"ACTIVE", "COMPLETE_PENDING_CERTIFICATION">>,
                <<"PAUSED", "COMPLETE_PENDING_CERTIFICATION">>}

\* A marathon that is complete has nothing left to do: every effect succeeded.
CompleteIsSettled == Current = "COMPLETE_PENDING_CERTIFICATION"
                       => \A p \in Partitions : phase[p] = "SUCCEEDED"

\* What the design says of a completion: its digest binds all attempts,
\* receipts, observations and cursors of the partition.
DigestBindsEverything == \A p \in Partitions : proof[p] # NoProof => proof[p] = EvidenceOf(p)
=============================================================================
