----------------------- MODULE ResearchMarathonProofs -----------------------
(***************************************************************************)
(* Proofs about ResearchMarathon for any plan, workers, coordinators and   *)
(* retry budget: types, the agreement of proofs with the outbox, what      *)
(* proofs rest on, whose the attempts are, and what a close means.         *)
(***************************************************************************)
EXTENDS ResearchMarathon, TLAPS

-----------------------------------------------------------------------------
(* The campaign                                                            *)

\* All that can happen to the campaign.
CampaignMove == \/ UNCHANGED campaign
                \/ EvidenceStep
                \/ \E k \in Keys, wave \in Waves : BeginNew(k, wave)

\* An operation writes a well-formed attempt.
LEMMA CampaignTyped ==
    ASSUME CampaignAssumption, CampaignTypeOK, CampaignMove
    PROVE  CampaignTypeOK'
  <1>1. CASE UNCHANGED campaign
    BY <1>1 DEF CampaignTypeOK, campaign
  <1>2. ASSUME NEW k \in Keys, Evidence(k) PROVE CampaignTypeOK'
    <2>1. research[k] \in Attempt
      BY DEF CampaignTypeOK
    <2>2. ASSUME NEW o \in Outcomes, RecordReceipt(k, o) PROVE CampaignTypeOK'
      <3>1. [research[k] EXCEPT !.receipt = o] \in Attempt
        BY <2>1 DEF Attempt
      <3> QED
        BY <2>2, <3>1 DEF RecordReceipt, CampaignTypeOK
    <2>3. ASSUME RecordObservation(k) PROVE CampaignTypeOK'
      <3>1. research[k].observations + 1 \in 0..MaxObservations
        BY <2>1, <2>3 DEF Attempt, RecordObservation, CampaignAssumption
      <3>2. \A m \in 0..MaxObservations : [research[k] EXCEPT !.observations = m] \in Attempt
        BY <2>1 DEF Attempt
      <3> QED
        BY <2>3, <3>1, <3>2 DEF RecordObservation, CampaignTypeOK
    <2>4. ASSUME NEW c \in CursorKeys, CheckpointCursor(k, c) PROVE CampaignTypeOK'
      <3>1. [research[k] EXCEPT !.cursors = research[k].cursors \cup {c}] \in Attempt
        BY <2>1 DEF Attempt
      <3> QED
        BY <2>4, <3>1 DEF CheckpointCursor, CampaignTypeOK
    <2> QED
      BY <1>2, <2>2, <2>3, <2>4 DEF Evidence
  <1>3. ASSUME NEW k \in Keys, NEW wave \in Waves, BeginNew(k, wave) PROVE CampaignTypeOK'
    <2>1. [research[k] EXCEPT !.wave = wave] \in Attempt
      BY DEF CampaignTypeOK, Attempt
    <2> QED
      BY <1>3, <2>1 DEF BeginNew, CampaignTypeOK
  <1> QED
    BY <1>1, <1>2, <1>3 DEF CampaignMove, EvidenceStep

\* What is on record for an attempt stays on record.
Extends(a, b) == /\ b.wave # 0 => a.wave = b.wave
                 /\ b.receipt # "NONE" => a.receipt = b.receipt
                 /\ b.observations <= a.observations
                 /\ b.cursors \subseteq a.cursors

\* No operation takes back a wave, a receipt, an observation or a cursor.
LEMMA EvidenceGrows ==
    ASSUME CampaignAssumption, CampaignTypeOK, CampaignMove, NEW k \in Keys
    PROVE  Extends(research'[k], research[k])
  <1>1. research[k] \in Attempt /\ research[k].observations \in Nat
    BY DEF CampaignTypeOK, Attempt
  <1>2. CASE UNCHANGED campaign
    BY <1>1, <1>2 DEF campaign, Extends
  <1>3. ASSUME NEW j \in Keys, Evidence(j) PROVE Extends(research'[k], research[k])
    <2>1. ASSUME NEW o \in Outcomes, RecordReceipt(j, o)
          PROVE  Extends(research'[k], research[k])
      BY <1>1, <2>1 DEF RecordReceipt, Extends, CampaignTypeOK, Attempt
    <2>2. ASSUME RecordObservation(j) PROVE Extends(research'[k], research[k])
      BY <1>1, <2>2 DEF RecordObservation, Extends, CampaignTypeOK, Attempt
    <2>3. ASSUME NEW c \in CursorKeys, CheckpointCursor(j, c)
          PROVE  Extends(research'[k], research[k])
      BY <1>1, <2>3 DEF CheckpointCursor, Extends, CampaignTypeOK, Attempt
    <2> QED
      BY <1>3, <2>1, <2>2, <2>3 DEF Evidence
  <1>4. ASSUME NEW j \in Keys, NEW wave \in Waves, BeginNew(j, wave)
        PROVE  Extends(research'[k], research[k])
    BY <1>1, <1>4 DEF BeginNew, Begun, Extends, CampaignTypeOK, Attempt
  <1> QED
    BY <1>2, <1>3, <1>4 DEF CampaignMove, EvidenceStep

-----------------------------------------------------------------------------
(* Types                                                                   *)

\* The budget bounds the attempts although claim does not look at it.
Affordable == \A p \in Partitions : /\ phase[p] = "NONE" => attempts[p] = 0
                                    /\ phase[p] = "PENDING" => attempts[p] < MaxAttempts
                                    /\ phase[p] # "NONE" => budget[p] = MaxAttempts

\* A worker beyond claim holds, or held, a lease.
Engaged(r) == r.at \notin {"idle", "claiming"} => r.p \in Partitions /\ r.n \in 1..MaxAttempts
AllEngaged == \A w \in Workers : Engaged(worker[w])

Typed == TypeOK /\ Affordable /\ AllEngaged

\* The operations of the outbox in terms of the marathon.
QueueMove == \/ UNCHANGED queue
             \/ Start
             \/ \E p \in Partitions : Queue!Claim({p}) \/ Queue!Release({p})
                                      \/ \E n \in 1..MaxAttempts : Queue!Succeed(p, n)

\* Every step of the marathon moves the campaign and the outbox only through
\* their operations.
LEMMA MovesSplit ==
    ASSUME MarathonAssumption, CampaignAssumption, Typed, [Next]_vars
    PROVE  CampaignMove /\ QueueMove
  <1> USE DEF CampaignMove, QueueMove
  <1>1. CASE UNCHANGED vars
    BY <1>1 DEF vars
  <1>2. CASE Coordination
    BY <1>2 DEF Coordination, Admit, Start, PauseOrResume, CheckClose, Close, marathon
  <1>3. ASSUME NEW w \in Workers, WorkerStep(w) PROVE CampaignMove /\ QueueMove
    <2>1. Engaged(worker[w])
      BY DEF Typed, AllEngaged
    <2>2. CASE AskToClaim(w) \/ CheckBegin(w) \/ Bind(w) \/ Collect(w) \/ CheckFail(w) \/ Abandon(w)
      BY <2>2 DEF AskToClaim, CheckBegin, Bind, Collect, CheckFail, Abandon
    <2>3. ASSUME NEW p \in Partitions, Claim(w, p) PROVE CampaignMove /\ QueueMove
      BY <2>3 DEF Claim
    <2>4. CASE BeginResearch(w)
      <3>1. <<worker[w].p, worker[w].n>> \in Keys /\ 1 \in Waves
        BY <2>1, <2>4 DEF BeginResearch, Engaged, MarathonAssumption
      <3> QED
        BY <2>4, <3>1 DEF BeginResearch
    <2>5. CASE Complete(w)
      BY <2>1, <2>5 DEF Complete, Engaged
    <2>6. CASE Fail(w)
      BY <2>1, <2>6 DEF Fail, Engaged
    <2> QED
      BY <1>3, <2>2, <2>3, <2>4, <2>5, <2>6 DEF WorkerStep
  <1>4. CASE \E p \in Partitions : Recover(p)
    BY <1>4 DEF Recover
  <1>5. CASE Recording
    BY <1>5 DEF Recording
  <1>6. CASE Outside
    BY <1>6 DEF Outside
  <1> QED
    BY <1>1, <1>2, <1>3, <1>4, <1>5, <1>6 DEF Next

\* The outbox keeps its types and the budget.
LEMMA QueueTyped ==
    ASSUME MarathonAssumption, Typed, QueueMove
    PROVE  /\ phase' \in [Partitions -> Queue!Phases]
           /\ attempts' \in [Partitions -> 0..MaxAttempts]
           /\ budget' \in [Partitions -> {0, MaxAttempts}]
           /\ Affordable'
  <1> USE DEF Typed, TypeOK, Affordable, Queue!Phases, MarathonAssumption
  <1>1. CASE UNCHANGED queue
    BY <1>1 DEF queue
  <1>2. CASE Start
    BY <1>2 DEF Start, Queue!Enqueue
  <1>3. ASSUME NEW p \in Partitions, Queue!Claim({p})
        PROVE  /\ phase' \in [Partitions -> Queue!Phases]
               /\ attempts' \in [Partitions -> 0..MaxAttempts]
               /\ budget' \in [Partitions -> {0, MaxAttempts}]
               /\ Affordable'
    BY <1>3 DEF Queue!Claim
  <1>4. ASSUME NEW p \in Partitions, Queue!Release({p})
        PROVE  /\ phase' \in [Partitions -> Queue!Phases]
               /\ attempts' \in [Partitions -> 0..MaxAttempts]
               /\ budget' \in [Partitions -> {0, MaxAttempts}]
               /\ Affordable'
    BY <1>4 DEF Queue!Release
  <1>5. ASSUME NEW p \in Partitions, NEW n \in 1..MaxAttempts, Queue!Succeed(p, n)
        PROVE  /\ phase' \in [Partitions -> Queue!Phases]
               /\ attempts' \in [Partitions -> 0..MaxAttempts]
               /\ budget' \in [Partitions -> {0, MaxAttempts}]
               /\ Affordable'
    BY <1>5 DEF Queue!Succeed
  <1> QED
    BY <1>1, <1>2, <1>3, <1>4, <1>5 DEF QueueMove

\* An idle process is a call, and what is on record of a partition is evidence.
LEMMA Calls ==
    ASSUME MarathonAssumption, TypeOK
    PROVE  Idle \in Call /\ \A p \in Partitions : EvidenceOf(p) \in [Mapped(p) -> Attempt]
                                               /\ EvidenceOf(p) \in Evidences
  <1>1. NoProof \in [{} -> Attempt]
    BY DEF NoProof
  <1>2. {} \in SUBSET (1..MaxAttempts)
    OBVIOUS
  <1>3. NoProof \in Evidences
    BY <1>1, <1>2 DEF Evidences
  <1>4. Idle \in Call
    BY <1>3 DEF Idle, Call, Places, MarathonAssumption
  <1>5. ASSUME NEW p \in Partitions
        PROVE  EvidenceOf(p) \in [Mapped(p) -> Attempt] /\ EvidenceOf(p) \in Evidences
    <2>1. \A n \in Mapped(p) : research[<<p, n>>] \in Attempt
      BY DEF Mapped, TypeOK, CampaignTypeOK, MarathonAssumption
    <2>2. EvidenceOf(p) \in [Mapped(p) -> Attempt]
      BY <2>1 DEF EvidenceOf
    <2>3. Mapped(p) \in SUBSET (1..MaxAttempts)
      BY DEF Mapped
    <2> QED
      BY <2>2, <2>3 DEF Evidences
  <1> QED
    BY <1>4, <1>5

\* Where a step of a worker leaves it.
LEMMA WorkerMoves ==
    ASSUME MarathonAssumption, Typed, NEW w \in Workers, WorkerStep(w)
    PROVE  \E r \in Call : worker' = [worker EXCEPT ![w] = r] /\ Engaged(r)
  <1>1. worker[w] \in Call /\ Engaged(worker[w])
    BY DEF Typed, TypeOK, AllEngaged
  <1>2. Idle \in Call /\ Engaged(Idle)
    BY Calls DEF Idle, Engaged, Typed
  <1>3. worker \in [Workers -> Call]
    BY DEF Typed, TypeOK
  <1>4. ASSUME NEW at \in Places, Go(w, at),
               at \notin {"idle", "claiming"} => worker[w].at \notin {"idle", "claiming"}
        PROVE  \E r \in Call : worker' = [worker EXCEPT ![w] = r] /\ Engaged(r)
    <2> DEFINE r == [worker[w] EXCEPT !.at = at]
    <2>1. r \in Call /\ r.at = at /\ r.p = worker[w].p /\ r.n = worker[w].n
      BY <1>1 DEF Call
    <2>2. worker' = [worker EXCEPT ![w] = r]
      BY <1>3, <1>4 DEF Go
    <2>3. Engaged(r)
      BY <1>1, <1>4, <2>1 DEF Engaged
    <2> QED
      BY <2>1, <2>2, <2>3
  <1>5. CASE Leave(w)
    BY <1>2, <1>5 DEF Leave
  <1>6. CASE AskToClaim(w) \/ CheckBegin(w) \/ BeginResearch(w) \/ Bind(w) \/ CheckFail(w)
    <2>1. CASE AskToClaim(w)
      BY <1>4, <2>1 DEF AskToClaim, Places
    <2>2. CASE CheckBegin(w)
      BY <1>4, <2>2 DEF CheckBegin, Places
    <2>3. CASE BeginResearch(w)
      BY <1>4, <2>3 DEF BeginResearch, Places
    <2>4. CASE Bind(w)
      BY <1>4, <2>4 DEF Bind, Places
    <2>5. CASE CheckFail(w)
      BY <1>4, <2>5 DEF CheckFail, Places
    <2> QED
      BY <1>6, <2>1, <2>2, <2>3, <2>4, <2>5
  <1>7. ASSUME NEW p \in Partitions, Claim(w, p)
        PROVE  \E r \in Call : worker' = [worker EXCEPT ![w] = r] /\ Engaged(r)
    <2> DEFINE r == [at |-> "leased", p |-> p, n |-> attempts[p] + 1, proof |-> NoProof]
    <2>1. attempts[p] + 1 \in 1..MaxAttempts
      BY <1>7 DEF Claim, Queue!Claim, Typed, TypeOK, Affordable, MarathonAssumption
    <2>2. NoProof \in Evidences
      BY <1>2 DEF Idle, Call
    <2>3. \A n \in 1..MaxAttempts : [at |-> "leased", p |-> p, n |-> n, proof |-> NoProof] \in Call
      BY <2>2 DEF Call, Places
    <2>4. r \in Call /\ Engaged(r)
      BY <2>1, <2>3 DEF Engaged
    <2>5. worker' = [worker EXCEPT ![w] = r]
      BY <1>7 DEF Claim
    <2> QED
      BY <2>4, <2>5
  <1>8. CASE Collect(w)
    <2> DEFINE e == EvidenceOf(worker[w].p)
    <2> DEFINE r == [worker[w] EXCEPT !.at = "proving", !.proof = e]
    <2>1. worker[w].p \in Partitions /\ worker[w].n \in 1..MaxAttempts
      BY <1>1, <1>8 DEF Collect, Engaged
    <2>2. e \in Evidences
      BY <2>1, Calls DEF Typed
    <2>3. r \in Call /\ r.p = worker[w].p /\ r.n = worker[w].n
      BY <1>1, <2>2 DEF Call, Places
    <2>4. worker' = [worker EXCEPT ![w] = r]
      BY <1>3, <1>8 DEF Collect
    <2> QED
      BY <2>1, <2>3, <2>4 DEF Engaged
  <1>9. CASE Complete(w) \/ Fail(w) \/ Abandon(w)
    BY <1>5, <1>9 DEF Complete, Fail, Abandon
  <1> QED
    BY <1>6, <1>7, <1>8, <1>9 DEF WorkerStep

\* Only Claim logs a lease, only Bind maps, only Complete proves, and only the
\* coordination moves the marathon.
LEMMA RecordsMove ==
    ASSUME MarathonAssumption, Typed, [Next]_vars
    PROVE  /\ journal' = journal \/ \E s \in States : journal' = Append(journal, s)
           /\ \/ UNCHANGED leases
              \/ \E w \in Workers, p \in Partitions : leases' = [leases EXCEPT ![p] = Append(leases[p], w)]
           /\ \/ UNCHANGED bound
              \/ \E w \in Workers, k \in Partitions \X (1..MaxAttempts) :
                    bound[k] = {} /\ bound' = [bound EXCEPT ![k] = {w}]
           /\ \/ UNCHANGED proof
              \/ \E w \in Workers, p \in Partitions :
                    proof[p] = NoProof /\ proof' = [proof EXCEPT ![p] = worker[w].proof]
           /\ closing' \subseteq Coordinators
           /\ UNCHANGED worker \/ \E w \in Workers : WorkerStep(w)
  <1> USE DEF Typed, TypeOK
  <1>1. CASE UNCHANGED vars
    BY <1>1 DEF vars, marathon
  <1>2. CASE Coordination
    BY <1>2 DEF Coordination, Admit, Start, Queue!Enqueue, PauseOrResume, CheckClose, Close, marathon, Enter, States
  <1>3. ASSUME NEW w \in Workers, WorkerStep(w)
        PROVE  /\ UNCHANGED <<journal, closing>>
               /\ \/ UNCHANGED leases
                  \/ \E p \in Partitions : leases' = [leases EXCEPT ![p] = Append(leases[p], w)]
               /\ \/ UNCHANGED bound
                  \/ \E k \in Partitions \X (1..MaxAttempts) :
                        bound[k] = {} /\ bound' = [bound EXCEPT ![k] = {w}]
               /\ \/ UNCHANGED proof
                  \/ \E p \in Partitions :
                        proof[p] = NoProof /\ proof' = [proof EXCEPT ![p] = worker[w].proof]
    <2>1. Engaged(worker[w])
      BY DEF AllEngaged
    <2>2. CASE AskToClaim(w) \/ CheckBegin(w) \/ BeginResearch(w) \/ Collect(w)
               \/ CheckFail(w) \/ Fail(w) \/ Abandon(w)
      BY <2>2 DEF AskToClaim, CheckBegin, BeginResearch, Collect, CheckFail, Fail, Abandon, marathon
    <2>3. CASE \E p \in Partitions : Claim(w, p)
      BY <2>3 DEF Claim
    <2>4. CASE Bind(w)
      BY <2>1, <2>4 DEF Bind, Engaged
    <2>5. CASE Complete(w)
      BY <2>1, <2>5 DEF Complete, Engaged
    <2> QED
      BY <1>3, <2>2, <2>3, <2>4, <2>5 DEF WorkerStep
  <1>4. CASE \/ \E p \in Partitions : Recover(p)
             \/ Recording
             \/ Outside
    BY <1>4 DEF Recover, Recording, Outside, marathon
  <1> QED
    BY <1>1, <1>2, <1>3, <1>4 DEF Next

\* Every step keeps the types.
LEMMA TypeInductive ==
    ASSUME MarathonAssumption, CampaignAssumption, Typed, [Next]_vars
    PROVE  Typed'
  <1>1. CampaignTypeOK'
    BY MovesSplit, CampaignTyped DEF Typed, TypeOK
  <1>2. /\ phase' \in [Partitions -> Queue!Phases]
        /\ attempts' \in [Partitions -> 0..MaxAttempts]
        /\ budget' \in [Partitions -> {0, MaxAttempts}]
        /\ Affordable'
    BY MovesSplit, QueueTyped
  <1>3. worker' \in [Workers -> Call] /\ AllEngaged'
    <2>1. CASE UNCHANGED worker
      BY <2>1 DEF Typed, TypeOK, AllEngaged
    <2>2. ASSUME NEW w \in Workers, WorkerStep(w) PROVE worker' \in [Workers -> Call] /\ AllEngaged'
      <3>1. PICK r \in Call : worker' = [worker EXCEPT ![w] = r] /\ Engaged(r)
        BY <2>2, WorkerMoves
      <3> QED
        BY <3>1 DEF Typed, TypeOK, AllEngaged
    <2> QED
      BY <2>1, <2>2, RecordsMove
  <1>4. journal' \in Seq(States)
    <2>1. journal \in Seq(States)
      BY DEF Typed, TypeOK
    <2>2. CASE journal' = journal
      BY <2>1, <2>2
    <2>3. ASSUME NEW s \in States, journal' = Append(journal, s) PROVE journal' \in Seq(States)
      BY <2>1, <2>3
    <2> QED
      BY <2>2, <2>3, RecordsMove
  <1>5. leases' \in [Partitions -> Seq(Workers)]
    <2>1. CASE UNCHANGED leases
      BY <2>1 DEF Typed, TypeOK
    <2>2. ASSUME NEW w \in Workers, NEW p \in Partitions,
                 leases' = [leases EXCEPT ![p] = Append(leases[p], w)]
          PROVE  leases' \in [Partitions -> Seq(Workers)]
      <3>1. Append(leases[p], w) \in Seq(Workers)
        BY DEF Typed, TypeOK
      <3> QED
        BY <2>2, <3>1 DEF Typed, TypeOK
    <2> QED
      BY <2>1, <2>2, RecordsMove
  <1>6. closing' \subseteq Coordinators
    BY RecordsMove
  <1>7. bound' \in [Partitions \X (1..MaxAttempts) -> SUBSET Workers]
    <2>1. CASE UNCHANGED bound
      BY <2>1 DEF Typed, TypeOK
    <2>2. ASSUME NEW w \in Workers, NEW k \in Partitions \X (1..MaxAttempts),
                 bound' = [bound EXCEPT ![k] = {w}]
          PROVE  bound' \in [Partitions \X (1..MaxAttempts) -> SUBSET Workers]
      <3> DEFINE K == Partitions \X (1..MaxAttempts)
      <3>1. bound \in [K -> SUBSET Workers] /\ k \in K /\ {w} \in SUBSET Workers
        BY DEF Typed, TypeOK
      <3> HIDE DEF K
      <3>2. bound' \in [K -> SUBSET Workers]
        BY <2>2, <3>1
      <3> QED
        BY <3>2 DEF K
    <2> QED
      BY <2>1, <2>2, RecordsMove
  <1>8. proof' \in [Partitions -> Evidences]
    <2>1. \A w \in Workers : worker[w].proof \in Evidences
      BY DEF Typed, TypeOK, Call
    <2> QED
      BY <2>1, RecordsMove DEF Typed, TypeOK
  <1> QED
    BY <1>1, <1>2, <1>3, <1>4, <1>5, <1>6, <1>7, <1>8 DEF Typed, TypeOK

\* Before the plan is admitted everything has its type.
LEMMA TypeInitially == ASSUME MarathonAssumption, CampaignAssumption, Init PROVE Typed
  <1>1. Idle \in Call /\ NoProof \in Evidences
    <2>1. NoProof \in [{} -> Attempt] /\ {} \in SUBSET (1..MaxAttempts)
      BY DEF NoProof
    <2>2. NoProof \in Evidences
      BY <2>1 DEF Evidences
    <2> QED
      BY <2>2 DEF Idle, Call, Places, MarathonAssumption
  <1>2. CampaignTypeOK
    BY DEF Init, CampaignInit, CampaignTypeOK, NotBegun, Attempt, CampaignAssumption
  <1>3. TypeOK
    BY <1>1, <1>2 DEF Init, TypeOK, Queue!Init, Queue!Phases, MarathonAssumption
  <1> QED
    BY <1>3 DEF Typed, Affordable, AllEngaged, Engaged, Idle, Init, Queue!Init

\* Every row and every call is well formed, and no partition is leased more
\* often than the plan allows, although claim does not look at the budget.
THEOREM TypeCorrect == Spec => []TypeOK
  <1>1. Init => Typed
    BY TypeInitially, MarathonAssumption, CampaignAssumption
  <1>2. Typed /\ [Next]_vars => Typed'
    BY TypeInductive, MarathonAssumption, CampaignAssumption
  <1>3. Typed => TypeOK
    BY DEF Typed
  <1> QED
    BY <1>1, <1>2, <1>3, PTL DEF Spec

-----------------------------------------------------------------------------
(* Proofs and the outbox                                                   *)

\* A worker about to store a proof has one.
ProvingHasProof == \A w \in Workers : worker[w].at = "proving" => worker[w].proof # NoProof

\* No step but Complete touches a proof or a success, and it makes both.
LEMMA ProofsAndSuccesses ==
    ASSUME MarathonAssumption, Typed, [Next]_vars
    PROVE  \/ /\ UNCHANGED proof
              /\ \A p \in Partitions : phase'[p] = "SUCCEEDED" <=> phase[p] = "SUCCEEDED"
           \/ \E w \in Workers, p \in Partitions :
                 /\ worker[w].at = "proving" /\ worker[w].p = p
                 /\ proof' = [proof EXCEPT ![p] = worker[w].proof]
                 /\ phase' = [phase EXCEPT ![p] = "SUCCEEDED"]
  <1> USE DEF Typed, TypeOK, Queue!Phases
  <1> DEFINE Same == /\ UNCHANGED proof
                     /\ \A p \in Partitions : phase'[p] = "SUCCEEDED" <=> phase[p] = "SUCCEEDED"
  <1> DEFINE Both == \E w \in Workers, p \in Partitions :
                        /\ worker[w].at = "proving" /\ worker[w].p = p
                        /\ proof' = [proof EXCEPT ![p] = worker[w].proof]
                        /\ phase' = [phase EXCEPT ![p] = "SUCCEEDED"]
  <1>1. CASE UNCHANGED vars
    BY <1>1 DEF vars, queue, marathon
  <1>2. CASE Start
    BY <1>2 DEF Start, Queue!Enqueue
  <1>3. CASE Admit \/ PauseOrResume \/ \E c \in Coordinators : CheckClose(c) \/ Close(c)
    BY <1>3 DEF Admit, PauseOrResume, CheckClose, Close, queue, marathon
  <1>4. ASSUME NEW w \in Workers, WorkerStep(w) PROVE Same \/ Both
    <2>1. CASE AskToClaim(w) \/ CheckBegin(w) \/ BeginResearch(w) \/ Bind(w) \/ Collect(w)
               \/ CheckFail(w) \/ Abandon(w)
      BY <2>1 DEF AskToClaim, CheckBegin, BeginResearch, Bind, Collect, CheckFail, Abandon,
                  queue, marathon
    <2>2. ASSUME NEW p \in Partitions, Claim(w, p) PROVE Same
      BY <2>2 DEF Claim, Queue!Claim
    <2>3. CASE Fail(w)
      BY <2>3 DEF Fail, Queue!Release, marathon
    <2>4. CASE Complete(w)
      <3>1. worker[w].p \in Partitions
        BY <2>4 DEF Complete, AllEngaged, Engaged
      <3> QED
        BY <2>4, <3>1 DEF Complete, Queue!Succeed
    <2> HIDE DEF Same, Both
    <2> QED
      BY <1>4, <2>1, <2>2, <2>3, <2>4 DEF WorkerStep
  <1>5. CASE \E p \in Partitions : Recover(p)
    BY <1>5 DEF Recover, Queue!Release, marathon
  <1>6. CASE Recording \/ Outside
    BY <1>6 DEF Recording, Outside, queue, marathon
  <1> HIDE DEF Same, Both, Typed, TypeOK
  <1>7. CASE Coordination
    BY <1>2, <1>3, <1>7 DEF Coordination
  <1> QED
    BY <1>1, <1>4, <1>5, <1>6, <1>7 DEF Next, Same, Both

\* A worker reaches "proving" with sufficient evidence, and keeps it there.
LEMMA ProvingMoves ==
    ASSUME MarathonAssumption, Typed, [Next]_vars, NEW w \in Workers, worker'[w].at = "proving"
    PROVE  \/ worker'[w] = worker[w]
           \/ /\ worker[w].p \in Partitions
              /\ Sufficient(EvidenceOf(worker[w].p))
              /\ worker'[w] = [worker[w] EXCEPT !.at = "proving", !.proof = EvidenceOf(worker[w].p)]
  <1> USE DEF Typed, TypeOK
  <1>1. CASE UNCHANGED worker
    BY <1>1
  <1>2. ASSUME NEW v \in Workers, WorkerStep(v), v # w PROVE worker'[w] = worker[w]
    BY <1>2, WorkerMoves
  <1>3. CASE WorkerStep(w)
    <2>1. CASE AskToClaim(w) \/ CheckBegin(w) \/ BeginResearch(w) \/ Bind(w) \/ CheckFail(w)
      <3>1. ASSUME NEW at, Go(w, at) PROVE worker'[w].at = at
        BY <3>1 DEF Go, Call
      <3> HIDE DEF Typed, TypeOK
      <3>2. CASE AskToClaim(w)
        BY <3>1, <3>2 DEF AskToClaim
      <3>3. CASE CheckBegin(w)
        BY <3>1, <3>3 DEF CheckBegin
      <3>4. CASE BeginResearch(w)
        BY <3>1, <3>4 DEF BeginResearch
      <3>5. CASE Bind(w)
        BY <3>1, <3>5 DEF Bind
      <3>6. CASE CheckFail(w)
        BY <3>1, <3>6 DEF CheckFail
      <3> QED
        BY <2>1, <3>2, <3>3, <3>4, <3>5, <3>6
    <2>2. ASSUME NEW p \in Partitions, Claim(w, p) PROVE FALSE
      BY <2>2 DEF Claim
    <2>3. CASE Complete(w) \/ Fail(w) \/ Abandon(w)
      BY <2>3 DEF Complete, Fail, Abandon, Leave, Idle
    <2>4. CASE Collect(w)
      BY <2>4 DEF Collect, AllEngaged, Engaged
    <2> QED
      BY <1>3, <2>1, <2>2, <2>3, <2>4 DEF WorkerStep
  <1> QED
    BY <1>1, <1>2, <1>3, RecordsMove

\* Evidence that suffices is a proof.
LEMMA SufficientIsProof == ASSUME NEW e, Sufficient(e) PROVE e # NoProof
  BY DEF Sufficient, NoProof

\* In every state an effect has succeeded exactly if its partition is proven:
\* the transaction of complete_partition keeps the two tables together although
\* it trusts a lease and evidence it looked at before.
THEOREM OneStory == Spec => []ProvenIfSucceeded
  <1> DEFINE IInv == Typed /\ ProvingHasProof /\ ProvenIfSucceeded
  <1>1. Init => IInv
    <2> SUFFICES ASSUME Init PROVE IInv
      OBVIOUS
    <2>1. Typed
      BY TypeInitially, MarathonAssumption, CampaignAssumption
    <2> QED
      BY <2>1 DEF Init, Queue!Init, ProvingHasProof, ProvenIfSucceeded, Idle
  <1>2. IInv /\ [Next]_vars => IInv'
    <2> SUFFICES ASSUME IInv, [Next]_vars PROVE IInv'
      OBVIOUS
    <2>1. Typed'
      BY TypeInductive, MarathonAssumption, CampaignAssumption
    <2>2. ASSUME NEW w \in Workers, worker'[w].at = "proving" PROVE worker'[w].proof # NoProof
      <3>1. CASE worker'[w] = worker[w]
        BY <2>2, <3>1 DEF ProvingHasProof
      <3>2. CASE worker'[w] # worker[w]
        <4> DEFINE e == EvidenceOf(worker[w].p)
        <4>1. Sufficient(e) /\ worker'[w] = [worker[w] EXCEPT !.at = "proving", !.proof = e]
          BY <2>2, <3>2, ProvingMoves, MarathonAssumption
        <4>2. worker[w] \in Call
          BY DEF Typed, TypeOK
        <4> HIDE DEF e
        <4>3. worker'[w].proof = e
          BY <4>1, <4>2 DEF Call
        <4> QED
          BY <4>1, <4>3, SufficientIsProof
      <3> QED
        BY <3>1, <3>2
    <2>3. ProvenIfSucceeded'
      <3>1. CASE /\ UNCHANGED proof
                 /\ \A p \in Partitions : phase'[p] = "SUCCEEDED" <=> phase[p] = "SUCCEEDED"
        BY <3>1 DEF ProvenIfSucceeded
      <3>2. ASSUME NEW w \in Workers, NEW p \in Partitions, worker[w].at = "proving",
                   proof' = [proof EXCEPT ![p] = worker[w].proof],
                   phase' = [phase EXCEPT ![p] = "SUCCEEDED"]
            PROVE  ProvenIfSucceeded'
        BY <3>2 DEF ProvenIfSucceeded, ProvingHasProof, Typed, TypeOK
      <3> QED
        BY <3>1, <3>2, ProofsAndSuccesses, MarathonAssumption
    <2> QED
      BY <2>1, <2>2, <2>3 DEF ProvingHasProof
  <1>3. IInv => ProvenIfSucceeded
    OBVIOUS
  <1> QED
    BY <1>1, <1>2, <1>3, PTL DEF Spec

-----------------------------------------------------------------------------
(* The journal and the close                                               *)

Done == "COMPLETE_PENDING_CERTIFICATION"

\* The transitions the verifier of the journal accepts.
Arcs == {<<"PLANNED_NOT_STARTED", "ACTIVE">>, <<"ACTIVE", "PAUSED">>, <<"PAUSED", "ACTIVE">>,
         <<"ACTIVE", Done>>, <<"PAUSED", Done>>}

\* An entry is the new state, and the journal stays legal if the entry is.
LEMMA EnterMoves ==
    ASSUME journal \in Seq(States), NEW s \in States, Enter(s)
    PROVE  /\ Current' = s
           /\ JournalIsLegal /\ (IF journal = <<>> THEN s = "PLANNED_NOT_STARTED"
                                 ELSE <<Current, s>> \in Arcs) => JournalIsLegal'
  <1>1. /\ journal' = Append(journal, s)
        /\ Len(journal') = Len(journal) + 1 /\ Len(journal) \in Nat
        /\ journal'[Len(journal) + 1] = s
        /\ \A i \in 1..Len(journal) : journal'[i] = journal[i]
        /\ journal' # <<>>
    BY DEF Enter
  <1>2. Current' = s
    BY <1>1 DEF Current
  <1>3. ASSUME JournalIsLegal,
               IF journal = <<>> THEN s = "PLANNED_NOT_STARTED" ELSE <<Current, s>> \in Arcs
        PROVE  JournalIsLegal'
    <2>1. ASSUME NEW i \in 1..Len(journal)
          PROVE  IF i = 1 THEN journal'[i] = "PLANNED_NOT_STARTED"
                 ELSE <<journal'[i - 1], journal'[i]>> \in Arcs
      BY <1>1, <1>3 DEF JournalIsLegal, Arcs, Done
    <2>2. CASE journal = <<>>
      <3>1. Len(journal') = 1 /\ journal'[1] = "PLANNED_NOT_STARTED"
        BY <1>1, <1>3, <2>2
      <3> QED
        BY <3>1 DEF JournalIsLegal
    <2>3. CASE journal # <<>>
      <3> DEFINE last == Len(journal)
      <3>1. last \in Nat \ {0} /\ Current = journal[last]
        BY <1>1, <2>3 DEF Current
      <3>2. <<journal'[last], journal'[last + 1]>> \in Arcs
        BY <1>1, <1>3, <2>3, <3>1
      <3>3. \A i \in 1..(last + 1) : IF i = 1 THEN journal'[i] = "PLANNED_NOT_STARTED"
                                     ELSE <<journal'[i - 1], journal'[i]>> \in Arcs
        <4> SUFFICES ASSUME NEW i \in 1..(last + 1)
                     PROVE  IF i = 1 THEN journal'[i] = "PLANNED_NOT_STARTED"
                            ELSE <<journal'[i - 1], journal'[i]>> \in Arcs
          OBVIOUS
        <4>1. CASE i \in 1..last
          BY <2>1, <4>1
        <4>2. CASE i = last + 1
          <5>1. i # 1 /\ i - 1 = last
            BY <3>1, <4>2
          <5> QED
            BY <3>2, <4>2, <5>1
        <4> HIDE DEF last
        <4> QED
          BY <3>1, <4>1, <4>2
      <3> QED
        BY <1>1, <3>3 DEF JournalIsLegal, Arcs, Done
    <2> QED
      BY <2>2, <2>3
  <1> QED
    BY <1>2, <1>3

\* What a step does to the journal, and who is about to close: a marathon is
\* closed from where the checks of close were passed.
LEMMA JournalMoves ==
    ASSUME Typed, [Next]_vars
    PROVE  /\ \/ UNCHANGED journal
              \/ \E s \in States : /\ Enter(s)
                                   /\ IF journal = <<>> THEN s = "PLANNED_NOT_STARTED"
                                      ELSE <<Current, s>> \in Arcs
                                   /\ s = Done => closing # {}
           /\ closing' # {} => closing # {} \/ AllProven
  <1> USE DEF Arcs, Done
  <1>1. CASE UNCHANGED vars
    BY <1>1 DEF vars, marathon
  <1>2. CASE Admit
    BY <1>2 DEF Admit, States
  <1>3. CASE Start
    BY <1>3 DEF Start, Queue!Enqueue, States, Current
  <1>4. CASE PauseOrResume
    BY <1>4 DEF PauseOrResume, States, Current
  <1>5. ASSUME NEW c \in Coordinators, CheckClose(c)
        PROVE  UNCHANGED journal /\ (closing' # {} => closing # {} \/ AllProven)
    BY <1>5 DEF CheckClose, marathon
  <1>6. ASSUME NEW c \in Coordinators, Close(c)
        PROVE  /\ UNCHANGED journal \/ (Enter(Done) /\ journal # <<>> /\ <<Current, Done>> \in Arcs)
               /\ closing # {}
    BY <1>6 DEF Close, Running, Current
  <1>7. ASSUME NEW w \in Workers, WorkerStep(w) PROVE UNCHANGED <<journal, closing>>
    BY <1>7 DEF WorkerStep, AskToClaim, Claim, CheckBegin, BeginResearch, Bind, Collect, Complete,
                CheckFail, Fail, Abandon, marathon
  <1>8. CASE \/ \E p \in Partitions : Recover(p)
             \/ Recording
             \/ Outside
    BY <1>8 DEF Recover, Recording, Outside, marathon
  <1>9. Done \in States
    BY DEF States
  <1>10. CASE Coordination
    BY <1>2, <1>3, <1>4, <1>5, <1>6, <1>9, <1>10 DEF Coordination
  <1> QED
    BY <1>1, <1>7, <1>8, <1>10 DEF Next

\* The journal of a marathon is always the path its verifier accepts, however
\* many coordinators close it together.
THEOREM LegalJournal == Spec => []JournalIsLegal
  <1> DEFINE IInv == Typed /\ JournalIsLegal
  <1>1. Init => IInv
    BY TypeInitially, MarathonAssumption, CampaignAssumption DEF Init, JournalIsLegal
  <1>2. IInv /\ [Next]_vars => IInv'
    <2> SUFFICES ASSUME IInv, [Next]_vars PROVE IInv'
      OBVIOUS
    <2>1. Typed'
      BY TypeInductive, MarathonAssumption, CampaignAssumption
    <2>2. CASE UNCHANGED journal
      BY <2>1, <2>2 DEF JournalIsLegal
    <2>3. ASSUME NEW s \in States, Enter(s),
                 IF journal = <<>> THEN s = "PLANNED_NOT_STARTED" ELSE <<Current, s>> \in Arcs
          PROVE  JournalIsLegal'
      BY <2>3, EnterMoves DEF Typed, TypeOK
    <2> QED
      BY <2>1, <2>2, <2>3, JournalMoves
  <1>3. IInv => JournalIsLegal
    OBVIOUS
  <1> QED
    BY <1>1, <1>2, <1>3, PTL DEF Spec

\* Success is final, so what the checks of close saw is still so when it commits.
Settling == closing # {} \/ Current = Done => \A p \in Partitions : phase[p] = "SUCCEEDED"

\* A marathon that is complete has only succeeded effects, although close does
\* not look at them again in its transaction.
THEOREM CompletionIsFinal == Spec => []CompleteIsSettled
  <1> DEFINE IInv == Typed /\ Settling
  <1>1. Init => IInv
    BY TypeInitially, MarathonAssumption, CampaignAssumption DEF Init, Settling, Current, Done
  <1>2. IInv /\ [Next]_vars => IInv'
    <2> SUFFICES ASSUME IInv, [Next]_vars PROVE IInv'
      OBVIOUS
    <2>1. Typed'
      BY TypeInductive, MarathonAssumption, CampaignAssumption
    <2>2. \A p \in Partitions : phase[p] = "SUCCEEDED" => phase'[p] = "SUCCEEDED"
      BY ProofsAndSuccesses, MarathonAssumption DEF Typed, TypeOK
    <2>3. closing' # {} \/ Current' = Done => closing # {} \/ Current = Done \/ AllProven
      <3>1. CASE UNCHANGED journal
        BY <3>1, JournalMoves DEF Current
      <3>2. ASSUME NEW s \in States, Enter(s), s = Done => closing # {}
            PROVE  Current' = Done => closing # {}
        <4>1. Current' = s
          BY <3>2, EnterMoves DEF Typed, TypeOK
        <4> QED
          BY <3>2, <4>1
      <3> QED
        BY <3>1, <3>2, JournalMoves
    <2>4. AllProven => \A p \in Partitions : phase[p] = "SUCCEEDED"
      BY DEF AllProven
    <2> QED
      BY <2>1, <2>2, <2>3, <2>4 DEF Settling
  <1>3. IInv => CompleteIsSettled
    BY DEF Settling, CompleteIsSettled, Done
  <1> QED
    BY <1>1, <1>2, <1>3, PTL DEF Spec

-----------------------------------------------------------------------------
(* Whose the attempts are                                                  *)

Away == {"idle", "claiming"}

\* As long as a worker is in a call, the lease with its number was granted to it.
Leaseholder(w) == worker[w].at \notin Away =>
                     /\ worker[w].n <= Len(leases[worker[w].p])
                     /\ leases[worker[w].p][worker[w].n] = w

\* Before its mapping is written the request of an attempt is persisted.
Persisted(w) == worker[w].at = "binding" => research[<<worker[w].p, worker[w].n>>].wave = 1

\* Nobody but the workers begins attempts of partitions, and they in wave 1.
WaveOne == \A k \in Partitions \X (1..MaxAttempts) : research[k].wave \in {0, 1}

\* A grant is an attempt of the effect.
GrantsCounted == \A p \in Partitions : Len(leases[p]) = attempts[p]

Granted == /\ GrantsCounted
           /\ \A w \in Workers : Leaseholder(w) /\ Persisted(w)
           /\ WaveOne
           /\ AttemptsAreLeased

\* A step that grants no lease, begins no attempt and maps none.
Stays(w) == \/ worker'[w].at \in Away
            \/ /\ worker[w].at \notin Away
               /\ worker'[w].p = worker[w].p /\ worker'[w].n = worker[w].n
               /\ worker'[w].at = "binding" => worker[w].at = "binding"

Quiet == /\ UNCHANGED <<leases, attempts, bound>>
         /\ \A w \in Workers : Stays(w)
         /\ \A k \in Partitions \X (1..MaxAttempts) : research'[k].wave = research[k].wave

\* Evidence leaves the waves alone.
LEMMA WavesStay ==
    ASSUME CampaignTypeOK, EvidenceStep, NEW k \in Keys
    PROVE  research'[k].wave = research[k].wave
  <1> USE DEF CampaignTypeOK, Attempt
  <1>1. PICK j \in Keys : Evidence(j)
    BY DEF EvidenceStep
  <1>2. CASE \E o \in Outcomes : RecordReceipt(j, o)
    BY <1>2 DEF RecordReceipt
  <1>3. CASE RecordObservation(j)
    BY <1>3 DEF RecordObservation
  <1>4. CASE \E c \in CursorKeys : CheckpointCursor(j, c)
    BY <1>4 DEF CheckpointCursor
  <1> QED
    BY <1>1, <1>2, <1>3, <1>4 DEF Evidence

\* Every other step is quiet.
LEMMA QuietOrNot ==
    ASSUME MarathonAssumption, Typed, [Next]_vars
    PROVE  \/ \E w \in Workers, p \in Partitions : Claim(w, p)
           \/ \E w \in Workers : BeginResearch(w) \/ Bind(w)
           \/ Quiet
  <1> DEFINE SameCampaign == \A k \in Partitions \X (1..MaxAttempts) : research'[k].wave = research[k].wave
  <1> DEFINE SameWorkers == \A w \in Workers : Stays(w)
  <1>1. UNCHANGED worker => SameWorkers
    BY DEF Stays
  <1>2. UNCHANGED campaign => SameCampaign
    BY DEF campaign
  <1>3. CASE UNCHANGED vars
    BY <1>1, <1>2, <1>3 DEF vars, queue, marathon, Quiet
  <1>4. CASE Coordination
    BY <1>1, <1>2, <1>4 DEF Coordination, Admit, Start, Queue!Enqueue, PauseOrResume, CheckClose,
                            Close, queue, marathon, Quiet
  <1>5. CASE \E p \in Partitions : Recover(p)
    BY <1>1, <1>2, <1>5 DEF Recover, Queue!Release, marathon, Quiet
  <1>6. CASE Recording
    <2>1. SameCampaign
      BY <1>6, WavesStay DEF Recording, Typed, TypeOK, MarathonAssumption
    <2> QED
      BY <1>1, <1>6, <2>1 DEF Recording, queue, marathon, Quiet
  <1>7. CASE Outside
    <2>1. SameCampaign
      BY <1>7 DEF Outside, BeginNew, Typed, TypeOK, CampaignTypeOK, MarathonAssumption
    <2> QED
      BY <1>1, <1>7, <2>1 DEF Outside, queue, marathon, Quiet
  <1>8. ASSUME NEW w \in Workers,
               AskToClaim(w) \/ CheckBegin(w) \/ Collect(w) \/ Complete(w)
               \/ CheckFail(w) \/ Fail(w) \/ Abandon(w)
        PROVE  Quiet
    <2> USE DEF Stays, Away
    <2>1. worker \in [Workers -> Call]
      BY DEF Typed, TypeOK
    <2>2. ASSUME Leave(w) PROVE SameWorkers
      BY <2>1, <2>2 DEF Leave, Idle
    <2>3. ASSUME NEW at \in Places \ {"binding"}, Go(w, at),
                 at \in Away \/ worker[w].at \notin Away
          PROVE  SameWorkers
      BY <2>1, <2>3 DEF Go, Call
    <2>4. SameWorkers
      <3>1. CASE AskToClaim(w)
        BY <2>3, <3>1 DEF AskToClaim, Places
      <3>2. CASE CheckBegin(w)
        BY <2>3, <3>2 DEF CheckBegin, Places
      <3>3. CASE CheckFail(w)
        BY <2>3, <3>3 DEF CheckFail, Places
      <3>4. CASE Complete(w) \/ Fail(w) \/ Abandon(w)
        BY <2>2, <3>4 DEF Complete, Fail, Abandon
      <3>5. CASE Collect(w)
        BY <2>1, <3>5 DEF Collect, Call
      <3> QED
        BY <1>8, <3>1, <3>2, <3>3, <3>4, <3>5
    <2>5. UNCHANGED <<leases, attempts, bound, campaign>>
      BY <1>8 DEF AskToClaim, CheckBegin, Collect, CheckFail, Complete, Fail, Abandon,
                  Queue!Release, Queue!Succeed, queue, marathon
    <2> QED
      BY <1>2, <2>4, <2>5 DEF Quiet
  <1> HIDE DEF SameCampaign, SameWorkers
  <1> QED
    BY <1>3, <1>4, <1>5, <1>6, <1>7, <1>8 DEF Next, WorkerStep

\* A quiet step keeps the account of the attempts.
LEMMA QuietKeeps ==
    ASSUME MarathonAssumption, Typed, Granted, Quiet
    PROVE  Granted'
  <1> USE DEF Quiet
  <1>1. GrantsCounted' /\ WaveOne'
    BY DEF Granted, GrantsCounted, WaveOne
  <1>2. ASSUME NEW w \in Workers PROVE Leaseholder(w)' /\ Persisted(w)'
    <2>1. Stays(w) /\ Leaseholder(w) /\ Persisted(w) /\ Engaged(worker[w])
      BY DEF Granted, Typed, AllEngaged
    <2>2. Leaseholder(w)'
      BY <2>1 DEF Stays, Leaseholder
    <2>3. Persisted(w)'
      BY <2>1 DEF Stays, Persisted, Away, Engaged
    <2> QED
      BY <2>2, <2>3
  <1>3. AttemptsAreLeased'
    BY DEF Granted, AttemptsAreLeased, Mapped
  <1> QED
    BY <1>1, <1>2, <1>3 DEF Granted

\* A grant is logged under the number its worker gets.
LEMMA ClaimKeeps ==
    ASSUME MarathonAssumption, Typed, Granted, NEW w \in Workers, NEW p \in Partitions, Claim(w, p)
    PROVE  Granted'
  <1> DEFINE log == Append(leases[p], w)
  <1>1. /\ leases[p] \in Seq(Workers) /\ Len(leases[p]) = attempts[p]
        /\ attempts[p] \in Nat
    BY DEF Typed, TypeOK, Granted, GrantsCounted
  <1>2. /\ Len(log) = attempts[p] + 1
        /\ log[attempts[p] + 1] = w
        /\ \A n \in 1..attempts[p] : log[n] = leases[p][n]
    BY <1>1
  <1>3. /\ leases' = [leases EXCEPT ![p] = log]
        /\ \A q \in Partitions : attempts'[q] = IF q = p THEN attempts[q] + 1 ELSE attempts[q]
        /\ worker' = [worker EXCEPT ![w] = [at |-> "leased", p |-> p, n |-> attempts[p] + 1,
                                            proof |-> NoProof]]
        /\ UNCHANGED <<research, bound>>
    BY DEF Claim, Queue!Claim, campaign
  <1>4. /\ leases \in [Partitions -> Seq(Workers)] /\ worker \in [Workers -> Call]
        /\ \A q \in Partitions : Len(leases[q]) = attempts[q]
    BY DEF Typed, TypeOK, Granted, GrantsCounted
  <1> HIDE DEF log
  <1>5. \A q \in Partitions : /\ Len(leases[q]) <= Len(leases'[q])
                              /\ Len(leases'[q]) = attempts'[q]
                              /\ \A n \in 1..Len(leases[q]) : leases'[q][n] = leases[q][n]
    BY <1>1, <1>2, <1>3, <1>4
  <1>6. GrantsCounted'
    BY <1>5 DEF GrantsCounted
  <1>7. WaveOne'
    BY <1>3 DEF Granted, WaveOne
  <1>8. ASSUME NEW v \in Workers PROVE Leaseholder(v)' /\ Persisted(v)'
    <2>1. CASE v = w
      BY <1>2, <1>3, <1>4, <2>1 DEF Leaseholder, Persisted
    <2>2. CASE v # w
      <3>1. worker'[v] = worker[v]
        BY <1>3, <1>4, <2>2
      <3>2. Persisted(v)'
        BY <1>3, <3>1 DEF Granted, Persisted
      <3>3. Leaseholder(v) /\ Engaged(worker[v])
        BY DEF Granted, Typed, AllEngaged
      <3>4. Leaseholder(v)'
        <4> SUFFICES ASSUME worker[v].at \notin Away
                     PROVE  /\ worker[v].n <= Len(leases'[worker[v].p])
                            /\ leases'[worker[v].p][worker[v].n] = v
          BY <3>1 DEF Leaseholder
        <4>1. worker[v].p \in Partitions /\ worker[v].n \in 1..Len(leases[worker[v].p])
          BY <3>3, <1>4 DEF Leaseholder, Engaged, Away
        <4> QED
          BY <1>5, <3>3, <4>1 DEF Leaseholder
      <3> QED
        BY <3>2, <3>4
    <2> QED
      BY <2>1, <2>2
  <1>9. AttemptsAreLeased'
    <2> SUFFICES ASSUME NEW q \in Partitions, NEW n \in Mapped(q)
                 PROVE  /\ n <= Len(leases'[q])
                        /\ bound[<<q, n>>] = {leases'[q][n]}
                        /\ research[<<q, n>>].wave = 1
      BY <1>3 DEF AttemptsAreLeased, Mapped
    <2>1. /\ n <= Len(leases[q]) /\ n \in 1..MaxAttempts
          /\ bound[<<q, n>>] = {leases[q][n]}
          /\ research[<<q, n>>].wave = 1
      BY DEF Granted, AttemptsAreLeased, Mapped
    <2>2. n \in 1..Len(leases[q]) /\ Len(leases[q]) \in Nat /\ Len(leases'[q]) \in Nat
      BY <1>4, <1>5, <2>1 DEF MarathonAssumption, Typed, TypeOK
    <2> QED
      BY <1>5, <2>1, <2>2
  <1> QED
    BY <1>6, <1>7, <1>8, <1>9 DEF Granted

\* The research attempt is begun in wave 1, or was before.
LEMMA BeginKeeps ==
    ASSUME MarathonAssumption, CampaignAssumption, Typed, Granted, NEW w \in Workers, BeginResearch(w)
    PROVE  Granted'
  <1> DEFINE k == <<worker[w].p, worker[w].n>>
  <1>1. k \in Partitions \X (1..MaxAttempts) /\ k \in Keys /\ 1 \in Waves
    BY DEF BeginResearch, Typed, AllEngaged, Engaged, MarathonAssumption
  <1>2. CampaignMove
    BY <1>1 DEF BeginResearch, CampaignMove
  <1>3. \A j \in Keys : Extends(research'[j], research[j])
    BY <1>2, EvidenceGrows DEF Typed, TypeOK
  <1>4. research'[k].wave = 1
    <2>1. CASE Begun(k)
      BY <1>1, <2>1 DEF BeginResearch, Begun, Granted, WaveOne, campaign
    <2>2. CASE ~Begun(k)
      BY <1>1, <2>2 DEF BeginResearch, BeginNew, Typed, TypeOK, CampaignTypeOK, Attempt
    <2> QED
      BY <2>1, <2>2
  <1>5. \A j \in Keys : j # k => research'[j].wave = research[j].wave
    BY DEF BeginResearch, BeginNew, Typed, TypeOK, CampaignTypeOK, campaign
  <1>6. /\ UNCHANGED <<leases, attempts, bound>>
        /\ worker' = [worker EXCEPT ![w].at = "binding"]
        /\ worker[w].at = "beginning"
        /\ worker \in [Workers -> Call]
    BY DEF BeginResearch, Go, queue, marathon, Typed, TypeOK
  <1> HIDE DEF k
  <1>7. GrantsCounted'
    BY <1>6 DEF Granted, GrantsCounted
  <1>8. WaveOne'
    BY <1>4, <1>5 DEF Granted, WaveOne, MarathonAssumption
  <1>9. ASSUME NEW v \in Workers PROVE Leaseholder(v)' /\ Persisted(v)'
    <2>1. CASE v = w
      <3>1. worker'[v].p = worker[v].p /\ worker'[v].n = worker[v].n /\ worker[v].at \notin Away
        BY <1>6, <2>1 DEF Call, Away
      <3> QED
        BY <1>4, <1>6, <2>1, <3>1 DEF Granted, Leaseholder, Persisted, k
    <2>2. CASE v # w
      <3>1. worker'[v] = worker[v]
        BY <1>6, <2>2
      <3>2. Leaseholder(v)'
        BY <1>6, <3>1 DEF Granted, Leaseholder
      <3>3. Persisted(v)'
        <4> SUFFICES ASSUME worker[v].at = "binding"
                     PROVE  research'[<<worker[v].p, worker[v].n>>].wave = 1
          BY <3>1 DEF Persisted
        <4>1. <<worker[v].p, worker[v].n>> \in Keys
          BY DEF Typed, AllEngaged, Engaged, MarathonAssumption
        <4>2. research[<<worker[v].p, worker[v].n>>].wave = 1
          BY DEF Granted, Persisted
        <4> QED
          BY <1>4, <1>5, <4>1, <4>2
      <3> QED
        BY <3>2, <3>3
    <2> QED
      BY <2>1, <2>2
  <1>10. AttemptsAreLeased'
    <2>1. ASSUME NEW q \in Partitions, NEW n \in 1..MaxAttempts, research[<<q, n>>].wave = 1
          PROVE  research'[<<q, n>>].wave = 1
      BY <1>4, <1>5, <2>1 DEF MarathonAssumption
    <2> QED
      BY <1>6, <2>1 DEF Granted, AttemptsAreLeased, Mapped
  <1> QED
    BY <1>7, <1>8, <1>9, <1>10 DEF Granted

\* A mapping names the holder of the lease, however late it is written.
LEMMA BindKeeps ==
    ASSUME MarathonAssumption, Typed, Granted, NEW w \in Workers, Bind(w)
    PROVE  Granted'
  <1> DEFINE k == <<worker[w].p, worker[w].n>>
  <1>1. /\ worker[w].p \in Partitions /\ worker[w].n \in 1..MaxAttempts
        /\ worker[w].n <= Len(leases[worker[w].p])
        /\ leases[worker[w].p][worker[w].n] = w
        /\ research[k].wave = 1
    BY DEF Bind, Typed, AllEngaged, Engaged, Granted, Leaseholder, Persisted, Away
  <1>2. /\ UNCHANGED <<leases, attempts, research>>
        /\ worker' = [worker EXCEPT ![w].at = "leased"]
        /\ worker[w].at = "binding"
        /\ worker \in [Workers -> Call]
    BY DEF Bind, Go, queue, campaign, Typed, TypeOK
  <1>3. /\ bound' = IF bound[k] = {} THEN [bound EXCEPT ![k] = {w}] ELSE bound
        /\ bound \in [Partitions \X (1..MaxAttempts) -> SUBSET Workers]
    BY DEF Bind, Typed, TypeOK
  <1>4. GrantsCounted' /\ WaveOne'
    BY <1>2 DEF Granted, GrantsCounted, WaveOne
  <1>5. ASSUME NEW v \in Workers PROVE Leaseholder(v)' /\ Persisted(v)'
    <2>1. CASE v = w
      <3>1. worker'[v].p = worker[v].p /\ worker'[v].n = worker[v].n /\ worker'[v].at = "leased"
        BY <1>2, <2>1 DEF Call
      <3> QED
        BY <1>1, <1>2, <2>1, <3>1 DEF Leaseholder, Persisted
    <2>2. CASE v # w
      BY <1>2, <2>2 DEF Granted, Leaseholder, Persisted
    <2> QED
      BY <2>1, <2>2
  <1>6. AttemptsAreLeased'
    <2> SUFFICES ASSUME NEW q \in Partitions, NEW n \in 1..MaxAttempts, bound'[<<q, n>>] # {}
                 PROVE  /\ n <= Len(leases[q])
                        /\ bound'[<<q, n>>] = {leases[q][n]}
                        /\ research[<<q, n>>].wave = 1
      BY <1>2 DEF AttemptsAreLeased, Mapped
    <2>1. CASE bound[<<q, n>>] # {}
      <3>1. bound'[<<q, n>>] = bound[<<q, n>>]
        BY <1>3, <2>1
      <3> QED
        BY <2>1, <3>1 DEF Granted, AttemptsAreLeased, Mapped
    <2>2. CASE bound[<<q, n>>] = {}
      <3>1. <<q, n>> = k /\ bound'[k] = {w}
        BY <1>3, <2>2
      <3> QED
        BY <1>1, <3>1
    <2> QED
      BY <2>1, <2>2
  <1> QED
    BY <1>4, <1>5, <1>6 DEF Granted

\* A mapped attempt belongs to the worker its lease was granted to and was
\* persisted as a request before, although begin_partition_attempt looks at the
\* lease two transactions before it writes the mapping.
THEOREM MappedToHolder == Spec => []AttemptsAreLeased
  <1> DEFINE IInv == Typed /\ Granted
  <1>1. Init => IInv
    <2> SUFFICES ASSUME Init PROVE IInv
      OBVIOUS
    <2>1. Typed
      BY TypeInitially, MarathonAssumption, CampaignAssumption
    <2>2. GrantsCounted
      BY DEF Init, Queue!Init, GrantsCounted
    <2>3. \A w \in Workers : Leaseholder(w) /\ Persisted(w)
      BY DEF Init, Leaseholder, Persisted, Idle, Away
    <2>4. WaveOne
      BY MarathonAssumption DEF Init, CampaignInit, NotBegun, WaveOne
    <2>5. AttemptsAreLeased
      BY DEF Init, AttemptsAreLeased, Mapped
    <2> QED
      BY <2>1, <2>2, <2>3, <2>4, <2>5 DEF Granted
  <1>2. IInv /\ [Next]_vars => IInv'
    BY TypeInductive, QuietOrNot, QuietKeeps, ClaimKeeps, BeginKeeps, BindKeeps,
       MarathonAssumption, CampaignAssumption
  <1>3. IInv => AttemptsAreLeased
    BY DEF Granted
  <1> QED
    BY <1>1, <1>2, <1>3, PTL DEF Spec

-----------------------------------------------------------------------------
(* What proofs rest on                                                     *)

\* What e says of the attempts of p is on record for mapped attempts.
OnRecord(e, p, mapped, record) ==
    \A n \in DOMAIN e : /\ n \in mapped
                        /\ e[n].receipt # "NONE"
                        /\ e[n].receipt = record[<<p, n>>].receipt
                        /\ e[n].observations <= record[<<p, n>>].observations
                        /\ e[n].cursors \subseteq record[<<p, n>>].cursors

\* One of its attempts succeeded with an observation and a cursor.
HasSuccess(e) == \E n \in DOMAIN e : /\ e[n].receipt = "SUCCESS"
                                     /\ e[n].observations > 0
                                     /\ e[n].cursors # {}

Supported(e, p, mapped, record) == OnRecord(e, p, mapped, record) /\ HasSuccess(e)

Now(e, p) == Supported(e, p, Mapped(p), research)

CallsAreBacked == \A w \in Workers : worker[w].at = "proving" => Now(worker[w].proof, worker[w].p)
ProofsAreSupported == \A p \in Partitions : proof[p] # NoProof => Now(proof[p], p)

\* Attempts of a piece of evidence are well formed.
LEMMA EvidenceTyped ==
    ASSUME NEW e \in Evidences, NEW n \in DOMAIN e
    PROVE  n \in 1..MaxAttempts /\ e[n] \in Attempt
  <1>1. PICK S \in SUBSET (1..MaxAttempts) : e \in [S -> Attempt]
    BY DEF Evidences
  <1> QED
    BY <1>1

\* No mapping is removed.
LEMMA MappingsStay ==
    ASSUME MarathonAssumption, Typed, [Next]_vars, NEW p \in Partitions
    PROVE  Mapped(p) \subseteq Mapped(p)'
  <1> SUFFICES ASSUME NEW n \in 1..MaxAttempts, bound[<<p, n>>] # {} PROVE bound'[<<p, n>>] # {}
    BY DEF Mapped
  <1>1. bound \in [Partitions \X (1..MaxAttempts) -> SUBSET Workers]
    BY DEF Typed, TypeOK
  <1> QED
    BY <1>1, RecordsMove

\* Nothing takes support away: neither a step of the campaign nor one of the
\* marathon removes evidence or a mapping.
LEMMA SupportStays ==
    ASSUME MarathonAssumption, CampaignAssumption, Typed, Typed', [Next]_vars,
           NEW p \in Partitions, NEW e \in Evidences, Supported(e, p, Mapped(p), research)
    PROVE  Supported(e, p, Mapped(p)', research')
  <1>1. HasSuccess(e)
    BY DEF Supported
  <1>2. OnRecord(e, p, Mapped(p)', research')
    <2> SUFFICES ASSUME NEW n \in DOMAIN e
                 PROVE  /\ n \in Mapped(p)'
                        /\ e[n].receipt # "NONE"
                        /\ e[n].receipt = research'[<<p, n>>].receipt
                        /\ e[n].observations <= research'[<<p, n>>].observations
                        /\ e[n].cursors \subseteq research'[<<p, n>>].cursors
      BY DEF OnRecord
    <2>1. n \in 1..MaxAttempts /\ e[n] \in Attempt
      BY EvidenceTyped
    <2>2. <<p, n>> \in Keys
      BY <2>1 DEF MarathonAssumption
    <2>3. Extends(research'[<<p, n>>], research[<<p, n>>])
      BY <2>2, MovesSplit, EvidenceGrows DEF Typed, TypeOK
    <2>4. /\ n \in Mapped(p)
          /\ e[n].receipt # "NONE"
          /\ e[n].receipt = research[<<p, n>>].receipt
          /\ e[n].observations <= research[<<p, n>>].observations
          /\ e[n].cursors \subseteq research[<<p, n>>].cursors
      BY DEF Supported, OnRecord
    <2>5. n \in Mapped(p)'
      BY <2>4, MappingsStay
    <2>6. /\ e[n].observations \in Nat
          /\ research[<<p, n>>].observations \in Nat
          /\ research'[<<p, n>>].observations \in Nat
      BY <2>1, <2>2 DEF Typed, TypeOK, CampaignTypeOK, Attempt
    <2> QED
      BY <2>3, <2>4, <2>5, <2>6 DEF Extends
  <1> QED
    BY <1>1, <1>2 DEF Supported

\* What complete_partition collects is supported.
LEMMA CollectedIsSupported ==
    ASSUME MarathonAssumption, Typed, NEW p \in Partitions, Sufficient(EvidenceOf(p))
    PROVE  Now(EvidenceOf(p), p)
  <1> DEFINE e == EvidenceOf(p)
  <1>1. /\ DOMAIN e = Mapped(p)
        /\ \A n \in Mapped(p) : e[n] = research[<<p, n>>]
    BY DEF EvidenceOf
  <1>2. \A n \in Mapped(p) : research[<<p, n>>].observations \in Nat
    BY DEF Mapped, Typed, TypeOK, CampaignTypeOK, Attempt, MarathonAssumption
  <1>3. /\ \A n \in DOMAIN e : e[n].receipt # "NONE" /\ Backed(e[n])
        /\ \E n \in DOMAIN e : e[n].receipt = "SUCCESS"
    BY DEF Sufficient
  <1> HIDE DEF e
  <1>4. OnRecord(e, p, Mapped(p), research)
    BY <1>1, <1>2, <1>3 DEF OnRecord
  <1>5. HasSuccess(e)
    BY <1>3 DEF HasSuccess, Backed
  <1> QED
    BY <1>4, <1>5 DEF Now, Supported, e

\* A proof keeps its backing: evidence collected before the transaction that
\* stores the proof is on record then and ever after.
THEOREM ProofsKeepBacking == Spec => []ProofsAreBacked
  <1> DEFINE IInv == Typed /\ CallsAreBacked /\ ProofsAreSupported
  <1>1. Init => IInv
    <2> SUFFICES ASSUME Init PROVE IInv
      OBVIOUS
    <2>1. Typed
      BY TypeInitially, MarathonAssumption, CampaignAssumption
    <2> QED
      BY <2>1 DEF Init, CallsAreBacked, ProofsAreSupported, Idle
  <1>2. IInv /\ [Next]_vars => IInv'
    <2> SUFFICES ASSUME IInv, [Next]_vars PROVE IInv'
      OBVIOUS
    <2>1. Typed'
      BY TypeInductive, MarathonAssumption, CampaignAssumption
    <2>2. \A p \in Partitions, e \in Evidences : Supported(e, p, Mapped(p), research)
                                                 => Supported(e, p, Mapped(p)', research')
      BY <2>1, SupportStays, MarathonAssumption, CampaignAssumption
    <2>3. \A w \in Workers : worker[w] \in Call /\ worker[w].proof \in Evidences
      BY DEF Typed, TypeOK, Call
    <2>4. ASSUME NEW w \in Workers, worker'[w].at = "proving"
          PROVE  Supported(worker'[w].proof, worker'[w].p, Mapped(worker[w].p)', research')
      <3>1. CASE worker'[w] = worker[w]
        <4>1. /\ worker[w].p \in Partitions
              /\ Supported(worker[w].proof, worker[w].p, Mapped(worker[w].p), research)
          BY <2>4, <3>1 DEF CallsAreBacked, Now, Typed, AllEngaged, Engaged
        <4> QED
          BY <2>2, <2>3, <3>1, <4>1
      <3>2. CASE worker'[w] # worker[w]
        <4> DEFINE e == EvidenceOf(worker[w].p)
        <4>1. /\ worker[w].p \in Partitions
              /\ Sufficient(e)
              /\ worker'[w] = [worker[w] EXCEPT !.at = "proving", !.proof = e]
          BY <2>4, <3>2, ProvingMoves, MarathonAssumption
        <4>2. Supported(e, worker[w].p, Mapped(worker[w].p), research) /\ e \in Evidences
          BY <4>1, CollectedIsSupported, Calls, MarathonAssumption DEF Typed, Now
        <4> HIDE DEF e
        <4>3. worker'[w].proof = e /\ worker'[w].p = worker[w].p
          BY <2>3, <4>1 DEF Call
        <4> QED
          BY <2>2, <4>1, <4>2, <4>3
      <3> QED
        BY <3>1, <3>2
    <2>5. ASSUME NEW p \in Partitions, proof'[p] # NoProof
          PROVE  Supported(proof'[p], p, Mapped(p)', research')
      <3>1. proof[p] \in Evidences /\ proof \in [Partitions -> Evidences]
        BY DEF Typed, TypeOK
      <3>2. CASE proof'[p] = proof[p]
        BY <2>2, <2>5, <3>1, <3>2 DEF ProofsAreSupported, Now
      <3>3. CASE proof'[p] # proof[p]
        <4>1. PICK w \in Workers, q \in Partitions :
                 /\ worker[w].at = "proving" /\ worker[w].p = q
                 /\ proof' = [proof EXCEPT ![q] = worker[w].proof]
          BY <3>3, ProofsAndSuccesses, MarathonAssumption
        <4>2. q = p /\ proof'[p] = worker[w].proof
          BY <3>1, <3>3, <4>1
        <4>3. Supported(worker[w].proof, p, Mapped(p), research)
          BY <4>1, <4>2 DEF CallsAreBacked, Now
        <4> QED
          BY <2>2, <2>3, <4>2, <4>3
      <3> QED
        BY <3>2, <3>3
    <2>6. CallsAreBacked'
      BY <2>4 DEF CallsAreBacked, Now
    <2>7. ProofsAreSupported'
      BY <2>5 DEF ProofsAreSupported, Now
    <2> QED
      BY <2>1, <2>6, <2>7
  <1>3. IInv => ProofsAreBacked
    BY DEF ProofsAreBacked, ProofsAreSupported, Now, Supported, OnRecord, HasSuccess
  <1> QED
    BY <1>1, <1>2, <1>3, PTL DEF Spec

-----------------------------------------------------------------------------
(* The promise of the outbox to the marathon                               *)

\* Nothing but an operation of the outbox moves the effects of the partitions.
LEMMA QueueStep ==
    ASSUME MarathonAssumption, CampaignAssumption, Typed, [Next]_vars
    PROVE  [Queue!Next]_(Queue!qvars)
  <1>1. QueueMove
    BY MovesSplit
  <1>2. CASE UNCHANGED queue
    BY <1>2 DEF queue, Queue!qvars
  <1>3. CASE Start
    <2>1. Queue!Enqueue(Partitions, MaxAttempts)
      BY <1>3 DEF Start
    <2> QED
      BY <2>1 DEF Queue!Next
  <1>4. ASSUME NEW p \in Partitions, Queue!Claim({p}) \/ Queue!Release({p})
        PROVE  Queue!Next
    <2>1. {p} \in SUBSET Partitions
      OBVIOUS
    <2> QED
      BY <1>4, <2>1 DEF Queue!Next
  <1>5. ASSUME NEW p \in Partitions, NEW n \in 1..MaxAttempts, Queue!Succeed(p, n)
        PROVE  Queue!Next
    <2>1. attempts[p] = n
      BY <1>5 DEF Queue!Succeed
    <2>2. Queue!Succeed(p, attempts[p])
      BY <1>5, <2>1
    <2> QED
      BY <2>2 DEF Queue!Next
  <1> QED
    BY <1>1, <1>2, <1>3, <1>4, <1>5 DEF QueueMove

\* The marathon implements the lease queue although it checks a lease in one
\* transaction and settles it in another: every partition is enqueued once,
\* leased within its budget, and settled for good, however workers overtake
\* one another.
THEOREM ImplementsLeaseQueue == Spec => Queue!Spec
  <1>1. Init => Typed /\ Queue!Init
    BY TypeInitially, MarathonAssumption, CampaignAssumption DEF Init
  <1>2. Typed /\ [Next]_vars => Typed' /\ [Queue!Next]_(Queue!qvars)
    BY TypeInductive, QueueStep, MarathonAssumption, CampaignAssumption
  <1> QED
    BY <1>1, <1>2, PTL DEF Spec, Queue!Spec

\* The effect of a partition that succeeded or failed for good is never leased
\* again, and each lease is one attempt of the plan's budget.
THEOREM PartitionsSettleForGood == Spec => Queue!SettledForGood
  <1> DEFINE Step == \A e \in Partitions :
                /\ phase[e] \in Queue!Settled => phase'[e] = phase[e] /\ attempts'[e] = attempts[e]
                /\ phase[e] # "NONE" => phase'[e] # "NONE" /\ budget'[e] = budget[e]
                /\ attempts'[e] # attempts[e] => /\ phase[e] = "PENDING" /\ phase'[e] = "LEASED"
                                                /\ attempts'[e] = attempts[e] + 1
  <1>1. Init => Typed
    BY TypeInitially, MarathonAssumption, CampaignAssumption
  <1>2. Typed /\ [Next]_vars => Typed'
    BY TypeInductive, MarathonAssumption, CampaignAssumption
  <1>3. Typed /\ [Queue!Next]_(Queue!qvars) => [Step]_(Queue!qvars)
    <2> SUFFICES ASSUME Typed, Queue!Next PROVE Step
      OBVIOUS
    <2>1. ASSUME NEW S \in SUBSET Partitions, NEW max, Queue!Enqueue(S, max) PROVE Step
      BY <2>1 DEF Queue!Enqueue, Queue!Settled
    <2>2. ASSUME NEW S \in SUBSET Partitions, Queue!Claim(S) PROVE Step
      BY <2>2 DEF Queue!Claim, Queue!Settled
    <2>3. ASSUME NEW S \in SUBSET Partitions, Queue!Release(S) PROVE Step
      BY <2>3 DEF Queue!Release, Queue!Settled
    <2>4. ASSUME NEW p \in Partitions, Queue!Succeed(p, attempts[p]) PROVE Step
      BY <2>4 DEF Queue!Succeed, Queue!Settled, Typed, TypeOK
    <2> QED
      BY <2>1, <2>2, <2>3, <2>4 DEF Queue!Next
  <1> QED
    BY <1>1, <1>2, <1>3, ImplementsLeaseQueue, PTL DEF Spec, Queue!Spec, Queue!SettledForGood

=============================================================================
