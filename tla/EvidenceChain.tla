--------------------------- MODULE EvidenceChain ----------------------------
(***************************************************************************)
(* The stages above a C3 decision: the architecture baseline               *)
(* (architecture.py, C4), the execution plan (execution_plan.py, C5), the  *)
(* red-team assessment (red_team.py, C6) and the final pack                *)
(* (final_pack.py, C7).  Each admits a signed document about a snapshot of *)
(* the stage below, which it verifies, with all below that, when the       *)
(* document is admitted and whenever it is verified.  A later stage lets   *)
(* nobody sign who took part before.                                       *)
(*                                                                         *)
(* A document is a form and the snapshot it was signed about.  prepare of  *)
(* these stages writes nothing, and admit does not ask for the decision    *)
(* that prepare describes.  A document must be dated after what it is      *)
(* about and before its admission; dates are left out.                     *)
(***************************************************************************)
EXTENDS Qualification

CONSTANTS Baselines,    \* signed C4 documents, but for their snapshots
          Plans,        \* signed C5 documents
          Assessments,  \* signed C6 documents
          Packs,        \* signed C7 documents
          Related       \* pairs of actors whose names _identity_related relates

Verdict == {"PASS", "FAIL", "BLOCKED"}

\* Identifiers of baselines and architectures are numbers: _architecture_baseline
\* looks for the one among the others, in their order.
ASSUME ChainAssumption ==
    /\ Baselines \subseteq [id : Nat, architecture : Nat, run : Names,
                            architect : Actors, reviewer : Actors, by : Actors]
    /\ Plans \subseteq [id : Names, architecture : Nat,
                        planner : Actors, reviewer : Actors, by : Actors]
    /\ Assessments \subseteq [id : Names, plan : Names, outcomes : SUBSET Verdict,
                              blocking : BOOLEAN, verdict : Verdict,
                              assessor : Actors, adjudicator : Actors, by : Actors]
    /\ Packs \subseteq [id : Names, assessment : Names,
                        packager : Actors, verifier : Actors, by : Actors]
    /\ Related \subseteq Actors \X Actors

VARIABLES baselines,   \* c4_architecture_baselines and their members
          plans,       \* c5_execution_plans, work items and release gates
          assessments, \* c6_red_team_assessments, attack cases and findings
          packs        \* c7_final_packs and their manifests

below == <<laboratory, verdicts, adoption>>
chain == <<baselines, plans, assessments, packs>>
vars == <<below, call, chain>>

\* A document signed about the row below it, while there is one.
Signed(f, subjects) == {Row(f, s) : s \in subjects}

-----------------------------------------------------------------------------
(* C4: the architecture baseline of a run                                  *)

VerdictsOf(run) == {v \in verdicts : v.form.run = run}
AdoptionsOf(run) == {a \in adoptions : a.form.run = run}
ExecutionsOf(run) ==
    {e \in executions : \E a \in AdoptionsOf(run) : a.form.id = e.form.adoption}

\* What _build_snapshot of C4 takes a digest of.
C4Snapshot(run) ==
    [bindings   |-> BindingOf(run),
     evidence   |-> EvidenceOf(run),
     verdicts   |-> VerdictsOf(run),
     adoptions  |-> AdoptionsOf(run),
     executions |-> {[form |-> e.form, status |-> e.status] : e \in ExecutionsOf(run)}]

\* Bug: whoever admitted the decision has no part in it.
SignersOnly(s) ==
    {b.by : b \in s.bindings} \cup {a.by : a \in s.evidence}
    \cup {v.form.maker : v \in s.verdicts}
    \cup {a.form.by : a \in s.adoptions} \cup {e.form.by : e \in s.executions}

\* material_identities of the C4 snapshot.
Identities(s) ==
    {b.by : b \in s.bindings} \cup {a.by : a \in s.evidence}
    \cup {v.form.maker : v \in s.verdicts} \cup {v.form.by : v \in s.verdicts}
    \cup {a.form.by : a \in s.adoptions} \cup {e.form.by : e \in s.executions}

\* _build_snapshot does not raise.
C4Ready(run) ==
    /\ VerdictsOf(run) # {}
    /\ \A v \in VerdictsOf(run) :
          /\ DecisionVerifies(v)
          /\ v.form.selected # {} => AdoptionsOf(run) # {}
    /\ \A a \in AdoptionsOf(run) : AdoptionVerifies(a)
    /\ \A e \in ExecutionsOf(run) : ExecutionVerifies(e)

\* Two people, neither of whom took part before.
Independent(first, second, others) ==
    first # second /\ first \notin others /\ second \notin others

BaselineFresh(f) == \A b \in baselines : b.form.id # f.id /\ b.form.run # f.run

\* Bug: the snapshot of the baseline is not compared with the present one.
BaselineUnbound(b) ==
    /\ C4Ready(b.form.run)
    /\ Independent(b.form.architect, b.form.reviewer, Identities(b.snapshot))

\* verify_baseline finds no defect.
BaselineVerifies(b) ==
    /\ C4Ready(b.form.run)
    /\ b.snapshot = C4Snapshot(b.form.run)
    /\ Independent(b.form.architect, b.form.reviewer, Identities(b.snapshot))

\* admit_baseline before its transaction, of a document about the present.
PrepareBaseline(c, f) ==
    LET b == Row(f, C4Snapshot(f.run))
    IN /\ BaselineFresh(f) /\ BaselineVerifies(b)
       /\ Enter(c, "C4", b)
       /\ UNCHANGED <<below, chain>>

\* Bug: the transaction relies on the snapshot that was read before it.
AdmitEarlierBaseline(c) ==
    /\ call[c].stage = "C4"
    /\ BaselineFresh(call[c].row.form)
    /\ baselines' = baselines \cup {call[c].row}
    /\ Leave(c)
    /\ UNCHANGED <<below, plans, assessments, packs>>

\* The transaction of admit_baseline.
AdmitBaseline(c) ==
    /\ call[c].stage = "C4"
    /\ BaselineFresh(call[c].row.form) /\ BaselineVerifies(call[c].row)
    /\ baselines' = baselines \cup {call[c].row}
    /\ Leave(c)
    /\ UNCHANGED <<below, plans, assessments, packs>>

-----------------------------------------------------------------------------
(* C5: the execution plan of an architecture                               *)

\* _architecture_baseline: the baseline of that id, or the first of that name.
Resolved(architecture) ==
    LET named == {b \in baselines : b.form.id = architecture}
        alike == {b \in baselines : b.form.architecture = architecture}
    IN IF named # {} THEN named
       ELSE {b \in alike : \A o \in alike : b.form.id <= o.form.id}

\* material_identities of the C5 snapshot.
Designers(b) ==
    Identities(b.snapshot) \cup {b.form.architect, b.form.reviewer, b.form.by}

\* Bug: a plan has an id of its own, and an architecture any number of plans.
PlanIdFresh(f) == \A p \in plans : p.form.id # f.id

PlanFresh(f) ==
    \A p \in plans : p.form.id # f.id /\ p.form.architecture # f.architecture

\* verify_plan finds no defect: the snapshot is the baseline found again.
PlanVerifies(p) ==
    /\ p.snapshot \in Resolved(p.form.architecture)
    /\ p.snapshot.form.architecture = p.form.architecture
    /\ BaselineVerifies(p.snapshot)
    /\ Independent(p.form.planner, p.form.reviewer, Designers(p.snapshot))

\* admit_plan before its transaction.
PreparePlan(c, f) ==
    /\ PlanFresh(f)
    /\ \E p \in Signed(f, Resolved(f.architecture)) :
          PlanVerifies(p) /\ Enter(c, "C5", p)
    /\ UNCHANGED <<below, chain>>

\* The transaction of admit_plan.
AdmitPlan(c) ==
    /\ call[c].stage = "C5"
    /\ PlanFresh(call[c].row.form) /\ PlanVerifies(call[c].row)
    /\ plans' = plans \cup {call[c].row}
    /\ Leave(c)
    /\ UNCHANGED <<below, baselines, assessments, packs>>

-----------------------------------------------------------------------------
(* C6: the red-team assessment of a plan                                   *)

\* material_identities of the C6 snapshot.
Planners(p) ==
    Designers(p.snapshot) \cup {p.form.planner, p.form.reviewer, p.form.by}

\* _assert_derived_verdict
DerivedVerdict(f) ==
    IF "FAIL" \in f.outcomes \/ f.blocking THEN "FAIL"
    ELSE IF "BLOCKED" \in f.outcomes THEN "BLOCKED" ELSE "PASS"

AssessmentFresh(f) == \A a \in assessments : a.form.id # f.id /\ a.form.plan # f.plan

\* verify_assessment finds no defect, whatever the verdict.
AssessmentVerifies(a) ==
    /\ a.snapshot \in plans /\ a.snapshot.form.id = a.form.plan
    /\ PlanVerifies(a.snapshot)
    /\ Independent(a.form.assessor, a.form.adjudicator, Planners(a.snapshot))
    /\ a.form.verdict = DerivedVerdict(a.form)

\* admit_assessment before its transaction.
PrepareAssessment(c, f) ==
    /\ AssessmentFresh(f)
    /\ \E a \in Signed(f, plans) : AssessmentVerifies(a) /\ Enter(c, "C6", a)
    /\ UNCHANGED <<below, chain>>

\* The transaction of admit_assessment.
AdmitAssessment(c) ==
    /\ call[c].stage = "C6"
    /\ AssessmentFresh(call[c].row.form) /\ AssessmentVerifies(call[c].row)
    /\ assessments' = assessments \cup {call[c].row}
    /\ Leave(c)
    /\ UNCHANGED <<below, baselines, plans, packs>>

-----------------------------------------------------------------------------
(* C7: the final pack of an assessment that passed                         *)

\* material_identities of the C7 snapshot.
Assessors(a) ==
    Planners(a.snapshot) \cup {a.form.assessor, a.form.adjudicator, a.form.by}

\* _identity_related
Alike(p, q) == p = q \/ <<p, q>> \in Related \/ <<q, p>> \in Related

PackFresh(f) == \A p \in packs : p.form.id # f.id /\ p.form.assessment # f.assessment

\* _snapshot_material does not raise: the assessment and all below it verify.
Packable(a) ==
    a \in assessments /\ AssessmentVerifies(a) /\ a.form.verdict = "PASS"

\* Two people, neither of them like anybody who took part before.
Unrelated(first, second, others) ==
    /\ first # second
    /\ \A q \in others : ~Alike(first, q) /\ ~Alike(second, q)

\* verify_pack finds no defect.
PackVerifies(p) ==
    /\ Packable(p.snapshot) /\ p.snapshot.form.id = p.form.assessment
    /\ Unrelated(p.form.packager, p.form.verifier, Assessors(p.snapshot))

\* admit_pack before its transaction.
PreparePack(c, f) ==
    /\ PackFresh(f)
    /\ \E p \in Signed(f, assessments) : PackVerifies(p) /\ Enter(c, "C7", p)
    /\ UNCHANGED <<below, chain>>

\* The transaction of admit_pack.
AdmitPack(c) ==
    /\ call[c].stage = "C7"
    /\ PackFresh(call[c].row.form) /\ PackVerifies(call[c].row)
    /\ packs' = packs \cup {call[c].row}
    /\ Leave(c)
    /\ UNCHANGED <<below, baselines, plans, assessments>>

-----------------------------------------------------------------------------
(* The specification                                                       *)

\* What the transaction of an admission asks of its row.
Admissible(stage, row) ==
    \/ stage = "C3" /\ DecisionAdmissible(row)
    \/ stage = "C4" /\ BaselineFresh(row.form) /\ BaselineVerifies(row)
    \/ stage = "C5" /\ PlanFresh(row.form) /\ PlanVerifies(row)
    \/ stage = "C6" /\ AssessmentFresh(row.form) /\ AssessmentVerifies(row)
    \/ stage = "C7" /\ PackFresh(row.form) /\ PackVerifies(row)

\* The transaction finds what the call read before it changed.
Refuse(c) ==
    /\ call[c] # Idle
    /\ ~Admissible(call[c].stage, call[c].row)
    /\ Leave(c)
    /\ UNCHANGED <<below, chain>>

Init ==
    /\ QualificationInit
    /\ baselines = {} /\ plans = {} /\ assessments = {} /\ packs = {}

Next ==
    \/ QualificationNext /\ UNCHANGED chain
    \/ \E c \in Callers :
          \/ \E f \in Baselines : PrepareBaseline(c, f)
          \/ AdmitBaseline(c)
          \/ \E f \in Plans : PreparePlan(c, f)
          \/ AdmitPlan(c)
          \/ \E f \in Assessments : PrepareAssessment(c, f)
          \/ AdmitAssessment(c)
          \/ \E f \in Packs : PreparePack(c, f)
          \/ AdmitPack(c)
          \/ Refuse(c)

Spec == Init /\ [][Next]_vars

-----------------------------------------------------------------------------
(* Properties                                                              *)

\* Every table holds rows of its forms, each about one row of the table below
\* that was there when it was admitted and still is.
TypeOK ==
    /\ labs \subseteq Labs /\ artifacts \subseteq Artifacts /\ bindings \subseteq Starts
    /\ verdicts \subseteq VerdictRow /\ adoptions \subseteq AdoptionRow
    /\ executions \subseteq ExecutionRow
    /\ \A b \in baselines : b.form \in Baselines /\ b.snapshot.verdicts \subseteq verdicts
    /\ \A p \in plans : p.form \in Plans /\ p.snapshot \in baselines
    /\ \A a \in assessments : a.form \in Assessments /\ a.snapshot \in plans
    /\ \A p \in packs : p.form \in Packs /\ p.snapshot \in assessments
    /\ DOMAIN call = Callers

\* The people of the chain of a pack.
Separated(p) ==
    LET a == p.snapshot
        q == a.snapshot
        b == q.snapshot
        run == b.form.run
        hosts == {l.by : l \in {x \in labs : \E s \in BindingOf(run) : x.id = s.lab}}
                 \cup {t.certifier : t \in {x \in Certificates :
                                               \E s \in BindingOf(run) : x.id = s.certificate}}
        recorders == {x.by : x \in EvidenceOf(run)} \cup {s.by : s \in BindingOf(run)}
        makers == {v.form.maker : v \in VerdictsOf(run)}
        clerks == {x.form.by : x \in VerdictsOf(run) \cup AdoptionsOf(run) \cup ExecutionsOf(run)}
        before == recorders \cup makers \cup clerks
        design == {b.form.architect, b.form.reviewer}
        plan == {q.form.planner, q.form.reviewer}
        attack == {a.form.assessor, a.form.adjudicator}
        package == {p.form.packager, p.form.verifier}
    IN /\ makers \cap (hosts \cup recorders) = {}
       /\ b.form.architect # b.form.reviewer
       /\ design \cap before = {}
       /\ q.form.planner # q.form.reviewer
       /\ plan \cap (before \cup design \cup {b.form.by}) = {}
       /\ a.form.assessor # a.form.adjudicator
       /\ attack \cap (before \cup design \cup plan \cup {b.form.by, q.form.by}) = {}
       /\ p.form.packager # p.form.verifier
       /\ package \cap (before \cup design \cup plan \cup attack
                           \cup {b.form.by, q.form.by, a.form.by}) = {}

\* The people behind a pack that verifies did not meet twice: who made the
\* decision took no part in the evidence, its laboratory or its certificate;
\* who designed, planned, assessed or packaged recorded, decided, signed and
\* admitted nothing before, though they may have created the laboratory or
\* signed its certificate; and no stage has one signature twice.
SeparatedDuties == \A p \in packs : PackVerifies(p) => Separated(p)

\* A failed or blocked assessment is final for its architecture: no other plan,
\* assessment or baseline of that name leads to a pack.
NoSecondOpinion ==
    \A a \in assessments, p \in packs :
        p.snapshot.snapshot.form.architecture = a.snapshot.form.architecture
            => a.form.verdict = "PASS"

\* A pack verifies for as long as the evidence is what its baseline froze, the
\* execution has not moved since, its effect is not given up, and the name of
\* the architecture still means its baseline; nothing else takes it back.
PackCurrency ==
    \A p \in packs :
        LET b == p.snapshot.snapshot.snapshot
            run == b.form.run
        IN PackVerifies(p) <=>
              /\ EvidenceOf(run) = b.snapshot.evidence
              /\ {[form |-> e.form, status |-> e.status] : e \in ExecutionsOf(run)}
                    = b.snapshot.executions
              /\ \A e \in ExecutionsOf(run) : e.outbox # "DEAD"
              /\ b \in Resolved(b.form.architecture)

\* A row verifies when it appears, whatever happened during its admission, and
\* once it is stale it stays so: no later step makes an old document good again.
StaleForever(rows, Verifies(_)) ==
    /\ \A r \in rows' \ rows : Verifies(r)'
    /\ \A r \in rows : ~Verifies(r) => ~Verifies(r)'

VerifiesUntilStale ==
    [][/\ StaleForever(verdicts, DecisionVerifies)
       /\ StaleForever(adoptions, AdoptionVerifies)
       /\ StaleForever(baselines, BaselineVerifies)
       /\ StaleForever(plans, PlanVerifies)
       /\ StaleForever(assessments, AssessmentVerifies)
       /\ StaleForever(packs, PackVerifies)]_vars
=============================================================================
