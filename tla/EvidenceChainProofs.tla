------------------------ MODULE EvidenceChainProofs -------------------------
(***************************************************************************)
(* Theorems about EvidenceChain.                                           *)
(*                                                                         *)
(* The chain of a pack is found by identifiers: the pack names one         *)
(* assessment, the assessment one plan, the plan an architecture.  The     *)
(* keys of the tables make each of these names stand for one row, so that  *)
(* the row found is the row that was verified when the pack was admitted.  *)
(***************************************************************************)
EXTENDS EvidenceChain, TLAPS

-----------------------------------------------------------------------------
(* Types                                                                   *)

\* A call in the middle of an admission carries a row of its stage.
CallFormed(stage, row) ==
    /\ stage = "C3" => row \in VerdictRow
    /\ stage = "C4" => row.form \in Baselines
    /\ stage = "C5" => row.form \in Plans
    /\ stage = "C6" => row.form \in Assessments
    /\ stage = "C7" => row.form \in Packs

TypeInv == TypeOK /\ \A c \in Callers : CallFormed(call[c].stage, call[c].row)

\* Calls come and go.
LEMMA EnterFormed ==
  ASSUME NEW c \in Callers, NEW stage, NEW row, Enter(c, stage, row), CallFormed(stage, row),
         TypeInv, UNCHANGED <<below, chain>>
  PROVE  TypeInv'
<1> DEFINE entry == [stage |-> stage, row |-> row]
<1>1. call' = [call EXCEPT ![c] = entry] /\ entry.stage = stage /\ entry.row = row
  BY DEF Enter
<1> HIDE DEF entry
<1>2. DOMAIN call' = Callers /\ \A d \in Callers : call'[d] = IF d = c THEN entry ELSE call[d]
  BY <1>1 DEF TypeInv, TypeOK
<1>3. \A d \in Callers : CallFormed(call[d].stage, call[d].row)'
  BY <1>1, <1>2 DEF TypeInv, CallFormed
<1> QED
  BY <1>2, <1>3 DEF TypeInv, TypeOK, below, laboratory, adoption, chain

LEMMA LeaveFormed ==
  ASSUME NEW c \in Callers, Leave(c), TypeInv
  PROVE  DOMAIN call' = Callers /\ \A d \in Callers : CallFormed(call[d].stage, call[d].row)'
<1>1. Idle.stage = "IDLE"
  BY DEF Idle
<1>2. DOMAIN call' = Callers /\ \A d \in Callers : call'[d] = IF d = c THEN Idle ELSE call[d]
  BY DEF Leave, TypeInv, TypeOK
<1> QED
  BY <1>1, <1>2 DEF TypeInv, CallFormed

LEMMA TypeInit == Init => TypeInv
  BY DEF Init, QualificationInit, TypeInv, TypeOK, CallFormed, Idle

\* The services of C3.
LEMMA QualificationTyped ==
  ASSUME TypeInv, QualificationNext, UNCHANGED chain
  PROVE  TypeInv'
<1> USE DEF TypeInv, TypeOK, chain
<1>1. CASE \/ \E f \in Labs : CreateRun(f)
           \/ \E f \in Artifacts : RecordArtifact(f)
           \/ \E f \in Starts : Start(f)
  BY <1>1 DEF CreateRun, RecordArtifact, Start, adoption, CallFormed
<1>2. ASSUME NEW c \in Callers, NEW f \in Verdicts, PrepareDecision(c, f)
      PROVE  TypeInv'
  <2>1. EvidenceOf(f.run) \subseteq Artifacts
    BY DEF EvidenceOf, Evidence
  <2>2. CallFormed("C3", Row(f, EvidenceOf(f.run)))
    BY <2>1 DEF CallFormed, Row, VerdictRow
  <2>3. UNCHANGED <<below, chain>> /\ Enter(c, "C3", Row(f, EvidenceOf(f.run)))
    BY <1>2 DEF PrepareDecision, below
  <2> QED
    BY <2>2, <2>3, EnterFormed
<1>3. ASSUME NEW c \in Callers, AdmitDecision(c)
      PROVE  TypeInv'
  <2>1. call[c].row \in VerdictRow
    BY <1>3 DEF AdmitDecision, CallFormed
  <2> QED
    BY <1>3, <2>1, LeaveFormed DEF AdmitDecision, laboratory, adoption
<1>4. ASSUME NEW f \in Adoptions, NEW v \in verdicts, NEW d \in Decisions,
             NEW candidate \in v.form.selected, AuthorizeAdoption(f, v, candidate, d)
      PROVE  TypeInv'
  <2>1. v.form.id \in Names /\ candidate \in Names
    BY QualificationAssumption DEF VerdictRow
  <2> QED
    BY <1>4, <2>1 DEF AuthorizeAdoption, AdoptionRow, laboratory, CallFormed
<1>5. ASSUME NEW f \in Requests, NEW a \in adoptions, NEW d \in Decisions,
             RequestExecution(f, a, d)
      PROVE  TypeInv'
  BY <1>5 DEF RequestExecution, ExecutionRow, Statuses, laboratory, CallFormed
<1>6. ASSUME NEW e \in executions, NEW next \in ExecutionRow, Advance(e, next)
      PROVE  TypeInv'
  BY <1>6 DEF Advance, laboratory, CallFormed
<1>7. ASSUME NEW e \in executions,
             \/ \E s \in Statuses : AppendTransition(e, s)
             \/ CompleteEffect(e) \/ ExhaustEffect(e)
      PROVE  \E next \in ExecutionRow : Advance(e, next)
  BY <1>7 DEF AppendTransition, CompleteEffect, ExhaustEffect, ExecutionRow
<1> QED
  BY <1>1, <1>2, <1>3, <1>4, <1>5, <1>6, <1>7 DEF QualificationNext

\* The stages above.
LEMMA TypeStep == TypeInv /\ [Next]_vars => TypeInv'
<1> SUFFICES ASSUME TypeInv, [Next]_vars PROVE TypeInv'
  OBVIOUS
<1>1. CASE UNCHANGED vars
  BY <1>1 DEF vars, below, laboratory, adoption, chain, TypeInv, TypeOK, CallFormed
<1>2. CASE QualificationNext /\ UNCHANGED chain
  BY <1>2, QualificationTyped
<1>3. ASSUME NEW c \in Callers,
             \/ \E f \in Baselines : PrepareBaseline(c, f)
             \/ \E f \in Plans : PreparePlan(c, f)
             \/ \E f \in Assessments : PrepareAssessment(c, f)
             \/ \E f \in Packs : PreparePack(c, f)
      PROVE  TypeInv'
  <2>1. /\ UNCHANGED <<below, chain>>
        /\ \E stage \in {"C4", "C5", "C6", "C7"} :
              \E row : CallFormed(stage, row) /\ Enter(c, stage, row)
    BY <1>3 DEF PrepareBaseline, PreparePlan, PrepareAssessment, PreparePack, Signed, Row,
                CallFormed
  <2> QED
    BY <2>1, EnterFormed
<1>4. ASSUME NEW c \in Callers, AdmitBaseline(c) PROVE TypeInv'
  <2>1. call[c].row.form \in Baselines /\ call[c].row.snapshot.verdicts \subseteq verdicts
    BY <1>4 DEF AdmitBaseline, BaselineVerifies, C4Snapshot, VerdictsOf, TypeInv, CallFormed
  <2> QED
    BY <1>4, <2>1, LeaveFormed DEF AdmitBaseline, below, laboratory, adoption, TypeInv, TypeOK
<1>5. ASSUME NEW c \in Callers, AdmitPlan(c) PROVE TypeInv'
  <2>1. call[c].row.form \in Plans /\ call[c].row.snapshot \in baselines
    BY <1>5 DEF AdmitPlan, PlanVerifies, Resolved, TypeInv, CallFormed
  <2> QED
    BY <1>5, <2>1, LeaveFormed DEF AdmitPlan, below, laboratory, adoption, TypeInv, TypeOK
<1>6. ASSUME NEW c \in Callers, AdmitAssessment(c) PROVE TypeInv'
  <2>1. call[c].row.form \in Assessments /\ call[c].row.snapshot \in plans
    BY <1>6 DEF AdmitAssessment, AssessmentVerifies, TypeInv, CallFormed
  <2> QED
    BY <1>6, <2>1, LeaveFormed DEF AdmitAssessment, below, laboratory, adoption, TypeInv, TypeOK
<1>7. ASSUME NEW c \in Callers, AdmitPack(c) PROVE TypeInv'
  <2>1. call[c].row.form \in Packs /\ call[c].row.snapshot \in assessments
    BY <1>7 DEF AdmitPack, PackVerifies, Packable, TypeInv, CallFormed
  <2> QED
    BY <1>7, <2>1, LeaveFormed DEF AdmitPack, below, laboratory, adoption, TypeInv, TypeOK
<1>8. ASSUME NEW c \in Callers, Refuse(c) PROVE TypeInv'
  BY <1>8, LeaveFormed DEF Refuse, below, laboratory, adoption, chain, TypeInv, TypeOK
<1> QED
  BY <1>1, <1>2, <1>3, <1>4, <1>5, <1>6, <1>7, <1>8 DEF Next

\* Every row of the chain is of a form that may be brought and rests on a row of
\* the table below it, whichever calls were under way when it was admitted.
THEOREM TypeCorrect == Spec => []TypeOK
<1>1. TypeInv => TypeOK
  BY DEF TypeInv
<1> QED
  BY <1>1, TypeInit, TypeStep, PTL DEF Spec

-----------------------------------------------------------------------------
(* Keys and links                                                          *)

\* One plan for an architecture, one assessment for a plan.
Keyed ==
    /\ \A p, q \in plans : p.form.architecture = q.form.architecture => p = q
    /\ \A a, b \in assessments : a.form.plan = b.form.plan => a = b

\* A row above is about a row below that is on record; packs are of passes.
Linked ==
    /\ \A a \in assessments : a.snapshot \in plans /\ a.snapshot.form.id = a.form.plan
    /\ \A p \in packs : p.snapshot \in assessments /\ p.snapshot.form.verdict = "PASS"

Sound == Keyed /\ Linked

\* The tables are empty at first.
LEMMA SoundInit == Init => Sound
  BY DEF Init, Sound, Keyed, Linked

\* What happens below the chain leaves its tables alone, and each admission adds
\* the row of a call that is fresh and verifies when it is added.
LEMMA SoundStep == Sound /\ [Next]_vars => Sound'
<1> SUFFICES ASSUME Sound, [Next]_vars PROVE Sound'
  OBVIOUS
<1> USE DEF Sound, Keyed, Linked
<1>1. CASE UNCHANGED chain
  BY <1>1 DEF chain
<1>2. ASSUME NEW c \in Callers, AdmitBaseline(c) PROVE Sound'
  BY <1>2 DEF AdmitBaseline
<1>3. ASSUME NEW c \in Callers, AdmitPlan(c) PROVE Sound'
  <2> DEFINE row == call[c].row
  <2>1. plans' = plans \cup {row} /\ assessments' = assessments /\ packs' = packs
    BY <1>3 DEF AdmitPlan
  <2>2. \A p \in plans : p.form.architecture # row.form.architecture
    BY <1>3 DEF AdmitPlan, PlanFresh
  <2> QED
    BY <2>1, <2>2
<1>4. ASSUME NEW c \in Callers, AdmitAssessment(c) PROVE Sound'
  <2> DEFINE row == call[c].row
  <2>1. assessments' = assessments \cup {row} /\ plans' = plans /\ packs' = packs
    BY <1>4 DEF AdmitAssessment
  <2>2. \A a \in assessments : a.form.plan # row.form.plan
    BY <1>4 DEF AdmitAssessment, AssessmentFresh
  <2>3. row.snapshot \in plans /\ row.snapshot.form.id = row.form.plan
    BY <1>4 DEF AdmitAssessment, AssessmentVerifies
  <2> QED
    BY <2>1, <2>2, <2>3
<1>5. ASSUME NEW c \in Callers, AdmitPack(c) PROVE Sound'
  <2> DEFINE row == call[c].row
  <2>1. packs' = packs \cup {row} /\ plans' = plans /\ assessments' = assessments
    BY <1>5 DEF AdmitPack
  <2>2. row.snapshot \in assessments /\ row.snapshot.form.verdict = "PASS"
    BY <1>5 DEF AdmitPack, PackVerifies, Packable
  <2> QED
    BY <2>1, <2>2
<1>6. ASSUME NEW c \in Callers,
             \/ \E f \in Baselines : PrepareBaseline(c, f)
             \/ \E f \in Plans : PreparePlan(c, f)
             \/ \E f \in Assessments : PrepareAssessment(c, f)
             \/ \E f \in Packs : PreparePack(c, f)
             \/ Refuse(c)
      PROVE  UNCHANGED chain
  BY <1>6 DEF PrepareBaseline, PreparePlan, PrepareAssessment, PreparePack, Refuse
<1> QED
  BY <1>1, <1>2, <1>3, <1>4, <1>5, <1>6 DEF Next, vars

\* The keys and links hold in every state.
LEMMA AlwaysSound == Spec => []Sound
  BY SoundInit, SoundStep, PTL DEF Spec

\* A failed or blocked assessment is final for its architecture, whichever
\* documents, callers and orders there are: the plan of a pack of that
\* architecture is the plan of the assessment, and its assessment is this one.
THEOREM FailureIsFinal == Spec => []NoSecondOpinion
<1>1. Sound => NoSecondOpinion
  <2> SUFFICES ASSUME Sound, NEW a \in assessments, NEW p \in packs,
                      p.snapshot.snapshot.form.architecture = a.snapshot.form.architecture
               PROVE  a.form.verdict = "PASS"
    BY DEF NoSecondOpinion
  <2>1. p.snapshot \in assessments /\ p.snapshot.form.verdict = "PASS"
    BY DEF Sound, Linked
  <2>2. p.snapshot.snapshot = a.snapshot
    BY <2>1 DEF Sound, Keyed, Linked
  <2>3. p.snapshot = a
    BY <2>1, <2>2 DEF Sound, Keyed, Linked
  <2> QED
    BY <2>1, <2>3
<1> QED
  BY <1>1, AlwaysSound, PTL

-----------------------------------------------------------------------------
(* Separation of duties: each stage excludes what the stages below exclude.*)

\* Whom the baseline excludes has a part in the run as it is now.
LEMMA BaselineExcludes ==
    ASSUME NEW b, BaselineVerifies(b)
    PROVE  Identities(b.snapshot) =
              {s.by : s \in BindingOf(b.form.run)} \cup {x.by : x \in EvidenceOf(b.form.run)}
              \cup {v.form.maker : v \in VerdictsOf(b.form.run)}
              \cup {x.form.by : x \in VerdictsOf(b.form.run) \cup AdoptionsOf(b.form.run)
                                        \cup ExecutionsOf(b.form.run)}
<1> DEFINE run == b.form.run
           moved == {[form |-> e.form, status |-> e.status] : e \in ExecutionsOf(run)}
<1>1. /\ b.snapshot.bindings = BindingOf(run) /\ b.snapshot.evidence = EvidenceOf(run)
      /\ b.snapshot.verdicts = VerdictsOf(run) /\ b.snapshot.adoptions = AdoptionsOf(run)
      /\ b.snapshot.executions = moved
  BY DEF BaselineVerifies, C4Snapshot
<1>2. {e.form.by : e \in moved} = {e.form.by : e \in ExecutionsOf(run)}
  <2>1. ASSUME NEW e \in ExecutionsOf(run) PROVE \E x \in moved : x.form = e.form
    <3> DEFINE y == [form |-> e.form, status |-> e.status]
    <3>1. y \in moved /\ y.form = e.form
      OBVIOUS
    <3> HIDE DEF y, moved
    <3> QED
      BY <3>1
  <2>2. \A x \in moved : \E e \in ExecutionsOf(run) : x.form = e.form
    OBVIOUS
  <2> HIDE DEF moved
  <2> QED
    BY <2>1, <2>2
<1>3. {x.form.by : x \in VerdictsOf(run) \cup AdoptionsOf(run) \cup ExecutionsOf(run)} =
         {x.form.by : x \in VerdictsOf(run)} \cup {x.form.by : x \in AdoptionsOf(run)}
         \cup {x.form.by : x \in ExecutionsOf(run)}
  OBVIOUS
<1> HIDE DEF moved
<1> QED
  BY <1>1, <1>2, <1>3 DEF Identities

\* Who made the decision of a run that verifies did not supply what it is about.
LEMMA MakerExcluded ==
    ASSUME NEW run, NEW v \in VerdictsOf(run), DecisionVerifies(v)
    PROVE  v.form.maker \notin Involved(run, EvidenceOf(run))
  BY DEF VerdictsOf, DecisionVerifies, IndependentMaker

\* Nobody behind a pack that verifies signed twice, whoever the actors are and
\* however the steps of the stages interleave.
THEOREM DutiesAreSeparated == Spec => []SeparatedDuties
<1>1. SeparatedDuties
  <2> SUFFICES ASSUME NEW p \in packs, PackVerifies(p) PROVE Separated(p)
    BY DEF SeparatedDuties
  <2> DEFINE a == p.snapshot
             q == a.snapshot
             b == q.snapshot
             run == b.form.run
             hosts == {l.by : l \in {x \in labs : \E s \in BindingOf(run) : x.id = s.lab}}
                      \cup {t.certifier : t \in {x \in Certificates :
                                                    \E s \in BindingOf(run) : x.id = s.certificate}}
             recorders == {x.by : x \in EvidenceOf(run)} \cup {s.by : s \in BindingOf(run)}
             makers == {v.form.maker : v \in VerdictsOf(run)}
             clerks == {x.form.by : x \in VerdictsOf(run) \cup AdoptionsOf(run)
                                           \cup ExecutionsOf(run)}
             before == recorders \cup makers \cup clerks
  <2>1. AssessmentVerifies(a) /\ Unrelated(p.form.packager, p.form.verifier, Assessors(a))
    BY DEF PackVerifies, Packable
  <2>2. PlanVerifies(q) /\ Independent(a.form.assessor, a.form.adjudicator, Planners(q))
    BY <2>1 DEF AssessmentVerifies
  <2>3. BaselineVerifies(b) /\ Independent(q.form.planner, q.form.reviewer, Designers(b))
    BY <2>2 DEF PlanVerifies
  <2>4. C4Ready(run) /\ Independent(b.form.architect, b.form.reviewer, Identities(b.snapshot))
    BY <2>3 DEF BaselineVerifies
  <2>5. Identities(b.snapshot) = before
    BY <2>3, BaselineExcludes
  <2>6. makers \cap (hosts \cup recorders) = {}
    <3>1. Involved(run, EvidenceOf(run)) = hosts \cup recorders
      BY DEF Involved
    <3>2. \A v \in VerdictsOf(run) : DecisionVerifies(v)
      BY <2>4 DEF C4Ready
    <3>3. \A v \in VerdictsOf(run) : v.form.maker \notin hosts \cup recorders
      BY <3>1, <3>2, MakerExcluded
    <3> QED
      BY <3>3
  <2> HIDE DEF hosts, recorders, makers, clerks
  <2>7. Designers(b) = before \cup {b.form.architect, b.form.reviewer, b.form.by}
    BY <2>5 DEF Designers
  <2>8. Planners(q) = Designers(b) \cup {q.form.planner, q.form.reviewer, q.form.by}
    BY DEF Planners
  <2>9. Assessors(a) = Planners(q) \cup {a.form.assessor, a.form.adjudicator, a.form.by}
    BY DEF Assessors
  <2> DEFINE design == {b.form.architect, b.form.reviewer}
             plan == {q.form.planner, q.form.reviewer}
             attack == {a.form.assessor, a.form.adjudicator}
             package == {p.form.packager, p.form.verifier}
  <2>10. b.form.architect # b.form.reviewer /\ design \cap before = {}
    BY <2>4, <2>5 DEF Independent
  <2>11. /\ q.form.planner # q.form.reviewer
         /\ plan \cap (before \cup design \cup {b.form.by}) = {}
    BY <2>3, <2>7 DEF Independent
  <2>12. /\ a.form.assessor # a.form.adjudicator
         /\ attack \cap (before \cup design \cup plan \cup {b.form.by, q.form.by}) = {}
    BY <2>2, <2>7, <2>8 DEF Independent
  <2>13. /\ p.form.packager # p.form.verifier
         /\ package \cap (before \cup design \cup plan \cup attack
                             \cup {b.form.by, q.form.by, a.form.by}) = {}
    BY <2>1, <2>7, <2>8, <2>9 DEF Unrelated, Alike
  <2> QED
    BY <2>6, <2>10, <2>11, <2>12, <2>13 DEF Separated, hosts, recorders, makers, clerks
<1> QED
  BY <1>1, PTL

-----------------------------------------------------------------------------
(* Currency: what a row was admitted on is still there, but for evidence   *)
(* that came later and for the fate of the executions.                     *)

\* A call in the middle of a decision carries a decision.
CallsKept ==
    /\ call = [c \in Callers |-> call[c]]
    /\ \A c \in Callers : call[c].stage = "C3" => call[c].row.form \in Verdicts

\* Of a run there is one binding, of a laboratory that exists, one decision, one
\* adoption, and of an adoption one execution.
RunsKeyed ==
    /\ \A b \in bindings : \E l \in labs : l.id = b.lab
    /\ \A v, w \in verdicts : v.form.run = w.form.run => v = w
    /\ \A a, b \in adoptions : a.form.id = b.form.id => a = b
    /\ \A e, f \in executions : e.form.id = f.form.id => e = f

DecisionSound(v) ==
    /\ v.form \in Verdicts
    /\ BindingOf(v.form.run) # {}
    /\ \A a \in v.snapshot : a.kind \in {"CANDIDATE", "EVALUATION"} /\ ~a.early
    /\ SelectionStands(v) /\ IndependentMaker(v)

AdoptionSound(a) ==
    /\ \E v \in verdicts : /\ v.form.id = a.verdict /\ v.form.run = a.form.run
                           /\ v.form.selected = {a.candidate}
    /\ AuthorizesExactly(a.decision, a.form.by, "c3.adoption.authorize", a.candidate,
                         <<a.verdict, a.form.rollback>>)
    /\ Use(a.decision, "C3_ADOPTION_AUTHORIZED", a.form.id, a.form.by) \in consumed

ExecutionSound(e) ==
    /\ e \in ExecutionRow
    /\ \E a \in adoptions :
          /\ a.form.id = e.form.adoption
          /\ AuthorizesExactly(e.decision, e.form.by, "c3.adoption.execute", a.candidate,
                               <<e.form.id, e.form.adoption, e.form.plan>>)
    /\ Use(e.decision, "C3_ADOPTION_EXECUTION_REQUESTED", e.form.id, e.form.by) \in consumed
    /\ e.outbox = "SUCCEEDED" => e.status \in Terminal

\* The run of a baseline has what it froze, and an execution that had ended had
\* been settled.
BaselineSound(b) ==
    LET run == b.form.run
    IN /\ b.snapshot = [bindings |-> BindingOf(run), evidence |-> b.snapshot.evidence,
                        verdicts |-> VerdictsOf(run), adoptions |-> AdoptionsOf(run),
                        executions |-> b.snapshot.executions]
       /\ VerdictsOf(run) # {}
       /\ \A v \in VerdictsOf(run) : /\ v.snapshot = b.snapshot.evidence
                                     /\ v.form.selected # {} => AdoptionsOf(run) # {}
       /\ Independent(b.form.architect, b.form.reviewer, Identities(b.snapshot))
       /\ \A x \in b.snapshot.executions :
             /\ \E e \in executions : e.form = x.form
             /\ x.status \in Terminal =>
                   \A e \in executions : e.form = x.form => e.outbox = "SUCCEEDED"

PlanSound(p) ==
    /\ p.snapshot \in baselines /\ p.snapshot.form.architecture = p.form.architecture
    /\ Independent(p.form.planner, p.form.reviewer, Designers(p.snapshot))

AssessmentSound(a) ==
    /\ a.snapshot \in plans /\ a.snapshot.form.id = a.form.plan
    /\ Independent(a.form.assessor, a.form.adjudicator, Planners(a.snapshot))
    /\ a.form.verdict = DerivedVerdict(a.form)

PackSound(p) ==
    /\ p.snapshot \in assessments /\ p.snapshot.form.id = p.form.assessment
    /\ p.snapshot.form.verdict = "PASS"
    /\ Unrelated(p.form.packager, p.form.verifier, Assessors(p.snapshot))

DecisionsSound == \A v \in verdicts : DecisionSound(v)
AdoptionsSound == \A a \in adoptions : AdoptionSound(a)
ExecutionsSound == \A e \in executions : ExecutionSound(e)
BaselinesSound == \A b \in baselines : BaselineSound(b)
DocumentsSound == /\ \A p \in plans : PlanSound(p)
                  /\ \A a \in assessments : AssessmentSound(a)
                  /\ \A p \in packs : PackSound(p)

RunInv == CallsKept /\ RunsKeyed /\ DecisionsSound /\ AdoptionsSound /\ ExecutionsSound
CurrencyInv == RunInv /\ BaselinesSound /\ DocumentsSound

\* A decision that was sound when it was made verifies while its evidence is all
\* there is.
LEMMA DecisionCurrent ==
  ASSUME NEW v, DecisionSound(v)
  PROVE  DecisionVerifies(v) <=> v.snapshot = EvidenceOf(v.form.run)
  BY DEF DecisionSound, DecisionVerifies, GateVerifies

\* The tables only grow, and executions only by requests.
LEMMA ChainGrows ==
  ASSUME [Next]_vars
  PROVE  /\ labs \subseteq labs' /\ artifacts \subseteq artifacts' /\ bindings \subseteq bindings'
         /\ verdicts \subseteq verdicts' /\ adoptions \subseteq adoptions'
         /\ consumed \subseteq consumed'
         /\ baselines \subseteq baselines' /\ plans \subseteq plans'
         /\ assessments \subseteq assessments'
<1>1. CASE QualificationNext /\ UNCHANGED chain
  BY <1>1 DEF QualificationNext, chain, CreateRun, RecordArtifact, Start, PrepareDecision,
     AdmitDecision, AuthorizeAdoption, RequestExecution, AppendTransition, CompleteEffect,
     ExhaustEffect, Advance, Consume, adoption, laboratory
<1>2. CASE UNCHANGED vars
  BY <1>2 DEF vars, below, chain, laboratory, adoption
<1>3. CASE \E c \in Callers :
              \/ \E f \in Baselines : PrepareBaseline(c, f)
              \/ AdmitBaseline(c)
              \/ \E f \in Plans : PreparePlan(c, f)
              \/ AdmitPlan(c)
              \/ \E f \in Assessments : PrepareAssessment(c, f)
              \/ AdmitAssessment(c)
              \/ \E f \in Packs : PreparePack(c, f)
              \/ AdmitPack(c)
              \/ Refuse(c)
  BY <1>3 DEF PrepareBaseline, AdmitBaseline, PreparePlan, AdmitPlan, PrepareAssessment,
     AdmitAssessment, PreparePack, AdmitPack, Refuse, below, chain, laboratory, adoption
<1> QED
  BY <1>1, <1>2, <1>3 DEF Next

\* What changes a table below the chain.
LEMMA RunSteps ==
  ASSUME [Next]_vars
  PROVE  /\ labs' = labs \/ \E f \in Labs : CreateRun(f)
         /\ bindings' = bindings \/ \E f \in Starts : Start(f)
         /\ verdicts' = verdicts \/ \E c \in Callers : AdmitDecision(c)
         /\ \/ adoptions' = adoptions
            \/ \E f \in Adoptions, v \in verdicts, d \in Decisions :
                  \E candidate \in v.form.selected : AuthorizeAdoption(f, v, candidate, d)
         /\ \/ executions' = executions
            \/ \E f \in Requests, a \in adoptions, d \in Decisions : RequestExecution(f, a, d)
            \/ \E e \in executions, s \in Statuses : AppendTransition(e, s)
            \/ \E e \in executions : CompleteEffect(e) \/ ExhaustEffect(e)
<1>1. CASE QualificationNext /\ UNCHANGED chain
  <2>1. CASE \E f \in Labs : CreateRun(f)
    BY <2>1 DEF CreateRun, adoption
  <2>2. CASE \E f \in Artifacts : RecordArtifact(f)
    BY <2>2 DEF RecordArtifact, adoption
  <2>3. CASE \E f \in Starts : Start(f)
    BY <2>3 DEF Start, adoption
  <2>4. CASE \E c \in Callers, f \in Verdicts : PrepareDecision(c, f)
    BY <2>4 DEF PrepareDecision, adoption, laboratory
  <2>5. CASE \E c \in Callers : AdmitDecision(c)
    BY <2>5 DEF AdmitDecision, adoption, laboratory
  <2>6. CASE \E f \in Adoptions, v \in verdicts, d \in Decisions :
                \E candidate \in v.form.selected : AuthorizeAdoption(f, v, candidate, d)
    <3>1. UNCHANGED <<laboratory, verdicts, executions>>
      BY <2>6 DEF AuthorizeAdoption
    <3> QED
      BY <2>6, <3>1 DEF laboratory
  <2>7. CASE \E f \in Requests, a \in adoptions, d \in Decisions : RequestExecution(f, a, d)
    <3>1. UNCHANGED <<laboratory, verdicts, adoptions>>
      BY <2>7 DEF RequestExecution
    <3> QED
      BY <2>7, <3>1 DEF laboratory
  <2>8. CASE \/ \E e \in executions, s \in Statuses : AppendTransition(e, s)
             \/ \E e \in executions : CompleteEffect(e) \/ ExhaustEffect(e)
    <3>1. UNCHANGED <<laboratory, verdicts, adoptions>>
      BY <2>8 DEF AppendTransition, CompleteEffect, ExhaustEffect, Advance
    <3> QED
      BY <2>8, <3>1 DEF laboratory
  <2> QED
    BY <1>1, <2>1, <2>2, <2>3, <2>4, <2>5, <2>6, <2>7, <2>8 DEF QualificationNext
<1>2. CASE UNCHANGED below
  BY <1>2 DEF below, laboratory, adoption
<1>3. CASE \E c \in Callers :
              \/ \E f \in Baselines : PrepareBaseline(c, f)
              \/ AdmitBaseline(c)
              \/ \E f \in Plans : PreparePlan(c, f)
              \/ AdmitPlan(c)
              \/ \E f \in Assessments : PrepareAssessment(c, f)
              \/ AdmitAssessment(c)
              \/ \E f \in Packs : PreparePack(c, f)
              \/ AdmitPack(c)
              \/ Refuse(c)
  <2>1. UNCHANGED below
    BY <1>3 DEF PrepareBaseline, AdmitBaseline, PreparePlan, AdmitPlan, PrepareAssessment,
       AdmitAssessment, PreparePack, AdmitPack, Refuse
  <2> QED
    BY <1>2, <2>1
<1> QED
  BY <1>1, <1>2, <1>3 DEF Next, vars

\* What is entered is a row of the forms of its stage.
LEMMA CallsStayKept ==
  ASSUME CallsKept, [Next]_vars
  PROVE  CallsKept'
<1> USE DEF CallsKept
<1>1. ASSUME NEW c \in Callers, NEW stage, NEW row, Enter(c, stage, row),
             stage = "C3" => row.form \in Verdicts
      PROVE  CallsKept'
  <2> DEFINE entry == [stage |-> stage, row |-> row]
  <2>1. call' = [call EXCEPT ![c] = entry] /\ entry.stage = stage /\ entry.row = row
    BY <1>1 DEF Enter
  <2> HIDE DEF entry
  <2> QED
    BY <1>1, <2>1
<1>2. ASSUME NEW c \in Callers, Leave(c) PROVE CallsKept'
  <2>1. Idle.stage # "C3"
    BY DEF Idle
  <2> QED
    BY <1>2, <2>1 DEF Leave
<1>3. ASSUME UNCHANGED call PROVE CallsKept'
  BY <1>3
<1>4. CASE \E c \in Callers, f \in Verdicts : PrepareDecision(c, f)
  <2>1. PICK c \in Callers, f \in Verdicts : PrepareDecision(c, f)
    BY <1>4
  <2>2. Enter(c, "C3", Row(f, EvidenceOf(f.run))) /\ Row(f, EvidenceOf(f.run)).form = f
    BY <2>1 DEF PrepareDecision, Row
  <2> QED
    BY <1>1, <2>2
<1>5. ASSUME NEW c \in Callers,
             \/ AdmitDecision(c) \/ AdmitBaseline(c) \/ AdmitPlan(c)
             \/ AdmitAssessment(c) \/ AdmitPack(c) \/ Refuse(c)
      PROVE  Leave(c)
  BY <1>5 DEF AdmitDecision, AdmitBaseline, AdmitPlan, AdmitAssessment, AdmitPack, Refuse
<1>6. ASSUME NEW c \in Callers,
             \/ \E f \in Baselines : PrepareBaseline(c, f)
             \/ \E f \in Plans : PreparePlan(c, f)
             \/ \E f \in Assessments : PrepareAssessment(c, f)
             \/ \E f \in Packs : PreparePack(c, f)
      PROVE  \E stage \in {"C4", "C5", "C6", "C7"} : \E row : Enter(c, stage, row)
  BY <1>6 DEF PrepareBaseline, PreparePlan, PrepareAssessment, PreparePack
<1>7. CASE QualificationNext /\ UNCHANGED chain
  BY <1>2, <1>3, <1>4, <1>5, <1>7 DEF QualificationNext, CreateRun, RecordArtifact, Start,
     AuthorizeAdoption, RequestExecution, AppendTransition, CompleteEffect, ExhaustEffect, Advance
<1>8. CASE \E c \in Callers :
              \/ \E f \in Baselines : PrepareBaseline(c, f)
              \/ AdmitBaseline(c)
              \/ \E f \in Plans : PreparePlan(c, f)
              \/ AdmitPlan(c)
              \/ \E f \in Assessments : PrepareAssessment(c, f)
              \/ AdmitAssessment(c)
              \/ \E f \in Packs : PreparePack(c, f)
              \/ AdmitPack(c)
              \/ Refuse(c)
  <2>1. PICK c \in Callers :
              \/ \E f \in Baselines : PrepareBaseline(c, f)
              \/ AdmitBaseline(c)
              \/ \E f \in Plans : PreparePlan(c, f)
              \/ AdmitPlan(c)
              \/ \E f \in Assessments : PrepareAssessment(c, f)
              \/ AdmitAssessment(c)
              \/ \E f \in Packs : PreparePack(c, f)
              \/ AdmitPack(c)
              \/ Refuse(c)
    BY <1>8
  <2>2. CASE Leave(c)
    BY <1>2, <2>2
  <2>3. CASE \E stage \in {"C4", "C5", "C6", "C7"} : \E row : Enter(c, stage, row)
    BY <1>1, <2>3
  <2> QED
    BY <1>5, <1>6, <2>1, <2>2, <2>3
<1> QED
  BY <1>3, <1>7, <1>8 DEF Next, vars

\* A transition of an execution keeps its form and decision, and settles it only
\* when it has ended.
LEMMA ExecutionMoves ==
  ASSUME NEW e \in ExecutionRow,
         \/ \E s \in Statuses : AppendTransition(e, s)
         \/ CompleteEffect(e) \/ ExhaustEffect(e)
  PROVE  \E next \in ExecutionRow :
            /\ executions' = (executions \ {e}) \cup {next}
            /\ next.form = e.form /\ next.decision = e.decision
            /\ e.outbox = "SUCCEEDED" => next.outbox = "SUCCEEDED"
            /\ e.outbox = "DEAD" => next.outbox = "DEAD"
            /\ \/ next.status = e.status
               \/ e.status = "REQUESTED" /\ next.status \in {"RUNNING", "FAILED_NO_EFFECT"}
               \/ e.status = "RUNNING" /\ next.status \in Terminal
            /\ (e.outbox = "SUCCEEDED" => e.status \in Terminal) =>
                  (next.outbox = "SUCCEEDED" => next.status \in Terminal)
            /\ UNCHANGED <<adoptions, consumed>>
<1>1. ASSUME NEW s \in Statuses, AppendTransition(e, s)
      PROVE  /\ [e EXCEPT !.status = s] \in ExecutionRow
             /\ executions' = (executions \ {e}) \cup {[e EXCEPT !.status = s]}
             /\ e.status \notin Terminal /\ UNCHANGED <<adoptions, consumed>>
             /\ \/ e.status = "REQUESTED" /\ s \in {"RUNNING", "FAILED_NO_EFFECT"}
                \/ e.status = "RUNNING" /\ s \in Terminal
  BY <1>1, QualificationAssumption DEF AppendTransition, Advance, ExecutionRow, Terminal
<1>2. ASSUME CompleteEffect(e)
      PROVE  /\ [e EXCEPT !.outbox = "SUCCEEDED"] \in ExecutionRow
             /\ executions' = (executions \ {e}) \cup {[e EXCEPT !.outbox = "SUCCEEDED"]}
             /\ e.status \in Terminal /\ UNCHANGED <<adoptions, consumed>>
  BY <1>2 DEF CompleteEffect, Advance, ExecutionRow
<1>3. ASSUME ExhaustEffect(e)
      PROVE  /\ [e EXCEPT !.outbox = "DEAD"] \in ExecutionRow
             /\ executions' = (executions \ {e}) \cup {[e EXCEPT !.outbox = "DEAD"]}
             /\ e.outbox # "SUCCEEDED" /\ UNCHANGED <<adoptions, consumed>>
  BY <1>3 DEF ExhaustEffect, Advance, ExecutionRow
<1>4. CASE \E s \in Statuses : AppendTransition(e, s)
  <2>1. PICK s \in Statuses : AppendTransition(e, s)
    BY <1>4
  <2> DEFINE next == [e EXCEPT !.status = s]
  <2>2. /\ next.form = e.form /\ next.decision = e.decision /\ next.outbox = e.outbox
        /\ next.status = s
    BY DEF ExecutionRow
  <2> HIDE DEF next
  <2>3. /\ next \in ExecutionRow /\ executions' = (executions \ {e}) \cup {next}
        /\ e.status \notin Terminal /\ UNCHANGED <<adoptions, consumed>>
        /\ \/ e.status = "REQUESTED" /\ s \in {"RUNNING", "FAILED_NO_EFFECT"}
           \/ e.status = "RUNNING" /\ s \in Terminal
    BY <1>1, <2>1 DEF next
  <2> QED
    BY <2>2, <2>3
<1>5. CASE CompleteEffect(e)
  <2> DEFINE next == [e EXCEPT !.outbox = "SUCCEEDED"]
  <2>1. /\ next.form = e.form /\ next.decision = e.decision /\ next.status = e.status
        /\ next.outbox = "SUCCEEDED" /\ e.outbox = "OPEN"
    BY <1>5 DEF ExecutionRow, CompleteEffect
  <2> HIDE DEF next
  <2>2. next \in ExecutionRow /\ executions' = (executions \ {e}) \cup {next}
        /\ e.status \in Terminal /\ UNCHANGED <<adoptions, consumed>>
    BY <1>2, <1>5 DEF next
  <2> QED
    BY <2>1, <2>2
<1>6. CASE ExhaustEffect(e)
  <2> DEFINE next == [e EXCEPT !.outbox = "DEAD"]
  <2>1. /\ next.form = e.form /\ next.decision = e.decision /\ next.outbox = "DEAD"
        /\ next.status = e.status
    BY DEF ExecutionRow
  <2> HIDE DEF next
  <2>2. next \in ExecutionRow /\ executions' = (executions \ {e}) \cup {next}
        /\ e.outbox # "SUCCEEDED" /\ UNCHANGED <<adoptions, consumed>>
    BY <1>3, <1>6 DEF next
  <2> QED
    BY <2>1, <2>2
<1> QED
  BY <1>4, <1>5, <1>6

\* The keys of the tables hold.
LEMMA RunsStayKeyed ==
  ASSUME RunsKeyed, ExecutionsSound, [Next]_vars
  PROVE  RunsKeyed'
<1>1. \A b \in bindings' : \E l \in labs' : l.id = b.lab
  <2>1. CASE bindings' = bindings
    BY <2>1, ChainGrows DEF RunsKeyed
  <2>2. CASE \E f \in Starts : Start(f)
    BY <2>2 DEF Start, RunsKeyed
  <2> QED
    BY <2>1, <2>2, RunSteps
<1>2. \A v, w \in verdicts' : v.form.run = w.form.run => v = w
  <2>1. CASE \E c \in Callers : AdmitDecision(c)
    <3>1. PICK c \in Callers : AdmitDecision(c)
      BY <2>1
    <3>2. /\ verdicts' = verdicts \cup {call[c].row}
          /\ \A v \in verdicts : v.form.run # call[c].row.form.run
      BY <3>1 DEF AdmitDecision, DecisionAdmissible, VerdictFresh
    <3> QED
      BY <3>2 DEF RunsKeyed
  <2> QED
    BY <2>1, RunSteps DEF RunsKeyed
<1>3. \A e, f \in executions' : e.form.id = f.form.id => e = f
  <2>1. ASSUME NEW f \in Requests, NEW a \in adoptions, NEW d \in Decisions,
               RequestExecution(f, a, d)
        PROVE  \A x, y \in executions' : x.form.id = y.form.id => x = y
    <3> DEFINE row == [form |-> f, status |-> "REQUESTED", outbox |-> "OPEN", decision |-> d]
    <3>1. /\ executions' = executions \cup {row} /\ row.form = f
          /\ \A x \in executions : x.form.id # f.id
      BY <2>1 DEF RequestExecution
    <3> HIDE DEF row
    <3> QED
      BY <3>1 DEF RunsKeyed
  <2>2. ASSUME NEW e \in executions,
               \/ \E s \in Statuses : AppendTransition(e, s)
               \/ CompleteEffect(e) \/ ExhaustEffect(e)
        PROVE  \A x, y \in executions' : x.form.id = y.form.id => x = y
    <3>1. PICK next : executions' = (executions \ {e}) \cup {next} /\ next.form = e.form
      BY <2>2, ExecutionMoves DEF ExecutionsSound, ExecutionSound
    <3> QED
      BY <3>1 DEF RunsKeyed
  <2> QED
    BY <2>1, <2>2, RunSteps DEF RunsKeyed
<1>4. \A a, b \in adoptions' : a.form.id = b.form.id => a = b
  <2>1. ASSUME NEW f \in Adoptions, NEW v \in verdicts, NEW d \in Decisions,
               NEW candidate \in v.form.selected, AuthorizeAdoption(f, v, candidate, d)
        PROVE  \A a, b \in adoptions' : a.form.id = b.form.id => a = b
    <3> DEFINE row == [form |-> f, verdict |-> v.form.id, candidate |-> candidate, decision |-> d]
    <3>1. /\ adoptions' = adoptions \cup {row} /\ row.form = f
          /\ \A a \in adoptions : a.form.id # f.id
      BY <2>1 DEF AuthorizeAdoption
    <3> HIDE DEF row
    <3> QED
      BY <3>1 DEF RunsKeyed
  <2> QED
    BY <2>1, RunSteps DEF RunsKeyed
<1> QED
  BY <1>1, <1>2, <1>3, <1>4 DEF RunsKeyed

\* Once a run is bound, its binding, laboratory and certificate are settled.
LEMMA BindingStays ==
  ASSUME RunsKeyed, [Next]_vars, NEW run, NEW evidence, BindingOf(run) # {}
  PROVE  /\ BindingOf(run)' = BindingOf(run)
         /\ Involved(run, evidence)' = Involved(run, evidence)
<1>1. BindingOf(run)' = BindingOf(run)
  <2>1. CASE bindings' = bindings
    BY <2>1 DEF BindingOf
  <2>2. CASE \E f \in Starts : Start(f)
    BY <2>2 DEF Start, BindingOf
  <2> QED
    BY <2>1, <2>2, RunSteps
<1>2. {x \in labs' : \E b \in BindingOf(run) : x.id = b.lab} =
         {x \in labs : \E b \in BindingOf(run) : x.id = b.lab}
  <2>1. CASE labs' = labs
    BY <2>1
  <2>2. CASE \E f \in Labs : CreateRun(f)
    <3>1. PICK f \in Labs : labs' = labs \cup {f} /\ \A l \in labs : l.id # f.id
      BY <2>2 DEF CreateRun
    <3>2. \A b \in BindingOf(run) : f.id # b.lab
      BY <3>1 DEF BindingOf, RunsKeyed
    <3> QED
      BY <3>1, <3>2
  <2> QED
    BY <2>1, <2>2, RunSteps
<1> QED
  BY <1>1, <1>2 DEF Involved

\* A sound decision stays sound.
LEMMA DecisionStaysSound ==
  ASSUME RunsKeyed, [Next]_vars, NEW v, DecisionSound(v)
  PROVE  DecisionSound(v)'
<1>1. /\ BindingOf(v.form.run)' = BindingOf(v.form.run)
      /\ Involved(v.form.run, v.snapshot)' = Involved(v.form.run, v.snapshot)
  BY BindingStays DEF DecisionSound
<1>2. IndependentMaker(v)' <=> v.form.maker \notin Involved(v.form.run, v.snapshot)'
  BY DEF IndependentMaker
<1>3. SelectionStands(v)' <=> SelectionStands(v)
  BY DEF SelectionStands, Candidates
<1> QED
  BY <1>1, <1>2, <1>3 DEF DecisionSound, IndependentMaker

\* The verdicts of a run, once there is one, and the adoption of a verdict are
\* settled too.
LEMMA VerdictsStay ==
  ASSUME [Next]_vars, NEW run, VerdictsOf(run) # {}
  PROVE  VerdictsOf(run)' = VerdictsOf(run)
<1>1. CASE \E c \in Callers : AdmitDecision(c)
  <2>1. PICK c \in Callers : AdmitDecision(c)
    BY <1>1
  <2>2. /\ verdicts' = verdicts \cup {call[c].row}
        /\ \A v \in verdicts : v.form.run # call[c].row.form.run
    BY <2>1 DEF AdmitDecision, DecisionAdmissible, VerdictFresh
  <2> QED
    BY <2>2 DEF VerdictsOf
<1> QED
  BY <1>1, RunSteps DEF VerdictsOf

LEMMA AdoptionsStay ==
  ASSUME [Next]_vars, NEW run,
         \A v \in VerdictsOf(run) : v.form.selected # {} => AdoptionsOf(run) # {}
  PROVE  AdoptionsOf(run)' = AdoptionsOf(run)
<1>1. ASSUME NEW f \in Adoptions, NEW v \in verdicts, NEW d \in Decisions,
             NEW candidate \in v.form.selected, AuthorizeAdoption(f, v, candidate, d)
      PROVE  AdoptionsOf(run)' = AdoptionsOf(run)
  <2> DEFINE row == [form |-> f, verdict |-> v.form.id, candidate |-> candidate, decision |-> d]
  <2>1. /\ adoptions' = adoptions \cup {row} /\ row.form = f
        /\ v.form.run = f.run /\ \A a \in adoptions : a.form.run # f.run
    BY <1>1 DEF AuthorizeAdoption
  <2> HIDE DEF row
  <2>2. f.run # run
    BY <2>1 DEF VerdictsOf, AdoptionsOf
  <2> QED
    BY <2>1, <2>2 DEF AdoptionsOf
<1> QED
  BY <1>1, RunSteps DEF AdoptionsOf

\* Decisions, adoptions and executions are sound when they are recorded and stay
\* so.
LEMMA DecisionsStaySound ==
  ASSUME CallsKept, RunsKeyed, DecisionsSound, [Next]_vars
  PROVE  DecisionsSound'
<1>1. \A v \in verdicts : DecisionSound(v)'
  BY DecisionStaysSound DEF DecisionsSound
<1>2. CASE \E c \in Callers : AdmitDecision(c)
  <2>1. PICK c \in Callers : AdmitDecision(c)
    BY <1>2
  <2>2. PICK v : v = call[c].row
    OBVIOUS
  <2>3. verdicts' = verdicts \cup {v} /\ v.form \in Verdicts /\ DecisionAdmissible(v)
    BY <2>1, <2>2 DEF AdmitDecision, CallsKept
  <2>4. DecisionSound(v)
    BY <2>3 DEF DecisionAdmissible, DecisionSound, GateVerifies
  <2>5. DecisionSound(v)'
    BY <2>4, DecisionStaysSound
  <2> QED
    BY <1>1, <2>3, <2>5 DEF DecisionsSound
<1> QED
  BY <1>1, <1>2, RunSteps DEF DecisionsSound

LEMMA AdoptionsStaySound ==
  ASSUME DecisionsSound, AdoptionsSound, [Next]_vars
  PROVE  AdoptionsSound'
<1>1. \A a \in adoptions : AdoptionSound(a)'
  <2> SUFFICES ASSUME NEW a \in adoptions PROVE AdoptionSound(a)'
    OBVIOUS
  <2>1. AdoptionSound(a)
    BY DEF AdoptionsSound
  <2> QED
    BY <2>1, ChainGrows DEF AdoptionSound, AuthorizesExactly, Use
<1>2. ASSUME NEW f \in Adoptions, NEW v \in verdicts, NEW d \in Decisions,
             NEW candidate \in v.form.selected, AuthorizeAdoption(f, v, candidate, d)
      PROVE  AdoptionsSound'
  <2> DEFINE row == [form |-> f, verdict |-> v.form.id, candidate |-> candidate, decision |-> d]
  <2>1. /\ adoptions' = adoptions \cup {row} /\ row.form = f /\ row.verdict = v.form.id
        /\ row.candidate = candidate /\ row.decision = d
    BY <1>2 DEF AuthorizeAdoption
  <2> HIDE DEF row
  <2>2. v.form.selected = {candidate}
    BY QualificationAssumption DEF DecisionsSound, DecisionSound
  <2>3. /\ v \in verdicts' /\ v.form.run = f.run
        /\ AuthorizesExactly(d, f.by, "c3.adoption.authorize", candidate, <<v.form.id, f.rollback>>)
        /\ Use(d, "C3_ADOPTION_AUTHORIZED", f.id, f.by) \in consumed'
    BY <1>2, ChainGrows DEF AuthorizeAdoption, Consume
  <2>4. AdoptionSound(row)'
    BY <2>1, <2>2, <2>3 DEF AdoptionSound, AuthorizesExactly, Use
  <2> QED
    BY <1>1, <2>1, <2>4 DEF AdoptionsSound
<1> QED
  BY <1>1, <1>2, RunSteps DEF AdoptionsSound

LEMMA ExecutionsStaySound ==
  ASSUME ExecutionsSound, [Next]_vars
  PROVE  ExecutionsSound'
<1>1. ASSUME NEW e \in executions PROVE ExecutionSound(e)'
  <2>1. ExecutionSound(e)
    BY DEF ExecutionsSound
  <2> QED
    BY <2>1, ChainGrows DEF ExecutionSound, AuthorizesExactly, Use, ExecutionRow
<1>2. ASSUME NEW f \in Requests, NEW a \in adoptions, NEW d \in Decisions,
             RequestExecution(f, a, d)
      PROVE  ExecutionsSound'
  <2> DEFINE row == [form |-> f, status |-> "REQUESTED", outbox |-> "OPEN", decision |-> d]
  <2>1. /\ executions' = executions \cup {row} /\ row.form = f /\ row.decision = d
        /\ row.outbox = "OPEN" /\ row \in ExecutionRow
    BY <1>2 DEF RequestExecution, ExecutionRow, Statuses
  <2> HIDE DEF row
  <2>2. /\ a \in adoptions' /\ a.form.id = f.adoption
        /\ AuthorizesExactly(d, f.by, "c3.adoption.execute", a.candidate,
                             <<f.id, f.adoption, f.plan>>)
        /\ Use(d, "C3_ADOPTION_EXECUTION_REQUESTED", f.id, f.by) \in consumed'
    BY <1>2, ChainGrows DEF RequestExecution, Consume
  <2>3. ExecutionSound(row)'
    BY <2>1, <2>2 DEF ExecutionSound, AuthorizesExactly, Use, ExecutionRow
  <2> QED
    BY <1>1, <2>1, <2>3 DEF ExecutionsSound
<1>3. ASSUME NEW e \in executions,
             \/ \E s \in Statuses : AppendTransition(e, s)
             \/ CompleteEffect(e) \/ ExhaustEffect(e)
      PROVE  ExecutionsSound'
  <2>1. ExecutionSound(e) /\ ExecutionSound(e)'
    BY <1>1 DEF ExecutionsSound
  <2>2. PICK next \in ExecutionRow :
           /\ executions' = (executions \ {e}) \cup {next}
           /\ next.form = e.form /\ next.decision = e.decision
           /\ next.outbox = "SUCCEEDED" => next.status \in Terminal
    BY <1>3, <2>1, ExecutionMoves DEF ExecutionSound
  <2>3. ExecutionSound(next)'
    BY <2>1, <2>2 DEF ExecutionSound, AuthorizesExactly, Use, ExecutionRow
  <2> QED
    BY <1>1, <2>2, <2>3 DEF ExecutionsSound
<1> QED
  BY <1>1, <1>2, <1>3, RunSteps DEF ExecutionsSound

\* While the evidence of a run is that of its decision, all that was sound on it
\* verifies.
LEMMA AdoptionCurrent ==
  ASSUME RunInv, NEW a \in adoptions,
         \A v \in VerdictsOf(a.form.run) : v.snapshot = EvidenceOf(a.form.run)
  PROVE  AdoptionVerifies(a)
<1>1. AdoptionSound(a)
  BY DEF RunInv, AdoptionsSound
<1>2. PICK v \in verdicts : /\ v.form.id = a.verdict /\ v.form.run = a.form.run
                            /\ v.form.selected = {a.candidate}
  BY <1>1 DEF AdoptionSound
<1>3. DecisionVerifies(v)
  BY <1>2, DecisionCurrent DEF RunInv, DecisionsSound, VerdictsOf
<1> QED
  BY <1>1, <1>2, <1>3 DEF AdoptionSound, AdoptionVerifies

LEMMA ExecutionCurrent ==
  ASSUME NEW e, ExecutionSound(e), \A a \in adoptions : a.form.id = e.form.adoption => AdoptionVerifies(a)
  PROVE  ExecutionVerifies(e) <=> e.outbox = IF e.status \in Terminal THEN "SUCCEEDED" ELSE "OPEN"
  BY DEF ExecutionSound, ExecutionVerifies

\* A sound baseline stays sound, whatever happens to its run.
LEMMA BaselineStaysSound ==
  ASSUME RunInv, [Next]_vars, NEW b, BaselineSound(b)
  PROVE  BaselineSound(b)'
<1> DEFINE run == b.form.run
           Settled(x) == /\ \E e \in executions : e.form = x.form
                         /\ x.status \in Terminal =>
                               \A e \in executions : e.form = x.form => e.outbox = "SUCCEEDED"
<1>1. VerdictsOf(run) # {} /\ VerdictsOf(run)' = VerdictsOf(run)
  BY VerdictsStay DEF BaselineSound
<1>2. BindingOf(run)' = BindingOf(run)
  <2>1. PICK v \in VerdictsOf(run) : DecisionSound(v) /\ v.form.run = run
    BY <1>1 DEF RunInv, DecisionsSound, VerdictsOf
  <2> QED
    BY <2>1, BindingStays DEF RunInv, DecisionSound
<1>3. AdoptionsOf(run)' = AdoptionsOf(run)
  BY AdoptionsStay DEF BaselineSound
<1>4. ASSUME NEW x, Settled(x) PROVE Settled(x)'
  <2>1. ASSUME NEW f \in Requests, NEW a \in adoptions, NEW d \in Decisions,
               RequestExecution(f, a, d)
        PROVE  Settled(x)'
    <3> DEFINE row == [form |-> f, status |-> "REQUESTED", outbox |-> "OPEN", decision |-> d]
    <3>1. /\ executions' = executions \cup {row} /\ row.form = f
          /\ \A e \in executions : e.form.id # f.id
      BY <2>1 DEF RequestExecution
    <3> HIDE DEF row
    <3> QED
      BY <1>4, <3>1
  <2>2. ASSUME NEW e \in executions,
               \/ \E s \in Statuses : AppendTransition(e, s)
               \/ CompleteEffect(e) \/ ExhaustEffect(e)
        PROVE  Settled(x)'
    <3>1. PICK next : /\ executions' = (executions \ {e}) \cup {next} /\ next.form = e.form
                      /\ e.outbox = "SUCCEEDED" => next.outbox = "SUCCEEDED"
      BY <2>2, ExecutionMoves DEF RunInv, ExecutionsSound, ExecutionSound
    <3> QED
      BY <1>4, <3>1
  <2> QED
    BY <1>4, <2>1, <2>2, RunSteps
<1>5. Identities(b.snapshot)' = Identities(b.snapshot)
  BY DEF Identities
<1>6. \A x \in b.snapshot.executions : Settled(x)'
  BY <1>4 DEF BaselineSound
<1> QED
  BY <1>1, <1>2, <1>3, <1>5, <1>6 DEF BaselineSound, Independent

\* A baseline is sound when it is admitted.
LEMMA BaselineStartsSound ==
  ASSUME RunInv, NEW b, BaselineVerifies(b)
  PROVE  BaselineSound(b)
<1> DEFINE run == b.form.run
           froze == {[form |-> e.form, status |-> e.status] : e \in ExecutionsOf(run)}
<1>1. /\ C4Ready(run) /\ b.snapshot = C4Snapshot(run)
      /\ Independent(b.form.architect, b.form.reviewer, Identities(b.snapshot))
  BY DEF BaselineVerifies
<1>2. /\ b.snapshot.evidence = EvidenceOf(run) /\ b.snapshot.executions = froze
      /\ b.snapshot = [bindings |-> BindingOf(run), evidence |-> EvidenceOf(run),
                       verdicts |-> VerdictsOf(run), adoptions |-> AdoptionsOf(run),
                       executions |-> froze]
  BY <1>1 DEF C4Snapshot
<1>3. ASSUME NEW x \in froze
      PROVE  /\ \E e \in executions : e.form = x.form
             /\ x.status \in Terminal =>
                   \A e \in executions : e.form = x.form => e.outbox = "SUCCEEDED"
  <2>1. PICK e \in ExecutionsOf(run) : x = [form |-> e.form, status |-> e.status]
    OBVIOUS
  <2>2. e \in executions /\ x.form = e.form /\ x.status = e.status
    BY <2>1 DEF ExecutionsOf
  <2>3. e.outbox = IF e.status \in Terminal THEN "SUCCEEDED" ELSE "OPEN"
    BY <1>1 DEF C4Ready, ExecutionVerifies
  <2> QED
    BY <2>2, <2>3 DEF RunInv, RunsKeyed
<1>4. \A v \in VerdictsOf(run) : /\ v.snapshot = EvidenceOf(run)
                                 /\ v.form.selected # {} => AdoptionsOf(run) # {}
  BY <1>1 DEF C4Ready, DecisionVerifies, VerdictsOf
<1>5. VerdictsOf(run) # {}
  BY <1>1 DEF C4Ready
<1> HIDE DEF froze
<1> QED
  BY <1>1, <1>2, <1>3, <1>4, <1>5 DEF BaselineSound

\* Documents are about rows that stay.
LEMMA DocumentsStaySound ==
  ASSUME DocumentsSound, [Next]_vars
  PROVE  DocumentsSound'
<1>1. \A p \in plans : PlanSound(p)'
  <2> SUFFICES ASSUME NEW p \in plans PROVE PlanSound(p)'
    OBVIOUS
  <2>1. PlanSound(p)
    BY DEF DocumentsSound
  <2>2. Designers(p.snapshot)' = Designers(p.snapshot)
    BY DEF Designers, Identities
  <2> QED
    BY <2>1, <2>2, ChainGrows DEF PlanSound, Independent
<1>2. \A a \in assessments : AssessmentSound(a)'
  <2> SUFFICES ASSUME NEW a \in assessments PROVE AssessmentSound(a)'
    OBVIOUS
  <2>1. AssessmentSound(a)
    BY DEF DocumentsSound
  <2>2. Planners(a.snapshot)' = Planners(a.snapshot) /\ DerivedVerdict(a.form)' = DerivedVerdict(a.form)
    BY DEF Planners, Designers, Identities, DerivedVerdict
  <2> QED
    BY <2>1, <2>2, ChainGrows DEF AssessmentSound, Independent
<1>3. \A p \in packs : PackSound(p)'
  <2> SUFFICES ASSUME NEW p \in packs PROVE PackSound(p)'
    OBVIOUS
  <2>1. PackSound(p)
    BY DEF DocumentsSound
  <2>2. Assessors(p.snapshot)' = Assessors(p.snapshot)
    BY DEF Assessors, Planners, Designers, Identities
  <2> QED
    BY <2>1, <2>2, ChainGrows DEF PackSound, Unrelated, Alike
<1>4. ASSUME UNCHANGED <<plans, assessments, packs>> PROVE DocumentsSound'
  BY <1>1, <1>2, <1>3, <1>4 DEF DocumentsSound
<1>5. ASSUME NEW c \in Callers, AdmitPlan(c) PROVE DocumentsSound'
  <2>1. PICK p : p = call[c].row
    OBVIOUS
  <2>2. /\ plans' = plans \cup {p} /\ UNCHANGED <<baselines, assessments, packs>>
        /\ PlanVerifies(p)
    BY <1>5, <2>1 DEF AdmitPlan
  <2>3. PlanSound(p)
    BY <2>2 DEF PlanVerifies, Resolved, PlanSound
  <2>4. Designers(p.snapshot)' = Designers(p.snapshot)
    BY DEF Designers, Identities
  <2>5. PlanSound(p)'
    BY <2>2, <2>3, <2>4 DEF PlanSound, Independent
  <2> QED
    BY <1>1, <1>2, <1>3, <2>2, <2>5 DEF DocumentsSound
<1>6. ASSUME NEW c \in Callers, AdmitAssessment(c) PROVE DocumentsSound'
  <2>1. PICK a : a = call[c].row
    OBVIOUS
  <2>2. /\ assessments' = assessments \cup {a} /\ UNCHANGED <<baselines, plans, packs>>
        /\ AssessmentVerifies(a)
    BY <1>6, <2>1 DEF AdmitAssessment
  <2>3. AssessmentSound(a)
    BY <2>2 DEF AssessmentVerifies, AssessmentSound
  <2>4. Planners(a.snapshot)' = Planners(a.snapshot) /\ DerivedVerdict(a.form)' = DerivedVerdict(a.form)
    BY DEF Planners, Designers, Identities, DerivedVerdict
  <2>5. AssessmentSound(a)'
    BY <2>2, <2>3, <2>4 DEF AssessmentSound, Independent
  <2> QED
    BY <1>1, <1>2, <1>3, <2>2, <2>5 DEF DocumentsSound
<1>7. ASSUME NEW c \in Callers, AdmitPack(c) PROVE DocumentsSound'
  <2>1. PICK p : p = call[c].row
    OBVIOUS
  <2>2. /\ packs' = packs \cup {p} /\ UNCHANGED <<baselines, plans, assessments>>
        /\ PackVerifies(p)
    BY <1>7, <2>1 DEF AdmitPack
  <2>3. PackSound(p)
    BY <2>2 DEF PackVerifies, Packable, PackSound
  <2>4. Assessors(p.snapshot)' = Assessors(p.snapshot)
    BY DEF Assessors, Planners, Designers, Identities
  <2>5. PackSound(p)'
    BY <2>2, <2>3, <2>4 DEF PackSound, Unrelated, Alike
  <2> QED
    BY <1>1, <1>2, <1>3, <2>2, <2>5 DEF DocumentsSound
<1> QED
  BY <1>4, <1>5, <1>6, <1>7 DEF Next, vars, chain, PrepareBaseline, AdmitBaseline, PreparePlan,
     PrepareAssessment, PreparePack, Refuse

LEMMA CurrencyStep ==
  ASSUME CurrencyInv, [Next]_vars
  PROVE  CurrencyInv'
<1>1. RunInv'
  BY CallsStayKept, RunsStayKeyed, DecisionsStaySound, AdoptionsStaySound, ExecutionsStaySound
  DEF CurrencyInv, RunInv
<1>2. DocumentsSound'
  BY DocumentsStaySound DEF CurrencyInv
<1>3. \A b \in baselines : BaselineSound(b)'
  BY BaselineStaysSound DEF CurrencyInv, BaselinesSound
<1>4. BaselinesSound'
  <2>1. ASSUME NEW c \in Callers, AdmitBaseline(c) PROVE BaselinesSound'
    <3>1. PICK b : b = call[c].row
      OBVIOUS
    <3>2. baselines' = baselines \cup {b} /\ BaselineVerifies(b)
      BY <2>1, <3>1 DEF AdmitBaseline
    <3>3. BaselineSound(b)'
      BY <3>2, BaselineStartsSound, BaselineStaysSound DEF CurrencyInv
    <3> QED
      BY <1>3, <3>2, <3>3 DEF BaselinesSound
  <2>2. ASSUME UNCHANGED baselines PROVE BaselinesSound'
    BY <1>3, <2>2 DEF BaselinesSound
  <2> QED
    BY <2>1, <2>2 DEF Next, vars, chain, PrepareBaseline, PreparePlan, AdmitPlan,
       PrepareAssessment, AdmitAssessment, PreparePack, AdmitPack, Refuse
<1> QED
  BY <1>1, <1>2, <1>4 DEF CurrencyInv

LEMMA CurrencyInit == Init => CurrencyInv
<1>1. Idle.stage # "C3"
  BY DEF Idle
<1>2. Init => CallsKept
  BY <1>1 DEF Init, QualificationInit, CallsKept
<1> QED
  BY <1>2 DEF Init, QualificationInit, CurrencyInv, RunInv, RunsKeyed, DecisionsSound,
     AdoptionsSound, ExecutionsSound, BaselinesSound, DocumentsSound

\* A sound baseline verifies while the evidence is what it froze, the executions
\* are where it froze them and none of their effects is given up.
LEMMA BaselineCurrent ==
  ASSUME RunInv, NEW b, BaselineSound(b)
  PROVE  LET run == b.form.run
         IN BaselineVerifies(b) <=>
               /\ EvidenceOf(run) = b.snapshot.evidence
               /\ {[form |-> e.form, status |-> e.status] : e \in ExecutionsOf(run)}
                     = b.snapshot.executions
               /\ \A e \in ExecutionsOf(run) : e.outbox # "DEAD"
<1> DEFINE run == b.form.run
           now == {[form |-> e.form, status |-> e.status] : e \in ExecutionsOf(run)}
<1>1. ASSUME BaselineVerifies(b)
      PROVE  /\ EvidenceOf(run) = b.snapshot.evidence /\ now = b.snapshot.executions
             /\ \A e \in ExecutionsOf(run) : e.outbox # "DEAD"
  <2>1. b.snapshot = C4Snapshot(run) /\ C4Ready(run)
    BY <1>1 DEF BaselineVerifies
  <2>2. EvidenceOf(run) = b.snapshot.evidence /\ now = b.snapshot.executions
    BY <2>1 DEF C4Snapshot
  <2>3. \A e \in ExecutionsOf(run) : e.outbox # "DEAD"
    BY <2>1 DEF C4Ready, ExecutionVerifies
  <2> QED
    BY <2>2, <2>3
<1>2. ASSUME EvidenceOf(run) = b.snapshot.evidence, now = b.snapshot.executions,
             \A e \in ExecutionsOf(run) : e.outbox # "DEAD"
      PROVE  BaselineVerifies(b)
  <2>1. b.snapshot = C4Snapshot(run)
    BY <1>2 DEF BaselineSound, C4Snapshot
  <2>2. \A v \in VerdictsOf(run) : v.snapshot = EvidenceOf(run)
    BY <1>2 DEF BaselineSound
  <2>3. \A v \in VerdictsOf(run) : DecisionVerifies(v)
    BY <2>2, DecisionCurrent DEF RunInv, DecisionsSound, VerdictsOf
  <2>4. \A a \in AdoptionsOf(run) : AdoptionVerifies(a)
    BY <2>2, AdoptionCurrent DEF AdoptionsOf
  <2>5. ASSUME NEW e \in ExecutionsOf(run) PROVE ExecutionVerifies(e)
    <3>1. ExecutionSound(e) /\ e.outbox \in {"OPEN", "SUCCEEDED", "DEAD"}
      BY DEF RunInv, ExecutionsSound, ExecutionSound, ExecutionRow, ExecutionsOf
    <3>2. \A a \in adoptions : a.form.id = e.form.adoption => AdoptionVerifies(a)
      BY <2>4 DEF ExecutionsOf, AdoptionsOf, RunInv, RunsKeyed
    <3>3. e.status \in Terminal => e.outbox = "SUCCEEDED"
      <4> DEFINE x == [form |-> e.form, status |-> e.status]
      <4>1. x \in b.snapshot.executions /\ x.form = e.form /\ x.status = e.status
        BY <1>2
      <4> HIDE DEF x
      <4>2. e \in executions
        BY DEF ExecutionsOf
      <4> QED
        BY <4>1, <4>2 DEF BaselineSound
    <3>4. e.status \notin Terminal => e.outbox = "OPEN"
      BY <1>2, <3>1 DEF ExecutionSound
    <3> QED
      BY <3>1, <3>2, <3>3, <3>4, ExecutionCurrent
  <2>6. C4Ready(run)
    BY <2>3, <2>4, <2>5 DEF C4Ready, BaselineSound
  <2> QED
    BY <2>1, <2>6 DEF BaselineVerifies, BaselineSound
<1> QED
  BY <1>1, <1>2

\* A pack verifies for exactly as long as its evidence, its executions and its
\* name allow, for any documents, callers and order of steps.
THEOREM PacksAreCurrent == Spec => []PackCurrency
<1>1. CurrencyInv => PackCurrency
  <2> SUFFICES ASSUME CurrencyInv, NEW p \in packs
               PROVE  LET b == p.snapshot.snapshot.snapshot
                          run == b.form.run
                      IN PackVerifies(p) <=>
                            /\ EvidenceOf(run) = b.snapshot.evidence
                            /\ {[form |-> e.form, status |-> e.status] : e \in ExecutionsOf(run)}
                                  = b.snapshot.executions
                            /\ \A e \in ExecutionsOf(run) : e.outbox # "DEAD"
                            /\ b \in Resolved(b.form.architecture)
    BY DEF PackCurrency
  <2> DEFINE a == p.snapshot
             q == a.snapshot
             b == q.snapshot
  <2>1. PackSound(p) /\ AssessmentSound(a) /\ PlanSound(q) /\ BaselineSound(b)
    BY DEF CurrencyInv, DocumentsSound, BaselinesSound, PackSound, AssessmentSound, PlanSound
  <2>2. PackVerifies(p) <=> AssessmentVerifies(a)
    BY <2>1 DEF PackVerifies, Packable, PackSound
  <2>3. AssessmentVerifies(a) <=> PlanVerifies(q)
    BY <2>1 DEF AssessmentVerifies, AssessmentSound
  <2>4. PlanVerifies(q) <=> BaselineVerifies(b) /\ b \in Resolved(b.form.architecture)
    BY <2>1 DEF PlanVerifies, PlanSound
  <2> HIDE DEF a, q, b
  <2>5. LET run == b.form.run
        IN BaselineVerifies(b) <=>
              /\ EvidenceOf(run) = b.snapshot.evidence
              /\ {[form |-> e.form, status |-> e.status] : e \in ExecutionsOf(run)}
                    = b.snapshot.executions
              /\ \A e \in ExecutionsOf(run) : e.outbox # "DEAD"
    BY <2>1, BaselineCurrent DEF CurrencyInv
  <2> QED
    BY <2>2, <2>3, <2>4, <2>5 DEF a, q, b
<1> QED
  BY <1>1, CurrencyInit, CurrencyStep, PTL DEF Spec

-----------------------------------------------------------------------------
(* Staleness: evidence is only added, executions only go forward, and names *)
(* only lose their meaning, so that nothing that is stale is good again.    *)

\* The evidence a decision was made on is still there, and no execution is
\* behind where a baseline froze it.
Forward ==
    /\ \A v \in verdicts : v.snapshot \subseteq EvidenceOf(v.form.run)
    /\ \A b \in baselines, e \in executions : \A x \in b.snapshot.executions :
          e.form = x.form => /\ e.status = "REQUESTED" => x.status = "REQUESTED"
                             /\ e.status = "RUNNING" => x.status \in {"REQUESTED", "RUNNING"}

\* What a sound baseline needs to verify.
Undisturbed(b) ==
    /\ EvidenceOf(b.form.run) = b.snapshot.evidence
    /\ {[form |-> e.form, status |-> e.status] : e \in ExecutionsOf(b.form.run)}
          = b.snapshot.executions
    /\ \A e \in ExecutionsOf(b.form.run) : e.outbox # "DEAD"

\* The three ways to verify, of rows that are sound, as facts of every state.
LEMMA DecisionsCurrent ==
    \A v : DecisionSound(v) => (DecisionVerifies(v) <=> v.snapshot = EvidenceOf(v.form.run))
  BY DecisionCurrent

LEMMA AdoptionsCurrent ==
    \A a : RunInv /\ a \in adoptions =>
              (AdoptionVerifies(a) <=>
                  \A v \in VerdictsOf(a.form.run) : v.snapshot = EvidenceOf(a.form.run))
<1> SUFFICES ASSUME RunInv, NEW a \in adoptions
             PROVE  AdoptionVerifies(a) <=>
                      \A v \in VerdictsOf(a.form.run) : v.snapshot = EvidenceOf(a.form.run)
  OBVIOUS
<1>1. ASSUME AdoptionVerifies(a), NEW v \in VerdictsOf(a.form.run)
      PROVE  v.snapshot = EvidenceOf(a.form.run)
  <2>1. PICK w \in verdicts : w.form.run = a.form.run /\ DecisionVerifies(w)
    BY <1>1 DEF AdoptionVerifies
  <2>2. v = w
    BY <2>1 DEF VerdictsOf, RunInv, RunsKeyed
  <2> QED
    BY <2>1, <2>2 DEF DecisionVerifies
<1> QED
  BY <1>1, AdoptionCurrent

LEMMA BaselinesCurrent ==
    \A b : RunInv /\ BaselineSound(b) => (BaselineVerifies(b) <=> Undisturbed(b))
  BY BaselineCurrent DEF Undisturbed

\* The same of the state after a step.
LEMMA CurrentNext ==
    /\ \A v : DecisionSound(v)' => (DecisionVerifies(v)' <=> v.snapshot = EvidenceOf(v.form.run)')
    /\ \A a : RunInv' /\ a \in adoptions' =>
              (AdoptionVerifies(a)' <=>
                  \A v \in VerdictsOf(a.form.run)' : v.snapshot = EvidenceOf(a.form.run)')
    /\ \A b : RunInv' /\ BaselineSound(b)' => (BaselineVerifies(b)' <=> Undisturbed(b)')
<1>1. (\A v : DecisionSound(v) => (DecisionVerifies(v) <=> v.snapshot = EvidenceOf(v.form.run)))'
  BY DecisionsCurrent, PTL
<1>2. (\A a : RunInv /\ a \in adoptions =>
              (AdoptionVerifies(a) <=>
                  \A v \in VerdictsOf(a.form.run) : v.snapshot = EvidenceOf(a.form.run)))'
  BY AdoptionsCurrent, PTL
<1>3. (\A b : RunInv /\ BaselineSound(b) => (BaselineVerifies(b) <=> Undisturbed(b)))'
  BY BaselinesCurrent, PTL
<1> QED
  BY <1>1, <1>2, <1>3

\* Evidence is only added.
LEMMA EvidenceGrows ==
  ASSUME [Next]_vars, NEW run
  PROVE  EvidenceOf(run) \subseteq EvidenceOf(run)'
  BY ChainGrows DEF EvidenceOf, BindingOf, Evidence

\* An admission leaves alone what is below it.
LEMMA BaselineSteps ==
  ASSUME [Next]_vars
  PROVE  baselines' = baselines \/ \E c \in Callers : AdmitBaseline(c)
  BY DEF Next, vars, chain, PrepareBaseline, PreparePlan, AdmitPlan, PrepareAssessment,
     AdmitAssessment, PreparePack, AdmitPack, Refuse

LEMMA ForwardStep ==
  ASSUME CurrencyInv, Forward, [Next]_vars
  PROVE  Forward'
<1> USE DEF Forward
<1>1. \A v \in verdicts' : v.snapshot \subseteq EvidenceOf(v.form.run)'
  <2>1. \A v \in verdicts : v.snapshot \subseteq EvidenceOf(v.form.run)'
    BY EvidenceGrows
  <2>2. ASSUME NEW c \in Callers, AdmitDecision(c)
        PROVE  \A v \in verdicts' : v.snapshot \subseteq EvidenceOf(v.form.run)'
    <3>1. PICK v : v = call[c].row
      OBVIOUS
    <3>2. verdicts' = verdicts \cup {v} /\ v.snapshot = EvidenceOf(v.form.run)
      BY <2>2, <3>1 DEF AdmitDecision, DecisionAdmissible
    <3> QED
      BY <2>1, <3>2, EvidenceGrows
  <2> QED
    BY <2>1, <2>2, RunSteps
<1> DEFINE Behind(x, e) ==
              e.form = x.form => /\ e.status = "REQUESTED" => x.status = "REQUESTED"
                                 /\ e.status = "RUNNING" => x.status \in {"REQUESTED", "RUNNING"}
<1>2. ASSUME baselines' = baselines
      PROVE  \A b \in baselines', e \in executions' : \A x \in b.snapshot.executions : Behind(x, e)
  <2>1. ASSUME NEW f \in Requests, NEW a \in adoptions, NEW d \in Decisions,
               RequestExecution(f, a, d), NEW b \in baselines, NEW x \in b.snapshot.executions
        PROVE  \A e \in executions' : Behind(x, e)
    <3> DEFINE row == [form |-> f, status |-> "REQUESTED", outbox |-> "OPEN", decision |-> d]
    <3>1. /\ executions' = executions \cup {row} /\ row.form = f
          /\ \A e \in executions : e.form.id # f.id
      BY <2>1 DEF RequestExecution
    <3> HIDE DEF row
    <3>2. \E e \in executions : e.form = x.form
      BY DEF CurrencyInv, BaselinesSound, BaselineSound
    <3> QED
      BY <3>1, <3>2
  <2>2. ASSUME NEW e \in executions,
               \/ \E s \in Statuses : AppendTransition(e, s)
               \/ CompleteEffect(e) \/ ExhaustEffect(e),
               NEW b \in baselines, NEW x \in b.snapshot.executions
        PROVE  \A f \in executions' : Behind(x, f)
    <3>1. PICK next :
             /\ executions' = (executions \ {e}) \cup {next} /\ next.form = e.form
             /\ \/ next.status = e.status
                \/ e.status = "REQUESTED" /\ next.status \in {"RUNNING", "FAILED_NO_EFFECT"}
                \/ e.status = "RUNNING" /\ next.status \in Terminal
      BY <2>2, ExecutionMoves DEF CurrencyInv, RunInv, ExecutionsSound, ExecutionSound
    <3>2. Behind(x, next)
      BY <3>1 DEF Terminal
    <3> QED
      BY <3>1, <3>2
  <2> QED
    BY <1>2, <2>1, <2>2, RunSteps
<1>3. ASSUME NEW c \in Callers, AdmitBaseline(c)
      PROVE  \A b \in baselines', e \in executions' : \A x \in b.snapshot.executions : Behind(x, e)
  <2>1. PICK b : b = call[c].row
    OBVIOUS
  <2>2. baselines' = baselines \cup {b} /\ BaselineVerifies(b) /\ executions' = executions
    BY <1>3, <2>1 DEF AdmitBaseline, below, adoption
  <2>3. ASSUME NEW e \in executions, NEW x \in b.snapshot.executions PROVE Behind(x, e)
    <3>1. PICK o \in executions : x.form = o.form /\ x.status = o.status
      <4>1. b.snapshot.executions =
               {[form |-> o.form, status |-> o.status] : o \in ExecutionsOf(b.form.run)}
        BY <2>2 DEF BaselineVerifies, C4Snapshot
      <4>2. PICK o \in ExecutionsOf(b.form.run) : x = [form |-> o.form, status |-> o.status]
        BY <4>1
      <4> QED
        BY <4>2 DEF ExecutionsOf
    <3> QED
      BY <3>1 DEF CurrencyInv, RunInv, RunsKeyed
  <2> QED
    BY <2>2, <2>3
<1> HIDE DEF Behind
<1>4. \A b \in baselines', e \in executions' : \A x \in b.snapshot.executions : Behind(x, e)
  BY <1>2, <1>3, BaselineSteps
<1> QED
  BY <1>1, <1>4 DEF Behind

\* A decision, an adoption or a baseline that verifies after a step did before.
LEMMA DecisionsStale ==
  ASSUME CurrencyInv, Forward, CurrencyInv', [Next]_vars, NEW v \in verdicts, DecisionVerifies(v)'
  PROVE  DecisionVerifies(v)
<1>1. v \in verdicts' /\ DecisionSound(v) /\ DecisionSound(v)'
  BY ChainGrows DEF CurrencyInv, RunInv, DecisionsSound
<1>2. v.snapshot = EvidenceOf(v.form.run)'
  BY <1>1, CurrentNext
<1>3. v.snapshot = EvidenceOf(v.form.run)
  BY <1>2, EvidenceGrows DEF Forward
<1> QED
  BY <1>1, <1>3, DecisionCurrent

LEMMA AdoptionsStale ==
  ASSUME CurrencyInv, Forward, CurrencyInv', [Next]_vars, NEW a \in adoptions, AdoptionVerifies(a)'
  PROVE  AdoptionVerifies(a)
<1>1. a \in adoptions' /\ AdoptionSound(a)
  BY ChainGrows DEF CurrencyInv, RunInv, AdoptionsSound
<1>2. VerdictsOf(a.form.run)' = VerdictsOf(a.form.run)
  <2>1. VerdictsOf(a.form.run) # {}
    BY <1>1 DEF AdoptionSound, VerdictsOf
  <2> QED
    BY <2>1, VerdictsStay
<1>3. \A v \in VerdictsOf(a.form.run) : v.snapshot = EvidenceOf(a.form.run)'
  <2>1. RunInv' /\ a \in adoptions' /\ AdoptionVerifies(a)'
    BY <1>1 DEF CurrencyInv
  <2>2. \A v \in VerdictsOf(a.form.run)' : v.snapshot = EvidenceOf(a.form.run)'
    BY <2>1, CurrentNext
  <2> QED
    BY <1>2, <2>2
<1>4. ASSUME NEW v \in VerdictsOf(a.form.run) PROVE v.snapshot = EvidenceOf(a.form.run)
  <2>1. v.snapshot \subseteq EvidenceOf(a.form.run)
    BY DEF Forward, VerdictsOf
  <2>2. EvidenceOf(a.form.run) \subseteq EvidenceOf(a.form.run)'
    BY EvidenceGrows
  <2> QED
    BY <1>3, <2>1, <2>2
<1> QED
  BY <1>4, AdoptionCurrent DEF CurrencyInv

LEMMA BaselinesStale ==
  ASSUME CurrencyInv, Forward, CurrencyInv', [Next]_vars, NEW b \in baselines, BaselineVerifies(b)'
  PROVE  BaselineVerifies(b)
<1> DEFINE run == b.form.run
           P(x) == [form |-> x.form, status |-> x.status]
<1>1. BaselineSound(b) /\ BaselineSound(b)'
  BY ChainGrows DEF CurrencyInv, BaselinesSound
<1>2. Undisturbed(b)'
  BY <1>1, CurrentNext DEF CurrencyInv
<1>3. EvidenceOf(run) = b.snapshot.evidence
  <2>1. PICK v \in VerdictsOf(run) : v.snapshot = b.snapshot.evidence
    BY <1>1 DEF BaselineSound
  <2>2. v.snapshot \subseteq EvidenceOf(run)
    BY DEF Forward, VerdictsOf
  <2>3. EvidenceOf(run)' = b.snapshot.evidence
    BY <1>2 DEF Undisturbed
  <2> QED
    BY <2>1, <2>2, <2>3, EvidenceGrows
<1>4. AdoptionsOf(run)' = AdoptionsOf(run)
  BY <1>1, AdoptionsStay DEF BaselineSound
<1> DEFINE Of(e) == \E a \in AdoptionsOf(run) : a.form.id = e.form.adoption
<1>5. /\ ExecutionsOf(run) = {e \in executions : Of(e)}
      /\ ExecutionsOf(run)' = {e \in executions' : Of(e)}
  BY <1>4 DEF ExecutionsOf
<1>6. /\ {P(e) : e \in ExecutionsOf(run)'} = b.snapshot.executions
      /\ \A e \in ExecutionsOf(run)' : e.outbox # "DEAD"
  BY <1>2 DEF Undisturbed
<1> DEFINE Goal == /\ {P(e) : e \in ExecutionsOf(run)} = b.snapshot.executions
                   /\ \A e \in ExecutionsOf(run) : e.outbox # "DEAD"
<1>7. ASSUME ExecutionsOf(run)' = ExecutionsOf(run) PROVE Goal
  BY <1>6, <1>7
<1>8. ASSUME NEW f \in Requests, NEW a \in adoptions, NEW d \in Decisions,
             RequestExecution(f, a, d)
      PROVE  Goal
  <2>1. PICK row : row = [form |-> f, status |-> "REQUESTED", outbox |-> "OPEN", decision |-> d]
    OBVIOUS
  <2>2. /\ executions' = executions \cup {row} /\ row.form = f
        /\ \A e \in executions : e.form.id # f.id
    BY <1>8, <2>1 DEF RequestExecution
  <2>3. ~Of(row)
    <3> SUFFICES ASSUME Of(row) PROVE FALSE
      OBVIOUS
    <3>1. P(row) \in b.snapshot.executions /\ P(row).form = f
      BY <1>5, <1>6, <2>2
    <3>2. \E e \in executions : e.form = f
      BY <1>1, <3>1 DEF BaselineSound
    <3> QED
      BY <2>2, <3>2
  <2> QED
    BY <1>5, <1>7, <2>2, <2>3
<1>9. ASSUME NEW e \in executions,
             \/ \E s \in Statuses : AppendTransition(e, s)
             \/ CompleteEffect(e) \/ ExhaustEffect(e)
      PROVE  Goal
  <2>1. PICK next :
           /\ executions' = (executions \ {e}) \cup {next} /\ next.form = e.form
           /\ e.outbox = "DEAD" => next.outbox = "DEAD"
           /\ \/ next.status = e.status
              \/ e.status = "REQUESTED" /\ next.status \in {"RUNNING", "FAILED_NO_EFFECT"}
              \/ e.status = "RUNNING" /\ next.status \in Terminal
    BY <1>9, ExecutionMoves DEF CurrencyInv, RunInv, ExecutionsSound, ExecutionSound
  <2>2. Of(next) <=> Of(e)
    BY <2>1
  <2>3. CASE ~Of(e)
    BY <1>5, <1>7, <2>1, <2>2, <2>3
  <2>4. CASE Of(e)
    <3>1. ExecutionsOf(run)' = (ExecutionsOf(run) \ {e}) \cup {next} /\ e \in ExecutionsOf(run)
      BY <1>5, <2>1, <2>2, <2>4
    <3>2. P(next) \in b.snapshot.executions /\ P(next).form = e.form /\ P(next).status = next.status
      BY <1>6, <2>1, <3>1
    <3>3. next.status = e.status
      BY <2>1, <3>2 DEF Forward, Terminal
    <3>4. P(next) = P(e)
      BY <2>1, <3>3
    <3> HIDE DEF P
    <3>5. {P(x) : x \in ExecutionsOf(run)} = {P(x) : x \in ExecutionsOf(run)'}
      BY <3>1, <3>4
    <3>6. \A x \in ExecutionsOf(run) : x.outbox # "DEAD"
      BY <1>6, <2>1, <3>1
    <3> QED
      BY <1>6, <3>5, <3>6
  <2> QED
    BY <2>3, <2>4
<1>10. Goal
  BY <1>5, <1>7, <1>8, <1>9, RunSteps
<1>11. Undisturbed(b)
  BY <1>3, <1>10 DEF Undisturbed
<1> QED
  BY <1>1, <1>11, BaselinesCurrent DEF CurrencyInv

\* A document verifies while the documents below it do, and their baseline is
\* still the one its name means.
LEMMA DocumentsCurrent ==
    /\ \A p : PlanSound(p) =>
          (PlanVerifies(p) <=> /\ BaselineVerifies(p.snapshot)
                               /\ p.snapshot \in Resolved(p.form.architecture))
    /\ \A a : AssessmentSound(a) => (AssessmentVerifies(a) <=> PlanVerifies(a.snapshot))
    /\ \A p : PackSound(p) => (PackVerifies(p) <=> AssessmentVerifies(p.snapshot))
<1>1. ASSUME NEW p, PlanSound(p)
      PROVE  PlanVerifies(p) <=> /\ BaselineVerifies(p.snapshot)
                                 /\ p.snapshot \in Resolved(p.form.architecture)
  BY <1>1 DEF PlanSound, PlanVerifies
<1>2. ASSUME NEW a, AssessmentSound(a) PROVE AssessmentVerifies(a) <=> PlanVerifies(a.snapshot)
  BY <1>2 DEF AssessmentSound, AssessmentVerifies
<1>3. ASSUME NEW p, PackSound(p) PROVE PackVerifies(p) <=> AssessmentVerifies(p.snapshot)
  BY <1>3 DEF PackSound, PackVerifies, Packable
<1> QED
  BY <1>1, <1>2, <1>3

LEMMA DocumentsCurrentNext ==
    /\ \A p : PlanSound(p)' =>
          (PlanVerifies(p)' <=> /\ BaselineVerifies(p.snapshot)'
                                /\ p.snapshot \in Resolved(p.form.architecture)')
    /\ \A a : AssessmentSound(a)' => (AssessmentVerifies(a)' <=> PlanVerifies(a.snapshot)')
    /\ \A p : PackSound(p)' => (PackVerifies(p)' <=> AssessmentVerifies(p.snapshot)')
<1>1. (\A p : PlanSound(p) =>
          (PlanVerifies(p) <=> /\ BaselineVerifies(p.snapshot)
                               /\ p.snapshot \in Resolved(p.form.architecture)))'
  BY DocumentsCurrent, PTL
<1>2. (\A a : AssessmentSound(a) => (AssessmentVerifies(a) <=> PlanVerifies(a.snapshot)))'
  BY DocumentsCurrent, PTL
<1>3. (\A p : PackSound(p) => (PackVerifies(p) <=> AssessmentVerifies(p.snapshot)))'
  BY DocumentsCurrent, PTL
<1> QED
  BY <1>1, <1>2, <1>3

LEMMA PlansStale ==
  ASSUME CurrencyInv, Forward, CurrencyInv', [Next]_vars, NEW p \in plans, PlanVerifies(p)'
  PROVE  PlanVerifies(p)
<1> DEFINE b == p.snapshot
           name == p.form.architecture
<1>1. p \in plans' /\ PlanSound(p) /\ PlanSound(p)'
  BY ChainGrows DEF CurrencyInv, DocumentsSound
<1>2. BaselineVerifies(b)' /\ b \in Resolved(name)'
  BY <1>1, DocumentsCurrentNext
<1>3. b \in baselines
  BY <1>1 DEF PlanSound
<1>4. BaselineVerifies(b)
  BY <1>2, <1>3, BaselinesStale
<1>5. b \in Resolved(name)
  BY <1>2, <1>3, ChainGrows DEF Resolved
<1> QED
  BY <1>1, <1>4, <1>5, DocumentsCurrent

LEMMA AssessmentsStale ==
  ASSUME CurrencyInv, Forward, CurrencyInv', [Next]_vars, NEW a \in assessments,
         AssessmentVerifies(a)'
  PROVE  AssessmentVerifies(a)
<1>1. a \in assessments' /\ AssessmentSound(a) /\ AssessmentSound(a)'
  BY ChainGrows DEF CurrencyInv, DocumentsSound
<1>2. PlanVerifies(a.snapshot)' /\ a.snapshot \in plans
  BY <1>1, DocumentsCurrentNext DEF AssessmentSound
<1>3. PlanVerifies(a.snapshot)
  BY <1>2, PlansStale
<1> QED
  BY <1>1, <1>3, DocumentsCurrent

LEMMA PacksStale ==
  ASSUME CurrencyInv, Forward, CurrencyInv', [Next]_vars, NEW p \in packs, PackSound(p)',
         PackVerifies(p)'
  PROVE  PackVerifies(p)
<1>1. PackSound(p)
  BY DEF CurrencyInv, DocumentsSound
<1>2. AssessmentVerifies(p.snapshot)' /\ p.snapshot \in assessments
  BY <1>1, DocumentsCurrentNext DEF PackSound
<1>3. AssessmentVerifies(p.snapshot)
  BY <1>2, AssessmentsStale
<1> QED
  BY <1>1, <1>3, DocumentsCurrent

\* A step that leaves what is below alone leaves what verifies.
LEMMA BaselineStands ==
  ASSUME RunInv, RunInv', UNCHANGED below, NEW b, BaselineSound(b), BaselineSound(b)',
         BaselineVerifies(b)
  PROVE  BaselineVerifies(b)'
<1>1. Undisturbed(b)
  BY BaselinesCurrent
<1>2. Undisturbed(b)'
  BY <1>1 DEF Undisturbed, EvidenceOf, BindingOf, Evidence, ExecutionsOf, AdoptionsOf, below,
     laboratory, adoption
<1> QED
  BY <1>2, CurrentNext

LEMMA PlanStands ==
  ASSUME CurrencyInv, CurrencyInv', UNCHANGED <<below, baselines>>,
         NEW p, PlanSound(p), PlanSound(p)', PlanVerifies(p)
  PROVE  PlanVerifies(p)'
<1>1. BaselineVerifies(p.snapshot) /\ p.snapshot \in Resolved(p.form.architecture)
  BY DocumentsCurrent
<1>2. p.snapshot \in baselines /\ p.snapshot \in baselines'
  BY DEF PlanSound
<1>3. BaselineSound(p.snapshot) /\ BaselineSound(p.snapshot)'
  BY <1>2 DEF CurrencyInv, BaselinesSound
<1>4. BaselineVerifies(p.snapshot)'
  BY <1>1, <1>3, BaselineStands DEF CurrencyInv
<1>5. p.snapshot \in Resolved(p.form.architecture)'
  BY <1>1 DEF Resolved
<1> QED
  BY <1>4, <1>5, DocumentsCurrentNext

LEMMA AssessmentStands ==
  ASSUME CurrencyInv, CurrencyInv', UNCHANGED <<below, baselines, plans>>,
         NEW a, AssessmentSound(a), AssessmentSound(a)', AssessmentVerifies(a)
  PROVE  AssessmentVerifies(a)'
<1>1. PlanVerifies(a.snapshot) /\ a.snapshot \in plans /\ a.snapshot \in plans'
  BY DocumentsCurrent DEF AssessmentSound
<1>2. PlanSound(a.snapshot) /\ PlanSound(a.snapshot)'
  BY <1>1 DEF CurrencyInv, DocumentsSound
<1>3. PlanVerifies(a.snapshot)'
  BY <1>1, <1>2, PlanStands
<1> QED
  BY <1>3, DocumentsCurrentNext

\* What adds a document.
LEMMA DocumentSteps ==
  ASSUME [Next]_vars
  PROVE  /\ plans' = plans \/ \E c \in Callers : AdmitPlan(c)
         /\ assessments' = assessments \/ \E c \in Callers : AdmitAssessment(c)
         /\ packs' = packs \/ \E c \in Callers : AdmitPack(c)
  BY DEF Next, vars, chain, PrepareBaseline, AdmitBaseline, PreparePlan, AdmitPlan,
     PrepareAssessment, AdmitAssessment, PreparePack, AdmitPack, Refuse

\* A new row verifies.
LEMMA DecisionsStart ==
  ASSUME CurrencyInv, CurrencyInv', [Next]_vars, NEW v \in verdicts' \ verdicts
  PROVE  DecisionVerifies(v)'
<1>1. PICK c \in Callers : AdmitDecision(c)
  BY RunSteps
<1>2. v = call[c].row
  BY <1>1 DEF AdmitDecision
<1>3. v.snapshot = EvidenceOf(v.form.run) /\ UNCHANGED laboratory
  BY <1>1, <1>2 DEF AdmitDecision, DecisionAdmissible
<1>4. v.snapshot = EvidenceOf(v.form.run)'
  BY <1>3 DEF EvidenceOf, BindingOf, Evidence, laboratory
<1>5. DecisionSound(v)'
  BY DEF CurrencyInv, RunInv, DecisionsSound
<1> QED
  BY <1>4, <1>5, CurrentNext

LEMMA AdoptionsStart ==
  ASSUME CurrencyInv, CurrencyInv', [Next]_vars, NEW a \in adoptions' \ adoptions
  PROVE  AdoptionVerifies(a)'
<1>1. PICK f \in Adoptions, v \in verdicts, d \in Decisions :
              \E candidate \in v.form.selected : AuthorizeAdoption(f, v, candidate, d)
  BY RunSteps
<1>2. PICK candidate \in v.form.selected : AuthorizeAdoption(f, v, candidate, d)
  BY <1>1
<1> DEFINE row == [form |-> f, verdict |-> v.form.id, candidate |-> candidate, decision |-> d]
<1>3. a = row
  BY <1>2 DEF AuthorizeAdoption
<1>4. a.form = f
  BY <1>3
<1>5. /\ DecisionVerifies(v) /\ v.form.run = a.form.run
      /\ UNCHANGED <<laboratory, verdicts>>
  BY <1>2, <1>4 DEF AuthorizeAdoption
<1> HIDE DEF row
<1>6. VerdictsOf(a.form.run)' = {v}
  BY <1>5 DEF CurrencyInv, RunInv, RunsKeyed, VerdictsOf
<1>7. v.snapshot = EvidenceOf(a.form.run)'
  BY <1>5 DEF DecisionVerifies, EvidenceOf, BindingOf, Evidence, laboratory
<1> QED
  BY <1>6, <1>7, CurrentNext DEF CurrencyInv

LEMMA BaselinesStart ==
  ASSUME CurrencyInv, CurrencyInv', [Next]_vars, NEW b \in baselines' \ baselines
  PROVE  BaselineVerifies(b)'
<1>1. PICK c \in Callers : AdmitBaseline(c)
  BY BaselineSteps
<1>2. b = call[c].row /\ UNCHANGED below /\ BaselineVerifies(b)
  BY <1>1 DEF AdmitBaseline
<1>3. BaselineSound(b) /\ BaselineSound(b)'
  BY <1>2, BaselineStartsSound DEF CurrencyInv, BaselinesSound
<1> QED
  BY <1>2, <1>3, BaselineStands DEF CurrencyInv

LEMMA PlansStart ==
  ASSUME CurrencyInv, CurrencyInv', [Next]_vars, NEW p \in plans' \ plans
  PROVE  PlanVerifies(p)'
<1>1. PICK c \in Callers : AdmitPlan(c)
  BY DocumentSteps
<1>2. p = call[c].row /\ UNCHANGED <<below, baselines>> /\ PlanVerifies(p)
  BY <1>1 DEF AdmitPlan
<1>3. PlanSound(p) /\ PlanSound(p)'
  BY <1>2 DEF PlanVerifies, Resolved, PlanSound, CurrencyInv, DocumentsSound
<1> QED
  BY <1>2, <1>3, PlanStands

LEMMA AssessmentsStart ==
  ASSUME CurrencyInv, CurrencyInv', [Next]_vars, NEW a \in assessments' \ assessments
  PROVE  AssessmentVerifies(a)'
<1>1. PICK c \in Callers : AdmitAssessment(c)
  BY DocumentSteps
<1>2. a = call[c].row /\ UNCHANGED <<below, baselines, plans>> /\ AssessmentVerifies(a)
  BY <1>1 DEF AdmitAssessment
<1>3. AssessmentSound(a) /\ AssessmentSound(a)'
  BY <1>2 DEF AssessmentVerifies, AssessmentSound, CurrencyInv, DocumentsSound
<1> QED
  BY <1>2, <1>3, AssessmentStands

LEMMA PacksStart ==
  ASSUME CurrencyInv, CurrencyInv', [Next]_vars, NEW p \in packs' \ packs
  PROVE  PackVerifies(p)'
<1>1. PICK c \in Callers : AdmitPack(c)
  BY DocumentSteps
<1>2. p = call[c].row /\ UNCHANGED <<below, baselines, plans, assessments>> /\ PackVerifies(p)
  BY <1>1 DEF AdmitPack
<1>3. p.snapshot \in assessments /\ p.snapshot \in assessments' /\ AssessmentVerifies(p.snapshot)
  BY <1>2 DEF PackVerifies, Packable
<1>4. AssessmentSound(p.snapshot) /\ AssessmentSound(p.snapshot)'
  BY <1>3 DEF CurrencyInv, DocumentsSound
<1>5. AssessmentVerifies(p.snapshot)'
  BY <1>2, <1>3, <1>4, AssessmentStands
<1>6. PackSound(p)'
  BY DEF CurrencyInv, DocumentsSound
<1> QED
  BY <1>5, <1>6, DocumentsCurrentNext

\* Whatever is decided, authorized, frozen, planned, assessed or packed verifies
\* when it appears, and nothing that has gone stale verifies again, for any
\* documents, callers and order of steps.
THEOREM StalenessIsFinal == Spec => VerifiesUntilStale
<1> DEFINE Stale == /\ StaleForever(verdicts, DecisionVerifies)
                    /\ StaleForever(adoptions, AdoptionVerifies)
                    /\ StaleForever(baselines, BaselineVerifies)
                    /\ StaleForever(plans, PlanVerifies)
                    /\ StaleForever(assessments, AssessmentVerifies)
                    /\ StaleForever(packs, PackVerifies)
<1>1. Init => CurrencyInv /\ Forward
  BY CurrencyInit DEF Init, QualificationInit, Forward
<1>2. CurrencyInv /\ Forward /\ [Next]_vars => CurrencyInv' /\ Forward'
  BY CurrencyStep, ForwardStep
<1>3. CurrencyInv /\ Forward /\ CurrencyInv' /\ [Next]_vars => Stale
  <2> SUFFICES ASSUME CurrencyInv, Forward, CurrencyInv', [Next]_vars PROVE Stale
    OBVIOUS
  <2>1. StaleForever(verdicts, DecisionVerifies)
    BY DecisionsStart, DecisionsStale DEF StaleForever
  <2>2. StaleForever(adoptions, AdoptionVerifies)
    BY AdoptionsStart, AdoptionsStale DEF StaleForever
  <2>3. StaleForever(baselines, BaselineVerifies)
    BY BaselinesStart, BaselinesStale DEF StaleForever
  <2>4. StaleForever(plans, PlanVerifies)
    BY PlansStart, PlansStale DEF StaleForever
  <2>5. StaleForever(assessments, AssessmentVerifies)
    BY AssessmentsStart, AssessmentsStale DEF StaleForever
  <2>6. StaleForever(packs, PackVerifies)
    <3>1. \A p \in packs : PackSound(p)'
      <4>1. packs \subseteq packs'
        BY DocumentSteps DEF AdmitPack
      <4> QED
        BY <4>1 DEF CurrencyInv, DocumentsSound
    <3> QED
      BY <3>1, PacksStart, PacksStale DEF StaleForever
  <2> QED
    BY <2>1, <2>2, <2>3, <2>4, <2>5, <2>6
<1> HIDE DEF Stale
<1>4. CurrencyInv /\ Forward /\ CurrencyInv' /\ [Next]_vars => [Stale]_vars
  BY <1>3
<1>5. Spec => [][Stale]_vars
  BY <1>1, <1>2, <1>4, PTL DEF Spec
<1> QED
  BY <1>5 DEF VerifiesUntilStale, Stale

-----------------------------------------------------------------------------
(* The executions as the record that the service with its workers keeps    *)

\* An id is shown the status and the effect of its one execution.
LEMMA ExecutionShown ==
  ASSUME RunsKeyed, NEW e \in executions
  PROVE  StatusOf(e.form.id) = e.status /\ OutboxOf(e.form.id) = e.outbox
<1>1. ExecutionOf(e.form.id) = {e}
  BY DEF ExecutionOf, RunsKeyed
<1> QED
  BY <1>1 DEF StatusOf, OutboxOf

\* What is shown of an execution depends on its own row only.
LEMMA ShownAlike ==
  ASSUME NEW n, ExecutionOf(n)' = ExecutionOf(n)
  PROVE  StatusOf(n)' = StatusOf(n) /\ OutboxOf(n)' = OutboxOf(n)
  BY DEF StatusOf, OutboxOf

\* An execution that moves is shown to have moved, and no other.
LEMMA MoveShown ==
  ASSUME RunsKeyed, RunsKeyed', NEW e \in executions, NEW next,
         executions' = (executions \ {e}) \cup {next}, next.form = e.form
  PROVE  /\ StatusOf(e.form.id)' = next.status /\ OutboxOf(e.form.id)' = next.outbox
         /\ \A n \in RequestIds \ {e.form.id} :
               StatusOf(n)' = StatusOf(n) /\ OutboxOf(n)' = OutboxOf(n)
<1>1. ExecutionOf(e.form.id)' = {next}
  BY DEF ExecutionOf, RunsKeyed
<1>2. StatusOf(e.form.id)' = next.status /\ OutboxOf(e.form.id)' = next.outbox
  BY <1>1 DEF StatusOf, OutboxOf
<1>3. ASSUME NEW n \in RequestIds \ {e.form.id}
      PROVE  StatusOf(n)' = StatusOf(n) /\ OutboxOf(n)' = OutboxOf(n)
  <2>1. ExecutionOf(n)' = ExecutionOf(n)
    BY DEF ExecutionOf
  <2> QED
    BY <2>1, ShownAlike
<1> QED
  BY <1>2, <1>3

\* Every step of the services is one of the record, or shows nothing of it.
LEMMA RecordStep ==
  ASSUME RunsKeyed, RunsKeyed', ExecutionsSound, [Next]_vars
  PROVE  [Record!Next]_(Record!records)
<1>1. CASE executions' = executions
  <2>1. \A n \in RequestIds : StatusOf(n)' = StatusOf(n) /\ OutboxOf(n)' = OutboxOf(n)
    BY <1>1, ShownAlike DEF ExecutionOf
  <2> QED
    BY <2>1 DEF Record!records
<1>2. ASSUME NEW f \in Requests, NEW a \in adoptions, NEW d \in Decisions,
             RequestExecution(f, a, d)
      PROVE  Record!Next
  <2> DEFINE row == [form |-> f, status |-> "REQUESTED", outbox |-> "OPEN", decision |-> d]
  <2>1. /\ executions' = executions \cup {row} /\ \A e \in executions : e.form.id # f.id
        /\ row.form = f /\ row.status = "REQUESTED" /\ row.outbox = "OPEN"
    BY <1>2 DEF RequestExecution
  <2> HIDE DEF row
  <2>2. ExecutionOf(f.id) = {} /\ ExecutionOf(f.id)' = {row}
    BY <2>1 DEF ExecutionOf
  <2>3. /\ StatusOf(f.id) = "NONE" /\ OutboxOf(f.id) = "NONE"
        /\ StatusOf(f.id)' = "REQUESTED" /\ OutboxOf(f.id)' = "OPEN"
    BY <2>1, <2>2 DEF StatusOf, OutboxOf
  <2>4. ASSUME NEW n \in RequestIds \ {f.id}
        PROVE  StatusOf(n)' = StatusOf(n) /\ OutboxOf(n)' = OutboxOf(n)
    <3>1. ExecutionOf(n)' = ExecutionOf(n)
      BY <2>1 DEF ExecutionOf
    <3> QED
      BY <3>1, ShownAlike
  <2>5. f.id \in RequestIds
    BY DEF RequestIds
  <2>6. Record!Request(f.id)
    BY <2>3, <2>4, <2>5 DEF Record!Request
  <2> QED
    BY <2>5, <2>6 DEF Record!Next
<1>3. ASSUME NEW e \in executions,
             \/ \E s \in Statuses : AppendTransition(e, s)
             \/ CompleteEffect(e) \/ ExhaustEffect(e)
      PROVE  Record!Next
  <2>1. e \in ExecutionRow /\ e.form.id \in RequestIds
    BY DEF ExecutionsSound, ExecutionSound, ExecutionRow, RequestIds
  <2> DEFINE n == e.form.id
  <2>2. StatusOf(n) = e.status /\ OutboxOf(n) = e.outbox
    BY ExecutionShown
  <2>3. n \in RequestIds
    BY <2>1
  <2>4. ASSUME NEW next, executions' = (executions \ {e}) \cup {next}, next.form = e.form
        PROVE  /\ StatusOf(n)' = next.status /\ OutboxOf(n)' = next.outbox
               /\ \A k \in RequestIds \ {n} :
                     StatusOf(k)' = StatusOf(k) /\ OutboxOf(k)' = OutboxOf(k)
    BY <2>4, MoveShown
  <2> HIDE DEF n
  <2>5. CASE \E s \in Statuses : AppendTransition(e, s)
    <3>1. PICK s \in Statuses : AppendTransition(e, s)
      BY <2>5
    <3>2. PICK next : next = [e EXCEPT !.status = s]
      OBVIOUS
    <3>3. next.form = e.form /\ next.status = s /\ next.outbox = e.outbox
      BY <2>1, <3>2 DEF ExecutionRow
    <3>4. /\ \/ e.status = "REQUESTED" /\ s \in {"RUNNING", "FAILED_NO_EFFECT"}
             \/ e.status = "RUNNING" /\ s \in Terminal
          /\ executions' = (executions \ {e}) \cup {next}
      BY <3>1, <3>2, QualificationAssumption DEF AppendTransition, Advance
    <3>5. Record!Advance(n, s)
      BY <2>2, <2>3, <2>4, <3>3, <3>4 DEF Record!Advance, Record!Terminal, Terminal
    <3>6. s \in {"RUNNING"} \cup Record!Terminal
      BY <3>4 DEF Record!Terminal, Terminal
    <3> QED
      BY <2>3, <3>5, <3>6 DEF Record!Next
  <2>6. CASE CompleteEffect(e)
    <3>1. PICK next : next = [e EXCEPT !.outbox = "SUCCEEDED"]
      OBVIOUS
    <3>2. next.form = e.form /\ next.status = e.status /\ next.outbox = "SUCCEEDED"
      BY <2>1, <3>1 DEF ExecutionRow
    <3>3. /\ e.outbox = "OPEN" /\ e.status \in Terminal
          /\ executions' = (executions \ {e}) \cup {next}
      BY <2>6, <3>1 DEF CompleteEffect, Advance
    <3>4. Record!Complete(n)
      BY <2>2, <2>3, <2>4, <3>2, <3>3 DEF Record!Complete, Record!Terminal, Terminal
    <3> QED
      BY <2>3, <3>4 DEF Record!Next
  <2>7. CASE ExhaustEffect(e)
    <3>1. PICK next : next = [e EXCEPT !.outbox = "DEAD"]
      OBVIOUS
    <3>2. next.form = e.form /\ next.status = e.status /\ next.outbox = "DEAD"
      BY <2>1, <3>1 DEF ExecutionRow
    <3>3. e.outbox = "OPEN" /\ executions' = (executions \ {e}) \cup {next}
      BY <2>7, <3>1 DEF ExhaustEffect, Advance
    <3>4. Record!Exhaust({n})
      BY <2>2, <2>3, <2>4, <3>2, <3>3 DEF Record!Exhaust
    <3> QED
      BY <2>3, <3>4 DEF Record!Next
  <2> QED
    BY <1>3, <2>5, <2>6, <2>7
<1> QED
  BY <1>1, <1>2, <1>3, RunSteps

\* What the architecture stages are shown of executions is a record such as the
\* service keeps with its workers: the same ExecutionRecord, for any requests.
THEOREM ChainKeepsRecord == Spec => KeepsRecord
<1>1. Init => Record!Init
  BY DEF Init, QualificationInit, Record!Init, StatusOf, OutboxOf, ExecutionOf
<1>2. CurrencyInv => RunsKeyed /\ ExecutionsSound
  BY DEF CurrencyInv, RunInv
<1>3. CurrencyInv /\ [Next]_vars => CurrencyInv' /\ [Record!Next]_(Record!records)
  BY <1>2, CurrencyStep, RecordStep DEF CurrencyInv, RunInv
<1> QED
  BY <1>1, <1>3, CurrencyInit, PTL DEF Spec, KeepsRecord, Record!Spec
=============================================================================
