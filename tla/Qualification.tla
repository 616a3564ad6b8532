--------------------------- MODULE Qualification ----------------------------
(***************************************************************************)
(* The C3 services: the qualification laboratory (qualification.py), the   *)
(* gate that binds a laboratory run to a C2 certificate                    *)
(* (qualification_gate.py), the signed decision over its evidence          *)
(* (qualification_decision.py), the authorization to adopt the selected    *)
(* candidate (adoption.py), and of its execution (adoption_execution.py,   *)
(* modelled in AdoptionExecution) what the stages above read.              *)
(*                                                                         *)
(* Rows are never updated or deleted.  What a caller brings, signed or     *)
(* not, is a form: the constants say which forms may be brought.  A digest *)
(* stands for the rows it was taken of; a signature verifies.  A call with *)
(* an id and material that are stored already changes nothing, so it is    *)
(* not a step.  Timestamps are the caller's and only refuse calls, but for *)
(* an artifact dated before the binding, which verify reports.             *)
(***************************************************************************)
EXTENDS ConsumedDecisions, FiniteSets

CONSTANTS Certificates,  \* C2 certificates over 800 identities or more
          Labs,          \* forms of create_run
          Artifacts,     \* forms of record_artifact
          Starts,        \* forms of start
          Verdicts,      \* signed C3 decisions, but for the evidence they name
          Adoptions,     \* forms of authorize_adoption
          Requests,      \* forms of request_execution
          Endings,       \* how an execution may end
          Callers        \* processes that admit signed material

Kinds == {"CANDIDATE", "EVALUATION", "DECISION", "ADOPTION"}
Terminal == {"SUCCEEDED", "FAILED_NO_EFFECT", "FAILED_ROLLED_BACK", "ROLLBACK_FAILED"}
Statuses == {"REQUESTED", "RUNNING"} \cup Terminal

\* early: the artifact is dated before the laboratory run was bound.
\* selected: the artifact id, or nothing for C3_NO_SELECTION.
ASSUME QualificationAssumption ==
    /\ Certificates \subseteq [id : Names, certifier : Actors]
    /\ Labs \subseteq [id : Names, by : Actors]
    /\ Artifacts \subseteq [id : Names, lab : Names, kind : Kinds, by : Actors,
                            early : BOOLEAN]
    /\ Starts \subseteq [id : Names, lab : Names, certificate : Names, by : Actors]
    /\ Verdicts \subseteq [id : Names, run : Names, selected : SUBSET Names,
                           maker : Actors, by : Actors]
    /\ \A v \in Verdicts : \A x, y \in v.selected : x = y
    /\ Adoptions \subseteq [id : Names, run : Names, rollback : Names, by : Actors]
    /\ Requests \subseteq [id : Names, adoption : Names, plan : Names, by : Actors]
    /\ Endings \subseteq Terminal

VARIABLES labs,        \* qualification_runs
          artifacts,   \* qualification_artifacts
          bindings,    \* c3_qualification_bindings
          verdicts,    \* c3_decisions and c3_decision_evidence
          adoptions,   \* c3_adoptions
          executions,  \* c3_adoption_execution_requests and their last transition
          call         \* call[c]: the admission that c is in the middle of

laboratory == <<labs, artifacts, bindings>>
adoption == <<adoptions, executions, consumed>>

\* The row that a signed form becomes with the rows it was signed about.
Row(form, snapshot) == [form |-> form, snapshot |-> snapshot]

VerdictRow == [form : Verdicts, snapshot : SUBSET Artifacts]
AdoptionRow == [form : Adoptions, verdict : Names, candidate : Names, decision : Decisions]
ExecutionRow == [form : Requests, status : Statuses, outbox : {"OPEN", "SUCCEEDED", "DEAD"},
                 decision : Decisions]

\* An admission reads everything it depends on and checks its payload, then does
\* both again in its transaction: between the two, others write.
Idle == [stage |-> "IDLE"]

Enter(c, stage, row) ==
    /\ call[c] = Idle
    /\ call' = [call EXCEPT ![c] = [stage |-> stage, row |-> row]]

Leave(c) == call' = [call EXCEPT ![c] = Idle]

-----------------------------------------------------------------------------
(* The laboratory and its gate                                             *)

Evidence(lab) == {a \in artifacts : a.lab = lab}

BindingOf(run) == {b \in bindings : b.id = run}

EvidenceOf(run) == UNION {Evidence(b.lab) : b \in BindingOf(run)}

\* create_run
CreateRun(f) ==
    /\ \A l \in labs : l.id # f.id
    /\ labs' = labs \cup {f}
    /\ UNCHANGED <<artifacts, bindings, verdicts, adoption, call>>

\* record_artifact: whoever knows the run may add to it, bound and decided or not.
RecordArtifact(f) ==
    /\ \E l \in labs : l.id = f.lab
    /\ \A a \in artifacts : a.id # f.id
    /\ artifacts' = artifacts \cup {f}
    /\ UNCHANGED <<labs, bindings, verdicts, adoption, call>>

\* start: a clean certificate, a run of the laboratory that is still empty.
Start(f) ==
    /\ \E t \in Certificates : t.id = f.certificate
    /\ \E l \in labs : l.id = f.lab
    /\ Evidence(f.lab) = {}
    /\ \A b \in bindings :
          b.id # f.id /\ b.lab # f.lab /\ b.certificate # f.certificate
    /\ bindings' = bindings \cup {f}
    /\ UNCHANGED <<labs, artifacts, verdicts, adoption, call>>

\* C3QualificationGateService.verify finds no defect.
GateVerifies(run) ==
    /\ BindingOf(run) # {}
    /\ \A a \in EvidenceOf(run) : a.kind \in {"CANDIDATE", "EVALUATION"} /\ ~a.early

-----------------------------------------------------------------------------
(* The signed decision                                                     *)

Candidates(evidence) == {a.id : a \in {x \in evidence : x.kind = "CANDIDATE"}}

\* _assert_evidence_selection_and_time
SelectionStands(v) ==
    /\ Candidates(v.snapshot) # {}
    /\ \E a \in v.snapshot : a.kind = "EVALUATION"
    /\ v.form.selected \subseteq Candidates(v.snapshot)

\* Whom _assert_independent does not let decide.
Involved(run, evidence) ==
    {b.by : b \in BindingOf(run)} \cup {a.by : a \in evidence}
    \cup {l.by : l \in {x \in labs : \E b \in BindingOf(run) : x.id = b.lab}}
    \cup {t.certifier : t \in {x \in Certificates : \E b \in BindingOf(run) : x.id = b.certificate}}

IndependentMaker(v) == v.form.maker \notin Involved(v.form.run, v.snapshot)

VerdictFresh(f) == \A v \in verdicts : v.form.id # f.id /\ v.form.run # f.run

\* What admit_decision asks of a signed payload.
DecisionAdmissible(v) ==
    /\ VerdictFresh(v.form)
    /\ GateVerifies(v.form.run)
    /\ v.snapshot = EvidenceOf(v.form.run)
    /\ SelectionStands(v)
    /\ IndependentMaker(v)

\* admit_decision before its transaction, of a payload signed about the evidence.
PrepareDecision(c, f) ==
    LET v == Row(f, EvidenceOf(f.run))
    IN /\ DecisionAdmissible(v)
       /\ Enter(c, "C3", v)
       /\ UNCHANGED <<laboratory, verdicts, adoption>>

\* The transaction of admit_decision.
AdmitDecision(c) ==
    /\ call[c].stage = "C3"
    /\ DecisionAdmissible(call[c].row)
    /\ verdicts' = verdicts \cup {call[c].row}
    /\ Leave(c)
    /\ UNCHANGED <<laboratory, adoption>>

\* verify_decision finds no defect.
DecisionVerifies(v) ==
    /\ GateVerifies(v.form.run)
    /\ SelectionStands(v)
    /\ IndependentMaker(v)
    /\ v.snapshot = EvidenceOf(v.form.run)

-----------------------------------------------------------------------------
(* The authorization to adopt, and the execution                           *)

\* authorize_adoption
AuthorizeAdoption(f, v, candidate, d) ==
    /\ \A a \in adoptions : a.form.id # f.id /\ a.form.run # f.run
    /\ v.form.run = f.run
    /\ candidate \in v.form.selected
    /\ AuthorizesExactly(d, f.by, "c3.adoption.authorize", candidate, <<v.form.id, f.rollback>>)
    /\ DecisionVerifies(v)
    /\ Consume(d, "C3_ADOPTION_AUTHORIZED", f.id, f.by)
    /\ adoptions' = adoptions \cup {[form |-> f, verdict |-> v.form.id,
                                     candidate |-> candidate, decision |-> d]}
    /\ UNCHANGED <<laboratory, verdicts, executions, call>>

\* verify_adoption finds no defect.
AdoptionVerifies(a) ==
    /\ \E v \in verdicts : /\ v.form.id = a.verdict
                           /\ v.form.run = a.form.run
                           /\ v.form.selected = {a.candidate}
                           /\ DecisionVerifies(v)
    /\ AuthorizesExactly(a.decision, a.form.by, "c3.adoption.authorize", a.candidate,
                         <<a.verdict, a.form.rollback>>)
    /\ Use(a.decision, "C3_ADOPTION_AUTHORIZED", a.form.id, a.form.by) \in consumed

\* request_execution
RequestExecution(f, a, d) ==
    /\ \A e \in executions : e.form.id # f.id /\ e.form.adoption # f.adoption
    /\ a.form.id = f.adoption
    /\ AuthorizesExactly(d, f.by, "c3.adoption.execute", a.candidate,
                         <<f.id, f.adoption, f.plan>>)
    /\ AdoptionVerifies(a)
    /\ Consume(d, "C3_ADOPTION_EXECUTION_REQUESTED", f.id, f.by)
    /\ executions' = executions \cup {[form |-> f, status |-> "REQUESTED",
                                       outbox |-> "OPEN", decision |-> d]}
    /\ UNCHANGED <<laboratory, verdicts, adoptions, call>>

Advance(e, next) ==
    /\ executions' = (executions \ {e}) \cup {next}
    /\ UNCHANGED <<laboratory, verdicts, adoptions, consumed, call>>

\* append_transition, but for one that repeats RUNNING.
AppendTransition(e, s) ==
    /\ \/ e.status = "REQUESTED" /\ s \in {"RUNNING", "FAILED_NO_EFFECT"}
       \/ e.status = "RUNNING" /\ s \in Endings
    /\ Advance(e, [e EXCEPT !.status = s])

\* process_next completes the effect whose result was appended,
CompleteEffect(e) ==
    /\ e.outbox = "OPEN" /\ e.status \in Terminal
    /\ Advance(e, [e EXCEPT !.outbox = "SUCCEEDED"])

\* or the outbox gives it up after the last attempt.
ExhaustEffect(e) ==
    /\ e.outbox = "OPEN"
    /\ Advance(e, [e EXCEPT !.outbox = "DEAD"])

\* verify_execution finds no defect.
ExecutionVerifies(e) ==
    /\ \E a \in adoptions :
          /\ a.form.id = e.form.adoption /\ AdoptionVerifies(a)
          /\ AuthorizesExactly(e.decision, e.form.by, "c3.adoption.execute", a.candidate,
                               <<e.form.id, e.form.adoption, e.form.plan>>)
    /\ Use(e.decision, "C3_ADOPTION_EXECUTION_REQUESTED", e.form.id, e.form.by) \in consumed
    /\ e.outbox = IF e.status \in Terminal THEN "SUCCEEDED" ELSE "OPEN"

QualificationInit ==
    /\ labs = {} /\ artifacts = {} /\ bindings = {}
    /\ verdicts = {} /\ adoptions = {} /\ executions = {}
    /\ call = [c \in Callers |-> Idle]
    /\ ConsumedInit

QualificationNext ==
    \/ \E f \in Labs : CreateRun(f)
    \/ \E f \in Artifacts : RecordArtifact(f)
    \/ \E f \in Starts : Start(f)
    \/ \E c \in Callers, f \in Verdicts : PrepareDecision(c, f)
    \/ \E c \in Callers : AdmitDecision(c)
    \/ \E f \in Adoptions, v \in verdicts, d \in Decisions :
          \E candidate \in v.form.selected : AuthorizeAdoption(f, v, candidate, d)
    \/ \E f \in Requests, a \in adoptions, d \in Decisions : RequestExecution(f, a, d)
    \/ \E e \in executions, s \in Statuses : AppendTransition(e, s)
    \/ \E e \in executions : CompleteEffect(e) \/ ExhaustEffect(e)

-----------------------------------------------------------------------------
(* The executions as a record of ExecutionRecord: what the stages above are *)
(* shown of them is what the service and its workers may show.             *)

ExecutionOf(n) == {e \in executions : e.form.id = n}
StatusOf(n) == IF ExecutionOf(n) = {} THEN "NONE" ELSE (CHOOSE e \in ExecutionOf(n) : TRUE).status
OutboxOf(n) == IF ExecutionOf(n) = {} THEN "NONE" ELSE (CHOOSE e \in ExecutionOf(n) : TRUE).outbox

RequestIds == {f.id : f \in Requests}

Record == INSTANCE ExecutionRecord
    WITH Executions <- RequestIds, status <- [n \in RequestIds |-> StatusOf(n)],
         outbox <- [n \in RequestIds |-> OutboxOf(n)]

KeepsRecord == Record!Spec
=============================================================================
