-------------------------- MODULE ArchitectureLine --------------------------
(***************************************************************************)
(* The second line of C4, from executions to a published architecture:     *)
(* architecture_input.py freezes finished executions as evidence,          *)
(* architecture_candidate.py creates a candidate over a frozen set,        *)
(* architecture_review.py accepts the keys of reviewers and admits one     *)
(* signed review of a candidate, architecture_publication.py publishes     *)
(* what was accepted.  It stands on the C3 services of Qualification.      *)
(*                                                                         *)
(* Rows are never updated or deleted.  Apart from freeze, an operation     *)
(* does in its transaction again all that it did before it and compares    *)
(* the two, so that it is one action; so is a replay, and a refusal, no    *)
(* step.  Dates are left out: they only refuse calls.                      *)
(***************************************************************************)
EXTENDS Qualification

CONSTANTS InputSets,     \* forms of freeze
          Designs,       \* forms of create_candidate
          Stages,        \* _STAGE_ORDER
          ReviewerKeys,  \* forms of accept_reviewer_root
          Opinions,      \* reviews that reviewers signed
          Publishings    \* forms of publish

Judgements == {"ACCEPTED", "REJECTED", "REWORK_REQUIRED"}

\* The executions of an input set are a sequence without repetitions.  signer:
\* the key under which a review verifies; excluded: whom it says its author is
\* not; failed, findings: whether it reports a failed check and has findings.
ASSUME LineAssumption ==
    /\ \A f \in InputSets : f.id \in Names /\ f.executions \in Seq(Names) /\ f.by \in Actors
    /\ \A f \in Designs : f.id \in Names /\ f.by \in Actors
    /\ ReviewerKeys \subseteq [key : Names, pem : Names, reviewer : Actors, by : Actors]
    /\ Opinions \subseteq [id : Names, candidate : Names, manifest : Names, signer : Names,
                           reviewer : Actors, excluded : SUBSET Actors,
                           failed : BOOLEAN, findings : BOOLEAN, verdict : Judgements]
    /\ Publishings \subseteq [id : Names, candidate : Names, review : Names, by : Actors]

VARIABLES inputs,       \* c4_architecture_input_sets and their members
          candidates,   \* c4_architecture_candidates
          reviewers,    \* c4_architecture_reviewer_roots
          reviews,      \* c4_architecture_reviews and their findings
          publications  \* c4_architecture_publications

qualified == <<laboratory, verdicts, adoptions, executions>>
line == <<inputs, candidates, reviewers, reviews, publications>>
lineVars == <<qualified, consumed, call, line>>

-----------------------------------------------------------------------------
(* The frozen input                                                        *)

Eligible == {"SUCCEEDED", "FAILED_NO_EFFECT", "FAILED_ROLLED_BACK"}

\* _snapshot_execution: what it takes of the execution x, if it does not raise.
Snapshots(x) ==
    {[id |-> e.form.id, status |-> e.status, by |-> e.form.by, candidate |-> a.candidate] :
        e \in {y \in executions : y.form.id = x /\ ExecutionVerifies(y) /\ y.status \in Eligible},
        a \in {y \in adoptions : \E z \in executions : z.form.id = x /\ z.form.adoption = y.form.id}}

MembersOf(members) == {members[k] : k \in DOMAIN members}
Successes(members) == {x \in MembersOf(members) : x.status = "SUCCEEDED"}
Authors(members) == {x.by : x \in MembersOf(members)}

\* prepare_freeze: the members of a set of which at least one succeeded.
Readings(f) ==
    {members \in [DOMAIN f.executions -> UNION {Snapshots(f.executions[k]) :
                                                   k \in DOMAIN f.executions}] :
        /\ \A k \in DOMAIN members : members[k] \in Snapshots(f.executions[k])
        /\ Successes(members) # {}}

\* The context of a decision to freeze names the executions and their results.
FreezeTerms(f, members) == f.executions \o [k \in DOMAIN members |-> members[k].status]

\* freeze reads the executions for the authorization,
PrepareFreeze(c, f, members, d) ==
    /\ \A i \in inputs : i.form.id # f.id
    /\ AuthorizesExactly(d, f.by, "c4.architecture-input.freeze", f.id, FreezeTerms(f, members))
    /\ Enter(c, "FREEZE", [form |-> f, prepared |-> members, members |-> {}, decision |-> d])
    /\ UNCHANGED <<qualified, consumed, line>>

\* reads them again for the rows it will write,
ReadMembers(c) ==
    /\ call[c].stage = "FREEZE" /\ call[c].row.members = {}
    /\ \E members \in Readings(call[c].row.form) :
          call' = [call EXCEPT ![c].row.members = {members}]
    /\ UNCHANGED <<qualified, consumed, line>>

\* Bug: the transaction relies on what was read before it.
FreezeAsRead(c) ==
    /\ call[c].stage = "FREEZE"
    /\ LET row == call[c].row
       IN /\ \A i \in inputs : i.form.id # row.form.id
          /\ Consume(row.decision, "C4_ARCHITECTURE_INPUT_FROZEN", row.form.id, row.form.by)
          /\ \E members \in row.members :
                inputs' = inputs \cup {[form |-> row.form, members |-> members,
                                        decision |-> row.decision]}
    /\ Leave(c)
    /\ UNCHANGED <<qualified, candidates, reviewers, reviews, publications>>

\* and once more in its transaction, where only the first reading is compared.
Freeze(c) ==
    /\ call[c].stage = "FREEZE"
    /\ LET row == call[c].row
       IN /\ \A i \in inputs : i.form.id # row.form.id
          /\ row.prepared \in Readings(row.form)
          /\ Consume(row.decision, "C4_ARCHITECTURE_INPUT_FROZEN", row.form.id, row.form.by)
          /\ \E members \in row.members :
                inputs' = inputs \cup {[form |-> row.form, members |-> members,
                                        decision |-> row.decision]}
    /\ Leave(c)
    /\ UNCHANGED <<qualified, candidates, reviewers, reviews, publications>>

\* An execution is no longer what it was, or the id or the decision is taken.
AbandonFreeze(c) ==
    /\ call[c].stage = "FREEZE"
    /\ LET row == call[c].row
       IN \/ row.members = {} /\ Readings(row.form) = {}
          \/ row.prepared \notin Readings(row.form)
          \/ \E i \in inputs : i.form.id = row.form.id
          \/ ~Unconsumed(row.decision, "C4_ARCHITECTURE_INPUT_FROZEN", row.form.id)
    /\ Leave(c)
    /\ UNCHANGED <<qualified, consumed, line>>

\* A C3 decision whose evidence changed before the transaction is refused.
AbandonDecision(c) ==
    /\ call[c].stage = "C3"
    /\ ~DecisionAdmissible(call[c].row)
    /\ Leave(c)
    /\ UNCHANGED <<qualified, consumed, line>>

\* verify_input_set finds no defect.
InputVerifies(i) ==
    /\ Successes(i.members) # {}
    /\ DOMAIN i.members = DOMAIN i.form.executions
    /\ \A k \in DOMAIN i.members : i.members[k] \in Snapshots(i.form.executions[k])
    /\ AuthorizesExactly(i.decision, i.form.by, "c4.architecture-input.freeze", i.form.id,
                         FreezeTerms(i.form, i.members))
    /\ Use(i.decision, "C4_ARCHITECTURE_INPUT_FROZEN", i.form.id, i.form.by) \in consumed

-----------------------------------------------------------------------------
(* The candidate                                                           *)

\* Ports are a function, other parts sets of records.  Proof ids are treated as
\* test ids are.  _normalize_manifest, part by part:
OwnersStand(m) ==
    /\ m.adrs # {} /\ DOMAIN m.ports # {}
    /\ \A p, q \in DOMAIN m.ports : m.ports[p].capability = m.ports[q].capability => p = q
    /\ \A a \in m.adrs : a.ports # {} /\ a.ports \subseteq DOMAIN m.ports
    /\ \A p \in DOMAIN m.ports :
          \E a \in m.adrs : p \in a.ports /\ a.owner = m.ports[p].owner

FabricStands(m) ==
    /\ \A s \in Stages : m.fabric[s] # {}
    /\ UNION {m.fabric[s] : s \in Stages} = DOMAIN m.ports

\* Bug: the component is not compared with the one that was adopted.
BindingsOfAnything(m, members) ==
    /\ \A b \in m.bindings :
          /\ \E x \in Successes(members) : x.id = b.execution
          /\ b.ports # {} /\ b.ports \subseteq DOMAIN m.ports
          /\ b.capabilities = {m.ports[p].capability : p \in b.ports}
    /\ \A x \in Successes(members) : \E b \in m.bindings : b.execution = x.id
    /\ \A b, o \in m.bindings : b.execution = o.execution => b = o

BindingsStand(m, members) ==
    /\ \A b \in m.bindings :
          /\ \E x \in Successes(members) : x.id = b.execution /\ x.candidate = b.artifact
          /\ b.ports # {} /\ b.ports \subseteq DOMAIN m.ports
          /\ b.capabilities = {m.ports[p].capability : p \in b.ports}
    /\ \A x \in Successes(members) : \E b \in m.bindings : b.execution = x.id
    /\ \A b, o \in m.bindings : b.execution = o.execution => b = o

BenchmarkStands(m) ==
    \A s \in Stages :
        m.tests[s] # {} /\ m.tests[s] \subseteq UNION {m.ports[p].tests : p \in m.fabric[s]}

ManifestStands(m, members) ==
    /\ OwnersStand(m)
    /\ \A a \in m.adrs : /\ a.evidence # {}
                         /\ a.evidence \subseteq {x.id : x \in MembersOf(members)}
    /\ FabricStands(m)
    /\ BindingsStand(m, members)
    /\ BenchmarkStands(m)

\* The digest of the input set is that of the row with its id.
DesignTerms(f) == <<f.manifest.architecture, f.input, f.manifest.name>>

InputOf(f) == {i \in inputs : i.form.id = f.input}

\* What candidate and verification ask of the input and the manifest.
DesignStands(f, d) ==
    /\ AuthorizesExactly(d, f.by, "c4.architecture-candidate.create", f.id, DesignTerms(f))
    /\ \E i \in InputOf(f) : InputVerifies(i) /\ ManifestStands(f.manifest, i.members)

CandidateFresh(f) ==
    \A c \in candidates :
        c.form.id # f.id /\ c.form.manifest.architecture # f.manifest.architecture

\* create_candidate
CreateCandidate(f, d) ==
    /\ CandidateFresh(f)
    /\ DesignStands(f, d)
    /\ Consume(d, "C4_ARCHITECTURE_CANDIDATE_CREATED", f.id, f.by)
    /\ candidates' = candidates \cup {[form |-> f, decision |-> d]}
    /\ UNCHANGED <<qualified, call, inputs, reviewers, reviews, publications>>

\* verify_candidate finds no defect.
CandidateVerifies(c) ==
    /\ DesignStands(c.form, c.decision)
    /\ Use(c.decision, "C4_ARCHITECTURE_CANDIDATE_CREATED", c.form.id, c.form.by) \in consumed

-----------------------------------------------------------------------------
(* Reviewers and their reviews                                             *)

\* accept_reviewer_root: nobody accepts a key of their own.
AcceptReviewer(f, d) ==
    /\ \A k \in reviewers : k.form.key # f.key /\ k.form.pem # f.pem
    /\ f.by # f.reviewer
    /\ AuthorizesExactly(d, f.by, "c4.architecture-reviewer.accept", f.key, <<f.pem, f.reviewer>>)
    /\ Consume(d, "C4_ARCHITECTURE_REVIEWER_ACCEPTED", f.key, f.by)
    /\ reviewers' = reviewers \cup {[form |-> f, decision |-> d]}
    /\ UNCHANGED <<qualified, call, inputs, candidates, reviews, publications>>

\* verify_reviewer_root finds no defect.
ReviewerVerifies(k) ==
    /\ k.form.by # k.form.reviewer
    /\ AuthorizesExactly(k.decision, k.form.by, "c4.architecture-reviewer.accept", k.form.key,
                         <<k.form.pem, k.form.reviewer>>)
    /\ Use(k.decision, "C4_ARCHITECTURE_REVIEWER_ACCEPTED", k.form.key, k.form.by) \in consumed

\* static_identities: who had a hand in the candidate, its input, its executions.
Hands(c) ==
    {c.form.by, c.decision.subject}
    \cup UNION {{i.form.by, i.decision.subject} \cup Authors(i.members) : i \in InputOf(c.form)}

\* _parse_review_payload: the verdict is what the checks and the findings make it.
VerdictStands(r) ==
    IF r.verdict = "ACCEPTED" THEN ~r.failed /\ ~r.findings ELSE r.failed /\ r.findings

\* Bug: the reviewer says of whom they are independent, nobody looks.
BoundAsDeclared(r, c, k, actor) ==
    /\ r.candidate = c.form.id /\ r.manifest = c.form.manifest.name
    /\ r.signer = k.form.pem /\ r.reviewer = k.form.reviewer
    /\ r.reviewer \notin {k.form.by, actor}

\* _assert_review_bindings, and the signature.
Bound(r, c, k, actor) ==
    /\ r.candidate = c.form.id /\ r.manifest = c.form.manifest.name
    /\ r.signer = k.form.pem /\ r.reviewer = k.form.reviewer
    /\ r.reviewer \notin {k.form.by, actor}
    /\ r.excluded = Hands(c) /\ r.reviewer \notin Hands(c)

\* What admit_review and verify_review ask.
ReviewStands(r, key, actor) ==
    /\ VerdictStands(r)
    /\ \E c \in candidates, k \in reviewers :
          /\ CandidateVerifies(c)
          /\ k.form.key = key /\ ReviewerVerifies(k)
          /\ Bound(r, c, k, actor)

\* admit_review: the first review of a candidate is the only one.
AdmitReview(r, key, actor) ==
    /\ \A o \in reviews : o.signed.id # r.id /\ o.signed.candidate # r.candidate
    /\ ReviewStands(r, key, actor)
    /\ reviews' = reviews \cup {[signed |-> r, key |-> key, by |-> actor]}
    /\ UNCHANGED <<qualified, consumed, call, inputs, candidates, reviewers, publications>>

\* verify_review finds no defect.
ReviewVerifies(o) == ReviewStands(o.signed, o.key, o.by)

-----------------------------------------------------------------------------
(* The publication                                                         *)

\* _verified_material
MaterialStands(f) ==
    \E c \in candidates, o \in reviews :
        /\ c.form.id = f.candidate /\ CandidateVerifies(c)
        /\ o.signed.id = f.review /\ ReviewVerifies(o)
        /\ o.signed.candidate = c.form.id
        /\ o.signed.verdict = "ACCEPTED"

\* publish.  The context binds candidate and review, and what follows from them.
Publish(f, d) ==
    /\ \A p \in publications :
          p.form.id # f.id /\ p.form.candidate # f.candidate /\ p.form.review # f.review
    /\ AuthorizesExactly(d, f.by, "c4.architecture.publish", f.id, <<f.candidate, f.review>>)
    /\ MaterialStands(f)
    /\ Consume(d, "C4_ARCHITECTURE_PUBLISHED_NOT_DEPLOYED", f.id, f.by)
    /\ publications' = publications \cup {[form |-> f, decision |-> d]}
    /\ UNCHANGED <<qualified, call, inputs, candidates, reviewers, reviews>>

\* verify_publication finds no defect.
PublicationVerifies(p) ==
    /\ MaterialStands(p.form)
    /\ AuthorizesExactly(p.decision, p.form.by, "c4.architecture.publish", p.form.id,
                         <<p.form.candidate, p.form.review>>)
    /\ Use(p.decision, "C4_ARCHITECTURE_PUBLISHED_NOT_DEPLOYED", p.form.id, p.form.by) \in consumed

-----------------------------------------------------------------------------
(* The specification                                                       *)

LineInit ==
    /\ QualificationInit
    /\ inputs = {} /\ candidates = {} /\ reviewers = {} /\ reviews = {} /\ publications = {}

FreezeStep ==
    \E c \in Callers :
        \/ \E f \in InputSets : \E members \in Readings(f), d \in Decisions :
              PrepareFreeze(c, f, members, d)
        \/ ReadMembers(c)
        \/ Freeze(c)
        \/ AbandonFreeze(c)

LineNext ==
    \/ QualificationNext /\ UNCHANGED line
    \/ \E c \in Callers : AbandonDecision(c)
    \/ FreezeStep
    \/ \E f \in Designs, d \in Decisions : CreateCandidate(f, d)
    \/ \E f \in ReviewerKeys, d \in Decisions : AcceptReviewer(f, d)
    \/ \E r \in Opinions, k \in reviewers, actor \in Actors : AdmitReview(r, k.form.key, actor)
    \/ \E f \in Publishings, d \in Decisions : Publish(f, d)

LineSpec == LineInit /\ [][LineNext]_lineVars

-----------------------------------------------------------------------------
(* Properties                                                              *)

\* What was published, with the rows it came from.
CandidateOf(p) == {c \in candidates : c.form.id = p.form.candidate}
ReviewOf(p) == {o \in reviews : o.signed.id = p.form.review}

\* The execution x ended well and brought in the artifact, which the decision of
\* its run had selected and its adoption had named.
Adopted(x, artifact) ==
    \E e \in executions, a \in adoptions, v \in verdicts :
        /\ e.form.id = x /\ e.status = "SUCCEEDED" /\ e.outbox = "SUCCEEDED"
        /\ a.form.id = e.form.adoption /\ a.candidate = artifact
        /\ v.form.id = a.verdict /\ v.form.selected = {artifact}

\* The components of a published architecture are those that adoptions brought
\* in, all of the executions its input froze that succeeded and no other; each
\* of their ports has an owner among the decision records and a stage it serves.
PublishedComponentsAreAdopted ==
    \A p \in publications : \A c \in CandidateOf(p) :
        LET manifest == c.form.manifest
            frozen == UNION {MembersOf(i.members) : i \in InputOf(c.form)}
        IN /\ \A b \in manifest.bindings :
                 /\ Adopted(b.execution, b.artifact)
                 /\ \A port \in b.ports :
                       /\ \E a \in manifest.adrs :
                             port \in a.ports /\ a.owner = manifest.ports[port].owner
                       /\ \E s \in Stages : port \in manifest.fabric[s]
           /\ {b.execution : b \in manifest.bindings}
                 = {e.form.id : e \in {x \in executions :
                                          /\ x.status = "SUCCEEDED"
                                          /\ \E y \in frozen : y.id = x.form.id}}

\* Nobody reviews what they had a hand in: who accepted a published candidate
\* did not ask for its executions, freeze its input, create it, accept their own
\* key or admit their own review; the publisher may be anybody.  And nobody is
\* asked twice: a review that is no acceptance leaves its architecture without
\* a second review and without a second candidate to publish.
ReviewedOnceByAStranger ==
    \A p \in publications : \A c \in CandidateOf(p), o \in ReviewOf(p) :
        /\ o.signed.reviewer \notin {c.form.by, o.by}
        /\ \A i \in InputOf(c.form) : o.signed.reviewer # i.form.by
        /\ \A e \in executions :
              o.signed.reviewer = e.form.by
                  => \A b \in c.form.manifest.bindings : b.execution # e.form.id
        /\ \A k \in reviewers : k.form.key = o.key => o.signed.reviewer # k.form.by
        /\ \A other \in reviews, d \in candidates :
              /\ d.form.id = other.signed.candidate
              /\ d.form.manifest.architecture = c.form.manifest.architecture
              => other = o

\* A row of the line verifies when it appears, though a freeze reads the
\* executions before its transaction, and once it is stale it stays so.
LineStaleForever(rows, Verifies(_)) ==
    /\ \A r \in rows' \ rows : Verifies(r)'
    /\ \A r \in rows : ~Verifies(r) => ~Verifies(r)'

LineVerifiesUntilStale ==
    [][/\ LineStaleForever(inputs, InputVerifies)
       /\ LineStaleForever(candidates, CandidateVerifies)
       /\ LineStaleForever(reviewers, ReviewerVerifies)
       /\ LineStaleForever(reviews, ReviewVerifies)
       /\ LineStaleForever(publications, PublicationVerifies)]_lineVars
=============================================================================
