-------------------------- MODULE ReleaseEvidence ---------------------------
(***************************************************************************)
(* external_evidence.py and release_candidate.py: signed evidence of what  *)
(* was done outside the program, good until it expires, in four categories,*)
(* and signed assessments of a version of it, which say of each category   *)
(* whether it is proven.  Neither reads the rows of the other, and nothing *)
(* in src/ reads theirs.                                                   *)
(*                                                                         *)
(* Rows are never updated or deleted, and what an admission reads before   *)
(* its transaction the keys of the tables ask again in it, so that it is   *)
(* one action.  It is dated by its caller.  Signatures verify.             *)
(***************************************************************************)
EXTENDS Naturals

CONSTANTS Categories,   \* EXTERNAL_EVIDENCE_KINDS
          Testimonies,  \* signed payloads of external evidence
          Candidacies,  \* signed payloads of assessments
          Admitters,    \* actors who admit them
          LastDay       \* bound: the calendar ends there

Outcome == {"PASS", "FAIL", "BLOCKED"}

\* statuses, benchmarks, attacks and gates: what the four lists of an assessment
\* report; proven: the categories it says are PROVEN.
ASSUME ReleaseAssumption ==
    /\ LastDay \in Nat
    /\ \A f \in Testimonies : f.kind \in Categories /\ f.captured \in Nat /\ f.until \in Nat
    /\ \A f \in Candidacies :
          /\ f.statuses \subseteq {"PROVEN", "NOT_PROVEN"} /\ f.benchmarks \subseteq BOOLEAN
          /\ f.attacks \subseteq Outcome /\ f.gates \subseteq Outcome
          /\ f.proven \subseteq Categories
          /\ f.assessed \in Nat /\ f.reviewed \in Nat

VARIABLES today,     \* the calendar
          testified, \* external_evidence_records and their items
          assessed   \* block19_rc_assessments and their four lists

release == <<today, testified, assessed>>

Days == 0..LastDay

-----------------------------------------------------------------------------
(* External evidence                                                       *)

\* _parse_payload does not raise.
Parses(f) == f.operator # f.reviewer /\ f.captured <= f.until

\* Bug: a subject may have evidence again.
TestimonyNew(f) == \A r \in testified : r.form.id # f.id

\* The keys of external_evidence_records; its payload names the id.
TestimonyFresh(f) ==
    \A r \in testified :
        r.form.id # f.id /\ <<r.form.kind, r.form.subject>> # <<f.kind, f.subject>>

\* admit_evidence, by somebody who dates it.
AdmitTestimony(f, by, at) ==
    /\ Parses(f) /\ at <= f.until
    /\ TestimonyFresh(f)
    /\ testified' = testified \cup {[form |-> f, by |-> by, at |-> at]}
    /\ UNCHANGED <<today, assessed>>

\* verify_evidence finds no defect as of a day.
TestimonyVerifies(r, asOf) == Parses(r.form) /\ asOf <= r.form.until

\* snapshot says PROVEN of a category as of a day.
Proven(kind, asOf) == \E r \in testified : r.form.kind = kind /\ TestimonyVerifies(r, asOf)

-----------------------------------------------------------------------------
(* Assessments of a release candidate                                      *)

\* _derive
Derived(f) ==
    IF f.statuses # {"PROVEN"} \/ f.benchmarks # {TRUE} \/ f.attacks # {"PASS"} \/ f.gates # {"PASS"}
    THEN "RC_BLOCKED_VERIFICATION_FAILURE"
    ELSE IF f.proven # Categories THEN "RC_BLOCKED_EXTERNAL_EVIDENCE"
    ELSE "RC_READY_FOR_INDEPENDENT_RELEASE_REVIEW"

\* _parse_payload and _assert_payload_binding do not raise.
CandidacyStands(f, by, at) ==
    /\ f.assessor # f.reviewer /\ by \notin {f.assessor, f.reviewer}
    /\ f.assessed <= f.reviewed /\ f.reviewed <= at

\* The keys of block19_rc_assessments; its payload names the id.
CandidacyFresh(f) ==
    \A a \in assessed : a.form.id # f.id /\ a.form.version # f.version

\* admit_assessment
AssessCandidate(f, by, at) ==
    /\ CandidacyStands(f, by, at)
    /\ CandidacyFresh(f)
    /\ assessed' = assessed \cup {[form |-> f, by |-> by, at |-> at, verdict |-> Derived(f)]}
    /\ UNCHANGED <<today, testified>>

\* verify_assessment finds no defect.
CandidacyVerifies(a) == CandidacyStands(a.form, a.by, a.at) /\ a.verdict = Derived(a.form)

-----------------------------------------------------------------------------
(* The specification                                                       *)

ReleaseInit == today = 0 /\ testified = {} /\ assessed = {}

NextDay == today < LastDay /\ today' = today + 1 /\ UNCHANGED <<testified, assessed>>

ReleaseNext ==
    \/ NextDay
    \/ \E by \in Admitters, at \in Days :
          \/ \E f \in Testimonies : AdmitTestimony(f, by, at)
          \/ \E f \in Candidacies : AssessCandidate(f, by, at)

ReleaseSpec == ReleaseInit /\ [][ReleaseNext]_release

-----------------------------------------------------------------------------
(* Properties                                                              *)

\* Evidence lapses for good: once what is known about a subject has expired,
\* nothing that is admitted later, however it is dated, makes the subject good
\* again, and its category is proven by another subject or not at all, while as
\* of a day what was proven stays so.  A version that was blocked never becomes
\* ready, though its evidence arrives, and a ready one is not taken back, though
\* its evidence lapses.
NothingIsRenewed ==
    [][/\ \A r \in testified, s \in testified' :
             /\ s.form.kind = r.form.kind /\ s.form.subject = r.form.subject
             /\ r.form.until < today
             => ~TestimonyVerifies(s, today)
       /\ \A k \in Categories, d \in Days : Proven(k, d) => Proven(k, d)'
       /\ \A a \in assessed, b \in assessed' :
             a.form.version = b.form.version
             => b.verdict = a.verdict /\ CandidacyVerifies(b)]_release
=============================================================================
