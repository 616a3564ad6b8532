---------------------------- MODULE ProofEngine -----------------------------
(***************************************************************************)
(* ProofEngine of src/starcom/proof.py: a claim about a mission is backed  *)
(* by evidence, verified once by somebody other than its author, and       *)
(* certified by a third person.                                            *)
(*                                                                         *)
(* A claim has at most one verification and one certificate (UNIQUE        *)
(* columns), so both are kept in the claim's record; the evidence digest   *)
(* of a verification is the set of evidence it was computed over.          *)
(***************************************************************************)
CONSTANTS Claims,    \* claim ids
          Actors,    \* the people who author, verify and certify
          Subjects,  \* what claims may be about: missions and other things
          Evidence   \* evidence ids, unique over all claims

Nobody == "none"

ASSUME ProofAssumption == Nobody \notin Actors \cup Subjects

VARIABLE claims      \* claims[c]: the rows of c in the four proof_* tables

Statuses == {"NONE", "DRAFT", "EVIDENCE_ATTACHED", "VERIFIED", "REJECTED", "CERTIFIED"}

Claim == [status : Statuses,
          subject : Subjects \cup {Nobody},
          author : Actors \cup {Nobody},
          evidence : SUBSET Evidence,
          verifier : Actors \cup {Nobody},
          verdict : {"NONE", "APPROVED", "REJECTED"},
          sealed : SUBSET Evidence,
          certifier : Actors \cup {Nobody}]

NoClaim == [status |-> "NONE", subject |-> Nobody, author |-> Nobody,
            evidence |-> {}, verifier |-> Nobody, verdict |-> "NONE",
            sealed |-> {}, certifier |-> Nobody]

ProofInit == claims = [c \in Claims |-> NoClaim]

CreateClaim(c, subject, author) ==
    /\ claims[c].status = "NONE"
    /\ claims' = [claims EXCEPT ![c] = [NoClaim EXCEPT !.status = "DRAFT",
                                                       !.subject = subject,
                                                       !.author = author]]

\* Bug: evidence is accepted whatever the status of the claim.
AlwaysOpen(c) == claims[c].status # "NONE"

\* The states in which evidence and a verification are accepted.
Open(c) == claims[c].status \in {"DRAFT", "EVIDENCE_ATTACHED"}

\* attach_evidence; anybody may attach, the author and the verifier included.
AttachEvidence(c, e) ==
    /\ Open(c)
    /\ \A d \in Claims : e \notin claims[d].evidence
    /\ claims' = [claims EXCEPT ![c].evidence = claims[c].evidence \cup {e},
                                ![c].status = "EVIDENCE_ATTACHED"]

\* verify_claim: one verification per claim, over the evidence attached so far.
VerifyClaim(c, verifier, verdict) ==
    /\ claims[c].author # verifier
    /\ Open(c)
    /\ claims[c].verdict = "NONE"
    /\ verdict = "APPROVED" => claims[c].evidence # {}
    /\ claims' = [claims EXCEPT ![c].verifier = verifier,
                                ![c].verdict = verdict,
                                ![c].sealed = claims[c].evidence,
                                ![c].status = IF verdict = "APPROVED"
                                              THEN "VERIFIED" ELSE "REJECTED"]

\* May this person certify the claim?
MayCertify(c, certifier) == certifier \notin {claims[c].author, claims[c].verifier}

\* certify_claim of a claim without a certificate; with one it returns the
\* stored certificate to its certifier and raises ConflictError for others.
CertifyClaim(c, certifier) ==
    /\ claims[c].verdict = "APPROVED"
    /\ claims[c].status = "VERIFIED"
    /\ MayCertify(c, certifier)
    /\ claims' = [claims EXCEPT ![c].certifier = certifier,
                                ![c].status = "CERTIFIED"]

CreateClaimStep == \E c \in Claims, s \in Subjects, a \in Actors : CreateClaim(c, s, a)
AttachStep == \E c \in Claims, e \in Evidence : AttachEvidence(c, e)
VerifyStep == \E c \in Claims, a \in Actors, v \in {"APPROVED", "REJECTED"} : VerifyClaim(c, a, v)
CertifyStep == \E c \in Claims, a \in Actors : CertifyClaim(c, a)

ProofStep == CreateClaimStep \/ AttachStep \/ VerifyStep \/ CertifyStep

\* A certificate is named by its claim.
Certified(c) == claims[c].certifier # Nobody

\* verify_certificate, on rows nobody tampered with.
CertificateVerifies(c) ==
    /\ Certified(c)
    /\ claims[c].status = "CERTIFIED"
    /\ claims[c].verdict = "APPROVED"
    /\ claims[c].evidence = claims[c].sealed
    /\ claims[c].certifier \notin {claims[c].author, claims[c].verifier}

-----------------------------------------------------------------------------
ProofTypeOK == claims \in [Claims -> Claim]

=============================================================================
