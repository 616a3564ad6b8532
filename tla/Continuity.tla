----------------------------- MODULE Continuity -----------------------------
(***************************************************************************)
(* ContinuityService of src/starcom/continuity.py: an incident waits for   *)
(* recovery until one signed review of its archive, admitted under an      *)
(* accepted key, is published, once.                                       *)
(*                                                                         *)
(* What an operation reads before its transaction are rows that are never  *)
(* changed or removed, and the status, which the transaction reads again:  *)
(* so an operation is one action.  A replay and a refusal are no steps.    *)
(* The ledger event of a row is written with it and holds its content.     *)
(***************************************************************************)
EXTENDS ConsumedDecisions

CONSTANTS Incidents,   \* incident ids
          Archives,    \* the archives (digests) under review
          Keys,        \* key ids of reviewers
          Pems,        \* public keys
          Reviews,     \* the reviews that reviewers signed
          Publications \* publication ids, each with its idempotency key

\* eligible: the values that _review_is_recovery_eligible asks for; signer:
\* the public key under which the signature over the exact bytes verifies.
ASSUME ContinuityAssumption ==
    /\ Reviews \subseteq [id : Names, archive : Archives, eligible : BOOLEAN,
                          signer : Pems]
    /\ Incidents \cup Keys \cup Publications \subseteq Names

VARIABLES incidents,     \* continuity_incidents
          roots,         \* continuity_trust_roots
          reviews,       \* continuity_reviews
          publications   \* continuity_recovery_publications

continuityVars == <<incidents, roots, reviews, publications>>

Waiting == "RECOVERY_REQUIRED"
Published == "RECOVERY_PUBLISHED_RECOLLECT_REQUIRED"

Incident == [id : Incidents, archive : Archives, status : {Waiting, Published}]
Root == [key : Keys, pem : Pems, by : Actors, decision : Decisions]
AdmittedReview == [incident : Incidents, key : Keys, signed : Reviews]
Publication == [id : Publications, incident : Incidents, review : Names,
                by : Actors, decision : Decisions]

\* _assert_authorization: subject, action and resource, not the context.
Authorizes(d, actor, action, object) ==
    d.subject = actor /\ d.action = action /\ d.object = object

\* create_incident
CreateIncident(i, archive) ==
    /\ \A row \in incidents : row.id # i
    /\ incidents' = incidents \cup {[id |-> i, archive |-> archive, status |-> Waiting]}
    /\ UNCHANGED <<consumed, roots, reviews, publications>>

\* accept_trust_root: the key id and the fingerprint are unique.
AcceptTrustRoot(k, pem, d, actor) ==
    /\ \A row \in roots : row.key # k /\ row.pem # pem
    /\ Authorizes(d, actor, "continuity.trust-root.accept", k)
    /\ Consume(d, "TRUST_ROOT_ACCEPTED", k, actor)
    /\ roots' = roots \cup {[key |-> k, pem |-> pem, by |-> actor, decision |-> d]}
    /\ UNCHANGED <<incidents, reviews, publications>>

\* admit_review: any status will do; the review id and the bytes are unique.
AdmitReview(i, k, signed) ==
    /\ \E row \in incidents : row.id = i /\ row.archive = signed.archive
    /\ \E root \in roots : root.key = k /\ root.pem = signed.signer
    /\ \A row \in reviews : row.signed.id # signed.id
    /\ reviews' = reviews \cup {[incident |-> i, key |-> k, signed |-> signed]}
    /\ UNCHANGED <<consumed, incidents, roots, publications>>

\* Bug: the review is looked up by its id alone.
AdmittedSomewhere(i, review) ==
    \E row \in reviews : row.signed.id = review /\ row.signed.eligible

\* The admitted review of this incident, and _review_is_recovery_eligible.
AdmittedFor(i, review) ==
    \E row \in reviews : row.incident = i /\ row.signed.id = review /\ row.signed.eligible

\* The operation_id of a publication.
FiledUnder(p, i) == p

\* publish_recovery
PublishRecovery(i, review, p, d, actor) ==
    /\ AdmittedFor(i, review)
    /\ Authorizes(d, actor, "continuity.recovery.publish", i)
    /\ \E row \in incidents :
          /\ row.id = i
          /\ row.status = Waiting
          /\ incidents' = (incidents \ {row}) \cup
                             {[id |-> i, archive |-> row.archive, status |-> Published]}
    /\ \A row \in publications : row.id # p /\ row.review # review
    /\ Consume(d, "RECOVERY_PUBLISHED", FiledUnder(p, i), actor)
    /\ publications' = publications \cup
          {[id |-> p, incident |-> i, review |-> review, by |-> actor, decision |-> d]}
    /\ UNCHANGED <<roots, reviews>>

ContinuityInit ==
    /\ incidents = {} /\ roots = {} /\ reviews = {} /\ publications = {}

CreateStep == \E i \in Incidents, a \in Archives : CreateIncident(i, a)
RootStep == \E k \in Keys, pem \in Pems, d \in Decisions :
               AcceptTrustRoot(k, pem, d, d.subject)
ReviewStep == \E i \in Incidents, k \in Keys, r \in Reviews : AdmitReview(i, k, r)
PublishStep == \E i \in Incidents, r \in Reviews, p \in Publications, d \in Decisions :
                  PublishRecovery(i, r.id, p, d, d.subject)

ContinuityStep == CreateStep \/ RootStep \/ ReviewStep \/ PublishStep

-----------------------------------------------------------------------------
(* What the verifications ask of the rows                                  *)

\* verify_trust_root
RootVerifies(root) ==
    /\ Authorizes(root.decision, root.by, "continuity.trust-root.accept", root.key)
    /\ Use(root.decision, "TRUST_ROOT_ACCEPTED", root.key, root.by) \in consumed

\* The part of verify_incident about one review.
ReviewVerifies(incident, row) ==
    /\ row.signed.archive = incident.archive
    /\ \E root \in roots : /\ root.key = row.key
                           /\ root.pem = row.signed.signer
                           /\ RootVerifies(root)

\* The part of verify_incident about a publication.
PublicationVerifies(incident, p) ==
    /\ incident.status = Published
    /\ \E row \in reviews : row.signed.id = p.review /\ row.signed.eligible
    /\ Authorizes(p.decision, p.by, "continuity.recovery.publish", incident.id)
    /\ \E use \in consumed : /\ use.decision = p.decision
                             /\ use.kind = "RECOVERY_PUBLISHED"
                             /\ use.op = p.id

\* verify_incident
IncidentVerifies(incident) ==
    /\ \A row \in reviews : row.incident = incident.id => ReviewVerifies(incident, row)
    /\ \A p \in publications : p.incident = incident.id => PublicationVerifies(incident, p)
    /\ incident.status = Published => \E p \in publications : p.incident = incident.id

-----------------------------------------------------------------------------
ContinuityTypeOK == /\ incidents \subseteq Incident
                    /\ roots \subseteq Root
                    /\ reviews \subseteq AdmittedReview
                    /\ publications \subseteq Publication

\* An incident counts as recovered only through one publication, and that
\* rests on an eligible review that was admitted for this very incident, is
\* about its archive and was signed with an accepted key; no review recovers
\* two incidents, also when they share an archive or two operators publish
\* at once.
RecoveryIsBacked ==
    \A i \in incidents : i.status = Published =>
        \E p \in publications :
            /\ p.incident = i.id
            /\ \A q \in publications \ {p} : q.incident # i.id /\ q.review # p.review
            /\ \E r \in reviews :
                  /\ r.signed.id = p.review
                  /\ r.incident = i.id
                  /\ r.signed.eligible
                  /\ r.signed.archive = i.archive
                  /\ \E root \in roots : root.key = r.key /\ root.pem = r.signed.signer
=============================================================================
