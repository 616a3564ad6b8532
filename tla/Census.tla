------------------------------- MODULE Census -------------------------------
(***************************************************************************)
(* C2 of the continuity line: a campaign is bound to an incident whose     *)
(* recovery was published (recollection.py), the identities its evidence   *)
(* shows are counted (census.py), and the count is certified by somebody   *)
(* who did not take part in it (certification.py).  The campaign is that   *)
(* of research.py, open to everybody while all this happens.               *)
(*                                                                         *)
(* Rows are never updated or deleted.  A signature verifies, a trust root  *)
(* and an incident that were found good stay good (Continuity).  An id     *)
(* brought again with the same material changes nothing and is no step.    *)
(***************************************************************************)
EXTENDS Naturals, FiniteSets

CONSTANTS Attempts,        \* request keys of the campaign
          CampaignWaves,   \* the waves callers ask for
          CampaignCursors, \* the cursors callers checkpoint
          MaxSeen,         \* bound: observations of one attempt
          Recollections,   \* forms of start
          Identities,      \* forms of register_identity
          Certifications,  \* signed certifications, but for their snapshots
          Target,          \* minimum_identity_target, 800 or more in the code
          MaxCalls         \* bound: calls between their two readings

\* observation: the number of the observation among those of its attempt.
ASSUME CensusAssumption ==
    /\ Target \in Nat \ {0} /\ MaxCalls \in Nat \ {0} /\ MaxSeen \in Nat \ {0}
    /\ CampaignWaves \subseteq Nat \ {0}
    /\ \A f \in Identities : f.attempt \in Attempts /\ f.observation \in 1..MaxSeen

VARIABLES research, maxWave,  \* the campaign
          backdated,          \* attempts begun with a stamp before the binding's
          recollection,       \* c2_recollections: the one of the campaign, if any
          census,             \* c2_census_identities
          certified,          \* c2_certifications and their members
          calls               \* registrations and admissions before their transaction

Research == INSTANCE ResearchCampaign
    WITH Keys <- Attempts, Waves <- CampaignWaves, CursorKeys <- CampaignCursors,
         MaxObservations <- MaxSeen

count == <<recollection, census, certified>>
censusVars == <<research, maxWave, backdated, count, calls>>

-----------------------------------------------------------------------------
(* The campaign and its binding                                            *)

\* begin_attempt takes its timestamp from the caller.
BeginAttempt(k, wave, early) ==
    /\ Research!BeginNew(k, wave)
    /\ backdated' = IF early THEN backdated \cup {k} ELSE backdated
    /\ UNCHANGED <<count, calls>>

RecordEvidence == Research!EvidenceStep /\ UNCHANGED <<backdated, count, calls>>

\* start: the campaign is empty, incident and campaign are unbound.
StartRecollection(f) ==
    /\ recollection = {}
    /\ Research!CampaignEmpty
    /\ recollection' = {f}
    /\ UNCHANGED <<research, maxWave, backdated, census, certified, calls>>

\* C2Recollection.verify finds no defect.
RecollectionVerifies == recollection # {} /\ backdated = {}

-----------------------------------------------------------------------------
(* The census                                                              *)

\* _linked_evidence: an observation of an attempt that succeeded.
Linked(f) ==
    /\ research[f.attempt].receipt = "SUCCESS"
    /\ f.observation <= research[f.attempt].observations

\* Bug: an observation is counted under every name it is given.
KeyFresh(f) == \A i \in census : i.id # f.id /\ i.key # f.key

IdentityFresh(f) ==
    \A i \in census :
        /\ i.id # f.id /\ i.key # f.key
        /\ <<i.attempt, i.observation>> # <<f.attempt, f.observation>>

\* register_identity before its transaction,
PrepareIdentity(f) ==
    /\ Cardinality(calls) < MaxCalls
    /\ RecollectionVerifies /\ Linked(f)
    /\ \A i \in census : i.key # f.key
    /\ calls' = calls \cup {[kind |-> "IDENTITY", form |-> f, members |-> {}]}
    /\ UNCHANGED <<research, maxWave, backdated, count>>

\* and in it, where only the keys of the table are asked for.
RegisterIdentity(w) ==
    /\ w.kind = "IDENTITY" /\ IdentityFresh(w.form)
    /\ census' = census \cup {w.form}
    /\ calls' = calls \ {w}
    /\ UNCHANGED <<research, maxWave, backdated, recollection, certified>>

\* C2Census.verify finds no defect.
CensusVerifies ==
    /\ RecollectionVerifies
    /\ Research!CampaignClean
    /\ \A i \in census : Linked(i)

-----------------------------------------------------------------------------
(* The certificate                                                         *)

\* _assert_independent: not who bound the campaign, nor who recorded a member.
IndependentCertifier(t) ==
    /\ \A r \in recollection : t.form.certifier # r.by
    /\ \A i \in t.members : t.form.certifier # i.by

CertificateFresh(f) == \A t \in certified : t.form.id # f.id

\* What admit_certification asks of a payload signed about the census.
Certifiable(w) ==
    /\ CertificateFresh(w.form)
    /\ CensusVerifies
    /\ w.members = census
    /\ Cardinality(w.members) >= Target
    /\ IndependentCertifier(w)

\* admit_certification before its transaction, of a payload about the present
PrepareCertification(f) ==
    LET w == [kind |-> "CERTIFICATE", form |-> f, members |-> census]
    IN /\ Cardinality(calls) < MaxCalls
       /\ Certifiable(w)
       /\ calls' = calls \cup {w}
       /\ UNCHANGED <<research, maxWave, backdated, count>>

\* and in it.
AdmitCertification(w) ==
    /\ w.kind = "CERTIFICATE" /\ Certifiable(w)
    /\ certified' = certified \cup {[form |-> w.form, members |-> w.members]}
    /\ calls' = calls \ {w}
    /\ UNCHANGED <<research, maxWave, backdated, recollection, census>>

\* A transaction that finds the rows changed writes nothing.
RefuseCall(w) ==
    /\ \/ w.kind = "IDENTITY" /\ ~IdentityFresh(w.form)
       \/ w.kind = "CERTIFICATE" /\ ~Certifiable(w)
    /\ calls' = calls \ {w}
    /\ UNCHANGED <<research, maxWave, backdated, count>>

\* verify_certificate finds no defect; the census may have grown.
CertificateVerifies(t) ==
    /\ CensusVerifies
    /\ t.members \subseteq census
    /\ Cardinality(t.members) >= Target
    /\ IndependentCertifier(t)

-----------------------------------------------------------------------------
(* The specification                                                       *)

CensusInit ==
    /\ Research!CampaignInit
    /\ backdated = {} /\ recollection = {} /\ census = {} /\ certified = {} /\ calls = {}

CensusNext ==
    \/ \E k \in Attempts, wave \in CampaignWaves, early \in BOOLEAN : BeginAttempt(k, wave, early)
    \/ RecordEvidence
    \/ \E f \in Recollections : StartRecollection(f)
    \/ \E f \in Identities : PrepareIdentity(f)
    \/ \E f \in Certifications : PrepareCertification(f)
    \/ \E w \in calls : RegisterIdentity(w) \/ AdmitCertification(w) \/ RefuseCall(w)

CensusSpec == CensusInit /\ [][CensusNext]_censusVars

-----------------------------------------------------------------------------
(* Properties                                                              *)

\* A certificate stands for Target identities under different names, each seen
\* in an observation of its own, and counted by others than who certified them.
\* It verifies exactly while every attempt of the campaign has its receipt and
\* its evidence and none is dated before the binding: an attempt in progress
\* suspends it, one with an earlier stamp ends it, the census may grow.
CertificatesStandWithTheCampaign ==
    \A t \in certified :
        /\ Cardinality({i.key : i \in t.members}) >= Target
        /\ Cardinality({<<i.attempt, i.observation>> : i \in t.members}) >= Target
        /\ \A r \in recollection, i \in t.members : t.form.certifier \notin {r.by, i.by}
        /\ CertificateVerifies(t) <=> (Research!CampaignClean /\ backdated = {})
=============================================================================
