----------------------- MODULE ExecutorRegistryProofs -----------------------
(***************************************************************************)
(* Proofs about Continuity and ExecutorRegistry for any executors,         *)
(* decisions, incidents and callers: types, legal lives, what enablements  *)
(* and revocations were decided on, and what a published recovery and an   *)
(* attestation rest on.                                                    *)
(***************************************************************************)
EXTENDS ExecutorRegistry, TLAPS

-----------------------------------------------------------------------------
(* Types                                                                   *)

ConsumedTypeOK ==
    consumed \subseteq [decision : Decisions, kind : OperationKinds, op : Names, by : Actors]

\* Every constant of the two modules satisfies its assumption.
Assumptions == DecisionAssumption /\ ContinuityAssumption /\ RegistryAssumption

\* A consumption that an operation files is well formed.
LEMMA ConsumeTyped ==
    ASSUME DecisionAssumption, ConsumedTypeOK, NEW d \in Decisions, NEW kind \in OperationKinds,
           NEW op \in Names, Consume(d, kind, op, d.subject)
    PROVE  ConsumedTypeOK'
  <1>1. d.subject \in Actors
    BY DEF DecisionAssumption
  <1>2. Use(d, kind, op, d.subject) \in [decision : Decisions, kind : OperationKinds, op : Names,
                                        by : Actors]
    BY <1>1 DEF Use
  <1> QED
    BY <1>2 DEF Consume, ConsumedTypeOK

\* An operation of the continuity kernel writes well-formed rows.
LEMMA ContinuityTyped ==
    ASSUME DecisionAssumption, ContinuityAssumption, ConsumedTypeOK, ContinuityTypeOK,
           ContinuityStep
    PROVE  ConsumedTypeOK' /\ ContinuityTypeOK'
  <1> USE DEF ContinuityTypeOK
  <1>1. ASSUME NEW i \in Incidents, NEW a \in Archives, CreateIncident(i, a)
        PROVE  ConsumedTypeOK' /\ ContinuityTypeOK'
    BY <1>1 DEF CreateIncident, Incident, ConsumedTypeOK
  <1>2. ASSUME NEW k \in Keys, NEW pem \in Pems, NEW d \in Decisions,
               AcceptTrustRoot(k, pem, d, d.subject)
        PROVE  ConsumedTypeOK' /\ ContinuityTypeOK'
    <2>1. d.subject \in Actors /\ k \in Names
      BY DEF DecisionAssumption, ContinuityAssumption
    <2>2. Consume(d, "TRUST_ROOT_ACCEPTED", k, d.subject)
      BY <1>2 DEF AcceptTrustRoot
    <2>3. ConsumedTypeOK'
      BY <2>1, <2>2, ConsumeTyped DEF OperationKinds
    <2> QED
      BY <1>2, <2>1, <2>3 DEF AcceptTrustRoot, Root
  <1>3. ASSUME NEW i \in Incidents, NEW k \in Keys, NEW r \in Reviews, AdmitReview(i, k, r)
        PROVE  ConsumedTypeOK' /\ ContinuityTypeOK'
    BY <1>3 DEF AdmitReview, AdmittedReview, ConsumedTypeOK
  <1>4. ASSUME NEW i \in Incidents, NEW r \in Reviews, NEW p \in Publications,
               NEW d \in Decisions, PublishRecovery(i, r.id, p, d, d.subject)
        PROVE  ConsumedTypeOK' /\ ContinuityTypeOK'
    <2>1. d.subject \in Actors /\ p \in Names /\ r.id \in Names
      BY DEF DecisionAssumption, ContinuityAssumption
    <2>2. Consume(d, "RECOVERY_PUBLISHED", p, d.subject)
      BY <1>4 DEF PublishRecovery, FiledUnder
    <2>3. ConsumedTypeOK'
      BY <2>1, <2>2, ConsumeTyped DEF OperationKinds
    <2>4. PICK row \in incidents :
            incidents' = (incidents \ {row}) \cup
                            {[id |-> i, archive |-> row.archive, status |-> Published]}
      BY <1>4 DEF PublishRecovery
    <2>5. incidents' \subseteq Incident
      BY <2>4 DEF Incident
    <2>6. publications' \subseteq Publication
      BY <1>4, <2>1 DEF PublishRecovery, Publication
    <2> QED
      BY <1>4, <2>3, <2>5, <2>6 DEF PublishRecovery
  <1> QED
    BY <1>1, <1>2, <1>3, <1>4 DEF ContinuityStep, CreateStep, RootStep, ReviewStep, PublishStep

\* A transition that is recorded is well formed.
LEMMA RecordTyped ==
    ASSUME DecisionAssumption, transitions \in [Executors -> Seq(Transition)],
           NEW e \in Executors, NEW s \in States, NEW terms \in Seq(Names),
           NEW d \in Decisions, Record(e, s, terms, d, d.subject)
    PROVE  transitions' \in [Executors -> Seq(Transition)]
  <1>1. [state |-> s, terms |-> terms, by |-> d.subject, decision |-> d] \in Transition
    BY DEF DecisionAssumption, Transition
  <1> QED
    BY <1>1 DEF Record

\* A caller in a call is in one of its kinds.
LEMMA CallCases ==
    ASSUME call \in [Callers -> {Idle} \cup Revoking \cup Attesting], NEW c \in Callers
    PROVE  /\ call[c].at \in {"prepared", "reread"} => call[c] \in Revoking
           /\ call[c].at \in {"verifying", "verified", "enabled"} => call[c] \in Attesting
           /\ call[c].at # "idle" => call[c].executor \in Executors
  BY DEF Idle, Revoking, Attesting

\* Every step keeps the types.
LEMMA TypeStep ==
    ASSUME Assumptions, RegistryTypeOK, [RegistryNext]_authorityVars
    PROVE  RegistryTypeOK'
  <1> USE DEF Assumptions
  <1>0. ConsumedTypeOK /\ ContinuityTypeOK
    BY DEF RegistryTypeOK, ConsumedTypeOK
  <1>1. CASE UNCHANGED authorityVars
    BY <1>1 DEF authorityVars, continuityVars, registryVars, RegistryTypeOK, ContinuityTypeOK
  <1>2. CASE ContinuityStep /\ UNCHANGED registryVars
    <2>1. ConsumedTypeOK' /\ ContinuityTypeOK'
      BY <1>0, <1>2, ContinuityTyped
    <2> QED
      BY <1>2, <2>1 DEF registryVars, RegistryTypeOK, ConsumedTypeOK
  <1>3. ASSUME NEW m \in Descriptors, NEW d \in Decisions, Register(m, d, d.subject)
        PROVE  RegistryTypeOK'
    <2>1. /\ m.executor \in Executors /\ m.executor \in Names /\ m.digest \in Names
          /\ d.subject \in Actors
      BY DEF RegistryAssumption, DecisionAssumption
    <2>2. ConsumedTypeOK'
      BY <1>0, <1>3, <2>1, ConsumeTyped DEF Register, Kind, OperationKinds
    <2>3. transitions' \in [Executors -> Seq(Transition)]
      <3>1. <<m.digest>> \in Seq(Names)
        BY <2>1
      <3>2. Record(m.executor, Registered, <<m.digest>>, d, d.subject) /\ Registered \in States
        BY <1>3 DEF Register, States
      <3> QED
        BY <2>1, <3>1, <3>2, RecordTyped DEF RegistryTypeOK
    <2>4. descriptors' \subseteq DescriptorRow
      BY <1>3, <2>1 DEF Register, DescriptorRow, RegistryTypeOK
    <2> QED
      BY <1>0, <1>3, <2>2, <2>3, <2>4
      DEF Register, RegistryTypeOK, ConsumedTypeOK, ContinuityTypeOK, continuityVars
  <1>4. ASSUME NEW k \in Keys, NEW pem \in Pems, NEW d \in Decisions,
               AcceptQualifierRoot(k, pem, d, d.subject)
        PROVE  RegistryTypeOK'
    <2>1. k \in Names /\ d.subject \in Actors
      BY DEF ContinuityAssumption, DecisionAssumption
    <2>2. ConsumedTypeOK'
      BY <1>0, <1>4, <2>1, ConsumeTyped DEF AcceptQualifierRoot, OperationKinds
    <2>3. qualifiers' \subseteq QualifierRow
      BY <1>4, <2>1 DEF AcceptQualifierRoot, QualifierRow, RegistryTypeOK
    <2> QED
      BY <1>0, <1>4, <2>2, <2>3
      DEF AcceptQualifierRoot, RegistryTypeOK, ConsumedTypeOK, ContinuityTypeOK, continuityVars
  <1>5. ASSUME NEW q \in Payloads, NEW k \in Keys, NEW d \in Decisions,
               Qualify(q, k, d, d.subject)
        PROVE  RegistryTypeOK'
    <2>1. /\ q.executor \in Executors /\ q.id \in Names /\ q.digest \in Names
          /\ k \in Names /\ d.subject \in Actors
      BY DEF RegistryAssumption, ContinuityAssumption, DecisionAssumption
    <2>2. ConsumedTypeOK'
      BY <1>0, <1>5, <2>1, ConsumeTyped DEF Qualify, Kind, OperationKinds, Registered, Qualified
    <2>3. transitions' \in [Executors -> Seq(Transition)]
      <3>1. <<q.id, q.digest, k>> \in Seq(Names)
        BY <2>1
      <3>2. /\ Record(q.executor, Qualified, <<q.id, q.digest, k>>, d, d.subject)
            /\ Qualified \in States
        BY <1>5 DEF Qualify, States
      <3> QED
        BY <2>1, <3>1, <3>2, RecordTyped DEF RegistryTypeOK
    <2>4. qualifications' \subseteq QualificationRow
      BY <1>5, <2>1 DEF Qualify, QualificationRow, RegistryTypeOK
    <2> QED
      BY <1>0, <1>5, <2>2, <2>3, <2>4
      DEF Qualify, RegistryTypeOK, ConsumedTypeOK, ContinuityTypeOK, continuityVars
  <1>6. ASSUME NEW e \in Executors, NEW d \in Decisions, Enable(e, d, d.subject)
        PROVE  RegistryTypeOK'
    <2>1. e \in Names /\ d.subject \in Actors /\ d.terms \in Seq(Names)
      BY DEF RegistryAssumption, DecisionAssumption
    <2>2. ConsumedTypeOK'
      BY <1>0, <1>6, <2>1, ConsumeTyped DEF Enable, Kind, OperationKinds, Registered, Enabled
    <2>3. transitions' \in [Executors -> Seq(Transition)]
      BY <1>6, <2>1, RecordTyped DEF Enable, States, RegistryTypeOK
    <2> QED
      BY <1>0, <1>6, <2>2, <2>3
      DEF Enable, RegistryTypeOK, ConsumedTypeOK, ContinuityTypeOK, continuityVars
  <1>7. ASSUME NEW c \in Callers, NEW e \in Executors, NEW d \in Decisions,
               NEW reason \in Reasons, RevokePrepare(c, e, reason, d, d.subject)
        PROVE  RegistryTypeOK'
    <2>1. [at |-> "prepared", executor |-> e, decision |-> d, seen |-> 0] \in Revoking
      BY DEF Revoking
    <2> QED
      BY <1>0, <1>7, <2>1
      DEF RevokePrepare, Goto, Tables, RegistryTypeOK, ContinuityTypeOK, continuityVars
  <1>8. ASSUME NEW c \in Callers, RevokeReread(c) PROVE RegistryTypeOK'
    <2>1. call[c] \in Revoking
      BY <1>8, CallCases DEF RevokeReread, RegistryTypeOK
    <2>2. [at |-> "reread", executor |-> call[c].executor, decision |-> call[c].decision,
           seen |-> Len(transitions[call[c].executor])] \in Revoking
      BY <2>1 DEF Revoking, RegistryTypeOK
    <2> QED
      BY <1>0, <1>8, <2>2
      DEF RevokeReread, Goto, Tables, RegistryTypeOK, ContinuityTypeOK, continuityVars
  <1>9. ASSUME NEW c \in Callers, RevokeCommit(c) PROVE RegistryTypeOK'
    <2>1. call[c] \in Revoking
      BY <1>9, CallCases DEF RevokeCommit, RegistryTypeOK
    <2>2. PICK e \in Executors, d \in Decisions : e = call[c].executor /\ d = call[c].decision
      BY <2>1 DEF Revoking
    <2>3. e \in Names /\ d.terms \in Seq(Names)
      BY DEF RegistryAssumption, DecisionAssumption
    <2>4. Consume(d, Kind(Revoked), e, d.subject) /\ Record(e, Revoked, d.terms, d, d.subject)
      BY <1>9, <2>2 DEF RevokeCommit
    <2>5. ConsumedTypeOK'
      BY <1>0, <2>3, <2>4, ConsumeTyped DEF Kind, OperationKinds, Registered, Revoked
    <2>6. transitions' \in [Executors -> Seq(Transition)]
      BY <2>3, <2>4, RecordTyped DEF States, RegistryTypeOK
    <2> QED
      BY <1>0, <1>9, <2>5, <2>6
      DEF RevokeCommit, Goto, RegistryTypeOK, ConsumedTypeOK, ContinuityTypeOK, continuityVars
  <1>10. ASSUME NEW c \in Callers, NEW e \in Executors, NEW demand \in Demands,
                AttestBegin(c, e, demand)
         PROVE  RegistryTypeOK'
    <2>1. [at |-> "verifying", executor |-> e, demand |-> demand,
           seen |-> Len(transitions[e])] \in Attesting
      BY DEF Attesting, RegistryTypeOK
    <2> QED
      BY <1>0, <1>10, <2>1
      DEF AttestBegin, Goto, Tables, RegistryTypeOK, ContinuityTypeOK, continuityVars
  <1>11. ASSUME NEW c \in Callers, AttestVerify(c) PROVE RegistryTypeOK'
    <2>1. call[c] \in Attesting
      BY <1>11, CallCases DEF AttestVerify, RegistryTypeOK
    <2>2. [call[c] EXCEPT !.at = "verified"] \in Attesting
      BY <2>1 DEF Attesting
    <2> QED
      BY <1>0, <1>11, <2>2
      DEF AttestVerify, Goto, Tables, RegistryTypeOK, ContinuityTypeOK, continuityVars
  <1>12. ASSUME NEW c \in Callers, AttestState(c) PROVE RegistryTypeOK'
    <2>1. call[c] \in Attesting
      BY <1>12, CallCases DEF AttestState, RegistryTypeOK
    <2>2. [call[c] EXCEPT !.at = "enabled"] \in Attesting
      BY <2>1 DEF Attesting
    <2> QED
      BY <1>0, <1>12, <2>2
      DEF AttestState, Goto, Tables, RegistryTypeOK, ContinuityTypeOK, continuityVars
  <1>13. ASSUME NEW c \in Callers, AttestHead(c) PROVE RegistryTypeOK'
    <2>1. call[c] \in Attesting
      BY <1>13, CallCases DEF AttestHead, RegistryTypeOK
    <2>2. [executor |-> call[c].executor, demand |-> call[c].demand,
           head |-> Len(transitions[call[c].executor])] \in Attestation
      BY <2>1 DEF Attesting, Attestation, RegistryTypeOK
    <2> QED
      BY <1>0, <1>13, <2>2
      DEF AttestHead, Goto, Tables, RegistryTypeOK, ContinuityTypeOK, continuityVars
  <1>14. ASSUME NEW c \in Callers, GiveUp(c) PROVE RegistryTypeOK'
    BY <1>0, <1>14 DEF GiveUp, Goto, Tables, RegistryTypeOK, ContinuityTypeOK, continuityVars
  <1> QED
    BY <1>1, <1>2, <1>3, <1>4, <1>5, <1>6, <1>7, <1>8, <1>9, <1>10, <1>11, <1>12, <1>13, <1>14
    DEF RegistryNext, RegisterStep, QualifierStep, QualifyStep, EnableStep, RevokeStep, AttestStep

\* Every row, call and answer of the two services is well formed, always.
THEOREM TypeCorrect ==
    ASSUME Assumptions
    PROVE  RegistrySpec => []RegistryTypeOK
  <1>1. RegistryInit => RegistryTypeOK
    BY DEF RegistryInit, ConsumedInit, ContinuityInit, RegistryTypeOK, ContinuityTypeOK
  <1>2. RegistryTypeOK /\ [RegistryNext]_authorityVars => RegistryTypeOK'
    BY TypeStep
  <1> QED
    BY <1>1, <1>2, PTL DEF RegistrySpec
-----------------------------------------------------------------------------
(* How the tables grow                                                     *)

\* A call under way is about a known executor, and a revocation has a decision
\* about that very revocation.
CallsSound ==
    \A c \in Callers :
        /\ call[c].at # "idle" => Known(call[c].executor)
        /\ call[c].at \in {"prepared", "reread"} =>
              /\ call[c].decision.action = Action(Revoked)
              /\ call[c].decision.object = call[c].executor

\* The descriptor of an executor is as old as its life.
KnownAreDescribed ==
    \A e \in Executors : Known(e) => DescriptorVerifies(e, transitions[e])

\* A revocation is never without the consumption that stops a second one.
RevocationsAreConsumed ==
    \A e \in Executors : \A i \in 1..Len(transitions[e]) :
        transitions[e][i].state = Revoked =>
            \E use \in consumed : use.kind = Revoked /\ use.op = e

Life == CallsSound /\ KnownAreDescribed /\ RevocationsAreConsumed /\ LifecycleIsLegal

\* row may come next in the life of e.
MayFollow(e, row) ==
    IF Known(e) THEN row.state \in Successors(Current(e)) ELSE row.state = Registered

\* row is recorded for e with a decision that is spent on it.
Recorded(e, row) ==
    /\ transitions' = [transitions EXCEPT ![e] = Append(transitions[e], row)]
    /\ AuthorizesExactly(row.decision, row.by, Action(row.state), e, row.terms)
    /\ Consume(row.decision, Kind(row.state), OperationId(e, row), row.by)
    /\ MayFollow(e, row)
    /\ row.terms \in ExpectedTerms(e, row)'

\* What recording a row does to the transitions.
LEMMA RecordedRows ==
    ASSUME RegistryTypeOK, NEW e \in Executors, NEW row \in Transition,
           transitions' = [transitions EXCEPT ![e] = Append(transitions[e], row)]
    PROVE  /\ \A x \in Executors \ {e} : transitions'[x] = transitions[x]
           /\ Len(transitions'[e]) = Len(transitions[e]) + 1
           /\ \A i \in 1..Len(transitions[e]) : transitions'[e][i] = transitions[e][i]
           /\ transitions'[e][Len(transitions[e]) + 1] = row
           /\ Len(transitions[e]) \in Nat
           /\ transitions[e] \in Seq(Transition)
  <1>1. transitions[e] \in Seq(Transition)
    BY DEF RegistryTypeOK
  <1>2. transitions'[e] = Append(transitions[e], row)
    BY DEF RegistryTypeOK
  <1> QED
    BY <1>1, <1>2 DEF RegistryTypeOK

\* The last transition of a known executor.
LEMMA LastRow ==
    ASSUME RegistryTypeOK, NEW e \in Executors, Known(e)
    PROVE  /\ Len(transitions[e]) \in 1..Len(transitions[e])
           /\ transitions[e][Len(transitions[e])] \in Transition
           /\ Current(e) \in States
  <1>1. transitions[e] \in Seq(Transition) /\ transitions[e] # <<>>
    BY DEF RegistryTypeOK, Known
  <1>2. Len(transitions[e]) \in 1..Len(transitions[e])
    BY <1>1
  <1>3. transitions[e][Len(transitions[e])] \in Transition
    BY <1>1, <1>2
  <1> QED
    BY <1>2, <1>3 DEF Transition, Current

\* The states and what may follow them.
LEMMA SuccessorSets ==
    /\ Successors(Registered) = {Qualified, Revoked}
    /\ Successors(Qualified) = {Enabled, Revoked}
    /\ Successors(Enabled) = {Revoked}
    /\ Successors(Revoked) = {}
  BY DEF Successors, Registered, Qualified, Enabled, Revoked

\* Registration begins a life.
LEMMA RegisterRecords ==
    ASSUME Assumptions, RegistryTypeOK, Life, NEW m \in Descriptors, NEW d \in Decisions,
           Register(m, d, d.subject)
    PROVE  \E e \in Executors, row \in Transition : Recorded(e, row)
  <1> DEFINE row == [state |-> Registered, terms |-> <<m.digest>>, by |-> d.subject, decision |-> d]
  <1>1. m.executor \in Executors /\ m.digest \in Names /\ d.subject \in Actors
    BY DEF Assumptions, RegistryAssumption, DecisionAssumption
  <1>2. row \in Transition
    <2>1. <<m.digest>> \in Seq(Names)
      BY <1>1
    <2> QED
      BY <1>1, <2>1 DEF Transition, States
  <1>3. ~Known(m.executor)
    BY <1>1 DEF Register, Life, KnownAreDescribed, DescriptorVerifies
  <1>4. MayFollow(m.executor, row)
    BY <1>3 DEF MayFollow
  <1>5. OperationId(m.executor, row) = m.executor
    BY DEF OperationId, Registered, Qualified
  <1>6. row.terms \in ExpectedTerms(m.executor, row)'
    <2>1. [material |-> m, by |-> d.subject, decision |-> d] \in descriptors'
      BY DEF Register
    <2>2. ExpectedTerms(m.executor, row)' =
             {<<made.material.digest>> : made \in {n \in descriptors' :
                                                   n.material.executor = m.executor}}
      BY DEF ExpectedTerms, Registered, Qualified
    <2> QED
      BY <2>1, <2>2
  <1>7. Recorded(m.executor, row)
    BY <1>4, <1>5, <1>6 DEF Recorded, Register, Record, AuthorizesExactly, Authorizes
  <1> QED
    BY <1>1, <1>2, <1>7

\* Qualification follows registration.
LEMMA QualifyRecords ==
    ASSUME Assumptions, RegistryTypeOK, NEW q \in Payloads, NEW k \in Keys, NEW d \in Decisions,
           Qualify(q, k, d, d.subject)
    PROVE  \E e \in Executors, row \in Transition : Recorded(e, row)
  <1> DEFINE row == [state |-> Qualified, terms |-> <<q.id, q.digest, k>>,
                     by |-> d.subject, decision |-> d]
  <1>1. /\ q.executor \in Executors /\ q.id \in Names /\ q.digest \in Names
        /\ k \in Names /\ d.subject \in Actors
    BY DEF Assumptions, RegistryAssumption, ContinuityAssumption, DecisionAssumption
  <1>2. row \in Transition
    <2>1. <<q.id, q.digest, k>> \in Seq(Names)
      BY <1>1
    <2> QED
      BY <1>1, <2>1 DEF Transition, States
  <1>3. MayFollow(q.executor, row)
    <2>1. Known(q.executor) /\ Current(q.executor) = Registered
      BY DEF Qualify
    <2> QED
      BY <2>1, SuccessorSets DEF MayFollow
  <1>4. OperationId(q.executor, row) = q.id
    BY DEF OperationId
  <1>5. row.terms \in ExpectedTerms(q.executor, row)'
    <2>1. [payload |-> q, key |-> k, by |-> d.subject, decision |-> d] \in qualifications'
      BY DEF Qualify
    <2> QED
      BY <2>1 DEF ExpectedTerms, Registered, Qualified
  <1>6. Recorded(q.executor, row)
    BY <1>3, <1>4, <1>5 DEF Recorded, Qualify, Record, AuthorizesExactly, Authorizes
  <1> QED
    BY <1>1, <1>2, <1>6

\* Enablement follows qualification.
LEMMA EnableRecords ==
    ASSUME Assumptions, RegistryTypeOK, NEW e \in Executors, NEW d \in Decisions,
           Enable(e, d, d.subject)
    PROVE  \E row \in Transition : Recorded(e, row)
  <1> DEFINE row == [state |-> Enabled, terms |-> d.terms, by |-> d.subject, decision |-> d]
  <1>1. row \in Transition
    BY DEF Assumptions, DecisionAssumption, Transition, States
  <1>2. MayFollow(e, row)
    BY SuccessorSets DEF Enable, MayFollow
  <1>3. OperationId(e, row) = e
    BY DEF OperationId, Enabled, Qualified
  <1>4. AuthorizesExactly(d, d.subject, Action(Enabled), e, d.terms)
    BY DEF Enable, AuthorizesExactly
  <1>5. row.terms \in ExpectedTerms(e, row)'
    BY DEF ExpectedTerms, Registered, Qualified, Enabled
  <1>6. Recorded(e, row)
    BY <1>2, <1>3, <1>4, <1>5 DEF Recorded, Enable, Record, AuthorizesExactly, Authorizes
  <1> QED
    BY <1>1, <1>6

\* A revocation that commits finds an executor that is not revoked: the other
\* one would have consumed the kind and the executor.
LEMMA RevokeRecords ==
    ASSUME Assumptions, RegistryTypeOK, Life, NEW c \in Callers, RevokeCommit(c)
    PROVE  \E e \in Executors, row \in Transition : Recorded(e, row)
  <1>1. call[c] \in Revoking
    BY CallCases DEF RevokeCommit, RegistryTypeOK
  <1>2. PICK e \in Executors, d \in Decisions : e = call[c].executor /\ d = call[c].decision
    BY <1>1 DEF Revoking
  <1> DEFINE row == [state |-> Revoked, terms |-> d.terms, by |-> d.subject, decision |-> d]
  <1>3. row \in Transition
    BY DEF Assumptions, DecisionAssumption, Transition, States
  <1>4. Known(e) /\ d.action = Action(Revoked) /\ d.object = e
    BY <1>2 DEF Life, CallsSound, RevokeCommit
  <1>5. Consume(d, Kind(Revoked), e, d.subject) /\ Record(e, Revoked, d.terms, d, d.subject)
    BY <1>2 DEF RevokeCommit
  <1>6. Current(e) # Revoked
    <2>1. SUFFICES ASSUME Current(e) = Revoked PROVE FALSE
      OBVIOUS
    <2>2. PICK use \in consumed : use.kind = Revoked /\ use.op = e
      BY <1>4, <2>1, LastRow DEF Life, RevocationsAreConsumed, Current
    <2>3. <<use.kind, use.op>> # <<Kind(Revoked), e>>
      BY <1>5 DEF Consume, Unconsumed
    <2> QED
      BY <2>2, <2>3 DEF Kind, Revoked, Registered
  <1>7. MayFollow(e, row)
    BY <1>4, <1>6, LastRow, SuccessorSets DEF MayFollow, States
  <1>8. OperationId(e, row) = e
    BY DEF OperationId, Revoked, Qualified
  <1>9. row.terms \in ExpectedTerms(e, row)'
    BY DEF ExpectedTerms, Registered, Qualified, Revoked
  <1>10. Recorded(e, row)
    BY <1>4, <1>5, <1>7, <1>8, <1>9 DEF Recorded, Record, AuthorizesExactly, Authorizes
  <1> QED
    BY <1>3, <1>10

\* A step leaves the lives of the executors alone or records what may follow.
LEMMA StepShape ==
    ASSUME Assumptions, RegistryTypeOK, Life, [RegistryNext]_authorityVars
    PROVE  UNCHANGED transitions \/ \E e \in Executors, row \in Transition : Recorded(e, row)
  <1>1. CASE UNCHANGED authorityVars
    BY <1>1 DEF authorityVars, registryVars
  <1>2. CASE ContinuityStep /\ UNCHANGED registryVars
    BY <1>2 DEF registryVars
  <1>3. CASE RegisterStep
    BY <1>3, RegisterRecords DEF RegisterStep
  <1>4. CASE QualifierStep
    BY <1>4 DEF QualifierStep, AcceptQualifierRoot
  <1>5. CASE QualifyStep
    BY <1>5, QualifyRecords DEF QualifyStep
  <1>6. CASE EnableStep
    BY <1>6, EnableRecords DEF EnableStep
  <1>7. CASE RevokeStep
    BY <1>7, RevokeRecords DEF RevokeStep, RevokePrepare, RevokeReread, Tables
  <1>8. CASE AttestStep
    BY <1>8 DEF AttestStep, AttestBegin, AttestVerify, AttestState, AttestHead, GiveUp, Tables
  <1> QED
    BY <1>1, <1>2, <1>3, <1>4, <1>5, <1>6, <1>7, <1>8 DEF RegistryNext

\* No row of a table is ever removed.
LEMMA RowsAreKept ==
    ASSUME [RegistryNext]_authorityVars
    PROVE  /\ consumed \subseteq consumed'
           /\ roots \subseteq roots' /\ reviews \subseteq reviews'
           /\ publications \subseteq publications'
           /\ descriptors \subseteq descriptors' /\ qualifiers \subseteq qualifiers'
           /\ qualifications \subseteq qualifications'
  <1>1. CASE UNCHANGED authorityVars
    BY <1>1 DEF authorityVars, continuityVars, registryVars
  <1>2. CASE ContinuityStep /\ UNCHANGED registryVars
    BY <1>2 DEF registryVars, ContinuityStep, CreateStep, RootStep, ReviewStep, PublishStep,
                CreateIncident, AcceptTrustRoot, AdmitReview, PublishRecovery, Consume
  <1>3. CASE RegisterStep
    BY <1>3 DEF RegisterStep, Register, Consume, continuityVars
  <1>4. CASE QualifierStep
    BY <1>4 DEF QualifierStep, AcceptQualifierRoot, Consume, continuityVars
  <1>5. CASE QualifyStep
    BY <1>5 DEF QualifyStep, Qualify, Consume, continuityVars
  <1>6. CASE EnableStep
    BY <1>6 DEF EnableStep, Enable, Consume, continuityVars
  <1>7. CASE RevokeStep
    BY <1>7 DEF RevokeStep, RevokePrepare, RevokeReread, RevokeCommit, Consume, Tables,
                continuityVars
  <1>8. CASE AttestStep
    BY <1>8 DEF AttestStep, AttestBegin, AttestVerify, AttestState, AttestHead, GiveUp, Tables,
                continuityVars
  <1> QED
    BY <1>1, <1>2, <1>3, <1>4, <1>5, <1>6, <1>7, <1>8 DEF RegistryNext

\* The transitions of an executor are a prefix of what they become.
LEMMA LivesGrow ==
    ASSUME Assumptions, RegistryTypeOK, Life, [RegistryNext]_authorityVars, NEW e \in Executors
    PROVE  /\ Len(transitions[e]) \in Nat /\ Len(transitions'[e]) \in Nat
           /\ Len(transitions[e]) <= Len(transitions'[e])
           /\ \A i \in 1..Len(transitions[e]) : transitions'[e][i] = transitions[e][i]
           /\ Known(e) => Known(e)'
  <1>0. transitions[e] \in Seq(Transition)
    BY DEF RegistryTypeOK
  <1>1. CASE UNCHANGED transitions
    BY <1>0, <1>1 DEF Known
  <1>2. ASSUME NEW x \in Executors, NEW row \in Transition, Recorded(x, row)
        PROVE  /\ Len(transitions[e]) \in Nat /\ Len(transitions'[e]) \in Nat
               /\ Len(transitions[e]) <= Len(transitions'[e])
               /\ \A i \in 1..Len(transitions[e]) : transitions'[e][i] = transitions[e][i]
               /\ Known(e) => Known(e)'
    <2>1. transitions' = [transitions EXCEPT ![x] = Append(transitions[x], row)]
      BY <1>2 DEF Recorded
    <2>2. CASE x = e
      BY <1>0, <2>1, <2>2, RecordedRows DEF Known
    <2>3. CASE x # e
      BY <1>0, <2>1, <2>3, RecordedRows DEF Known
    <2> QED
      BY <2>2, <2>3
  <1> QED
    BY <1>1, <1>2, StepShape
-----------------------------------------------------------------------------
(* Legal lives                                                             *)

\* A row that may follow keeps a legal life legal.
LEMMA LegalStep ==
    ASSUME Assumptions, RegistryTypeOK, Life, [RegistryNext]_authorityVars
    PROVE  LifecycleIsLegal'
  <1>1. CASE UNCHANGED transitions
    BY <1>1 DEF Life, LifecycleIsLegal
  <1>2. ASSUME NEW e \in Executors, NEW row \in Transition, Recorded(e, row)
        PROVE  LifecycleIsLegal'
    <2>1. transitions' = [transitions EXCEPT ![e] = Append(transitions[e], row)]
      BY <1>2 DEF Recorded
    <2>2. SUFFICES ASSUME NEW x \in Executors, NEW i \in 1..Len(transitions'[x])
                   PROVE  IF i = 1 THEN transitions'[x][i].state = Registered
                          ELSE transitions'[x][i].state
                                 \in Successors(transitions'[x][i - 1].state)
      BY DEF LifecycleIsLegal
    <2>3. CASE x # e
      BY <2>1, <2>2, <2>3, RecordedRows DEF Life, LifecycleIsLegal
    <2>4. CASE x = e /\ i <= Len(transitions[e])
      <3>1. i \in 1..Len(transitions[e]) /\ (i # 1 => i - 1 \in 1..Len(transitions[e]))
        BY <2>1, <2>4, RecordedRows
      <3>2. /\ transitions'[e][i] = transitions[e][i]
            /\ i # 1 => transitions'[e][i - 1] = transitions[e][i - 1]
        BY <2>1, <3>1, RecordedRows
      <3> QED
        BY <2>4, <3>1, <3>2 DEF Life, LifecycleIsLegal
    <2>5. CASE x = e /\ i = Len(transitions[e]) + 1
      <3>1. transitions'[e][i] = row /\ MayFollow(e, row)
        BY <1>2, <2>1, <2>5, RecordedRows DEF Recorded
      <3>2. CASE ~Known(e)
        BY <2>5, <3>1, <3>2 DEF Known, MayFollow
      <3>3. CASE Known(e)
        <4>1. i - 1 = Len(transitions[e]) /\ i - 1 \in 1..Len(transitions[e]) /\ i # 1
          BY <2>1, <2>5, <3>3, LastRow, RecordedRows
        <4>2. transitions'[e][i - 1] = transitions[e][i - 1]
          BY <2>1, <4>1, RecordedRows
        <4> QED
          BY <2>5, <3>1, <3>3, <4>1, <4>2 DEF MayFollow, Current
      <3> QED
        BY <3>2, <3>3
    <2> QED
      BY <2>1, <2>3, <2>4, <2>5, RecordedRows
  <1> QED
    BY <1>1, <1>2, StepShape

\* A revocation comes with its consumption.
LEMMA ConsumedStep ==
    ASSUME Assumptions, RegistryTypeOK, Life, [RegistryNext]_authorityVars
    PROVE  RevocationsAreConsumed'
  <1>0. consumed \subseteq consumed'
    BY RowsAreKept
  <1>1. CASE UNCHANGED transitions
    BY <1>0, <1>1 DEF Life, RevocationsAreConsumed
  <1>2. ASSUME NEW e \in Executors, NEW row \in Transition, Recorded(e, row)
        PROVE  RevocationsAreConsumed'
    <2>1. transitions' = [transitions EXCEPT ![e] = Append(transitions[e], row)]
      BY <1>2 DEF Recorded
    <2>2. SUFFICES ASSUME NEW x \in Executors, NEW i \in 1..Len(transitions'[x]),
                          transitions'[x][i].state = Revoked
                   PROVE  \E use \in consumed' : use.kind = Revoked /\ use.op = x
      BY DEF RevocationsAreConsumed
    <2>3. CASE x # e
      BY <1>0, <2>1, <2>2, <2>3, RecordedRows DEF Life, RevocationsAreConsumed
    <2>4. CASE x = e /\ i <= Len(transitions[e])
      <3>1. i \in 1..Len(transitions[e])
        BY <2>1, <2>4, RecordedRows
      <3>2. transitions[e][i].state = Revoked
        BY <2>1, <2>2, <2>4, <3>1, RecordedRows
      <3> QED
        BY <1>0, <2>4, <3>1, <3>2 DEF Life, RevocationsAreConsumed
    <2>5. CASE x = e /\ i = Len(transitions[e]) + 1
      <3>1. row.state = Revoked
        BY <2>1, <2>2, <2>5, RecordedRows
      <3>2. Use(row.decision, Kind(row.state), OperationId(e, row), row.by) \in consumed'
        BY <1>2 DEF Recorded, Consume
      <3>3. Kind(row.state) = Revoked /\ OperationId(e, row) = e
        BY <3>1 DEF Kind, OperationId, Revoked, Registered, Qualified
      <3> QED
        BY <2>5, <3>2, <3>3 DEF Use
    <2> QED
      BY <2>1, <2>3, <2>4, <2>5, RecordedRows
  <1> QED
    BY <1>1, <1>2, StepShape

\* Only a registration begins a life, and it brings the descriptor.
LEMMA DescribedStep ==
    ASSUME Assumptions, RegistryTypeOK, Life, [RegistryNext]_authorityVars
    PROVE  KnownAreDescribed'
  <1>0. descriptors \subseteq descriptors'
    BY RowsAreKept
  <1>1. ASSUME NEW e \in Executors, Known(e)
        PROVE  DescriptorVerifies(e, transitions[e])'
    <2>1. DescriptorVerifies(e, transitions[e])
      BY <1>1 DEF Life, KnownAreDescribed
    <2>2. transitions'[e] # <<>> /\ transitions'[e][1] = transitions[e][1]
      BY <1>1, LastRow, LivesGrow DEF Known
    <2> QED
      BY <1>0, <2>1, <2>2 DEF DescriptorVerifies
  <1>2. CASE RegisterStep
    <2>1. PICK m \in Descriptors, d \in Decisions : Register(m, d, d.subject)
      BY <1>2 DEF RegisterStep
    <2>2. m.executor \in Executors
      BY DEF Assumptions, RegistryAssumption
    <2>3. [material |-> m, by |-> d.subject, decision |-> d] \in descriptors'
      BY <2>1 DEF Register
    <2>4. ~Known(m.executor)
      BY <2>1, <2>2 DEF Register, Life, KnownAreDescribed, DescriptorVerifies
    <2> DEFINE row == [state |-> Registered, terms |-> <<m.digest>>, by |-> d.subject,
                       decision |-> d]
    <2>5. transitions'[m.executor] # <<>> /\ transitions'[m.executor][1] = row
      <3>1. transitions[m.executor] = <<>>
        BY <2>4 DEF Known
      <3>2. transitions'[m.executor] = Append(<<>>, row)
        BY <2>1, <2>2, <3>1 DEF Register, Record, RegistryTypeOK
      <3> QED
        BY <3>2
    <2>6. DescriptorVerifies(m.executor, transitions[m.executor])'
      BY <2>3, <2>5 DEF DescriptorVerifies
    <2>7. \A x \in Executors \ {m.executor} : transitions'[x] = transitions[x]
      BY <2>1 DEF Register, Record, RegistryTypeOK
    <2> QED
      BY <1>1, <2>6, <2>7 DEF KnownAreDescribed, Known
  <1>3. ASSUME NEW e \in Executors, Known(e),
               \A x \in Executors \ {e} : transitions'[x] = transitions[x]
        PROVE  KnownAreDescribed'
    BY <1>1, <1>3 DEF KnownAreDescribed, Known
  <1>4. CASE QualifyStep
    <2>1. PICK q \in Payloads, k \in Keys, d \in Decisions : Qualify(q, k, d, d.subject)
      BY <1>4 DEF QualifyStep
    <2>2. q.executor \in Executors
      BY DEF Assumptions, RegistryAssumption
    <2>3. \A x \in Executors \ {q.executor} : transitions'[x] = transitions[x]
      BY <2>1 DEF Qualify, Record, RegistryTypeOK
    <2> QED
      BY <1>3, <2>1, <2>2, <2>3 DEF Qualify
  <1>5. CASE EnableStep
    <2>1. PICK e \in Executors, d \in Decisions : Enable(e, d, d.subject)
      BY <1>5 DEF EnableStep
    <2>2. \A x \in Executors \ {e} : transitions'[x] = transitions[x]
      BY <2>1 DEF Enable, Record, RegistryTypeOK
    <2> QED
      BY <1>3, <2>1, <2>2 DEF Enable
  <1>6. ASSUME NEW c \in Callers, RevokeCommit(c) PROVE KnownAreDescribed'
    <2>1. PICK e \in Executors : e = call[c].executor /\ Known(e)
      BY <1>6, CallCases DEF RevokeCommit, RegistryTypeOK, Life, CallsSound, Revoking
    <2>2. \A x \in Executors \ {e} : transitions'[x] = transitions[x]
      BY <1>6, <2>1 DEF RevokeCommit, Record, RegistryTypeOK
    <2> QED
      BY <1>3, <2>1, <2>2
  <1>7. CASE UNCHANGED transitions
    BY <1>1, <1>7 DEF KnownAreDescribed, Known
  <1>8. CASE RevokeStep
    BY <1>6, <1>7, <1>8 DEF RevokeStep, RevokePrepare, RevokeReread, Tables
  <1>9. CASE (ContinuityStep /\ UNCHANGED registryVars) \/ QualifierStep \/ AttestStep
             \/ UNCHANGED authorityVars
    BY <1>7, <1>9
    DEF QualifierStep, AcceptQualifierRoot, AttestStep, AttestBegin, AttestVerify, AttestState,
        AttestHead, GiveUp, Tables, authorityVars, registryVars
  <1> QED
    BY <1>2, <1>4, <1>5, <1>8, <1>9 DEF RegistryNext

\* What a revocation under way has seen stays so.
LEMMA CallsStep ==
    ASSUME Assumptions, RegistryTypeOK, Life, [RegistryNext]_authorityVars
    PROVE  CallsSound'
  <1>0. ASSUME NEW e \in Executors, Known(e) PROVE Known(e)'
    BY <1>0, LivesGrow
  <1>1. ASSUME NEW c \in Callers, call[c].at # "idle"
        PROVE  transitions'[call[c].executor] # <<>>
    <2>1. PICK e \in Executors : e = call[c].executor
      BY <1>1, CallCases DEF RegistryTypeOK
    <2>2. Known(e)
      BY <1>1, <2>1 DEF Life, CallsSound
    <2>3. transitions'[e] # <<>>
      BY <1>0, <2>2 DEF Known
    <2> QED
      BY <2>1, <2>3
  <1>2. CASE UNCHANGED call
    BY <1>1, <1>2 DEF Life, CallsSound, Known
  <1>3. ASSUME NEW c \in Callers, NEW now, Goto(c, now),
               now.at # "idle" => transitions'[now.executor] # <<>>,
               now.at \in {"prepared", "reread"} =>
                  /\ now.decision.action = Action(Revoked)
                  /\ now.decision.object = now.executor
        PROVE  CallsSound'
    <2>1. \A x \in Callers \ {c} : call'[x] = call[x]
      BY <1>3 DEF Goto, RegistryTypeOK
    <2>2. call'[c] = now
      BY <1>3 DEF Goto, RegistryTypeOK
    <2> QED
      BY <1>1, <1>3, <2>1, <2>2 DEF Life, CallsSound, Known
  <1>4. CASE RevokeStep
    <2>1. PICK c \in Callers :
             \/ \E e \in Executors, d \in Decisions :
                   \E reason \in Reasons : RevokePrepare(c, e, reason, d, d.subject)
             \/ RevokeReread(c)
             \/ RevokeCommit(c)
      BY <1>4 DEF RevokeStep
    <2>2. ASSUME NEW e \in Executors, NEW d \in Decisions, NEW reason \in Reasons,
                 RevokePrepare(c, e, reason, d, d.subject)
          PROVE  CallsSound'
      <3>1. /\ transitions'[e] # <<>> /\ d.action = Action(Revoked) /\ d.object = e
            /\ Goto(c, [at |-> "prepared", executor |-> e, decision |-> d, seen |-> 0])
        BY <2>2 DEF RevokePrepare, Tables, Known, AuthorizesExactly, Authorizes
      <3> QED
        BY <1>3, <3>1
    <2>3. CASE RevokeReread(c)
      <3>1. /\ Known(call[c].executor)
            /\ call[c].decision.action = Action(Revoked)
            /\ call[c].decision.object = call[c].executor
        BY <2>3 DEF RevokeReread, Life, CallsSound
      <3>2. Goto(c, [at |-> "reread", executor |-> call[c].executor,
                     decision |-> call[c].decision,
                     seen |-> Len(transitions[call[c].executor])])
        BY <2>3 DEF RevokeReread
      <3>3. transitions' = transitions
        BY <2>3 DEF RevokeReread, Tables
      <3> QED
        BY <1>3, <3>1, <3>2, <3>3 DEF Known
    <2>4. CASE RevokeCommit(c)
      BY <1>3, <2>4 DEF RevokeCommit, Idle
    <2> QED
      BY <2>1, <2>2, <2>3, <2>4
  <1>5. CASE AttestStep
    <2>1. PICK c \in Callers :
             \/ \E e \in Executors, demand \in Demands : AttestBegin(c, e, demand)
             \/ AttestVerify(c) \/ AttestState(c) \/ AttestHead(c) \/ GiveUp(c)
      BY <1>5 DEF AttestStep
    <2>2. ASSUME NEW e \in Executors, NEW demand \in Demands, AttestBegin(c, e, demand)
          PROVE  CallsSound'
      BY <1>3, <2>2 DEF AttestBegin, Tables, Known
    <2>3. ASSUME NEW now, Goto(c, now), call[c] \in Attesting, now.executor = call[c].executor,
                 now.at \notin {"prepared", "reread"}
          PROVE  CallsSound'
      <3>1. call[c].at # "idle"
        BY <2>3 DEF Attesting
      <3> QED
        BY <1>1, <1>3, <2>3, <3>1
    <2>4. CASE AttestVerify(c)
      <3>1. call[c] \in Attesting
        BY <2>4, CallCases DEF AttestVerify, RegistryTypeOK
      <3> QED
        BY <2>3, <2>4, <3>1 DEF AttestVerify, Attesting
    <2>5. CASE AttestState(c)
      <3>1. call[c] \in Attesting
        BY <2>5, CallCases DEF AttestState, RegistryTypeOK
      <3> QED
        BY <2>3, <2>5, <3>1 DEF AttestState, Attesting
    <2>6. CASE AttestHead(c) \/ GiveUp(c)
      BY <1>3, <2>6 DEF AttestHead, GiveUp, Idle
    <2> QED
      BY <2>1, <2>2, <2>4, <2>5, <2>6
  <1>6. CASE (ContinuityStep /\ UNCHANGED registryVars) \/ UNCHANGED authorityVars
    BY <1>2, <1>6 DEF registryVars, authorityVars
  <1>7. CASE RegisterStep \/ QualifierStep \/ QualifyStep \/ EnableStep
    BY <1>2, <1>7 DEF RegisterStep, Register, QualifierStep, AcceptQualifierRoot, QualifyStep,
                      Qualify, EnableStep, Enable
  <1> QED
    BY <1>4, <1>5, <1>6, <1>7 DEF RegistryNext

\* Life is inductive.
LEMMA LifeStep ==
    ASSUME Assumptions, RegistryTypeOK, Life, [RegistryNext]_authorityVars
    PROVE  Life'
  BY LegalStep, ConsumedStep, DescribedStep, CallsStep DEF Life

\* No executor lives at the start.
LEMMA LifeInit ==
    ASSUME RegistryInit
    PROVE  Life
  <1>1. \A e \in Executors : transitions[e] = <<>>
    BY DEF RegistryInit
  <1>2. \A c \in Callers : call[c].at = "idle"
    BY DEF RegistryInit, Idle
  <1> QED
    BY <1>1, <1>2 DEF Life, CallsSound, KnownAreDescribed, Known, RevocationsAreConsumed,
                      LifecycleIsLegal

\* An executor lives from registration over qualification to enablement, and a
\* revocation ends its life, whoever overtakes whom.
THEOREM LegalLifecycle ==
    ASSUME Assumptions
    PROVE  RegistrySpec => []LifecycleIsLegal
  <1>1. RegistryInit => RegistryTypeOK /\ Life
    BY LifeInit DEF RegistryInit, ConsumedInit, ContinuityInit, RegistryTypeOK, ContinuityTypeOK
  <1>2. RegistryTypeOK /\ Life /\ [RegistryNext]_authorityVars => RegistryTypeOK' /\ Life'
    BY TypeStep, LifeStep
  <1>3. Life => LifecycleIsLegal
    BY DEF Life
  <1> QED
    BY <1>1, <1>2, <1>3, PTL DEF RegistrySpec
-----------------------------------------------------------------------------
(* Decisions are taken on the record                                       *)

\* A qualification is repeated by a transition of its executor.
QualificationsAreRecorded ==
    \A q \in qualifications :
        \E i \in 1..Len(transitions[q.payload.executor]) :
            LET row == transitions[q.payload.executor][i]
            IN /\ row.state = Qualified
               /\ row.terms = <<q.payload.id, q.payload.digest, q.key>>

\* The decision of a revocation under way names a state its executor came to.
PriorsAreRecorded ==
    \A c \in Callers : call[c].at \in {"prepared", "reread"} =>
        \E j \in 1..Len(transitions[call[c].executor]) :
            call[c].decision.terms[2] = transitions[call[c].executor][j].state

Traced == QualificationsAreRecorded /\ PriorsAreRecorded /\ DecidedOnTheRecord

\* An executor that is in qualification was qualified by its last transition.
LEMMA QualifiedIsLast ==
    ASSUME RegistryTypeOK, Life, NEW e \in Executors, NEW i \in 1..Len(transitions[e]),
           transitions[e][i].state = Qualified, Current(e) = Qualified
    PROVE  i = Len(transitions[e])
  <1>1. transitions[e] \in Seq(Transition) /\ Len(transitions[e]) \in Nat
    BY DEF RegistryTypeOK
  <1> DEFINE n == Len(transitions[e])
  <1>2. SUFFICES ASSUME i < n PROVE FALSE
    BY <1>1
  <1>3. transitions[e][n].state = Qualified
    BY DEF Current
  <1>4. \A j \in 1..n : j # 1 => transitions[e][j].state \in Successors(transitions[e][j - 1].state)
    BY DEF Life, LifecycleIsLegal
  <1>5. transitions[e][i + 1].state \in {Enabled, Revoked}
    <2>1. i + 1 \in 1..n /\ i + 1 # 1 /\ (i + 1) - 1 = i
      BY <1>1, <1>2
    <2> QED
      BY <1>4, <2>1, SuccessorSets
  <1>6. i + 1 # n
    BY <1>3, <1>5 DEF Qualified, Enabled, Revoked
  <1>7. transitions[e][i + 2].state = Revoked
    <2>1. i + 2 \in 1..n /\ i + 2 # 1 /\ (i + 2) - 1 = i + 1
      BY <1>1, <1>2, <1>6
    <2>2. transitions[e][i + 2].state \in Successors(transitions[e][i + 1].state)
      BY <1>4, <2>1
    <2> QED
      BY <1>5, <2>2, SuccessorSets
  <1>8. i + 2 # n
    BY <1>3, <1>7 DEF Qualified, Revoked
  <1>9. i + 3 \in 1..n /\ i + 3 # 1 /\ (i + 3) - 1 = i + 2
    BY <1>1, <1>2, <1>6, <1>8
  <1>10. transitions[e][i + 3].state \in Successors(transitions[e][i + 2].state)
    BY <1>4, <1>9
  <1> QED
    BY <1>7, <1>10, SuccessorSets

\* A row added to a life was decided on the record.
LEMMA DecidedStep ==
    ASSUME RegistryTypeOK, Life, Traced, NEW e \in Executors, NEW row \in Transition,
           transitions' = [transitions EXCEPT ![e] = Append(transitions[e], row)],
           row.state = Enabled =>
              /\ Known(e)
              /\ row.decision.terms = <<transitions[e][Len(transitions[e])].terms[2]>>,
           row.state = Revoked =>
              \E j \in 1..Len(transitions[e]) : row.decision.terms[2] = transitions[e][j].state
    PROVE  DecidedOnTheRecord'
  <1>0. Len(transitions[e]) \in Nat
    BY RecordedRows
  <1> SUFFICES ASSUME NEW x \in Executors, NEW i \in 1..Len(transitions'[x])
               PROVE  /\ transitions'[x][i].state = Enabled =>
                           transitions'[x][i].decision.terms
                             = <<transitions'[x][i - 1].terms[2]>>
                      /\ transitions'[x][i].state = Revoked =>
                           \E j \in 1..(i - 1) :
                              transitions'[x][i].decision.terms[2] = transitions'[x][j].state
    BY DEF DecidedOnTheRecord
  <1>1. CASE x # e
    BY <1>1, RecordedRows DEF Traced, DecidedOnTheRecord
  <1>2. CASE x = e /\ i <= Len(transitions[e])
    <2>1. i \in 1..Len(transitions[e]) /\ transitions'[e][i] = transitions[e][i]
      BY <1>0, <1>2, RecordedRows
    <2>2. \A j \in 1..(i - 1) : transitions'[e][j] = transitions[e][j]
      BY <1>0, <2>1, RecordedRows
    <2>3. ASSUME transitions[e][i].state = Enabled
          PROVE  transitions'[e][i].decision.terms = <<transitions'[e][i - 1].terms[2]>>
      <3>1. i # 1
        BY <2>1, <2>3 DEF Life, LifecycleIsLegal, Enabled, Registered
      <3> QED
        BY <2>1, <2>2, <2>3, <3>1 DEF Traced, DecidedOnTheRecord
    <2>4. ASSUME transitions[e][i].state = Revoked
          PROVE  \E j \in 1..(i - 1) :
                    transitions'[e][i].decision.terms[2] = transitions'[e][j].state
      <3>1. PICK j \in 1..(i - 1) :
               transitions[e][i].decision.terms[2] = transitions[e][j].state
        BY <2>1, <2>4 DEF Traced, DecidedOnTheRecord
      <3> QED
        BY <2>1, <2>2, <3>1
    <2> QED
      BY <1>2, <2>1, <2>3, <2>4
  <1>3. CASE x = e /\ i = Len(transitions[e]) + 1
    <2>1. transitions'[e][i] = row /\ i - 1 = Len(transitions[e])
      BY <1>0, <1>3, RecordedRows
    <2>2. \A j \in 1..(i - 1) : transitions'[e][j] = transitions[e][j]
      BY <2>1, RecordedRows
    <2>3. ASSUME row.state = Enabled
          PROVE  row.decision.terms = <<transitions'[e][i - 1].terms[2]>>
      <3>1. i - 1 \in 1..(i - 1)
        BY <2>1, <2>3, LastRow
      <3> QED
        BY <2>1, <2>2, <2>3, <3>1
    <2>4. ASSUME row.state = Revoked
          PROVE  \E j \in 1..(i - 1) : row.decision.terms[2] = transitions'[e][j].state
      BY <2>1, <2>2, <2>4
    <2> QED
      BY <1>3, <2>1, <2>3, <2>4
  <1>4. x # e \/ (x = e /\ i <= Len(transitions[e])) \/ (x = e /\ i = Len(transitions[e]) + 1)
    <2>1. Len(transitions'[e]) = Len(transitions[e]) + 1
      BY RecordedRows
    <2> QED
      BY <1>0, <2>1
  <1> QED
    BY <1>1, <1>2, <1>3, <1>4

\* Only qualify files a qualification, and its transition with it.
LEMMA QualificationsRecordedStep ==
    ASSUME Assumptions, RegistryTypeOK, Life, Traced, [RegistryNext]_authorityVars
    PROVE  QualificationsAreRecorded'
  <1>1. ASSUME NEW q \in qualifications
        PROVE  \E i \in 1..Len(transitions'[q.payload.executor]) :
                  /\ transitions'[q.payload.executor][i].state = Qualified
                  /\ transitions'[q.payload.executor][i].terms
                       = <<q.payload.id, q.payload.digest, q.key>>
    <2>1. PICK e \in Executors : e = q.payload.executor
      BY DEF RegistryTypeOK, QualificationRow, Assumptions, RegistryAssumption
    <2>2. PICK i \in 1..Len(transitions[e]) :
             /\ transitions[e][i].state = Qualified
             /\ transitions[e][i].terms = <<q.payload.id, q.payload.digest, q.key>>
      BY <2>1 DEF Traced, QualificationsAreRecorded
    <2>3. i \in 1..Len(transitions'[e]) /\ transitions'[e][i] = transitions[e][i]
      BY LivesGrow
    <2> QED
      BY <2>1, <2>2, <2>3
  <1>2. CASE UNCHANGED qualifications
    BY <1>1, <1>2 DEF QualificationsAreRecorded
  <1>3. CASE QualifyStep
    <2>1. PICK q \in Payloads, k \in Keys, d \in Decisions : Qualify(q, k, d, d.subject)
      BY <1>3 DEF QualifyStep
    <2> DEFINE row == [state |-> Qualified, terms |-> <<q.id, q.digest, k>>,
                       by |-> d.subject, decision |-> d]
               new == [payload |-> q, key |-> k, by |-> d.subject, decision |-> d]
    <2>2. q.executor \in Executors
      BY DEF Assumptions, RegistryAssumption
    <2>3. transitions[q.executor] \in Seq(Transition)
      BY <2>2 DEF RegistryTypeOK
    <2>4. transitions'[q.executor] = Append(transitions[q.executor], row)
      BY <2>1, <2>2 DEF Qualify, Record, RegistryTypeOK
    <2>5. PICK i \in 1..Len(transitions'[q.executor]) : transitions'[q.executor][i] = row
      BY <2>3, <2>4
    <2>6. \E j \in 1..Len(transitions'[new.payload.executor]) :
             /\ transitions'[new.payload.executor][j].state = Qualified
             /\ transitions'[new.payload.executor][j].terms
                  = <<new.payload.id, new.payload.digest, new.key>>
      BY <2>5
    <2>7. qualifications' = qualifications \cup {new}
      BY <2>1 DEF Qualify
    <2> QED
      BY <1>1, <2>6, <2>7 DEF QualificationsAreRecorded
  <1>4. CASE (ContinuityStep /\ UNCHANGED registryVars) \/ UNCHANGED authorityVars
    BY <1>2, <1>4 DEF registryVars, authorityVars
  <1>5. CASE RegisterStep \/ QualifierStep \/ EnableStep
    BY <1>2, <1>5 DEF RegisterStep, Register, QualifierStep, AcceptQualifierRoot, EnableStep, Enable
  <1>6. CASE RevokeStep \/ AttestStep
    BY <1>2, <1>6 DEF RevokeStep, RevokePrepare, RevokeReread, RevokeCommit, AttestStep,
       AttestBegin, AttestVerify, AttestState, AttestHead, GiveUp, Tables
  <1> QED
    BY <1>3, <1>4, <1>5, <1>6 DEF RegistryNext

\* The state that a revocation under way has decided on stays on record.
LEMMA PriorsStep ==
    ASSUME Assumptions, RegistryTypeOK, Life, Traced, [RegistryNext]_authorityVars
    PROVE  PriorsAreRecorded'
  <1>1. ASSUME NEW e \in Executors, NEW s, \E j \in 1..Len(transitions[e]) :
                                             s = transitions[e][j].state
        PROVE  \E j \in 1..Len(transitions'[e]) : s = transitions'[e][j].state
    <2>1. PICK j \in 1..Len(transitions[e]) : s = transitions[e][j].state
      BY <1>1
    <2>2. j \in 1..Len(transitions'[e]) /\ transitions'[e][j] = transitions[e][j]
      BY LivesGrow
    <2> QED
      BY <2>1, <2>2
  <1>2. ASSUME NEW c \in Callers, call[c].at \in {"prepared", "reread"}
        PROVE  \E j \in 1..Len(transitions'[call[c].executor]) :
                  call[c].decision.terms[2] = transitions'[call[c].executor][j].state
    <2>1. PICK e \in Executors : e = call[c].executor
      BY <1>2, CallCases DEF RegistryTypeOK
    <2>2. \E j \in 1..Len(transitions[e]) :
             call[c].decision.terms[2] = transitions[e][j].state
      BY <1>2, <2>1 DEF Traced, PriorsAreRecorded
    <2>3. \E j \in 1..Len(transitions'[e]) :
             call[c].decision.terms[2] = transitions'[e][j].state
      BY <1>1, <2>2
    <2> QED
      BY <2>1, <2>3
  <1>3. CASE UNCHANGED call
    BY <1>2, <1>3 DEF PriorsAreRecorded
  <1>4. ASSUME NEW c \in Callers, NEW now, Goto(c, now),
               now.at \in {"prepared", "reread"} =>
                  \E j \in 1..Len(transitions'[now.executor]) :
                     now.decision.terms[2] = transitions'[now.executor][j].state
        PROVE  PriorsAreRecorded'
    <2>1. \A x \in Callers \ {c} : call'[x] = call[x]
      BY <1>4 DEF Goto, RegistryTypeOK
    <2>2. call'[c] = now
      BY <1>4 DEF Goto, RegistryTypeOK
    <2> QED
      BY <1>2, <1>4, <2>1, <2>2 DEF PriorsAreRecorded
  <1>5. ASSUME NEW c \in Callers, NEW e \in Executors, NEW d \in Decisions,
               NEW reason \in Reasons, RevokePrepare(c, e, reason, d, d.subject)
        PROVE  PriorsAreRecorded'
    <2>1. /\ Known(e) /\ d.terms = <<reason, Current(e)>>
          /\ Goto(c, [at |-> "prepared", executor |-> e, decision |-> d, seen |-> 0])
          /\ transitions' = transitions
      BY <1>5 DEF RevokePrepare, AuthorizesExactly, Tables
    <2>2. \E j \in 1..Len(transitions'[e]) : d.terms[2] = transitions'[e][j].state
      BY <2>1, LastRow DEF Current
    <2> QED
      BY <1>4, <2>1, <2>2
  <1>6. ASSUME NEW c \in Callers, RevokeReread(c)
        PROVE  PriorsAreRecorded'
    <2>1. call[c].at = "prepared"
      BY <1>6 DEF RevokeReread
    <2>2. Goto(c, [at |-> "reread", executor |-> call[c].executor, decision |-> call[c].decision,
                   seen |-> Len(transitions[call[c].executor])])
      BY <1>6 DEF RevokeReread
    <2> QED
      BY <1>2, <1>4, <2>1, <2>2
  <1>7. ASSUME NEW c \in Callers, RevokeCommit(c)
        PROVE  PriorsAreRecorded'
    BY <1>4, <1>7 DEF RevokeCommit, Idle
  <1>8. CASE AttestStep
    <2>1. PICK c \in Callers : \/ \E e \in Executors, demand \in Demands :
                                     AttestBegin(c, e, demand)
                               \/ AttestVerify(c) \/ AttestState(c)
                               \/ AttestHead(c) \/ GiveUp(c)
      BY <1>8 DEF AttestStep
    <2>2. CASE \E e \in Executors, demand \in Demands : AttestBegin(c, e, demand)
      BY <1>4, <2>2 DEF AttestBegin
    <2>3. CASE AttestVerify(c) \/ AttestState(c)
      <3>1. call[c] \in Attesting
        BY <2>3, CallCases DEF AttestVerify, AttestState, RegistryTypeOK
      <3> QED
        BY <1>4, <2>3, <3>1 DEF AttestVerify, AttestState, Attesting
    <2>4. CASE AttestHead(c) \/ GiveUp(c)
      BY <1>4, <2>4 DEF AttestHead, GiveUp, Idle
    <2> QED
      BY <2>1, <2>2, <2>3, <2>4
  <1>9. CASE (ContinuityStep /\ UNCHANGED registryVars) \/ UNCHANGED authorityVars
    BY <1>3, <1>9 DEF registryVars, authorityVars
  <1>10. CASE RegisterStep \/ QualifierStep \/ QualifyStep \/ EnableStep
    BY <1>3, <1>10 DEF RegisterStep, Register, QualifierStep, AcceptQualifierRoot, QualifyStep,
                       Qualify, EnableStep, Enable
  <1> QED
    BY <1>5, <1>6, <1>7, <1>8, <1>9, <1>10 DEF RegistryNext, RevokeStep

\* Whatever is recorded was decided on the record.
LEMMA DecisionsStep ==
    ASSUME Assumptions, RegistryTypeOK, Life, Traced, [RegistryNext]_authorityVars
    PROVE  DecidedOnTheRecord'
  <1>1. CASE UNCHANGED transitions
    BY <1>1 DEF Traced, DecidedOnTheRecord
  <1>2. CASE RegisterStep
    <2>1. PICK m \in Descriptors, d \in Decisions : Register(m, d, d.subject)
      BY <1>2 DEF RegisterStep
    <2> DEFINE row == [state |-> Registered, terms |-> <<m.digest>>, by |-> d.subject,
                       decision |-> d]
    <2>2. m.executor \in Executors /\ m.digest \in Names /\ d.subject \in Actors
      BY DEF Assumptions, RegistryAssumption, DecisionAssumption
    <2>3. row \in Transition
      <3>1. <<m.digest>> \in Seq(Names)
        BY <2>2
      <3> QED
        BY <2>2, <3>1 DEF Transition, States
    <2>4. transitions' = [transitions EXCEPT ![m.executor] = Append(transitions[m.executor], row)]
      BY <2>1 DEF Register, Record
    <2>5. row.state # Enabled /\ row.state # Revoked
      BY DEF Registered, Enabled, Revoked
    <2> QED
      BY <2>2, <2>3, <2>4, <2>5, DecidedStep
  <1>3. CASE QualifyStep
    <2>1. PICK q \in Payloads, k \in Keys, d \in Decisions : Qualify(q, k, d, d.subject)
      BY <1>3 DEF QualifyStep
    <2> DEFINE row == [state |-> Qualified, terms |-> <<q.id, q.digest, k>>,
                       by |-> d.subject, decision |-> d]
    <2>2. /\ q.executor \in Executors /\ q.id \in Names /\ q.digest \in Names
          /\ k \in Names /\ d.subject \in Actors
      BY DEF Assumptions, RegistryAssumption, ContinuityAssumption, DecisionAssumption
    <2>3. row \in Transition
      <3>1. <<q.id, q.digest, k>> \in Seq(Names)
        BY <2>2
      <3> QED
        BY <2>2, <3>1 DEF Transition, States
    <2>4. transitions' = [transitions EXCEPT ![q.executor] = Append(transitions[q.executor], row)]
      BY <2>1 DEF Qualify, Record
    <2>5. row.state # Enabled /\ row.state # Revoked
      BY DEF Qualified, Enabled, Revoked
    <2> QED
      BY <2>2, <2>3, <2>4, <2>5, DecidedStep
  <1>4. ASSUME NEW e \in Executors, NEW d \in Decisions, Enable(e, d, d.subject)
        PROVE  DecidedOnTheRecord'
    <2> DEFINE row == [state |-> Enabled, terms |-> d.terms, by |-> d.subject, decision |-> d]
    <2>1. row \in Transition
      BY DEF Assumptions, DecisionAssumption, Transition, States
    <2>2. transitions' = [transitions EXCEPT ![e] = Append(transitions[e], row)]
      BY <1>4 DEF Enable, Record
    <2>3. PICK q \in qualifications : /\ q.payload.executor = e
                                      /\ d.terms = <<q.payload.digest>>
      BY <1>4 DEF Enable, AuthorizesExactly
    <2>4. PICK i \in 1..Len(transitions[e]) :
             /\ transitions[e][i].state = Qualified
             /\ transitions[e][i].terms = <<q.payload.id, q.payload.digest, q.key>>
      BY <2>3 DEF Traced, QualificationsAreRecorded
    <2>5. Known(e) /\ Current(e) = Qualified
      BY <1>4 DEF Enable
    <2>6. i = Len(transitions[e])
      BY <2>4, <2>5, QualifiedIsLast
    <2>7. row.decision.terms = <<transitions[e][Len(transitions[e])].terms[2]>>
      BY <2>3, <2>4, <2>6
    <2>8. row.state # Revoked
      BY DEF Enabled, Revoked
    <2> QED
      BY <2>1, <2>2, <2>5, <2>7, <2>8, DecidedStep
  <1>5. ASSUME NEW c \in Callers, RevokeCommit(c)
        PROVE  DecidedOnTheRecord'
    <2>1. call[c] \in Revoking /\ call[c].at = "reread"
      BY <1>5, CallCases DEF RevokeCommit, RegistryTypeOK
    <2>2. PICK e \in Executors, d \in Decisions : e = call[c].executor /\ d = call[c].decision
      BY <2>1 DEF Revoking
    <2> DEFINE row == [state |-> Revoked, terms |-> d.terms, by |-> d.subject, decision |-> d]
    <2>3. row \in Transition
      BY DEF Assumptions, DecisionAssumption, Transition, States
    <2>4. transitions' = [transitions EXCEPT ![e] = Append(transitions[e], row)]
      BY <1>5, <2>2 DEF RevokeCommit, Record
    <2>5. \E j \in 1..Len(transitions[e]) : row.decision.terms[2] = transitions[e][j].state
      BY <2>1, <2>2 DEF Traced, PriorsAreRecorded
    <2>6. row.state # Enabled
      BY DEF Enabled, Revoked
    <2> QED
      BY <2>3, <2>4, <2>5, <2>6, DecidedStep
  <1>6. CASE RevokeStep
    BY <1>1, <1>5, <1>6 DEF RevokeStep, RevokePrepare, RevokeReread, Tables
  <1>7. CASE (ContinuityStep /\ UNCHANGED registryVars) \/ QualifierStep \/ AttestStep
             \/ UNCHANGED authorityVars
    BY <1>1, <1>7
    DEF QualifierStep, AcceptQualifierRoot, AttestStep, AttestBegin, AttestVerify, AttestState,
        AttestHead, GiveUp, Tables, authorityVars, registryVars
  <1> QED
    BY <1>2, <1>3, <1>4, <1>6, <1>7 DEF RegistryNext, EnableStep

\* An enablement is decided on the qualification that its executor recorded
\* before, and a revocation on a state its executor had come to, whoever
\* overtakes whom between the decision and the transaction.
THEOREM DecisionsFitTheRecord ==
    ASSUME Assumptions
    PROVE  RegistrySpec => []DecidedOnTheRecord
  <1>1. RegistryInit => RegistryTypeOK /\ Life /\ Traced
    <2> SUFFICES ASSUME RegistryInit PROVE RegistryTypeOK /\ Life /\ Traced
      OBVIOUS
    <2>1. RegistryTypeOK
      BY DEF RegistryInit, ConsumedInit, ContinuityInit, RegistryTypeOK, ContinuityTypeOK
    <2>2. \A e \in Executors : 1..Len(transitions[e]) = {}
      BY DEF RegistryInit
    <2>3. \A c \in Callers : call[c].at = "idle"
      BY DEF RegistryInit, Idle
    <2>4. qualifications = {}
      BY DEF RegistryInit
    <2> QED
      BY <2>1, <2>2, <2>3, <2>4, LifeInit
      DEF Traced, QualificationsAreRecorded, PriorsAreRecorded, DecidedOnTheRecord
  <1>2. RegistryTypeOK /\ Life /\ Traced /\ [RegistryNext]_authorityVars
           => RegistryTypeOK' /\ Life' /\ Traced'
    BY TypeStep, LifeStep, QualificationsRecordedStep, PriorsStep, DecisionsStep DEF Traced
  <1>3. Traced => DecidedOnTheRecord
    BY DEF Traced
  <1> QED
    BY <1>1, <1>2, <1>3, PTL DEF RegistrySpec
-----------------------------------------------------------------------------
(* What a recovery rests on                                                *)

IncidentIdsDiffer ==
    \A i, j \in incidents : i.id = j.id => i = j

\* A publication is the only one of its incident and of its review.
PublicationsDiffer ==
    \A p, q \in publications : p # q => p.incident # q.incident /\ p.review # q.review

\* A publication stands on a review of its incident, with authority, and its
\* incident shows it.
PublicationsStand ==
    \A p \in publications :
        /\ \E r \in reviews : /\ r.signed.id = p.review
                              /\ r.incident = p.incident
                              /\ r.signed.eligible
        /\ \E i \in incidents : i.id = p.incident /\ i.status = Published
        /\ Authorizes(p.decision, p.by, "continuity.recovery.publish", p.incident)
        /\ \E use \in consumed : /\ use.decision = p.decision
                                 /\ use.kind = "RECOVERY_PUBLISHED"
                                 /\ use.op = p.id

\* A review is about the archive of its incident and under an accepted key.
ReviewsStand ==
    \A r \in reviews :
        /\ \E i \in incidents : i.id = r.incident /\ i.archive = r.signed.archive
        /\ \E root \in roots : root.key = r.key /\ root.pem = r.signed.signer

\* An incident that shows a recovery has a publication.
RecoveriesArePublished ==
    \A i \in incidents : i.status = Published => \E p \in publications : p.incident = i.id

RootsVerify == \A root \in roots : RootVerifies(root)

Backed == /\ IncidentIdsDiffer /\ PublicationsDiffer /\ PublicationsStand
          /\ ReviewsStand /\ RecoveriesArePublished /\ RootsVerify

\* Consumptions are kept, so that what verifies does so ever after.
LEMMA RootsStay ==
    ASSUME Backed, consumed \subseteq consumed', NEW root \in roots
    PROVE  RootVerifies(root)'
  BY DEF Backed, RootsVerify, RootVerifies

\* An operation of the kernel keeps every incident on its ground.
LEMMA BackedStep ==
    ASSUME Assumptions, RegistryTypeOK, Backed, [RegistryNext]_authorityVars
    PROVE  Backed'
  <1>0. /\ consumed \subseteq consumed' /\ roots \subseteq roots'
        /\ reviews \subseteq reviews' /\ publications \subseteq publications'
    BY RowsAreKept
  <1>1. ASSUME UNCHANGED continuityVars PROVE Backed'
    <2>1. RootsVerify'
      BY <1>0, <1>1, RootsStay DEF RootsVerify, continuityVars
    <2>2. PublicationsStand'
      BY <1>0, <1>1 DEF Backed, PublicationsStand, continuityVars
    <2> QED
      BY <1>1, <2>1, <2>2 DEF Backed, IncidentIdsDiffer, PublicationsDiffer, ReviewsStand,
                              RecoveriesArePublished, continuityVars
  <1>2. ASSUME NEW i \in Incidents, NEW a \in Archives, CreateIncident(i, a) PROVE Backed'
    <2> DEFINE row == [id |-> i, archive |-> a, status |-> Waiting]
    <2>1. /\ incidents' = incidents \cup {row}
          /\ \A j \in incidents : j.id # i
          /\ UNCHANGED <<consumed, roots, reviews, publications>>
      BY <1>2 DEF CreateIncident
    <2>2. IncidentIdsDiffer'
      BY <2>1 DEF Backed, IncidentIdsDiffer
    <2>3. RecoveriesArePublished'
      BY <2>1 DEF Backed, RecoveriesArePublished, Waiting, Published
    <2>4. PublicationsStand' /\ ReviewsStand'
      BY <2>1 DEF Backed, PublicationsStand, ReviewsStand
    <2> QED
      BY <1>0, <2>1, <2>2, <2>3, <2>4, RootsStay DEF Backed, PublicationsDiffer, RootsVerify
  <1>3. ASSUME NEW k \in Keys, NEW pem \in Pems, NEW d \in Decisions,
               AcceptTrustRoot(k, pem, d, d.subject)
        PROVE  Backed'
    <2> DEFINE row == [key |-> k, pem |-> pem, by |-> d.subject, decision |-> d]
    <2>1. /\ roots' = roots \cup {row}
          /\ UNCHANGED <<incidents, reviews, publications>>
      BY <1>3 DEF AcceptTrustRoot
    <2>2. RootVerifies(row)'
      BY <1>3 DEF AcceptTrustRoot, RootVerifies, Consume
    <2>3. RootsVerify'
      BY <1>0, <2>1, <2>2, RootsStay DEF RootsVerify
    <2>4. PublicationsStand' /\ ReviewsStand'
      BY <1>0, <2>1 DEF Backed, PublicationsStand, ReviewsStand
    <2> QED
      BY <2>1, <2>3, <2>4 DEF Backed, IncidentIdsDiffer, PublicationsDiffer,
                              RecoveriesArePublished
  <1>4. ASSUME NEW i \in Incidents, NEW k \in Keys, NEW r \in Reviews, AdmitReview(i, k, r)
        PROVE  Backed'
    <2> DEFINE row == [incident |-> i, key |-> k, signed |-> r]
    <2>1. /\ reviews' = reviews \cup {row}
          /\ \E j \in incidents : j.id = i /\ j.archive = r.archive
          /\ \E root \in roots : root.key = k /\ root.pem = r.signer
          /\ UNCHANGED <<consumed, incidents, roots, publications>>
      BY <1>4 DEF AdmitReview
    <2>2. ReviewsStand'
      BY <2>1 DEF Backed, ReviewsStand
    <2>3. PublicationsStand'
      BY <2>1 DEF Backed, PublicationsStand
    <2> QED
      BY <1>0, <2>1, <2>2, <2>3, RootsStay
      DEF Backed, IncidentIdsDiffer, PublicationsDiffer, RecoveriesArePublished, RootsVerify
  <1>5. ASSUME NEW i \in Incidents, NEW r \in Reviews, NEW p \in Publications,
               NEW d \in Decisions, PublishRecovery(i, r.id, p, d, d.subject)
        PROVE  Backed'
    <2> DEFINE new == [id |-> p, incident |-> i, review |-> r.id, by |-> d.subject,
                       decision |-> d]
    <2>1. PICK row \in incidents :
             /\ row.id = i /\ row.status = Waiting
             /\ incidents' = (incidents \ {row}) \cup
                                {[id |-> i, archive |-> row.archive, status |-> Published]}
      BY <1>5 DEF PublishRecovery
    <2>2. /\ publications' = publications \cup {new}
          /\ UNCHANGED <<roots, reviews>>
          /\ \A q \in publications : q.review # r.id
          /\ \E v \in reviews : v.incident = i /\ v.signed.id = r.id /\ v.signed.eligible
          /\ Authorizes(d, d.subject, "continuity.recovery.publish", i)
          /\ Use(d, "RECOVERY_PUBLISHED", p, d.subject) \in consumed'
      BY <1>5 DEF PublishRecovery, AdmittedFor, Consume, FiledUnder
    <2>3. \A j \in incidents : j.id = i => j = row
      BY <2>1 DEF Backed, IncidentIdsDiffer
    <2>4. \A q \in publications : q.incident # i
      BY <2>1, <2>3 DEF Backed, PublicationsStand, Waiting, Published
    <2>5. PublicationsDiffer'
      BY <2>2, <2>4 DEF Backed, PublicationsDiffer
    <2>6. IncidentIdsDiffer'
      BY <2>1, <2>3 DEF Backed, IncidentIdsDiffer
    <2>7. PICK done \in incidents' : /\ done.id = i /\ done.archive = row.archive
                                     /\ done.status = Published
                                     /\ incidents' = (incidents \ {row}) \cup {done}
      <3> DEFINE done == [id |-> i, archive |-> row.archive, status |-> Published]
      <3>1. done.id = i /\ done.archive = row.archive /\ done.status = Published
        OBVIOUS
      <3>2. incidents' = (incidents \ {row}) \cup {done}
        BY <2>1
      <3> HIDE DEF done
      <3> QED
        BY <3>1, <3>2
    <2>8. \A j \in incidents : \E n \in incidents' :
             /\ n.id = j.id
             /\ n.archive = j.archive
             /\ (j.status = Published => n.status = Published)
      <3>1. SUFFICES ASSUME NEW j \in incidents
                     PROVE  \E n \in incidents' :
                               /\ n.id = j.id
                               /\ n.archive = j.archive
                               /\ (j.status = Published => n.status = Published)
        OBVIOUS
      <3>2. CASE j = row
        BY <2>1, <2>7, <3>2
      <3>3. CASE j # row
        BY <2>7, <3>3
      <3> QED
        BY <3>2, <3>3
    <2>9. ReviewsStand'
      BY <2>2, <2>8 DEF Backed, ReviewsStand
    <2>10. PublicationsStand'
      <3>1. ASSUME NEW q \in publications
            PROVE  \E j \in incidents' : j.id = q.incident /\ j.status = Published
        BY <2>8 DEF Backed, PublicationsStand
      <3>2. \E j \in incidents' : j.id = i /\ j.status = Published
        BY <2>7
      <3> QED
        BY <1>0, <2>2, <3>1, <3>2 DEF Backed, PublicationsStand, Use
    <2>11. RecoveriesArePublished'
      <3>1. new \in publications' /\ new.incident = i
        BY <2>2
      <3> HIDE DEF new
      <3> QED
        BY <1>0, <2>7, <3>1 DEF Backed, RecoveriesArePublished
    <2>12. RootsVerify'
      BY <1>0, <2>2, RootsStay DEF RootsVerify
    <2> QED
      BY <2>5, <2>6, <2>9, <2>10, <2>11, <2>12 DEF Backed
  <1>6. CASE ContinuityStep
    BY <1>2, <1>3, <1>4, <1>5, <1>6
    DEF ContinuityStep, CreateStep, RootStep, ReviewStep, PublishStep
  <1>7. CASE RegisterStep \/ QualifierStep \/ QualifyStep \/ EnableStep
    BY <1>1, <1>7 DEF RegisterStep, Register, QualifierStep, AcceptQualifierRoot, QualifyStep,
                      Qualify, EnableStep, Enable
  <1>8. CASE RevokeStep \/ AttestStep
    BY <1>1, <1>8 DEF RevokeStep, RevokePrepare, RevokeReread, RevokeCommit, AttestStep,
       AttestBegin, AttestVerify, AttestState, AttestHead, GiveUp, Tables
  <1>9. CASE UNCHANGED authorityVars
    BY <1>1, <1>9 DEF authorityVars
  <1> QED
    BY <1>6, <1>7, <1>8, <1>9 DEF RegistryNext

\* At the start there is nothing to back.
LEMMA BackedInit ==
    ASSUME RegistryInit
    PROVE  Backed
  BY DEF RegistryInit, ContinuityInit, Backed, IncidentIdsDiffer, PublicationsDiffer, PublicationsStand,
         ReviewsStand, RecoveriesArePublished, RootsVerify

\* The property is a consequence.
LEMMA BackedSuffices ==
    ASSUME Backed
    PROVE  RecoveryIsBacked
  <1> SUFFICES ASSUME NEW i \in incidents, i.status = Published
               PROVE  \E p \in publications :
                         /\ p.incident = i.id
                         /\ \A q \in publications \ {p} :
                               q.incident # i.id /\ q.review # p.review
                         /\ \E r \in reviews :
                               /\ r.signed.id = p.review
                               /\ r.incident = i.id
                               /\ r.signed.eligible
                               /\ r.signed.archive = i.archive
                               /\ \E root \in roots : root.key = r.key
                                                      /\ root.pem = r.signed.signer
    BY DEF RecoveryIsBacked
  <1>1. PICK p \in publications : p.incident = i.id
    BY DEF Backed, RecoveriesArePublished
  <1>2. \A q \in publications \ {p} : q.incident # i.id /\ q.review # p.review
    BY <1>1 DEF Backed, PublicationsDiffer
  <1>3. PICK r \in reviews : r.signed.id = p.review /\ r.incident = i.id /\ r.signed.eligible
    BY <1>1 DEF Backed, PublicationsStand
  <1>4. r.signed.archive = i.archive
    BY <1>3 DEF Backed, ReviewsStand, IncidentIdsDiffer
  <1>5. \E root \in roots : root.key = r.key /\ root.pem = r.signed.signer
    BY DEF Backed, ReviewsStand
  <1> QED
    BY <1>1, <1>2, <1>3, <1>4, <1>5

\* An incident is recovered by one publication of one eligible review, which
\* was admitted for it, about its archive, under an accepted key.
THEOREM RecoveryBacked ==
    ASSUME Assumptions
    PROVE  RegistrySpec => []RecoveryIsBacked
  <1>1. RegistryInit => RegistryTypeOK /\ Backed
    BY BackedInit DEF RegistryInit, ConsumedInit, ContinuityInit, RegistryTypeOK, ContinuityTypeOK
  <1>2. RegistryTypeOK /\ Backed /\ [RegistryNext]_authorityVars => RegistryTypeOK' /\ Backed'
    BY TypeStep, BackedStep
  <1>3. Backed => RecoveryIsBacked
    BY BackedSuffices
  <1> QED
    BY <1>1, <1>2, <1>3, PTL DEF RegistrySpec
-----------------------------------------------------------------------------
(* What was written verifies                                               *)

\* The part of TransitionVerifies about one row alone.
RowVerifies(e, row) ==
    /\ \E terms \in ExpectedTerms(e, row) :
          AuthorizesExactly(row.decision, row.by, Action(row.state), e, terms)
    /\ Use(row.decision, Kind(row.state), OperationId(e, row), row.by) \in consumed

RowsVerify ==
    \A e \in Executors : \A i \in 1..Len(transitions[e]) : RowVerifies(e, transitions[e][i])

QualificationsStand ==
    \A q \in qualifications :
        QualificationVerifies(q.payload.executor, transitions[q.payload.executor], q)

Verified == RowsVerify /\ QualificationsStand

\* Tables grow, so a row that verifies goes on doing so.
LEMMA RowStays ==
    ASSUME [RegistryNext]_authorityVars, NEW e \in Executors, NEW row, RowVerifies(e, row)
    PROVE  RowVerifies(e, row)'
  <1>1. /\ consumed \subseteq consumed' /\ descriptors \subseteq descriptors'
        /\ qualifications \subseteq qualifications'
    BY RowsAreKept
  <1>2. ExpectedTerms(e, row) \subseteq ExpectedTerms(e, row)'
    <2>1. CASE row.state = Registered
      <3>1. /\ ExpectedTerms(e, row) = {<<m.material.digest>> : m \in
                                          {n \in descriptors : n.material.executor = e}}
            /\ ExpectedTerms(e, row)' = {<<m.material.digest>> : m \in
                                          {n \in descriptors' : n.material.executor = e}}
        BY <2>1 DEF ExpectedTerms, Registered, Qualified
      <3> QED
        BY <1>1, <3>1
    <2>2. CASE row.state = Qualified
      <3>1. /\ ExpectedTerms(e, row) =
                 {<<q.payload.id, q.payload.digest, q.key>> : q \in
                    {n \in qualifications : n.payload.executor = e}}
            /\ ExpectedTerms(e, row)' =
                 {<<q.payload.id, q.payload.digest, q.key>> : q \in
                    {n \in qualifications' : n.payload.executor = e}}
        BY <2>2 DEF ExpectedTerms, Registered, Qualified
      <3> QED
        BY <1>1, <3>1
    <2>3. CASE row.state # Registered /\ row.state # Qualified
      BY <2>3 DEF ExpectedTerms
    <2> QED
      BY <2>1, <2>2, <2>3
  <1> QED
    BY <1>1, <1>2 DEF RowVerifies

\* A qualification that verifies goes on doing so.
LEMMA QualificationStays ==
    ASSUME Assumptions, RegistryTypeOK, Life, [RegistryNext]_authorityVars, NEW e \in Executors, NEW q,
           QualificationVerifies(e, transitions[e], q)
    PROVE  QualificationVerifies(e, transitions[e], q)'
  <1>1. /\ consumed \subseteq consumed' /\ descriptors \subseteq descriptors'
        /\ qualifiers \subseteq qualifiers'
    BY RowsAreKept
  <1>2. \E i \in 1..Len(transitions'[e]) : /\ transitions'[e][i].state = Qualified
                                          /\ transitions'[e][i].by = q.by
                                          /\ transitions'[e][i].decision = q.decision
                                          /\ transitions'[e][i].terms[1] = q.payload.id
    <2>1. PICK i \in 1..Len(transitions[e]) : /\ transitions[e][i].state = Qualified
                                              /\ transitions[e][i].by = q.by
                                              /\ transitions[e][i].decision = q.decision
                                              /\ transitions[e][i].terms[1] = q.payload.id
      BY DEF QualificationVerifies
    <2>2. i \in 1..Len(transitions'[e]) /\ transitions'[e][i] = transitions[e][i]
      BY LivesGrow
    <2> QED
      BY <2>1, <2>2
  <1>3. \E m \in descriptors' : /\ m.material.executor = e
                                /\ m.material.digest = q.payload.material
                                /\ m.by # q.payload.reviewer
    BY <1>1 DEF QualificationVerifies
  <1>4. \E root \in qualifiers' : /\ root.key = q.key
                                  /\ root.pem = q.payload.signer
                                  /\ QualifierVerifies(root)'
    BY <1>1 DEF QualificationVerifies, QualifierVerifies
  <1> QED
    BY <1>2, <1>3, <1>4 DEF QualificationVerifies

\* Every transition that is recorded verifies, at once and later.
LEMMA RowsStep ==
    ASSUME Assumptions, RegistryTypeOK, Life, RowsVerify, [RegistryNext]_authorityVars
    PROVE  RowsVerify'
  <1>1. CASE UNCHANGED transitions
    <2> SUFFICES ASSUME NEW x \in Executors, NEW i \in 1..Len(transitions'[x])
                 PROVE  RowVerifies(x, transitions[x][i])'
      BY DEF RowsVerify
    <2>1. PICK row : row = transitions[x][i]
      OBVIOUS
    <2>2. RowVerifies(x, row)'
      BY <1>1, <2>1, RowStays DEF RowsVerify
    <2> QED
      BY <1>1, <2>1, <2>2
  <1>2. ASSUME NEW e \in Executors, NEW row \in Transition, Recorded(e, row)
        PROVE  RowsVerify'
    <2>1. transitions' = [transitions EXCEPT ![e] = Append(transitions[e], row)]
      BY <1>2 DEF Recorded
    <2>2. RowVerifies(e, row)'
      BY <1>2 DEF Recorded, RowVerifies, Consume
    <2>3. ASSUME NEW x \in Executors, NEW i \in 1..Len(transitions[x])
          PROVE  RowVerifies(x, transitions[x][i])'
      <3>1. PICK old : old = transitions[x][i]
        OBVIOUS
      <3>2. RowVerifies(x, old)'
        BY <3>1, RowStays DEF RowsVerify
      <3>3. transitions'[x][i] = old
        BY <3>1, LivesGrow
      <3> QED
        BY <3>2, <3>3
    <2>4. SUFFICES ASSUME NEW x \in Executors, NEW i \in 1..Len(transitions'[x])
                   PROVE  RowVerifies(x, transitions[x][i])'
      BY DEF RowsVerify
    <2>5. CASE x = e /\ i = Len(transitions[e]) + 1
      <3>1. transitions'[x][i] = row
        BY <2>1, <2>5, RecordedRows
      <3> QED
        BY <2>2, <2>5, <3>1
    <2>6. CASE ~(x = e /\ i = Len(transitions[e]) + 1)
      <3>1. i \in 1..Len(transitions[x])
        BY <2>1, <2>6, RecordedRows
      <3> QED
        BY <2>3, <3>1
    <2> QED
      BY <2>5, <2>6
  <1> QED
    BY <1>1, <1>2, StepShape

\* Only qualify adds a qualification, with a transition, a material and a key
\* that agree with it.
LEMMA QualificationsStep ==
    ASSUME Assumptions, RegistryTypeOK, Life, QualificationsStand, [RegistryNext]_authorityVars
    PROVE  QualificationsStand'
  <1>1. ASSUME NEW q \in qualifications
        PROVE  QualificationVerifies(q.payload.executor, transitions[q.payload.executor], q)'
    <2>1. q.payload.executor \in Executors
      BY DEF RegistryTypeOK, QualificationRow, Assumptions, RegistryAssumption
    <2> QED
      BY <2>1, QualificationStays DEF QualificationsStand
  <1>2. CASE UNCHANGED qualifications
    BY <1>1, <1>2 DEF QualificationsStand
  <1>3. CASE QualifyStep
    <2>1. PICK q \in Payloads, k \in Keys, d \in Decisions : Qualify(q, k, d, d.subject)
      BY <1>3 DEF QualifyStep
    <2>2. q.executor \in Executors
      BY DEF Assumptions, RegistryAssumption
    <2> DEFINE new == [payload |-> q, key |-> k, by |-> d.subject, decision |-> d]
               row == [state |-> Qualified, terms |-> <<q.id, q.digest, k>>,
                       by |-> d.subject, decision |-> d]
    <2>3. qualifications' = qualifications \cup {new}
      BY <2>1 DEF Qualify
    <2>4. \E i \in 1..Len(transitions'[q.executor]) : transitions'[q.executor][i] = row
      <3>1. transitions'[q.executor] = Append(transitions[q.executor], row)
        BY <2>1, <2>2 DEF Qualify, Record, RegistryTypeOK
      <3>2. transitions[q.executor] \in Seq(Transition)
        BY <2>2 DEF RegistryTypeOK
      <3> QED
        BY <3>1, <3>2
    <2>5. /\ row.state = Qualified /\ row.by = new.by /\ row.decision = new.decision
          /\ row.terms[1] = new.payload.id
      OBVIOUS
    <2>6. \E m \in descriptors' : /\ m.material.executor = q.executor
                                  /\ m.material.digest = q.material
                                  /\ m.by # q.reviewer
      BY <2>1 DEF Qualify, Independent
    <2>7. \E root \in qualifiers' : /\ root.key = k
                                    /\ root.pem = q.signer
                                    /\ QualifierVerifies(root)'
      <3>1. PICK root \in qualifiers : /\ root.key = k
                                       /\ root.pem = q.signer
                                       /\ QualifierVerifies(root)
        BY <2>1 DEF Qualify, SignedUnder
      <3>2. QualifierVerifies(root)'
        BY <3>1, RowsAreKept DEF QualifierVerifies
      <3> QED
        BY <3>1, <3>2, RowsAreKept
    <2>8. QualificationVerifies(q.executor, transitions[q.executor], new)'
      <3>1. /\ new.payload = q /\ new.key = k
        OBVIOUS
      <3> HIDE DEF new, row
      <3> QED
        BY <2>4, <2>5, <2>6, <2>7, <3>1 DEF QualificationVerifies
    <2>9. new.payload.executor = q.executor
      OBVIOUS
    <2> HIDE DEF new
    <2> QED
      BY <1>1, <2>3, <2>8, <2>9 DEF QualificationsStand
  <1>4. CASE \/ ContinuityStep /\ UNCHANGED registryVars
             \/ RegisterStep \/ QualifierStep \/ EnableStep \/ UNCHANGED authorityVars
    BY <1>2, <1>4 DEF registryVars, RegisterStep, Register, QualifierStep, AcceptQualifierRoot,
                      EnableStep, Enable, authorityVars
  <1>5. CASE RevokeStep \/ AttestStep
    BY <1>2, <1>5 DEF RevokeStep, RevokePrepare, RevokeReread, RevokeCommit, AttestStep,
       AttestBegin, AttestVerify, AttestState, AttestHead, GiveUp, Tables
  <1> QED
    BY <1>3, <1>4, <1>5 DEF RegistryNext

\* Life, recoveries and rows together leave the verifications nothing to find.
LEMMA VerifiedSuffices ==
    ASSUME RegistryTypeOK, Life, Backed, Verified
    PROVE  EverythingVerifies
  <1>1. ASSUME NEW i \in incidents PROVE IncidentVerifies(i)
    <2>1. ASSUME NEW r \in reviews, r.incident = i.id PROVE ReviewVerifies(i, r)
      <3>1. r.signed.archive = i.archive
        BY <2>1 DEF Backed, ReviewsStand, IncidentIdsDiffer
      <3>2. \E root \in roots : root.key = r.key /\ root.pem = r.signed.signer
        BY DEF Backed, ReviewsStand
      <3> QED
        BY <3>1, <3>2 DEF ReviewVerifies, Backed, RootsVerify
    <2>2. ASSUME NEW p \in publications, p.incident = i.id PROVE PublicationVerifies(i, p)
      <3>1. i.status = Published
        BY <2>2 DEF Backed, PublicationsStand, IncidentIdsDiffer
      <3>2. \E r \in reviews : r.signed.id = p.review /\ r.signed.eligible
        BY DEF Backed, PublicationsStand
      <3>3. /\ Authorizes(p.decision, p.by, "continuity.recovery.publish", i.id)
            /\ \E use \in consumed : /\ use.decision = p.decision
                                     /\ use.kind = "RECOVERY_PUBLISHED"
                                     /\ use.op = p.id
        BY <2>2 DEF Backed, PublicationsStand
      <3> QED
        BY <3>1, <3>2, <3>3 DEF PublicationVerifies
    <2>3. i.status = Published => \E p \in publications : p.incident = i.id
      BY DEF Backed, RecoveriesArePublished
    <2> QED
      BY <2>1, <2>2, <2>3 DEF IncidentVerifies
  <1>2. \A root \in roots : RootVerifies(root)
    BY DEF Backed, RootsVerify
  <1>3. ASSUME NEW e \in Executors, Known(e) PROVE Clean(e)
    <2>1. DescriptorVerifies(e, transitions[e])
      BY <1>3 DEF Life, KnownAreDescribed
    <2>2. ASSUME NEW i \in 1..Len(transitions[e])
          PROVE  TransitionVerifies(e, transitions[e], i)
      BY DEF Life, LifecycleIsLegal, Verified, RowsVerify, RowVerifies, TransitionVerifies
    <2>3. QualificationsVerify(e, transitions[e])
      BY DEF Verified, QualificationsStand, QualificationsVerify
    <2> QED
      BY <2>1, <2>2, <2>3 DEF Clean, TransitionsVerify
  <1> QED
    BY <1>1, <1>2, <1>3 DEF EverythingVerifies

\* At the start there is nothing to verify.
LEMMA VerifiedInit ==
    ASSUME RegistryInit
    PROVE  Verified
  <1>1. \A e \in Executors : 1..Len(transitions[e]) = {}
    BY DEF RegistryInit
  <1> QED
    BY <1>1 DEF RegistryInit, Verified, RowsVerify, QualificationsStand

\* The whole invariant.
Sound == RegistryTypeOK /\ Life /\ Backed /\ Verified

\* Sound holds at any moment.
LEMMA SoundAlways ==
    ASSUME Assumptions
    PROVE  RegistrySpec => []Sound
  <1>1. RegistryInit => Sound
    BY LifeInit, BackedInit, VerifiedInit
    DEF Sound, RegistryInit, ConsumedInit, ContinuityInit, RegistryTypeOK, ContinuityTypeOK
  <1>2. Sound /\ [RegistryNext]_authorityVars => Sound'
    BY TypeStep, LifeStep, BackedStep, RowsStep, QualificationsStep DEF Sound, Verified
  <1> QED
    BY <1>1, <1>2, PTL DEF RegistrySpec

\* At any moment the verifications of incidents, roots and executors come out
\* clean: no interleaving of the services leaves rows that disagree.
THEOREM NothingIsReported ==
    ASSUME Assumptions
    PROVE  RegistrySpec => []EverythingVerifies
  <1>1. Sound => EverythingVerifies
    BY VerifiedSuffices DEF Sound
  <1> QED
    BY <1>1, SoundAlways, PTL
-----------------------------------------------------------------------------
(* What was attested was so                                                *)

\* An executor has one descriptor.
DescriptorsDiffer ==
    \A m, n \in descriptors : m.material.executor = n.material.executor => m = n

\* The transition number h of e or the one before it is an enablement.
EnabledBy(e, h) == \E i \in {h - 1, h} \cap 1..Len(transitions[e]) :
                      transitions[e][i].state = Enabled

Serves(e, demand) == \E m \in descriptors : m.material.executor = e
                                            /\ demand \in m.material.serves

\* A qualification of e that matches its descriptor, which serves the demand.
QualifiedFor(e, demand) ==
    \E m \in descriptors, q \in qualifications :
       /\ m.material.executor = e
       /\ demand \in m.material.serves
       /\ q.payload.executor = e
       /\ q.payload.material = m.material.digest
       /\ q.payload.reviewer # m.by
       /\ \E root \in qualifiers : root.key = q.key /\ root.pem = q.payload.signer

\* An attestation that has seen ENABLED is at most one revocation late.
AttestersSaw ==
    \A c \in Callers : call[c].at = "enabled" =>
        /\ EnabledBy(call[c].executor, Len(transitions[call[c].executor]))
        /\ Serves(call[c].executor, call[c].demand)

AttestationInv == DescriptorsDiffer /\ AttestersSaw /\ AttestedWasEnabled

\* What AttestedWasEnabled says of one attestation.
LEMMA AttestedMeans ==
    AttestedWasEnabled <=>
        \A c \in Callers : attested[c] # NoAttestation =>
            /\ EnabledBy(attested[c].executor, attested[c].head)
            /\ QualifiedFor(attested[c].executor, attested[c].demand)
  BY DEF AttestedWasEnabled, EnabledBy, QualifiedFor

\* Past enablements and qualifications are kept.
LEMMA PastStays ==
    ASSUME Assumptions, RegistryTypeOK, Life, [RegistryNext]_authorityVars, NEW e \in Executors
    PROVE  /\ \A h \in Nat : EnabledBy(e, h) => EnabledBy(e, h)'
           /\ \A demand \in Demands : Serves(e, demand) => Serves(e, demand)'
           /\ \A demand \in Demands : QualifiedFor(e, demand) => QualifiedFor(e, demand)'
  <1>1. ASSUME NEW h \in Nat, EnabledBy(e, h) PROVE EnabledBy(e, h)'
    <2>1. PICK i \in {h - 1, h} \cap 1..Len(transitions[e]) : transitions[e][i].state = Enabled
      BY <1>1 DEF EnabledBy
    <2>2. i \in {h - 1, h} \cap 1..Len(transitions'[e]) /\ transitions'[e][i] = transitions[e][i]
      BY LivesGrow
    <2> QED
      BY <2>1, <2>2 DEF EnabledBy
  <1>2. descriptors \subseteq descriptors' /\ qualifications \subseteq qualifications'
        /\ qualifiers \subseteq qualifiers'
    BY RowsAreKept
  <1>3. ASSUME NEW demand \in Demands, Serves(e, demand) PROVE Serves(e, demand)'
    BY <1>2, <1>3 DEF Serves
  <1>4. ASSUME NEW demand \in Demands, QualifiedFor(e, demand) PROVE QualifiedFor(e, demand)'
    BY <1>2, <1>4 DEF QualifiedFor
  <1> QED
    BY <1>1, <1>3, <1>4

\* After an enablement there is at most a revocation, and after that nothing.
LEMMA EnabledIsLate ==
    ASSUME Assumptions, RegistryTypeOK, Life, [RegistryNext]_authorityVars, NEW e \in Executors,
           EnabledBy(e, Len(transitions[e]))
    PROVE  EnabledBy(e, Len(transitions[e]))'
  <1>1. PICK i \in {Len(transitions[e]) - 1, Len(transitions[e])} \cap 1..Len(transitions[e]) :
            transitions[e][i].state = Enabled
    BY DEF EnabledBy
  <1>2. CASE transitions'[e] = transitions[e]
    BY <1>1, <1>2 DEF EnabledBy
  <1>3. ASSUME NEW row \in Transition, Recorded(e, row)
        PROVE  EnabledBy(e, Len(transitions[e]))'
    <2>1. transitions' = [transitions EXCEPT ![e] = Append(transitions[e], row)]
      BY <1>3 DEF Recorded
    <2>2. Known(e)
      BY <1>1, RecordedRows, <2>1 DEF Known
    <2>3. Current(e) # Revoked
      BY <1>3, <2>2, SuccessorSets DEF Recorded, MayFollow
    <2>4. i = Len(transitions[e])
      <3>1. SUFFICES ASSUME i = Len(transitions[e]) - 1 PROVE FALSE
        BY <1>1
      <3>2. /\ Len(transitions[e]) \in 1..Len(transitions[e]) /\ Len(transitions[e]) # 1
            /\ Len(transitions[e]) - 1 = i
        BY <1>1, <2>2, <3>1, LastRow
      <3>3. Current(e) \in Successors(transitions[e][i].state)
        BY <3>2 DEF Life, LifecycleIsLegal, Current
      <3> QED
        BY <1>1, <2>3, <3>3, SuccessorSets
    <2>5. /\ Len(transitions'[e]) = Len(transitions[e]) + 1
          /\ transitions'[e][i] = transitions[e][i]
          /\ Len(transitions[e]) \in Nat
      BY <2>1, RecordedRows
    <2>6. i \in {Len(transitions'[e]) - 1, Len(transitions'[e])} \cap 1..Len(transitions'[e])
      BY <1>1, <2>4, <2>5
    <2> QED
      BY <1>1, <2>5, <2>6 DEF EnabledBy
  <1>4. ASSUME NEW x \in Executors, NEW row \in Transition, Recorded(x, row), x # e
        PROVE  transitions'[e] = transitions[e]
    BY <1>4, RecordedRows DEF Recorded
  <1> QED
    BY <1>2, <1>3, <1>4, StepShape

\* An enabled executor is qualified, by way of its life and its rows.
LEMMA EnabledIsQualified ==
    ASSUME Assumptions, RegistryTypeOK, Life, Verified, DescriptorsDiffer, NEW e \in Executors,
           NEW demand \in Demands, NEW h, EnabledBy(e, h), Serves(e, demand)
    PROVE  QualifiedFor(e, demand)
  <1>1. PICK i \in 1..Len(transitions[e]) : transitions[e][i].state = Enabled
    BY DEF EnabledBy
  <1>2. transitions[e] \in Seq(Transition)
    BY DEF RegistryTypeOK
  <1>3. i # 1
    BY <1>1 DEF Life, LifecycleIsLegal, Registered, Enabled
  <1>4. i - 1 \in 1..Len(transitions[e])
    BY <1>2, <1>3
  <1>5. transitions[e][i - 1].state = Qualified
    <2>1. Enabled \in Successors(transitions[e][i - 1].state)
      BY <1>1, <1>3 DEF Life, LifecycleIsLegal
    <2>2. transitions[e][i - 1].state \in States
      <3>1. transitions[e][i - 1] \in Transition
        BY <1>2, <1>4
      <3> QED
        BY <3>1 DEF Transition
    <2> QED
      BY <2>1, <2>2, SuccessorSets DEF States, Registered, Qualified, Enabled, Revoked
  <1>6. PICK q \in qualifications : q.payload.executor = e
    <2>1. ExpectedTerms(e, transitions[e][i - 1]) # {}
      BY <1>4 DEF Verified, RowsVerify, RowVerifies
    <2>2. ExpectedTerms(e, transitions[e][i - 1]) =
             {<<q.payload.id, q.payload.digest, q.key>> : q \in
                {n \in qualifications : n.payload.executor = e}}
      BY <1>5 DEF ExpectedTerms, Registered, Qualified
    <2> QED
      BY <2>1, <2>2
  <1>7. QualificationVerifies(e, transitions[e], q)
    BY <1>6 DEF Verified, QualificationsStand
  <1>8. PICK m \in descriptors : m.material.executor = e /\ demand \in m.material.serves
    BY DEF Serves
  <1>9. m.material.digest = q.payload.material /\ m.by # q.payload.reviewer
    BY <1>7, <1>8 DEF QualificationVerifies, DescriptorsDiffer
  <1>10. \E root \in qualifiers : root.key = q.key /\ root.pem = q.payload.signer
    BY <1>7 DEF QualificationVerifies
  <1> QED
    BY <1>6, <1>8, <1>9, <1>10 DEF QualifiedFor

\* Only register adds a descriptor, and looks for one first.
LEMMA DescriptorsStep ==
    ASSUME Assumptions, RegistryTypeOK, DescriptorsDiffer, [RegistryNext]_authorityVars
    PROVE  DescriptorsDiffer'
  <1>1. CASE UNCHANGED descriptors
    BY <1>1 DEF DescriptorsDiffer
  <1>2. CASE RegisterStep
    <2>1. PICK m \in Descriptors, d \in Decisions : Register(m, d, d.subject)
      BY <1>2 DEF RegisterStep
    <2> DEFINE new == [material |-> m, by |-> d.subject, decision |-> d]
    <2>2. /\ descriptors' = descriptors \cup {new}
          /\ \A row \in descriptors : row.material.executor # new.material.executor
      BY <2>1 DEF Register
    <2> HIDE DEF new
    <2> QED
      BY <2>2 DEF DescriptorsDiffer
  <1>3. CASE \/ ContinuityStep /\ UNCHANGED registryVars
             \/ QualifierStep \/ QualifyStep \/ EnableStep \/ UNCHANGED authorityVars
    BY <1>1, <1>3 DEF registryVars, QualifierStep, AcceptQualifierRoot, QualifyStep, Qualify,
                      EnableStep, Enable, authorityVars
  <1>4. CASE RevokeStep \/ AttestStep
    BY <1>1, <1>4 DEF RevokeStep, RevokePrepare, RevokeReread, RevokeCommit, AttestStep,
       AttestBegin, AttestVerify, AttestState, AttestHead, GiveUp, Tables
  <1> QED
    BY <1>2, <1>3, <1>4 DEF RegistryNext

\* A caller past its reading of the state keeps what it saw, up to one
\* revocation; one that gets there has seen it now.
LEMMA AttestersStep ==
    ASSUME Assumptions, RegistryTypeOK, Life, AttestersSaw, [RegistryNext]_authorityVars
    PROVE  AttestersSaw'
  <1>1. ASSUME NEW c \in Callers, call'[c] = call[c], call[c].at = "enabled"
        PROVE  /\ EnabledBy(call[c].executor, Len(transitions[call[c].executor]))'
               /\ Serves(call[c].executor, call[c].demand)'
    <2>1. call[c] \in Attesting
      BY <1>1, CallCases DEF RegistryTypeOK
    <2>2. PICK e \in Executors, demand \in Demands :
             e = call[c].executor /\ demand = call[c].demand
      BY <2>1 DEF Attesting
    <2>3. EnabledBy(e, Len(transitions[e]))' /\ Serves(e, demand)'
      BY <1>1, <2>2, EnabledIsLate, PastStays DEF AttestersSaw
    <2> QED
      BY <1>1, <2>2, <2>3
  <1>2. CASE UNCHANGED call
    BY <1>1, <1>2 DEF AttestersSaw
  <1>3. ASSUME NEW c \in Callers, NEW now, Goto(c, now), now.at # "enabled"
        PROVE  AttestersSaw'
    <2>1. call'[c] = now /\ \A x \in Callers \ {c} : call'[x] = call[x]
      BY <1>3 DEF Goto, RegistryTypeOK
    <2> QED
      BY <1>1, <1>3, <2>1 DEF AttestersSaw
  <1>4. CASE RevokeStep
    BY <1>3, <1>4 DEF RevokeStep, RevokePrepare, RevokeReread, RevokeCommit, Idle
  <1>5. ASSUME NEW c \in Callers, AttestState(c) PROVE AttestersSaw'
    <2>1. call[c] \in Attesting
      BY <1>5, CallCases DEF AttestState, RegistryTypeOK
    <2>2. PICK e \in Executors, demand \in Demands :
             e = call[c].executor /\ demand = call[c].demand
      BY <2>1 DEF Attesting
    <2>3. /\ call'[c].at = "enabled" /\ call'[c].executor = e /\ call'[c].demand = demand
          /\ \A x \in Callers \ {c} : call'[x] = call[x]
      BY <1>5, <2>1, <2>2 DEF AttestState, Goto, RegistryTypeOK, Attesting
    <2>4. UNCHANGED <<transitions, descriptors>>
      BY <1>5 DEF AttestState, Tables
    <2>5. Current(e) = Enabled /\ Serves(e, demand)
      BY <1>5, <2>2 DEF AttestState, Attestable, Serves
    <2>6. Known(e)
      BY <1>5, <2>2 DEF AttestState, Life, CallsSound
    <2>7. EnabledBy(e, Len(transitions[e]))
      BY <2>5, <2>6, LastRow DEF EnabledBy, Current
    <2>8. EnabledBy(e, Len(transitions[e]))' /\ Serves(e, demand)'
      BY <2>4, <2>5, <2>7 DEF EnabledBy, Serves
    <2> QED
      BY <1>1, <2>2, <2>3, <2>8 DEF AttestersSaw
  <1>6. CASE AttestStep
    <2>1. ASSUME NEW c \in Callers, AttestVerify(c) PROVE AttestersSaw'
      <3>1. call[c] \in Attesting
        BY <2>1, CallCases DEF AttestVerify, RegistryTypeOK
      <3> QED
        BY <1>3, <2>1, <3>1 DEF AttestVerify, Attesting
    <2> QED
      BY <1>3, <1>5, <1>6, <2>1 DEF AttestStep, AttestBegin, AttestHead, GiveUp, Idle
  <1>7. CASE \/ ContinuityStep /\ UNCHANGED registryVars
             \/ RegisterStep \/ QualifierStep \/ QualifyStep \/ EnableStep \/ UNCHANGED authorityVars
    BY <1>2, <1>7 DEF registryVars, RegisterStep, Register, QualifierStep, AcceptQualifierRoot,
                      QualifyStep, Qualify, EnableStep, Enable, authorityVars
  <1> QED
    BY <1>4, <1>6, <1>7 DEF RegistryNext

\* What has been attested stays true of the past; a new answer rests on what
\* its caller has seen and on the qualification behind every enablement.
LEMMA AttestedStep ==
    ASSUME Assumptions, Sound, AttestationInv, [RegistryNext]_authorityVars
    PROVE  AttestedWasEnabled'
  <1> USE DEF Sound
  <1>1. ASSUME NEW c \in Callers, attested[c] # NoAttestation
        PROVE  /\ EnabledBy(attested[c].executor, attested[c].head)
               /\ QualifiedFor(attested[c].executor, attested[c].demand)
    BY <1>1, AttestedMeans DEF AttestationInv
  <1>2. ASSUME NEW c \in Callers, attested'[c] = attested[c], attested[c] # NoAttestation
        PROVE  /\ EnabledBy(attested[c].executor, attested[c].head)'
               /\ QualifiedFor(attested[c].executor, attested[c].demand)'
    <2>1. attested[c] \in Attestation
      BY <1>2 DEF RegistryTypeOK
    <2>2. PICK e \in Executors, demand \in Demands, h \in Nat :
             e = attested[c].executor /\ demand = attested[c].demand /\ h = attested[c].head
      BY <2>1 DEF Attestation
    <2>3. EnabledBy(e, h)' /\ QualifiedFor(e, demand)'
      BY <1>1, <1>2, <2>2, PastStays
    <2> QED
      BY <1>2, <2>2, <2>3
  <1>3. AttestedWasEnabled' <=>
            \A c \in Callers : attested'[c] # NoAttestation =>
                /\ EnabledBy(attested[c].executor, attested[c].head)'
                /\ QualifiedFor(attested[c].executor, attested[c].demand)'
    BY DEF AttestedWasEnabled, EnabledBy, QualifiedFor
  <1>4. CASE UNCHANGED attested
    BY <1>2, <1>3, <1>4
  <1>5. ASSUME NEW c \in Callers, AttestHead(c) PROVE AttestedWasEnabled'
    <2>1. call[c] \in Attesting
      BY <1>5, CallCases DEF AttestHead, RegistryTypeOK
    <2>2. PICK e \in Executors, demand \in Demands :
             e = call[c].executor /\ demand = call[c].demand
      BY <2>1 DEF Attesting
    <2>3. PICK h : h = Len(transitions[e])
      OBVIOUS
    <2>4. /\ attested'[c].executor = e /\ attested'[c].demand = demand /\ attested'[c].head = h
          /\ \A x \in Callers \ {c} : attested'[x] = attested[x]
      BY <1>5, <2>2, <2>3 DEF AttestHead, RegistryTypeOK
    <2>5. EnabledBy(e, h) /\ Serves(e, demand)
      BY <1>5, <2>2, <2>3 DEF AttestHead, AttestationInv, AttestersSaw
    <2>6. QualifiedFor(e, demand)
      BY <2>5, EnabledIsQualified DEF AttestationInv
    <2>7. h \in Nat
      BY <2>3 DEF RegistryTypeOK
    <2>8. EnabledBy(e, h)' /\ QualifiedFor(e, demand)'
      BY <2>5, <2>6, <2>7, PastStays
    <2> QED
      BY <1>2, <1>3, <2>4, <2>8
  <1>6. CASE AttestStep
    BY <1>4, <1>5, <1>6 DEF AttestStep, AttestBegin, AttestVerify, AttestState, GiveUp
  <1>7. CASE \/ ContinuityStep /\ UNCHANGED registryVars
             \/ RegisterStep \/ QualifierStep \/ QualifyStep \/ EnableStep \/ RevokeStep
             \/ UNCHANGED authorityVars
    BY <1>4, <1>7 DEF registryVars, RegisterStep, Register, QualifierStep, AcceptQualifierRoot,
       QualifyStep, Qualify, EnableStep, Enable, RevokeStep, RevokePrepare, RevokeReread,
       RevokeCommit, authorityVars
  <1> QED
    BY <1>6, <1>7 DEF RegistryNext

\* Nobody was told that an executor is enabled that was not, had been revoked
\* for longer than since the head of the answer, or was qualified by the one
\* who had registered it.
THEOREM AttestationsAreTrue ==
    ASSUME Assumptions
    PROVE  RegistrySpec => []AttestedWasEnabled
  <1>1. RegistryInit => Sound /\ AttestationInv
    <2> SUFFICES ASSUME RegistryInit PROVE Sound /\ AttestationInv
      OBVIOUS
    <2>1. Sound
      BY LifeInit, BackedInit, VerifiedInit
      DEF Sound, RegistryInit, ConsumedInit, ContinuityInit, RegistryTypeOK, ContinuityTypeOK
    <2>2. AttestationInv
      BY DEF RegistryInit, AttestationInv, DescriptorsDiffer, AttestersSaw, Idle, AttestedWasEnabled
    <2> QED
      BY <2>1, <2>2
  <1>2. Sound /\ AttestationInv /\ [RegistryNext]_authorityVars => Sound' /\ AttestationInv'
    BY TypeStep, LifeStep, BackedStep, RowsStep, QualificationsStep, DescriptorsStep,
       AttestersStep, AttestedStep
    DEF Sound, Verified, AttestationInv
  <1>3. AttestationInv => AttestedWasEnabled
    BY DEF AttestationInv
  <1> QED
    BY <1>1, <1>2, <1>3, PTL DEF RegistrySpec
=============================================================================
