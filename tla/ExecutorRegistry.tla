-------------------------- MODULE ExecutorRegistry --------------------------
(***************************************************************************)
(* C3ExecutorRegistry of src/starcom/executor_registry.py, on top of the   *)
(* continuity kernel whose table of consumed decisions it uses: which      *)
(* executor may be attested to the workers of the adoption service.        *)
(*                                                                         *)
(* register, accept_qualifier_root, qualify and enable look first at rows  *)
(* that never change and look at the state again in their transaction, so  *)
(* each is one action.  revoke and attest read the state at several points *)
(* between which others may write: a caller goes through them in steps.    *)
(* Timestamps are the caller's; the chronology checks only refuse calls.   *)
(***************************************************************************)
EXTENDS Continuity

CONSTANTS Executors,    \* executor ids
          Descriptors,  \* the descriptors that may be registered
          Payloads,     \* the qualifications that reviewers signed
          Reasons,      \* reasons that revocations are given
          Demands,      \* version, digest, profile and network a worker asks for
          Callers       \* processes that revoke or attest

Registered == "C3_EXECUTOR_REGISTERED_DISABLED"
Qualified == "C3_EXECUTOR_QUALIFIED_DISABLED"
Enabled == "C3_EXECUTOR_ENABLED"
Revoked == "C3_EXECUTOR_REVOKED"
States == {Registered, Qualified, Enabled, Revoked}

\* serves: the demands that a descriptor satisfies.
ASSUME RegistryAssumption ==
    /\ Executors \cup Pems \cup Reasons \cup States \subseteq Names
    /\ Descriptors \subseteq [executor : Executors, digest : Names,
                              serves : SUBSET Demands]
    /\ Payloads \subseteq [id : Names, digest : Names, executor : Executors,
                           material : Names, reviewer : Actors, signer : Pems]

VARIABLES descriptors,     \* c3_executor_descriptors
          qualifiers,      \* c3_executor_qualifier_roots
          qualifications,  \* c3_executor_qualifications
          transitions,     \* transitions[e]: c3_executor_transitions of e in order
          call,            \* call[c]: what c is in the middle of
          attested         \* attested[c]: the last attestation c was given

registryVars == <<descriptors, qualifiers, qualifications, transitions, call, attested>>
authorityVars == <<consumed, continuityVars, registryVars>>

\* The states that may follow s.
Successors(s) == CASE s = Registered -> {Qualified, Revoked}
                   [] s = Qualified -> {Enabled, Revoked}
                   [] s = Enabled -> {Revoked}
                   [] OTHER -> {}

DescriptorRow == [material : Descriptors, by : Actors, decision : Decisions]
QualifierRow == [key : Keys, pem : Pems, by : Actors, decision : Decisions]
QualificationRow == [payload : Payloads, key : Keys, by : Actors, decision : Decisions]

\* terms: the metadata of the row, which repeats the context of its decision.
Transition == [state : States, terms : Seq(Names), by : Actors, decision : Decisions]

Action(s) == CASE s = Registered -> "c3.executor.register"
               [] s = Qualified -> "c3.executor.qualify"
               [] s = Enabled -> "c3.executor.enable"
               [] s = Revoked -> "c3.executor.revoke"

\* _operation_kind
Kind(s) == CASE s = Registered -> "C3_EXECUTOR_REGISTERED" [] OTHER -> s

\* The operation kinds of the continuity kernel and of the registry.
OperationKinds ==
    {"TRUST_ROOT_ACCEPTED", "RECOVERY_PUBLISHED", "C3_EXECUTOR_QUALIFIER_ACCEPTED",
     "C3_EXECUTOR_REGISTERED", Qualified, Enabled, Revoked}

Known(e) == transitions[e] # <<>>

\* get_current
Current(e) == transitions[e][Len(transitions[e])].state

\* The row that every transaction adds to c3_executor_transitions.
Record(e, s, terms, d, actor) ==
    transitions' = [transitions EXCEPT ![e] =
        Append(transitions[e], [state |-> s, terms |-> terms, by |-> actor, decision |-> d])]

-----------------------------------------------------------------------------
(* verify: what it asks of the rows, given the transitions it has read     *)

\* _qualifier_root_defects finds none.
QualifierVerifies(root) ==
    /\ AuthorizesExactly(root.decision, root.by, "c3.executor.qualifier.accept",
                         root.key, <<root.pem>>)
    /\ Use(root.decision, "C3_EXECUTOR_QUALIFIER_ACCEPTED", root.key, root.by) \in consumed

\* The context that _transition_preparation expects of a transition.
ExpectedTerms(e, row) ==
    CASE row.state = Registered -> {<<m.material.digest>> : m \in
                                      {n \in descriptors : n.material.executor = e}}
      [] row.state = Qualified -> {<<q.payload.id, q.payload.digest, q.key>> : q \in
                                     {n \in qualifications : n.payload.executor = e}}
      [] OTHER -> {row.terms}

\* The operation_id of a transition: that of QUALIFY is the qualification's.
OperationId(e, row) == IF row.state = Qualified THEN row.terms[1] ELSE e

TransitionVerifies(e, read, i) ==
    LET row == read[i]
    IN /\ IF i = 1 THEN row.state = Registered
                   ELSE row.state \in Successors(read[i - 1].state)
       /\ \E terms \in ExpectedTerms(e, row) :
             AuthorizesExactly(row.decision, row.by, Action(row.state), e, terms)
       /\ Use(row.decision, Kind(row.state), OperationId(e, row), row.by) \in consumed

DescriptorVerifies(e, read) ==
    \E m \in descriptors : /\ m.material.executor = e
                           /\ read # <<>>
                           /\ m.by = read[1].by
                           /\ m.decision = read[1].decision

QualificationVerifies(e, read, q) ==
    /\ \E i \in 1..Len(read) : /\ read[i].state = Qualified
                               /\ read[i].by = q.by
                               /\ read[i].decision = q.decision
                               /\ read[i].terms[1] = q.payload.id
    /\ \E m \in descriptors : /\ m.material.executor = e
                              /\ m.material.digest = q.payload.material
                              /\ m.by # q.payload.reviewer
    /\ \E root \in qualifiers : /\ root.key = q.key
                                /\ root.pem = q.payload.signer
                                /\ QualifierVerifies(root)

TransitionsVerify(e, read) ==
    DescriptorVerifies(e, read) /\ \A i \in 1..Len(read) : TransitionVerifies(e, read, i)

QualificationsVerify(e, read) ==
    \A q \in qualifications : q.payload.executor = e => QualificationVerifies(e, read, q)

\* verify finds no defect.
Clean(e) == TransitionsVerify(e, transitions[e]) /\ QualificationsVerify(e, transitions[e])

-----------------------------------------------------------------------------
(* Operations of one transaction                                           *)

\* register
Register(m, d, actor) ==
    /\ \A row \in descriptors : row.material.executor # m.executor
    /\ AuthorizesExactly(d, actor, Action(Registered), m.executor, <<m.digest>>)
    /\ Consume(d, Kind(Registered), m.executor, actor)
    /\ descriptors' = descriptors \cup {[material |-> m, by |-> actor, decision |-> d]}
    /\ Record(m.executor, Registered, <<m.digest>>, d, actor)
    /\ UNCHANGED <<qualifiers, qualifications, call, attested, continuityVars>>

\* accept_qualifier_root
AcceptQualifierRoot(k, pem, d, actor) ==
    /\ \A row \in qualifiers : row.key # k /\ row.pem # pem
    /\ AuthorizesExactly(d, actor, "c3.executor.qualifier.accept", k, <<pem>>)
    /\ Consume(d, "C3_EXECUTOR_QUALIFIER_ACCEPTED", k, actor)
    /\ qualifiers' = qualifiers \cup {[key |-> k, pem |-> pem, by |-> actor, decision |-> d]}
    /\ UNCHANGED <<descriptors, qualifications, transitions, call, attested, continuityVars>>

\* Bug: nobody asks whether the reviewer registered the executor.
MaterialOfAnyone(q) ==
    \E m \in descriptors : m.material.executor = q.executor /\ m.material.digest = q.material

\* The part of _qualification_material about the payload and the descriptor.
Independent(q) ==
    \E m \in descriptors : /\ m.material.executor = q.executor
                           /\ m.material.digest = q.material
                           /\ m.by # q.reviewer

\* The part of _qualification_material about the key.
SignedUnder(q, k) ==
    \E root \in qualifiers : root.key = k /\ root.pem = q.signer /\ QualifierVerifies(root)

\* qualify
Qualify(q, k, d, actor) ==
    /\ Known(q.executor) /\ Clean(q.executor)
    /\ SignedUnder(q, k) /\ Independent(q)
    /\ Current(q.executor) = Registered
    /\ \A row \in qualifications : row.payload.executor # q.executor /\ row.payload.id # q.id
    /\ AuthorizesExactly(d, actor, Action(Qualified), q.executor, <<q.id, q.digest, k>>)
    /\ Consume(d, Kind(Qualified), q.id, actor)
    /\ qualifications' = qualifications \cup
          {[payload |-> q, key |-> k, by |-> actor, decision |-> d]}
    /\ Record(q.executor, Qualified, <<q.id, q.digest, k>>, d, actor)
    /\ UNCHANGED <<descriptors, qualifiers, call, attested, continuityVars>>

\* enable
Enable(e, d, actor) ==
    /\ Known(e) /\ Clean(e)
    /\ Current(e) = Qualified
    /\ \E q \in qualifications :
          /\ q.payload.executor = e
          /\ AuthorizesExactly(d, actor, Action(Enabled), e, <<q.payload.digest>>)
    /\ Consume(d, Kind(Enabled), e, actor)
    /\ Record(e, Enabled, d.terms, d, actor)
    /\ UNCHANGED <<descriptors, qualifiers, qualifications, call, attested, continuityVars>>

-----------------------------------------------------------------------------
(* Operations that read the state more than once                           *)

Idle == [at |-> "idle"]

\* A revocation: prior and reason are the terms of its decision; seen is the
\* sequence number it read again after it had checked the decision.
Revoking == [at : {"prepared", "reread"}, executor : Executors, decision : Decisions,
             seen : Nat]

\* An attestation: seen is the number of transitions that verify has read.
Attesting == [at : {"verifying", "verified", "enabled"}, executor : Executors,
              demand : Demands, seen : Nat]

NoAttestation == [head |-> 0]
Attestation == [executor : Executors, demand : Demands, head : Nat]

Goto(c, now) == call' = [call EXCEPT ![c] = now]
Tables == <<consumed, continuityVars, descriptors, qualifiers, qualifications, transitions>>

\* revoke, up to _assert_authorization: the decision names the state of now.
RevokePrepare(c, e, reason, d, actor) ==
    /\ call[c] = Idle
    /\ Known(e)
    /\ Current(e) # Revoked
    /\ AuthorizesExactly(d, actor, Action(Revoked), e, <<reason, Current(e)>>)
    /\ Goto(c, [at |-> "prepared", executor |-> e, decision |-> d, seen |-> 0])
    /\ UNCHANGED <<Tables, attested>>

\* revoke: the state is read once more, for the sequence number.
RevokeReread(c) ==
    /\ call[c].at = "prepared"
    /\ Goto(c, [at |-> "reread", executor |-> call[c].executor, decision |-> call[c].decision,
                seen |-> Len(transitions[call[c].executor])])
    /\ UNCHANGED <<Tables, attested>>

\* revoke: the transaction compares the state with the second reading, not
\* with the one the decision was compared with.
RevokeCommit(c) ==
    LET e == call[c].executor
        d == call[c].decision
    IN /\ call[c].at = "reread"
       /\ Len(transitions[e]) = call[c].seen
       /\ Consume(d, Kind(Revoked), e, d.subject)
       /\ Record(e, Revoked, d.terms, d, d.subject)
       /\ Goto(c, Idle)
       /\ UNCHANGED <<descriptors, qualifiers, qualifications, attested, continuityVars>>

\* attest: verify reads the transitions ...
AttestBegin(c, e, demand) ==
    /\ call[c] = Idle
    /\ Known(e)
    /\ TransitionsVerify(e, transitions[e])
    /\ Goto(c, [at |-> "verifying", executor |-> e, demand |-> demand,
                seen |-> Len(transitions[e])])
    /\ UNCHANGED <<Tables, attested>>

\* ... and then the qualification, which may be younger than they are: the
\* verification is then refused for a transition that it has not read.
AttestVerify(c) ==
    LET e == call[c].executor
    IN /\ call[c].at = "verifying"
       /\ QualificationsVerify(e, SubSeq(transitions[e], 1, call[c].seen))
       /\ Goto(c, [call[c] EXCEPT !.at = "verified"])
       /\ UNCHANGED <<Tables, attested>>

\* Bug: any executor that is not revoked is attested.
NotRevoked(e, demand) ==
    /\ Current(e) # Revoked
    /\ \E m \in descriptors : m.material.executor = e /\ demand \in m.material.serves

\* attest: the state, and what the descriptor offers.
Attestable(e, demand) ==
    /\ Current(e) = Enabled
    /\ \E m \in descriptors : m.material.executor = e /\ demand \in m.material.serves

AttestState(c) ==
    /\ call[c].at = "verified"
    /\ Attestable(call[c].executor, call[c].demand)
    /\ Goto(c, [call[c] EXCEPT !.at = "enabled"])
    /\ UNCHANGED <<Tables, attested>>

\* attest: the head of the stream is read last.
AttestHead(c) ==
    /\ call[c].at = "enabled"
    /\ attested' = [attested EXCEPT ![c] =
          [executor |-> call[c].executor, demand |-> call[c].demand,
           head |-> Len(transitions[call[c].executor])]]
    /\ Goto(c, Idle)
    /\ UNCHANGED Tables

\* A call is refused, or its process dies.
GiveUp(c) ==
    /\ call[c] # Idle
    /\ Goto(c, Idle)
    /\ UNCHANGED <<Tables, attested>>

-----------------------------------------------------------------------------
RegistryInit ==
    /\ ConsumedInit
    /\ ContinuityInit
    /\ descriptors = {} /\ qualifiers = {} /\ qualifications = {}
    /\ transitions = [e \in Executors |-> <<>>]
    /\ call = [c \in Callers |-> Idle]
    /\ attested = [c \in Callers |-> NoAttestation]

RegisterStep == \E m \in Descriptors, d \in Decisions : Register(m, d, d.subject)
QualifierStep == \E k \in Keys, pem \in Pems, d \in Decisions :
                    AcceptQualifierRoot(k, pem, d, d.subject)
QualifyStep == \E q \in Payloads, k \in Keys, d \in Decisions : Qualify(q, k, d, d.subject)
EnableStep == \E e \in Executors, d \in Decisions : Enable(e, d, d.subject)
RevokeStep == \E c \in Callers :
                 \/ \E e \in Executors, d \in Decisions :
                       \E reason \in Reasons : RevokePrepare(c, e, reason, d, d.subject)
                 \/ RevokeReread(c)
                 \/ RevokeCommit(c)
AttestStep == \E c \in Callers :
                 \/ \E e \in Executors, demand \in Demands : AttestBegin(c, e, demand)
                 \/ AttestVerify(c)
                 \/ AttestState(c)
                 \/ AttestHead(c)
                 \/ GiveUp(c)

RegistryNext ==
    \/ ContinuityStep /\ UNCHANGED registryVars
    \/ RegisterStep \/ QualifierStep \/ QualifyStep \/ EnableStep
    \/ RevokeStep \/ AttestStep

RegistrySpec == RegistryInit /\ [][RegistryNext]_authorityVars

-----------------------------------------------------------------------------
(* Properties                                                              *)

\* Every variable has its type.
RegistryTypeOK ==
    /\ consumed \subseteq [decision : Decisions, kind : OperationKinds, op : Names, by : Actors]
    /\ ContinuityTypeOK
    /\ descriptors \subseteq DescriptorRow
    /\ qualifiers \subseteq QualifierRow
    /\ qualifications \subseteq QualificationRow
    /\ transitions \in [Executors -> Seq(Transition)]
    /\ call \in [Callers -> {Idle} \cup Revoking \cup Attesting]
    /\ attested \in [Callers -> {NoAttestation} \cup Attestation]

\* However revocations overtake enablements and one another, an executor goes
\* from registration over qualification to enablement, and a revocation ends
\* its life.  The transaction of revoke does not look whether the executor is
\* revoked already; that its kind and executor are consumed stops a second one.
LifecycleIsLegal ==
    \A e \in Executors : \A i \in 1..Len(transitions[e]) :
        IF i = 1 THEN transitions[e][i].state = Registered
                 ELSE transitions[e][i].state \in Successors(transitions[e][i - 1].state)

\* Decisions were taken on what was recorded before.  verify would not notice
\* otherwise: it takes the context of ENABLE and REVOKE from the row itself.
\* An enablement names the digest that the qualification before it recorded;
\* a revocation names a state that the executor had come to, if not always the
\* one it was in, for revoke commits on a younger reading than it decides on.
DecidedOnTheRecord ==
    \A e \in Executors : \A i \in 1..Len(transitions[e]) :
        LET row == transitions[e][i]
        IN /\ row.state = Enabled =>
                 row.decision.terms = <<transitions[e][i - 1].terms[2]>>
           /\ row.state = Revoked =>
                 \E j \in 1..(i - 1) : row.decision.terms[2] = transitions[e][j].state

\* Nothing the services wrote is reported as a defect: at any moment the
\* verifications of incidents, roots and executors, which compare rows of
\* different tables and the decisions behind them, come out clean.
EverythingVerifies ==
    /\ \A i \in incidents : IncidentVerifies(i)
    /\ \A r \in roots : RootVerifies(r)
    /\ \A e \in Executors : Known(e) => Clean(e)

\* What a worker was attested was so: up to the head named in the answer, the
\* executor had been enabled and at most revoked since; its descriptor serves
\* the demand and was qualified by somebody who had not registered it, under
\* an accepted key.
AttestedWasEnabled ==
    \A c \in Callers : attested[c] # NoAttestation =>
        LET e == attested[c].executor
            h == attested[c].head
        IN /\ \E i \in {h - 1, h} \cap 1..Len(transitions[e]) :
                 transitions[e][i].state = Enabled
           /\ \E m \in descriptors, q \in qualifications :
                 /\ m.material.executor = e
                 /\ attested[c].demand \in m.material.serves
                 /\ q.payload.executor = e
                 /\ q.payload.material = m.material.digest
                 /\ q.payload.reviewer # m.by
                 /\ \E root \in qualifiers : root.key = q.key /\ root.pem = q.payload.signer

=============================================================================
