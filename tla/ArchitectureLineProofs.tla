----------------------- MODULE ArchitectureLineProofs -----------------------
(***************************************************************************)
(* Theorems about ArchitectureLine.                                        *)
(*                                                                         *)
(* A review is admitted once, of a candidate that was complete then: the   *)
(* keys of the tables see to it that the names in candidate and review     *)
(* mean the same rows ever after, and that an execution keeps its form     *)
(* while its status moves on.  What verifies does so by those rows, by     *)
(* consumed decisions and by evidence that is complete: all of them only   *)
(* grow, so that what has gone stale stays stale.                          *)
(***************************************************************************)
EXTENDS ArchitectureLine, TLAPS

\* Executions are well formed; they and adoptions go by their ids.
ExecutionsKeyed ==
    /\ executions \subseteq ExecutionRow
    /\ \A e, x \in executions : e.form.id = x.form.id => e = x
    /\ \A a, b \in adoptions : a.form.id = b.form.id => a = b

\* The decision behind the adoption of the execution e selected the artifact.
Selected(e, artifact) ==
    \E a \in adoptions, v \in verdicts :
        /\ a.form.id = e.form.adoption /\ a.candidate = artifact
        /\ v.form.id = a.verdict /\ v.form.selected = {artifact}

\* The members are settled executions of those who are said to have asked for
\* them, and brought in what was selected.
MemberSettled(x) ==
    \E e \in executions :
        /\ e.form.id = x.id /\ e.form.by = x.by
        /\ e.status = x.status /\ e.status \in Eligible /\ e.outbox = "SUCCEEDED"
        /\ Selected(e, x.candidate)

MembersSettled(members) == \A x \in MembersOf(members) : MemberSettled(x)

\* The state of a caller in the middle of a freeze, and what it has read.
FreezeCall(row) == [stage |-> "FREEZE", row |-> row]
FreezeRow(f, prepared, members, d) ==
    [form |-> f, prepared |-> prepared, members |-> members, decision |-> d]

FreezeKnown(state) ==
    state.stage = "FREEZE" =>
        /\ \E f, prepared, members, d : state = FreezeCall(FreezeRow(f, prepared, members, d))
        /\ \A members \in state.row.members : MembersSettled(members)

\* What a freeze has read, and what was frozen.
MembersKnown ==
    /\ call = [c \in Callers |-> call[c]]
    /\ \A c \in Callers : FreezeKnown(call[c])
    /\ \A i \in inputs : MembersSettled(i.members)

\* The primary keys and UNIQUE columns of the line.
LineKeyed ==
    /\ \A i, j \in inputs : i.form.id = j.form.id => i = j
    /\ \A c, d \in candidates : c.form.id = d.form.id => c = d
    /\ \A c, d \in candidates :
          c.form.manifest.architecture = d.form.manifest.architecture => c = d
    /\ \A k, l \in reviewers : k.form.key = l.form.key => k = l
    /\ \A o, r \in reviews : o.signed.id = r.signed.id => o = r
    /\ \A o, r \in reviews : o.signed.candidate = r.signed.candidate => o = r

\* A candidate binds successful members of an input that is there.
BoundToInput(c, i) ==
    /\ \A b \in c.form.manifest.bindings :
          \E x \in Successes(i.members) : x.id = b.execution /\ x.candidate = b.artifact
    /\ \A x \in Successes(i.members) :
          \E b \in c.form.manifest.bindings : b.execution = x.id

\* Every port of a binding has an owner and a stage.
PortsStand(m) ==
    \A b \in m.bindings : \A port \in b.ports :
        /\ \E a \in m.adrs : port \in a.ports /\ a.owner = m.ports[port].owner
        /\ \E s \in Stages : port \in m.fabric[s]

CandidatesBound ==
    \A c \in candidates :
        /\ \E i \in inputs : i.form.id = c.form.input /\ BoundToInput(c, i)
        /\ PortsStand(c.form.manifest)

\* What _assert_review_bindings found when the review was admitted.
Strange(o, c, k) ==
    /\ c.form.id = o.signed.candidate /\ k.form.key = o.key
    /\ o.signed.reviewer \notin Hands(c)
    /\ o.signed.reviewer # k.form.by /\ o.signed.reviewer # o.by

ReviewsStrange ==
    \A o \in reviews : \E c \in candidates, k \in reviewers : Strange(o, c, k)

PublicationsLinked ==
    \A p \in publications : \E o \in reviews :
        o.signed.id = p.form.review /\ o.signed.candidate = p.form.candidate

LineInv ==
    /\ ExecutionsKeyed /\ MembersKnown /\ LineKeyed
    /\ CandidatesBound /\ ReviewsStrange /\ PublicationsLinked

-----------------------------------------------------------------------------
(* The executions below the line                                           *)

\* Adoptions and decisions stay, and so does an execution that is settled.
SettledKept ==
    /\ adoptions \subseteq adoptions' /\ verdicts \subseteq verdicts'
    /\ \A e \in executions :
          e.outbox = "SUCCEEDED" /\ e.status \in Terminal => e \in executions'

\* A step of an execution replaces its row, which is not settled, by one with
\* the same form.
LEMMA AdvanceKeeps ==
  ASSUME ExecutionsKeyed, NEW e \in executions, NEW next \in ExecutionRow,
         next.form = e.form, Advance(e, next), e.outbox = "OPEN" \/ e.status \notin Terminal
  PROVE  ExecutionsKeyed' /\ SettledKept
  BY DEF ExecutionsKeyed, Advance, SettledKept

\* No step changes the form of an execution, and a new row has a new id.
LEMMA ExecutionsStep ==
  ASSUME ExecutionsKeyed, [LineNext]_lineVars
  PROVE  ExecutionsKeyed' /\ SettledKept
<1>1. CASE UNCHANGED <<executions, adoptions>> /\ verdicts \subseteq verdicts'
  BY <1>1 DEF ExecutionsKeyed, SettledKept
<1>2. ASSUME NEW f \in Requests, NEW a \in adoptions, NEW d \in Decisions,
             RequestExecution(f, a, d)
      PROVE  ExecutionsKeyed' /\ SettledKept
  <2> DEFINE row == [form |-> f, status |-> "REQUESTED", outbox |-> "OPEN", decision |-> d]
  <2>1. row \in ExecutionRow /\ row.form = f
    BY DEF ExecutionRow, Statuses
  <2>2. /\ executions' = executions \cup {row} /\ \A e \in executions : e.form.id # f.id
        /\ UNCHANGED <<adoptions, verdicts>>
    BY <1>2 DEF RequestExecution
  <2> HIDE DEF row
  <2> QED
    BY <2>1, <2>2 DEF ExecutionsKeyed, SettledKept
<1>3. ASSUME NEW e \in executions, NEW s \in Statuses, AppendTransition(e, s)
      PROVE  ExecutionsKeyed' /\ SettledKept
  <2> DEFINE next == [e EXCEPT !.status = s]
  <2>1. next \in ExecutionRow /\ next.form = e.form
    BY DEF ExecutionsKeyed, ExecutionRow
  <2>2. Advance(e, next) /\ e.status \notin Terminal
    BY <1>3 DEF AppendTransition, Terminal
  <2> HIDE DEF next
  <2> QED
    BY <2>1, <2>2, AdvanceKeeps
<1>4. ASSUME NEW e \in executions, CompleteEffect(e) \/ ExhaustEffect(e)
      PROVE  ExecutionsKeyed' /\ SettledKept
  <2>1. PICK o \in {"SUCCEEDED", "DEAD"} : Advance(e, [e EXCEPT !.outbox = o])
    BY <1>4 DEF CompleteEffect, ExhaustEffect
  <2> DEFINE next == [e EXCEPT !.outbox = o]
  <2>2. next \in ExecutionRow /\ next.form = e.form
    BY DEF ExecutionsKeyed, ExecutionRow
  <2>3. e.outbox = "OPEN"
    BY <1>4 DEF CompleteEffect, ExhaustEffect
  <2> HIDE DEF next
  <2> QED
    BY <2>1, <2>2, <2>3, AdvanceKeeps DEF next
<1>5. ASSUME NEW f \in Adoptions, NEW v \in verdicts, NEW d \in Decisions,
             NEW candidate \in v.form.selected, AuthorizeAdoption(f, v, candidate, d)
      PROVE  ExecutionsKeyed' /\ SettledKept
  <2> DEFINE row == [form |-> f, verdict |-> v.form.id, candidate |-> candidate, decision |-> d]
  <2>1. /\ adoptions' = adoptions \cup {row} /\ row.form = f
        /\ \A a \in adoptions : a.form.id # f.id
        /\ UNCHANGED <<executions, verdicts>>
    BY <1>5 DEF AuthorizeAdoption
  <2> HIDE DEF row
  <2> QED
    BY <2>1 DEF ExecutionsKeyed, SettledKept
<1>6. ASSUME QualificationNext PROVE ExecutionsKeyed' /\ SettledKept
  <2>1. ASSUME NEW f, CreateRun(f) \/ RecordArtifact(f) \/ Start(f)
        PROVE  UNCHANGED <<executions, adoptions, verdicts>>
    BY <2>1 DEF CreateRun, RecordArtifact, Start, adoption
  <2>2. ASSUME NEW c \in Callers, NEW f \in Verdicts, PrepareDecision(c, f)
        PROVE  UNCHANGED <<executions, adoptions, verdicts>>
    BY <2>2 DEF PrepareDecision, adoption
  <2>3. ASSUME NEW c \in Callers, AdmitDecision(c)
        PROVE  UNCHANGED <<executions, adoptions>> /\ verdicts \subseteq verdicts'
    BY <2>3 DEF AdmitDecision, adoption
  <2> QED
    BY <1>1, <1>2, <1>3, <1>4, <1>5, <1>6, <2>1, <2>2, <2>3 DEF QualificationNext
<1>7. ASSUME LineNext, ~QualificationNext PROVE UNCHANGED <<executions, adoptions, verdicts>>
  BY <1>7 DEF LineNext, AbandonDecision, FreezeStep, PrepareFreeze, ReadMembers, Freeze,
     AbandonFreeze, CreateCandidate, AcceptReviewer, AdmitReview, Publish, qualified
<1> QED
  BY <1>1, <1>6, <1>7 DEF lineVars, qualified

\* Members that were settled stay settled.
LEMMA MembersStaySettled ==
  ASSUME SettledKept, NEW members, MembersSettled(members)
  PROVE  MembersSettled(members)'
<1> SUFFICES ASSUME NEW x \in MembersOf(members) PROVE MemberSettled(x)'
  BY DEF MembersSettled
<1>1. MemberSettled(x)
  BY DEF MembersSettled
<1>2. PICK e \in executions :
          /\ e.form.id = x.id /\ e.form.by = x.by
          /\ e.status = x.status /\ e.status \in Eligible /\ e.outbox = "SUCCEEDED"
          /\ Selected(e, x.candidate)
  BY <1>1 DEF MemberSettled
<1>3. e \in executions'
  BY <1>2 DEF SettledKept, Eligible, Terminal
<1>4. Selected(e, x.candidate)'
  BY <1>2 DEF Selected, SettledKept
<1> QED
  BY <1>2, <1>3, <1>4 DEF MemberSettled

\* What a freeze reads is settled: an execution that verifies has its adoption,
\* and the adoption the decision that selected its candidate.
LEMMA ReadingsAreSettled ==
  ASSUME ExecutionsKeyed, NEW f, NEW members \in Readings(f)
  PROVE  MembersSettled(members)
<1> SUFFICES ASSUME NEW x \in MembersOf(members) PROVE MemberSettled(x)
  BY DEF MembersSettled
<1>1. PICK k \in DOMAIN members : x = members[k]
  BY DEF MembersOf
<1>2. members[k] \in Snapshots(f.executions[k])
  BY <1>1 DEF Readings
<1>3. PICK e \in executions, a \in adoptions :
          /\ e.form.id = f.executions[k] /\ ExecutionVerifies(e) /\ e.status \in Eligible
          /\ \E z \in executions : z.form.id = f.executions[k] /\ z.form.adoption = a.form.id
          /\ x = [id |-> e.form.id, status |-> e.status, by |-> e.form.by,
                  candidate |-> a.candidate]
  BY <1>1, <1>2 DEF Snapshots
<1>4. x.id = e.form.id /\ x.status = e.status /\ x.by = e.form.by /\ x.candidate = a.candidate
  BY <1>3
<1>5. e.form.adoption = a.form.id
  BY <1>3 DEF ExecutionsKeyed
<1>6. AdoptionVerifies(a)
  BY <1>3, <1>5 DEF ExecutionVerifies, ExecutionsKeyed
<1>7. Selected(e, a.candidate)
  BY <1>5, <1>6 DEF AdoptionVerifies, Selected
<1>8. e.outbox = "SUCCEEDED"
  BY <1>3 DEF ExecutionVerifies, Eligible, Terminal
<1> QED
  BY <1>3, <1>4, <1>7, <1>8 DEF MemberSettled

-----------------------------------------------------------------------------
(* The tables of the line                                                  *)

\* A caller's state that knew its members still does.
LEMMA FreezeStaysKnown ==
  ASSUME SettledKept, NEW state, FreezeKnown(state)
  PROVE  state.stage = "FREEZE" =>
             /\ \E f, prepared, members, d : state = FreezeCall(FreezeRow(f, prepared, members, d))
             /\ \A members \in state.row.members : MembersSettled(members)'
  BY MembersStaySettled DEF FreezeKnown

\* One caller moves to a state that knows its members.
LEMMA CallMoves ==
  ASSUME MembersKnown, SettledKept, UNCHANGED inputs, NEW c \in Callers, NEW next,
         call' = [call EXCEPT ![c] = next],
         next.stage = "FREEZE" =>
             /\ \E f, prepared, members, d : next = FreezeCall(FreezeRow(f, prepared, members, d))
             /\ \A members \in next.row.members : MembersSettled(members)
  PROVE  MembersKnown'
<1>1. call' = [b \in Callers |-> IF b = c THEN next ELSE call[b]]
  BY DEF MembersKnown
<1>2. call' = [b \in Callers |-> call'[b]]
  BY <1>1
<1>3. ASSUME NEW b \in Callers PROVE FreezeKnown(call[b])'
  <2>1. CASE b = c
    <3>1. call'[b] = next
      BY <1>1, <2>1
    <3> QED
      BY <3>1, MembersStaySettled DEF FreezeKnown
  <2>2. CASE b # c
    <3>1. call'[b] = call[b] /\ FreezeKnown(call[b])
      BY <1>1, <2>2 DEF MembersKnown
    <3> QED
      BY <3>1, FreezeStaysKnown DEF FreezeKnown
  <2> QED
    BY <2>1, <2>2
<1>4. \A i \in inputs' : MembersSettled(i.members)'
  BY MembersStaySettled DEF MembersKnown
<1> QED
  BY <1>2, <1>3, <1>4 DEF MembersKnown

\* A freeze stores what it has read of executions that are there.
LEMMA MembersStep ==
  ASSUME LineInv, [LineNext]_lineVars
  PROVE  MembersKnown'
<1> USE DEF LineInv
<1>1. SettledKept
  BY ExecutionsStep
<1>2. ASSUME UNCHANGED <<inputs, call>> PROVE MembersKnown'
  <2>1. \A c \in Callers : FreezeKnown(call[c])'
    BY <1>1, <1>2, FreezeStaysKnown DEF MembersKnown, FreezeKnown
  <2>2. \A i \in inputs' : MembersSettled(i.members)'
    BY <1>1, <1>2, MembersStaySettled DEF MembersKnown
  <2> QED
    BY <1>2, <2>1, <2>2 DEF MembersKnown
<1>3. ASSUME NEW c \in Callers, NEW f \in InputSets, NEW members \in Readings(f),
             NEW d \in Decisions, PrepareFreeze(c, f, members, d)
      PROVE  MembersKnown'
  <2> DEFINE next == FreezeCall(FreezeRow(f, members, {}, d))
  <2>1. call' = [call EXCEPT ![c] = next] /\ UNCHANGED inputs
    BY <1>3 DEF PrepareFreeze, Enter, line, FreezeCall, FreezeRow
  <2>2. next.row.members = {}
    BY DEF FreezeCall, FreezeRow
  <2>3. \E g, prepared, read, e : next = FreezeCall(FreezeRow(g, prepared, read, e))
    OBVIOUS
  <2> HIDE DEF next
  <2> QED
    BY <1>1, <2>1, <2>2, <2>3, CallMoves
<1>4. ASSUME NEW c \in Callers, ReadMembers(c) PROVE MembersKnown'
  <2>1. PICK members \in Readings(call[c].row.form) :
            call' = [call EXCEPT ![c].row.members = {members}] /\ UNCHANGED inputs
    BY <1>4 DEF ReadMembers, line
  <2>2. PICK f, prepared, read, d : call[c] = FreezeCall(FreezeRow(f, prepared, read, d))
    BY <1>4 DEF ReadMembers, MembersKnown, FreezeKnown
  <2> DEFINE next == FreezeCall(FreezeRow(f, prepared, {members}, d))
  <2>3. [call[c] EXCEPT !.row.members = {members}] = next
    BY <2>2 DEF FreezeCall, FreezeRow
  <2>4. call' = [call EXCEPT ![c] = next]
    BY <2>1, <2>3
  <2>5. next.row.members = {members}
    BY DEF FreezeCall, FreezeRow
  <2>6. \E g, p, r, e : next = FreezeCall(FreezeRow(g, p, r, e))
    OBVIOUS
  <2>7. MembersSettled(members)
    BY ReadingsAreSettled
  <2> HIDE DEF next
  <2> QED
    BY <1>1, <2>1, <2>4, <2>5, <2>6, <2>7, CallMoves
<1>5. ASSUME NEW c \in Callers, Freeze(c) PROVE MembersKnown'
  <2>1. PICK members \in call[c].row.members :
            inputs' = inputs \cup {[form |-> call[c].row.form, members |-> members,
                                    decision |-> call[c].row.decision]}
    BY <1>5 DEF Freeze
  <2> DEFINE row == [form |-> call[c].row.form, members |-> members,
                     decision |-> call[c].row.decision]
  <2>2. row.members = members /\ MembersSettled(members)
    BY <1>5 DEF Freeze, MembersKnown, FreezeKnown
  <2>3. inputs' = inputs \cup {row}
    BY <2>1
  <2> HIDE DEF row
  <2>4. \A i \in inputs' : MembersSettled(i.members)'
    BY <1>1, <2>2, <2>3, MembersStaySettled DEF MembersKnown
  <2>5. call' = [b \in Callers |-> IF b = c THEN Idle ELSE call[b]]
    BY <1>5 DEF Freeze, Leave, MembersKnown
  <2>6. \A b \in Callers : FreezeKnown(call[b])'
    <3> SUFFICES ASSUME NEW b \in Callers PROVE FreezeKnown(call[b])'
      OBVIOUS
    <3>1. CASE b = c
      BY <2>5, <3>1 DEF FreezeKnown, Idle
    <3>2. CASE b # c
      <4>1. call'[b] = call[b] /\ FreezeKnown(call[b])
        BY <2>5, <3>2 DEF MembersKnown
      <4> QED
        BY <1>1, <4>1, FreezeStaysKnown DEF FreezeKnown
    <3> QED
      BY <3>1, <3>2
  <2>7. call' = [b \in Callers |-> call'[b]]
    BY <2>5
  <2> QED
    BY <2>4, <2>6, <2>7 DEF MembersKnown
<1>6. ASSUME NEW c \in Callers, AdmitDecision(c) \/ AbandonDecision(c) \/ AbandonFreeze(c),
             UNCHANGED inputs
      PROVE  MembersKnown'
  <2>1. call' = [call EXCEPT ![c] = Idle] /\ Idle.stage # "FREEZE"
    BY <1>6 DEF AdmitDecision, AbandonDecision, AbandonFreeze, Leave, Idle
  <2> QED
    BY <1>1, <1>6, <2>1, CallMoves
<1>7. ASSUME NEW c \in Callers, NEW f \in Verdicts, PrepareDecision(c, f), UNCHANGED inputs
      PROVE  MembersKnown'
  <2> DEFINE next == [stage |-> "C3", row |-> Row(f, EvidenceOf(f.run))]
  <2>1. call' = [call EXCEPT ![c] = next] /\ next.stage # "FREEZE"
    BY <1>7 DEF PrepareDecision, Enter
  <2> HIDE DEF next
  <2> QED
    BY <1>1, <1>7, <2>1, CallMoves
<1>8. ASSUME QualificationNext, UNCHANGED line PROVE MembersKnown'
  <2>1. UNCHANGED inputs
    BY <1>8 DEF line
  <2>2. ASSUME NEW f, CreateRun(f) \/ RecordArtifact(f) \/ Start(f) PROVE UNCHANGED call
    BY <2>2 DEF CreateRun, RecordArtifact, Start
  <2>3. ASSUME NEW f, NEW v, NEW candidate, NEW d, AuthorizeAdoption(f, v, candidate, d)
        PROVE  UNCHANGED call
    BY <2>3 DEF AuthorizeAdoption
  <2>4. ASSUME NEW f, NEW a, NEW d, RequestExecution(f, a, d) PROVE UNCHANGED call
    BY <2>4 DEF RequestExecution
  <2>5. ASSUME NEW e, (\E s \in Statuses : AppendTransition(e, s)) \/ CompleteEffect(e)
                          \/ ExhaustEffect(e)
        PROVE  UNCHANGED call
    BY <2>5 DEF AppendTransition, CompleteEffect, ExhaustEffect, Advance
  <2> QED
    BY <1>2, <1>6, <1>7, <1>8, <2>1, <2>2, <2>3, <2>4, <2>5 DEF QualificationNext
<1>9. ASSUME \/ \E f \in Designs, d \in Decisions : CreateCandidate(f, d)
             \/ \E f \in ReviewerKeys, d \in Decisions : AcceptReviewer(f, d)
             \/ \E r \in Opinions, k \in reviewers, actor \in Actors : AdmitReview(r, k.form.key, actor)
             \/ \E f \in Publishings, d \in Decisions : Publish(f, d)
      PROVE  UNCHANGED <<inputs, call>>
  BY <1>9 DEF CreateCandidate, AcceptReviewer, AdmitReview, Publish
<1>10. ASSUME NEW c \in Callers, AbandonDecision(c) \/ AbandonFreeze(c) PROVE UNCHANGED inputs
  BY <1>10 DEF AbandonDecision, AbandonFreeze, line
<1>11. CASE UNCHANGED lineVars
  BY <1>2, <1>11 DEF lineVars, line
<1> QED
  BY <1>2, <1>3, <1>4, <1>5, <1>6, <1>8, <1>9, <1>10, <1>11 DEF LineNext, FreezeStep

\* Every insertion into a table of the line looks for its keys first.
LEMMA KeysStep ==
  ASSUME LineKeyed, [LineNext]_lineVars
  PROVE  LineKeyed'
<1>1. CASE UNCHANGED line
  BY <1>1 DEF line, LineKeyed
<1>2. ASSUME NEW c \in Callers, Freeze(c) PROVE LineKeyed'
  <2>1. PICK members \in call[c].row.members :
            inputs' = inputs \cup {[form |-> call[c].row.form, members |-> members,
                                    decision |-> call[c].row.decision]}
    BY <1>2 DEF Freeze
  <2>2. /\ \A i \in inputs : i.form.id # call[c].row.form.id
        /\ UNCHANGED <<candidates, reviewers, reviews>>
    BY <1>2 DEF Freeze
  <2> QED
    BY <2>1, <2>2 DEF LineKeyed
<1>3. ASSUME NEW f \in Designs, NEW d \in Decisions, CreateCandidate(f, d) PROVE LineKeyed'
  BY <1>3 DEF CreateCandidate, CandidateFresh, LineKeyed
<1>4. ASSUME NEW f \in ReviewerKeys, NEW d \in Decisions, AcceptReviewer(f, d) PROVE LineKeyed'
  BY <1>4 DEF AcceptReviewer, LineKeyed
<1>5. ASSUME NEW r \in Opinions, NEW k \in reviewers, NEW actor \in Actors,
             AdmitReview(r, k.form.key, actor)
      PROVE  LineKeyed'
  BY <1>5 DEF AdmitReview, LineKeyed
<1>6. ASSUME NEW f \in Publishings, NEW d \in Decisions, Publish(f, d) PROVE LineKeyed'
  BY <1>6 DEF Publish, LineKeyed
<1>7. ASSUME NEW c \in Callers,
             \/ AbandonDecision(c) \/ ReadMembers(c) \/ AbandonFreeze(c)
             \/ \E f \in InputSets : \E members \in Readings(f), d \in Decisions :
                   PrepareFreeze(c, f, members, d)
      PROVE  UNCHANGED line
  BY <1>7 DEF AbandonDecision, PrepareFreeze, ReadMembers, AbandonFreeze
<1> QED
  BY <1>1, <1>2, <1>3, <1>4, <1>5, <1>6, <1>7 DEF LineNext, FreezeStep, lineVars

\* Rows of the line stay.
LEMMA LineGrows ==
  ASSUME [LineNext]_lineVars
  PROVE  /\ inputs \subseteq inputs' /\ candidates \subseteq candidates'
         /\ reviewers \subseteq reviewers' /\ reviews \subseteq reviews'
<1>1. CASE UNCHANGED line
  BY <1>1 DEF line
<1>2. ASSUME NEW c \in Callers, AbandonDecision(c) \/ FreezeStep
      PROVE  /\ inputs \subseteq inputs' /\ UNCHANGED <<candidates, reviewers, reviews>>
  BY <1>2 DEF AbandonDecision, FreezeStep, PrepareFreeze, ReadMembers, Freeze, AbandonFreeze, line
<1>3. ASSUME \/ \E f \in Designs, d \in Decisions : CreateCandidate(f, d)
             \/ \E f \in ReviewerKeys, d \in Decisions : AcceptReviewer(f, d)
             \/ \E r \in Opinions, k \in reviewers, actor \in Actors : AdmitReview(r, k.form.key, actor)
             \/ \E f \in Publishings, d \in Decisions : Publish(f, d)
      PROVE  /\ UNCHANGED inputs /\ candidates \subseteq candidates'
             /\ reviewers \subseteq reviewers' /\ reviews \subseteq reviews'
  BY <1>3 DEF CreateCandidate, AcceptReviewer, AdmitReview, Publish
<1>4. FreezeStep => \E c \in Callers : TRUE
  BY DEF FreezeStep
<1> QED
  BY <1>1, <1>2, <1>3, <1>4 DEF LineNext, lineVars

\* The parts of a candidate's history that its reviewer must not have had a hand
\* in are those of the one input its name stands for.
LEMMA HandsOfInput ==
  ASSUME LineKeyed, NEW c, NEW i \in inputs, i.form.id = c.form.input
  PROVE  /\ InputOf(c.form) = {i}
         /\ Hands(c) = {c.form.by, c.decision.subject}
                           \cup {i.form.by, i.decision.subject} \cup Authors(i.members)
<1>1. InputOf(c.form) = {i}
  BY DEF LineKeyed, InputOf
<1> QED
  BY <1>1 DEF Hands

\* Owners and stages of a normalised manifest cover the ports of its bindings.
LEMMA ManifestPorts ==
  ASSUME NEW m, NEW members, ManifestStands(m, members)
  PROVE  PortsStand(m)
<1> SUFFICES ASSUME NEW b \in m.bindings, NEW port \in b.ports
             PROVE  /\ \E a \in m.adrs : port \in a.ports /\ a.owner = m.ports[port].owner
                    /\ \E s \in Stages : port \in m.fabric[s]
  BY DEF PortsStand
<1>1. port \in DOMAIN m.ports
  BY DEF ManifestStands, BindingsStand
<1> QED
  BY <1>1 DEF ManifestStands, OwnersStand, FabricStands

\* A new candidate binds what its input froze.
LEMMA CandidatesStep ==
  ASSUME LineInv, [LineNext]_lineVars
  PROVE  CandidatesBound'
<1> USE DEF LineInv
<1>1. ASSUME NEW c \in candidates
      PROVE  /\ \E i \in inputs' : i.form.id = c.form.input /\ BoundToInput(c, i)
             /\ PortsStand(c.form.manifest)
  BY <1>1, LineGrows DEF CandidatesBound
<1>2. ASSUME NEW f \in Designs, NEW d \in Decisions, CreateCandidate(f, d)
      PROVE  CandidatesBound'
  <2> DEFINE row == [form |-> f, decision |-> d]
  <2>1. candidates' = candidates \cup {row}
    BY <1>2 DEF CreateCandidate
  <2>2. PICK i \in InputOf(f) : ManifestStands(f.manifest, i.members)
    BY <1>2 DEF CreateCandidate, DesignStands
  <2>3. i \in inputs' /\ i.form.id = f.input
    BY <2>2, LineGrows DEF InputOf
  <2>4. row.form = f
    OBVIOUS
  <2> HIDE DEF row
  <2>5. BoundToInput(row, i)
    BY <2>2, <2>4 DEF ManifestStands, BindingsStand, BoundToInput
  <2>6. PortsStand(row.form.manifest)
    BY <2>2, <2>4, ManifestPorts
  <2>7. candidates' = candidates \cup {row} =>
            \A c \in candidates' :
                /\ \E j \in inputs' : j.form.id = c.form.input /\ BoundToInput(c, j)
                /\ PortsStand(c.form.manifest)
    BY <1>1, <2>3, <2>4, <2>5, <2>6
  <2> QED
    BY <2>1, <2>7 DEF CandidatesBound, BoundToInput, Successes, MembersOf, PortsStand
<1>3. ASSUME UNCHANGED candidates PROVE CandidatesBound'
  BY <1>1, <1>3 DEF CandidatesBound, BoundToInput, Successes, MembersOf, PortsStand
<1>4. \/ UNCHANGED candidates
      \/ \E f \in Designs, d \in Decisions : CreateCandidate(f, d)
  BY DEF LineNext, FreezeStep, PrepareFreeze, ReadMembers, Freeze, AbandonFreeze, AbandonDecision,
     AcceptReviewer, AdmitReview, Publish, line, lineVars
<1> QED
  BY <1>2, <1>3, <1>4

\* The hands in a candidate are the same when the tables have grown.
LEMMA HandsStay ==
  ASSUME LineKeyed, LineKeyed', CandidatesBound, inputs \subseteq inputs', NEW c \in candidates
  PROVE  Hands(c)' = Hands(c)
<1>1. PICK i \in inputs : i.form.id = c.form.input
  BY DEF CandidatesBound
<1> DEFINE all == {c.form.by, c.decision.subject}
                    \cup {i.form.by, i.decision.subject} \cup Authors(i.members)
<1>2. Hands(c) = all
  BY <1>1, HandsOfInput
<1>3. InputOf(c.form)' = {i}
  BY <1>1 DEF LineKeyed, InputOf
<1>4. Hands(c)' = all
  BY <1>3 DEF Hands, Authors, MembersOf
<1> QED
  BY <1>2, <1>4

\* A review is admitted of a candidate, under a key, that stay what they are.
LEMMA ReviewsStep ==
  ASSUME LineInv, [LineNext]_lineVars
  PROVE  ReviewsStrange'
<1> USE DEF LineInv
<1>1. LineKeyed' /\ inputs \subseteq inputs' /\ candidates \subseteq candidates'
        /\ reviewers \subseteq reviewers'
  BY KeysStep, LineGrows
<1>2. ASSUME NEW o, NEW c \in candidates, NEW k \in reviewers, Strange(o, c, k)
      PROVE  \E d \in candidates', l \in reviewers' : Strange(o, d, l)'
  <2>1. Hands(c)' = Hands(c)
    BY <1>1, HandsStay
  <2>2. Strange(o, c, k)'
    BY <1>2, <2>1 DEF Strange
  <2> QED
    BY <1>1, <2>2
<1>3. \A o \in reviews : \E d \in candidates', l \in reviewers' : Strange(o, d, l)'
  BY <1>2 DEF ReviewsStrange
<1>4. ASSUME NEW r \in Opinions, NEW key \in reviewers, NEW actor \in Actors,
             AdmitReview(r, key.form.key, actor)
      PROVE  ReviewsStrange'
  <2> DEFINE row == [signed |-> r, key |-> key.form.key, by |-> actor]
  <2>1. row.signed = r /\ row.key = key.form.key /\ row.by = actor
    OBVIOUS
  <2>2. reviews' = reviews \cup {row}
    BY <1>4 DEF AdmitReview
  <2>3. PICK c \in candidates, k \in reviewers :
            k.form.key = key.form.key /\ Bound(r, c, k, actor)
    BY <1>4 DEF AdmitReview, ReviewStands
  <2> HIDE DEF row
  <2>4. Strange(row, c, k)
    BY <2>1, <2>3 DEF Bound, Strange
  <2>5. \E d \in candidates', l \in reviewers' : Strange(row, d, l)'
    BY <1>2, <2>4
  <2> QED
    BY <1>3, <2>2, <2>5 DEF ReviewsStrange
<1>5. \/ UNCHANGED reviews
      \/ \E r \in Opinions, k \in reviewers, actor \in Actors : AdmitReview(r, k.form.key, actor)
  BY DEF LineNext, FreezeStep, PrepareFreeze, ReadMembers, Freeze, AbandonFreeze, AbandonDecision,
     AcceptReviewer, CreateCandidate, Publish, line, lineVars
<1> QED
  BY <1>3, <1>4, <1>5 DEF ReviewsStrange

\* A publication is of a review of its candidate.
LEMMA PublicationsStep ==
  ASSUME PublicationsLinked, [LineNext]_lineVars
  PROVE  PublicationsLinked'
<1>1. reviews \subseteq reviews'
  BY LineGrows
<1>2. ASSUME NEW f \in Publishings, NEW d \in Decisions, Publish(f, d)
      PROVE  PublicationsLinked'
  <2> DEFINE row == [form |-> f, decision |-> d]
  <2>1. row.form = f /\ publications' = publications \cup {row}
    BY <1>2 DEF Publish
  <2>2. \E o \in reviews : o.signed.id = f.review /\ o.signed.candidate = f.candidate
    BY <1>2 DEF Publish, MaterialStands
  <2> HIDE DEF row
  <2> QED
    BY <1>1, <2>1, <2>2 DEF PublicationsLinked
<1>3. \/ UNCHANGED publications
      \/ \E f \in Publishings, d \in Decisions : Publish(f, d)
  BY DEF LineNext, FreezeStep, PrepareFreeze, ReadMembers, Freeze, AbandonFreeze, AbandonDecision,
     AcceptReviewer, CreateCandidate, AdmitReview, line, lineVars
<1> QED
  BY <1>1, <1>2, <1>3 DEF PublicationsLinked

-----------------------------------------------------------------------------
(* The theorems                                                            *)

\* The tables are empty at first and nobody is in the middle of a freeze.
LEMMA LineInvInit == LineInit => LineInv
<1> SUFFICES ASSUME LineInit PROVE LineInv
  OBVIOUS
<1>1. MembersKnown
  BY DEF LineInit, QualificationInit, MembersKnown, FreezeKnown, Idle
<1>2. ExecutionsKeyed /\ LineKeyed /\ CandidatesBound /\ ReviewsStrange /\ PublicationsLinked
  BY DEF LineInit, QualificationInit, ExecutionsKeyed, LineKeyed, CandidatesBound,
     ReviewsStrange, PublicationsLinked
<1> QED
  BY <1>1, <1>2 DEF LineInv

\* The tables of the line and of the executions below it stay consistent.
LEMMA LineConsistent == LineSpec => []LineInv
<1>1. LineInv /\ [LineNext]_lineVars => LineInv'
  BY ExecutionsStep, MembersStep, KeysStep, CandidatesStep, ReviewsStep, PublicationsStep
     DEF LineInv
<1> QED
  BY LineInvInit, <1>1, PTL DEF LineSpec

\* Who accepted a published candidate is a stranger to it and the only one who
\* was asked, for any documents, people and decisions.
THEOREM StrangersReview == LineSpec => []ReviewedOnceByAStranger
<1>1. LineInv => ReviewedOnceByAStranger
  <2> SUFFICES ASSUME LineInv, NEW p \in publications, NEW c \in CandidateOf(p),
                      NEW o \in ReviewOf(p)
               PROVE  /\ o.signed.reviewer \notin {c.form.by, o.by}
                      /\ \A i \in InputOf(c.form) : o.signed.reviewer # i.form.by
                      /\ \A e \in executions :
                            o.signed.reviewer = e.form.by
                                => \A b \in c.form.manifest.bindings : b.execution # e.form.id
                      /\ \A k \in reviewers : k.form.key = o.key => o.signed.reviewer # k.form.by
                      /\ \A other \in reviews, d \in candidates :
                            /\ d.form.id = other.signed.candidate
                            /\ d.form.manifest.architecture = c.form.manifest.architecture
                            => other = o
    BY DEF ReviewedOnceByAStranger
  <2> USE DEF LineInv
  <2>1. c \in candidates /\ c.form.id = p.form.candidate /\ o \in reviews
        /\ o.signed.id = p.form.review
    BY DEF CandidateOf, ReviewOf
  <2>2. o.signed.candidate = c.form.id
    BY <2>1 DEF PublicationsLinked, LineKeyed
  <2>3. PICK d \in candidates, k \in reviewers : Strange(o, d, k)
    BY <2>1 DEF ReviewsStrange
  <2>4. d = c
    BY <2>1, <2>2, <2>3 DEF Strange, LineKeyed
  <2>5. PICK i \in inputs : i.form.id = c.form.input /\ BoundToInput(c, i)
    BY <2>1 DEF CandidatesBound
  <2>6. InputOf(c.form) = {i} /\ i.form.by \in Hands(c) /\ c.form.by \in Hands(c)
        /\ Authors(i.members) \subseteq Hands(c)
    BY <2>5, HandsOfInput
  <2>7. o.signed.reviewer \notin Hands(c)
    BY <2>3, <2>4 DEF Strange
  <2>8. ASSUME NEW e \in executions, NEW b \in c.form.manifest.bindings,
               b.execution = e.form.id
        PROVE  e.form.by \in Hands(c)
    <3>1. PICK x \in Successes(i.members) : x.id = e.form.id
      BY <2>5, <2>8 DEF BoundToInput
    <3>2. x \in MembersOf(i.members) /\ MembersSettled(i.members)
      BY <3>1, <2>5 DEF Successes, MembersKnown
    <3>3. PICK y \in executions : y.form.id = x.id /\ y.form.by = x.by
      BY <3>2 DEF MembersSettled, MemberSettled
    <3>4. x.by = e.form.by
      BY <3>1, <3>3 DEF ExecutionsKeyed
    <3> QED
      BY <3>2, <3>4, <2>6 DEF Authors
  <2>9. \A l \in reviewers : l.form.key = o.key => o.signed.reviewer # l.form.by
    BY <2>3 DEF Strange, LineKeyed
  <2>10. o.signed.reviewer # o.by
    BY <2>3 DEF Strange
  <2>11. \A other \in reviews, e \in candidates :
            /\ e.form.id = other.signed.candidate
            /\ e.form.manifest.architecture = c.form.manifest.architecture
            => other = o
    BY <2>1, <2>2 DEF LineKeyed
  <2> QED
    BY <2>6, <2>7, <2>8, <2>9, <2>10, <2>11
<1> QED
  BY LineConsistent, <1>1, PTL

\* A published architecture consists of the components that adoptions brought
\* in, for any manifests, evidence and order of events.
THEOREM ComponentsAreAdopted == LineSpec => []PublishedComponentsAreAdopted
<1>1. LineInv => PublishedComponentsAreAdopted
  <2> SUFFICES ASSUME LineInv, NEW p \in publications, NEW c \in CandidateOf(p)
               PROVE  LET manifest == c.form.manifest
                          frozen == UNION {MembersOf(i.members) : i \in InputOf(c.form)}
                      IN /\ \A b \in manifest.bindings :
                               /\ Adopted(b.execution, b.artifact)
                               /\ \A port \in b.ports :
                                     /\ \E a \in manifest.adrs :
                                           port \in a.ports /\ a.owner = manifest.ports[port].owner
                                     /\ \E s \in Stages : port \in manifest.fabric[s]
                         /\ {b.execution : b \in manifest.bindings}
                               = {e.form.id : e \in {x \in executions :
                                                        /\ x.status = "SUCCEEDED"
                                                        /\ \E y \in frozen : y.id = x.form.id}}
    BY DEF PublishedComponentsAreAdopted
  <2> USE DEF LineInv
  <2>1. c \in candidates
    BY DEF CandidateOf
  <2>2. PICK i \in inputs : i.form.id = c.form.input /\ BoundToInput(c, i)
    BY <2>1 DEF CandidatesBound
  <2>3. InputOf(c.form) = {i} /\ MembersSettled(i.members)
    BY <2>2, HandsOfInput DEF MembersKnown
  <2> DEFINE manifest == c.form.manifest
  <2> DEFINE frozen == UNION {MembersOf(j.members) : j \in InputOf(c.form)}
  <2> DEFINE succeeded == {x \in executions : /\ x.status = "SUCCEEDED"
                                             /\ \E y \in frozen : y.id = x.form.id}
  <2>4. frozen = MembersOf(i.members)
    BY <2>3
  <2>5. ASSUME NEW b \in manifest.bindings
        PROVE  /\ Adopted(b.execution, b.artifact)
               /\ \E e \in succeeded : e.form.id = b.execution
    <3>1. PICK x \in Successes(i.members) : x.id = b.execution /\ x.candidate = b.artifact
      BY <2>2 DEF BoundToInput
    <3>2. x \in MembersOf(i.members) /\ x.status = "SUCCEEDED" /\ MemberSettled(x)
      BY <2>3, <3>1 DEF Successes, MembersSettled
    <3>3. PICK e \in executions :
              /\ e.form.id = x.id /\ e.status = x.status /\ e.outbox = "SUCCEEDED"
              /\ Selected(e, x.candidate)
      BY <3>2 DEF MemberSettled
    <3>4. Adopted(b.execution, b.artifact)
      BY <3>1, <3>2, <3>3 DEF Adopted, Selected
    <3>5. e \in succeeded
      BY <2>4, <3>2, <3>3
    <3> QED
      BY <3>1, <3>3, <3>4, <3>5
  <2>6. ASSUME NEW e \in succeeded
        PROVE  \E b \in manifest.bindings : b.execution = e.form.id
    <3>1. PICK y \in MembersOf(i.members) : y.id = e.form.id
      BY <2>4
    <3>2. y.status = e.status
      BY <2>3, <3>1 DEF MembersSettled, MemberSettled, ExecutionsKeyed
    <3>3. y \in Successes(i.members)
      BY <3>1, <3>2 DEF Successes
    <3> QED
      BY <2>2, <3>1, <3>3 DEF BoundToInput
  <2>7. {b.execution : b \in manifest.bindings} = {e.form.id : e \in succeeded}
    <3> HIDE DEF succeeded, manifest
    <3> QED
      BY <2>5, <2>6
  <2>8. PortsStand(manifest)
    BY <2>1 DEF CandidatesBound
  <2> QED
    BY <2>5, <2>7, <2>8 DEF PortsStand
<1> QED
  BY LineConsistent, <1>1, PTL

-----------------------------------------------------------------------------
(* Staleness.  A row verifies by other rows, by consumptions, and by       *)
(* evidence that is all there is.  Rows are found by keys and stay,        *)
(* consumptions stay, evidence is only added: what does not verify now     *)
(* does not verify after a step.                                           *)

DecisionsGrounded ==
    /\ \A v, w \in verdicts : v.form.id = w.form.id => v = w
    /\ \A v \in verdicts : /\ BindingOf(v.form.run) # {}
                           /\ v.snapshot \subseteq EvidenceOf(v.form.run)

AdoptionGrounded(a) ==
    /\ \E v \in verdicts : v.form.id = a.verdict
    /\ Use(a.decision, "C3_ADOPTION_AUTHORIZED", a.form.id, a.form.by) \in consumed

ExecutionGrounded(e) ==
    /\ \E a \in adoptions : a.form.id = e.form.adoption
    /\ Use(e.decision, "C3_ADOPTION_EXECUTION_REQUESTED", e.form.id, e.form.by) \in consumed

LineConsumed ==
    /\ \A i \in inputs :
          Use(i.decision, "C4_ARCHITECTURE_INPUT_FROZEN", i.form.id, i.form.by) \in consumed
    /\ \A c \in candidates :
          Use(c.decision, "C4_ARCHITECTURE_CANDIDATE_CREATED", c.form.id, c.form.by) \in consumed
    /\ \A k \in reviewers :
          Use(k.decision, "C4_ARCHITECTURE_REVIEWER_ACCEPTED", k.form.key, k.form.by) \in consumed
    /\ \A p \in publications :
          Use(p.decision, "C4_ARCHITECTURE_PUBLISHED_NOT_DEPLOYED", p.form.id, p.form.by)
              \in consumed

\* The members of a set, as far as its form and their results tell.
MembersOfForm(f, members) ==
    members = [k \in DOMAIN f.executions |->
                  [id |-> f.executions[k], status |-> members[k].status,
                   by |-> members[k].by, candidate |-> members[k].candidate]]

\* A freeze was authorized for what it read first.
FreezeAuthorized(state) ==
    state.stage = "FREEZE" =>
        /\ AuthorizesExactly(state.row.decision, state.row.form.by, "c4.architecture-input.freeze",
                             state.row.form.id, FreezeTerms(state.row.form, state.row.prepared))
        /\ \A members \in state.row.members : MembersOfForm(state.row.form, members)

Grounded ==
    /\ DecisionsGrounded
    /\ \A a \in adoptions : AdoptionGrounded(a)
    /\ \A e \in executions : ExecutionGrounded(e)
    /\ LineConsumed
    /\ \A c \in Callers : FreezeAuthorized(call[c])

\* Rows of C3, apart from executions, and consumptions stay.
LEMMA QualifiedGrows ==
  ASSUME [LineNext]_lineVars
  PROVE  /\ labs \subseteq labs' /\ artifacts \subseteq artifacts' /\ bindings \subseteq bindings'
         /\ verdicts \subseteq verdicts' /\ adoptions \subseteq adoptions'
         /\ consumed \subseteq consumed'
<1> DEFINE Kept == /\ labs \subseteq labs' /\ artifacts \subseteq artifacts'
                   /\ bindings \subseteq bindings' /\ verdicts \subseteq verdicts'
                   /\ adoptions \subseteq adoptions' /\ consumed \subseteq consumed'
<1>1. ASSUME QualificationNext PROVE Kept
  BY <1>1 DEF QualificationNext, CreateRun, RecordArtifact, Start, PrepareDecision,
     AdmitDecision, AuthorizeAdoption, RequestExecution, AppendTransition, CompleteEffect,
     ExhaustEffect, Advance, Consume, adoption, laboratory
<1>2. ASSUME UNCHANGED qualified, consumed \subseteq consumed' PROVE Kept
  BY <1>2 DEF qualified, laboratory
<1>3. ASSUME NEW c \in Callers, Freeze(c)
      PROVE  UNCHANGED qualified /\ consumed \subseteq consumed'
  BY <1>3 DEF Freeze, Consume
<1>4. ASSUME \/ \E f \in Designs, d \in Decisions : CreateCandidate(f, d)
             \/ \E f \in ReviewerKeys, d \in Decisions : AcceptReviewer(f, d)
             \/ \E f \in Publishings, d \in Decisions : Publish(f, d)
      PROVE  UNCHANGED qualified /\ consumed \subseteq consumed'
  BY <1>4 DEF CreateCandidate, AcceptReviewer, Publish, Consume
<1>5. ASSUME \/ \E c \in Callers : AbandonDecision(c)
             \/ \E c \in Callers :
                   \/ ReadMembers(c) \/ AbandonFreeze(c)
                   \/ \E f \in InputSets : \E members \in Readings(f), d \in Decisions :
                         PrepareFreeze(c, f, members, d)
             \/ \E r \in Opinions, k \in reviewers, actor \in Actors : AdmitReview(r, k.form.key, actor)
      PROVE  UNCHANGED qualified /\ consumed \subseteq consumed'
  BY <1>5 DEF AbandonDecision, ReadMembers, AbandonFreeze, PrepareFreeze, AdmitReview
<1>6. ASSUME UNCHANGED lineVars PROVE UNCHANGED qualified /\ consumed \subseteq consumed'
  BY <1>6 DEF lineVars
<1> HIDE DEF Kept
<1>7. ASSUME LineNext PROVE QualificationNext \/ (UNCHANGED qualified /\ consumed \subseteq consumed')
  BY <1>3, <1>4, <1>5, <1>7 DEF LineNext, FreezeStep
<1>8. Kept
  BY <1>1, <1>2, <1>6, <1>7
<1> QED
  BY <1>8 DEF Kept

\* Evidence is only added.
LEMMA EvidenceOnlyAdded ==
  ASSUME [LineNext]_lineVars, NEW run
  PROVE  BindingOf(run) \subseteq BindingOf(run)' /\ EvidenceOf(run) \subseteq EvidenceOf(run)'
  BY QualifiedGrows DEF EvidenceOf, BindingOf, Evidence

\* The steps that touch decisions, adoptions and the forms of executions.
LEMMA QualifiedSteps ==
  ASSUME [LineNext]_lineVars
  PROVE  /\ verdicts' = verdicts \/ \E c \in Callers : AdmitDecision(c)
         /\ adoptions' = adoptions
            \/ \E f \in Adoptions, v \in verdicts, d \in Decisions :
                  \E candidate \in v.form.selected : AuthorizeAdoption(f, v, candidate, d)
         /\ \/ UNCHANGED executions
            \/ \E f \in Requests, a \in adoptions, d \in Decisions : RequestExecution(f, a, d)
            \/ \E e \in executions : \/ \E s \in Statuses : AppendTransition(e, s)
                                     \/ CompleteEffect(e) \/ ExhaustEffect(e)
<1>1. ASSUME NEW f, CreateRun(f) \/ RecordArtifact(f) \/ Start(f)
      PROVE  UNCHANGED <<verdicts, adoptions, executions>>
  BY <1>1 DEF CreateRun, RecordArtifact, Start, adoption
<1>2. ASSUME NEW c, \/ \E f \in Verdicts : PrepareDecision(c, f)
                    \/ AdmitDecision(c)
      PROVE  UNCHANGED <<adoptions, executions>> /\ (verdicts' = verdicts \/ AdmitDecision(c))
  BY <1>2 DEF PrepareDecision, AdmitDecision, adoption
<1>3. ASSUME NEW f, NEW v, NEW candidate, NEW d, AuthorizeAdoption(f, v, candidate, d)
      PROVE  UNCHANGED <<verdicts, executions>>
  BY <1>3 DEF AuthorizeAdoption
<1>4. ASSUME NEW f, NEW a, NEW d, RequestExecution(f, a, d)
      PROVE  UNCHANGED <<verdicts, adoptions>>
  BY <1>4 DEF RequestExecution
<1>5. ASSUME NEW e, \/ \E s \in Statuses : AppendTransition(e, s)
                    \/ CompleteEffect(e) \/ ExhaustEffect(e)
      PROVE  UNCHANGED <<verdicts, adoptions>>
  BY <1>5 DEF AppendTransition, CompleteEffect, ExhaustEffect, Advance
<1>6. CASE QualificationNext
  <2>1. CASE \/ \E f \in Labs : CreateRun(f)
             \/ \E f \in Artifacts : RecordArtifact(f)
             \/ \E f \in Starts : Start(f)
    BY <1>1, <2>1
  <2>2. CASE \/ \E c \in Callers, f \in Verdicts : PrepareDecision(c, f)
             \/ \E c \in Callers : AdmitDecision(c)
    BY <1>2, <2>2
  <2>3. CASE \E f \in Adoptions, v \in verdicts, d \in Decisions :
                \E candidate \in v.form.selected : AuthorizeAdoption(f, v, candidate, d)
    BY <1>3, <2>3
  <2>4. CASE \E f \in Requests, a \in adoptions, d \in Decisions : RequestExecution(f, a, d)
    BY <1>4, <2>4
  <2>5. CASE \E e \in executions : \/ \E s \in Statuses : AppendTransition(e, s)
                                   \/ CompleteEffect(e) \/ ExhaustEffect(e)
    BY <1>5, <2>5
  <2> QED
    BY <1>6, <2>1, <2>2, <2>3, <2>4, <2>5 DEF QualificationNext
<1>7. CASE UNCHANGED qualified
  BY <1>7 DEF qualified
<1>8. LineNext => QualificationNext \/ UNCHANGED qualified
  BY DEF LineNext, FreezeStep, PrepareFreeze, ReadMembers, Freeze, AbandonFreeze, AbandonDecision,
     CreateCandidate, AcceptReviewer, AdmitReview, Publish
<1> QED
  BY <1>6, <1>7, <1>8 DEF lineVars

LEMMA DecisionsStayGrounded ==
  ASSUME DecisionsGrounded, [LineNext]_lineVars
  PROVE  DecisionsGrounded'
<1> USE DEF DecisionsGrounded
<1>1. \A v \in verdicts : /\ BindingOf(v.form.run)' # {}
                          /\ v.snapshot \subseteq EvidenceOf(v.form.run)'
  BY EvidenceOnlyAdded
<1>2. ASSUME NEW c \in Callers, AdmitDecision(c) PROVE DecisionsGrounded'
  <2>1. PICK v : v = call[c].row
    OBVIOUS
  <2>2. /\ verdicts' = verdicts \cup {v} /\ VerdictFresh(v.form)
        /\ BindingOf(v.form.run) # {} /\ v.snapshot = EvidenceOf(v.form.run)
    BY <1>2, <2>1 DEF AdmitDecision, DecisionAdmissible, GateVerifies
  <2>3. BindingOf(v.form.run)' # {} /\ v.snapshot \subseteq EvidenceOf(v.form.run)'
    BY <2>2, EvidenceOnlyAdded
  <2> QED
    BY <1>1, <2>2, <2>3 DEF VerdictFresh
<1> QED
  BY <1>1, <1>2, QualifiedSteps

LEMMA AdoptionsStayGrounded ==
  ASSUME \A a \in adoptions : AdoptionGrounded(a), [LineNext]_lineVars
  PROVE  \A a \in adoptions' : AdoptionGrounded(a)'
<1>1. \A a \in adoptions : AdoptionGrounded(a)'
  BY QualifiedGrows DEF AdoptionGrounded
<1>2. ASSUME NEW f \in Adoptions, NEW v \in verdicts, NEW d \in Decisions,
             NEW candidate \in v.form.selected, AuthorizeAdoption(f, v, candidate, d)
      PROVE  \A a \in adoptions' : AdoptionGrounded(a)'
  <2> DEFINE row == [form |-> f, verdict |-> v.form.id, candidate |-> candidate, decision |-> d]
  <2>1. adoptions' = adoptions \cup {row} /\ verdicts' = verdicts
        /\ Use(d, "C3_ADOPTION_AUTHORIZED", f.id, f.by) \in consumed'
    BY <1>2 DEF AuthorizeAdoption, Consume
  <2>2. row.form = f /\ row.verdict = v.form.id /\ row.decision = d
    OBVIOUS
  <2> HIDE DEF row
  <2>3. AdoptionGrounded(row)'
    BY <2>1, <2>2 DEF AdoptionGrounded
  <2> QED
    BY <1>1, <2>1, <2>3
<1> QED
  BY <1>1, <1>2, QualifiedSteps

LEMMA ExecutionsStayGrounded ==
  ASSUME ExecutionsKeyed, \A e \in executions : ExecutionGrounded(e), [LineNext]_lineVars
  PROVE  \A e \in executions' : ExecutionGrounded(e)'
<1>1. \A e \in executions : ExecutionGrounded(e)'
  BY QualifiedGrows DEF ExecutionGrounded
<1>2. ASSUME NEW f \in Requests, NEW a \in adoptions, NEW d \in Decisions,
             RequestExecution(f, a, d)
      PROVE  \A e \in executions' : ExecutionGrounded(e)'
  <2> DEFINE row == [form |-> f, status |-> "REQUESTED", outbox |-> "OPEN", decision |-> d]
  <2>1. executions' = executions \cup {row} /\ adoptions' = adoptions /\ a.form.id = f.adoption
        /\ Use(d, "C3_ADOPTION_EXECUTION_REQUESTED", f.id, f.by) \in consumed'
    BY <1>2 DEF RequestExecution, Consume
  <2>2. row.form = f /\ row.decision = d
    OBVIOUS
  <2> HIDE DEF row
  <2>3. ExecutionGrounded(row)'
    BY <2>1, <2>2 DEF ExecutionGrounded
  <2> QED
    BY <1>1, <2>1, <2>3
<1>3. ASSUME NEW e \in executions,
             \/ \E s \in Statuses : AppendTransition(e, s)
             \/ CompleteEffect(e) \/ ExhaustEffect(e)
      PROVE  \A x \in executions' : ExecutionGrounded(x)'
  <2>1. e \in ExecutionRow
    BY DEF ExecutionsKeyed
  <2>2. PICK next : /\ executions' = (executions \ {e}) \cup {next}
                    /\ next.form = e.form /\ next.decision = e.decision
    <3>1. ASSUME NEW s \in Statuses, AppendTransition(e, s)
          PROVE  \E next : /\ executions' = (executions \ {e}) \cup {next}
                           /\ next.form = e.form /\ next.decision = e.decision
      <4> DEFINE next == [e EXCEPT !.status = s]
      <4>1. next.form = e.form /\ next.decision = e.decision
        BY <2>1 DEF ExecutionRow
      <4>2. executions' = (executions \ {e}) \cup {next}
        BY <3>1 DEF AppendTransition, Advance
      <4> QED
        BY <4>1, <4>2
    <3>2. ASSUME NEW o \in {"SUCCEEDED", "DEAD"}, Advance(e, [e EXCEPT !.outbox = o])
          PROVE  \E next : /\ executions' = (executions \ {e}) \cup {next}
                           /\ next.form = e.form /\ next.decision = e.decision
      <4> DEFINE next == [e EXCEPT !.outbox = o]
      <4>1. next.form = e.form /\ next.decision = e.decision
        BY <2>1 DEF ExecutionRow
      <4>2. executions' = (executions \ {e}) \cup {next}
        BY <3>2 DEF Advance
      <4> QED
        BY <4>1, <4>2
    <3>3. CompleteEffect(e) \/ ExhaustEffect(e)
             => \E o \in {"SUCCEEDED", "DEAD"} : Advance(e, [e EXCEPT !.outbox = o])
      BY DEF CompleteEffect, ExhaustEffect
    <3> QED
      BY <1>3, <3>1, <3>2, <3>3
  <2>3. ExecutionGrounded(next)'
    BY <1>1, <2>2 DEF ExecutionGrounded
  <2> QED
    BY <1>1, <2>2, <2>3
<1> QED
  BY <1>1, <1>2, <1>3, QualifiedSteps

LEMMA LineStaysConsumed ==
  ASSUME LineConsumed, [LineNext]_lineVars
  PROVE  LineConsumed'
<1> USE DEF LineConsumed
<1>1. CASE UNCHANGED line
  BY <1>1, QualifiedGrows DEF line
<1>2. ASSUME NEW c \in Callers, Freeze(c) PROVE LineConsumed'
  <2>1. PICK members \in call[c].row.members :
            inputs' = inputs \cup {[form |-> call[c].row.form, members |-> members,
                                    decision |-> call[c].row.decision]}
    BY <1>2 DEF Freeze
  <2>2. /\ Use(call[c].row.decision, "C4_ARCHITECTURE_INPUT_FROZEN", call[c].row.form.id,
               call[c].row.form.by) \in consumed'
        /\ UNCHANGED <<candidates, reviewers, publications>>
    BY <1>2 DEF Freeze, Consume
  <2> QED
    BY <2>1, <2>2, QualifiedGrows
<1>3. ASSUME NEW f \in Designs, NEW d \in Decisions, CreateCandidate(f, d) PROVE LineConsumed'
  BY <1>3 DEF CreateCandidate, Consume
<1>4. ASSUME NEW f \in ReviewerKeys, NEW d \in Decisions, AcceptReviewer(f, d) PROVE LineConsumed'
  BY <1>4 DEF AcceptReviewer, Consume
<1>5. ASSUME NEW r \in Opinions, NEW k \in reviewers, NEW actor \in Actors,
             AdmitReview(r, k.form.key, actor)
      PROVE  LineConsumed'
  BY <1>5 DEF AdmitReview
<1>6. ASSUME NEW f \in Publishings, NEW d \in Decisions, Publish(f, d) PROVE LineConsumed'
  BY <1>6 DEF Publish, Consume
<1>7. ASSUME NEW c \in Callers,
             \/ AbandonDecision(c) \/ ReadMembers(c) \/ AbandonFreeze(c)
             \/ \E f \in InputSets : \E members \in Readings(f), d \in Decisions :
                   PrepareFreeze(c, f, members, d)
      PROVE  UNCHANGED line
  BY <1>7 DEF AbandonDecision, PrepareFreeze, ReadMembers, AbandonFreeze
<1> QED
  BY <1>1, <1>2, <1>3, <1>4, <1>5, <1>6, <1>7 DEF LineNext, FreezeStep, lineVars

\* What is read of an execution says which one it is of.
LEMMA ReadingsOfForm ==
  ASSUME NEW f, NEW members \in Readings(f)
  PROVE  MembersOfForm(f, members)
<1>1. DOMAIN members = DOMAIN f.executions /\ members = [k \in DOMAIN members |-> members[k]]
  BY DEF Readings
<1>2. ASSUME NEW k \in DOMAIN members
      PROVE  members[k] = [id |-> f.executions[k], status |-> members[k].status,
                           by |-> members[k].by, candidate |-> members[k].candidate]
  <2>1. members[k] \in Snapshots(f.executions[k])
    BY DEF Readings
  <2>2. PICK e, a : /\ e.form.id = f.executions[k]
                    /\ members[k] = [id |-> e.form.id, status |-> e.status, by |-> e.form.by,
                                     candidate |-> a.candidate]
    BY <2>1 DEF Snapshots
  <2> QED
    BY <2>2
<1> QED
  BY <1>1, <1>2 DEF MembersOfForm

\* One caller moves to a state that is authorized.
LEMMA AuthorizedMoves ==
  ASSUME call = [c \in Callers |-> call[c]], \A c \in Callers : FreezeAuthorized(call[c]),
         NEW c \in Callers, NEW next, call' = [call EXCEPT ![c] = next], FreezeAuthorized(next)
  PROVE  \A b \in Callers : FreezeAuthorized(call[b])'
<1> SUFFICES ASSUME NEW b \in Callers PROVE FreezeAuthorized(call[b])'
  OBVIOUS
<1>1. call'[b] = IF b = c THEN next ELSE call[b]
  OBVIOUS
<1> QED
  BY <1>1 DEF FreezeAuthorized

LEMMA CallsStayAuthorized ==
  ASSUME MembersKnown, \A c \in Callers : FreezeAuthorized(call[c]), [LineNext]_lineVars
  PROVE  \A c \in Callers : FreezeAuthorized(call[c])'
<1> DEFINE Done == \A c \in Callers : FreezeAuthorized(call[c])'
<1>0. call = [c \in Callers |-> call[c]]
  BY DEF MembersKnown
<1>1. ASSUME UNCHANGED call PROVE Done
  BY <1>1 DEF FreezeAuthorized
<1>2. ASSUME NEW c \in Callers, NEW f \in InputSets, NEW members \in Readings(f),
             NEW d \in Decisions, PrepareFreeze(c, f, members, d)
      PROVE  Done
  <2> DEFINE next == FreezeCall(FreezeRow(f, members, {}, d))
  <2>1. call' = [call EXCEPT ![c] = next]
    BY <1>2 DEF PrepareFreeze, Enter, FreezeCall, FreezeRow
  <2>2. /\ next.row.form = f /\ next.row.prepared = members /\ next.row.members = {}
        /\ next.row.decision = d
    BY DEF FreezeCall, FreezeRow
  <2>3. AuthorizesExactly(d, f.by, "c4.architecture-input.freeze", f.id, FreezeTerms(f, members))
    BY <1>2 DEF PrepareFreeze
  <2> HIDE DEF next
  <2>4. FreezeAuthorized(next)
    BY <2>2, <2>3 DEF FreezeAuthorized
  <2> QED
    BY <1>0, <2>1, <2>4, AuthorizedMoves
<1>3. ASSUME NEW c \in Callers, ReadMembers(c) PROVE Done
  <2>1. PICK members \in Readings(call[c].row.form) :
            call' = [call EXCEPT ![c].row.members = {members}]
    BY <1>3 DEF ReadMembers
  <2>2. PICK f, prepared, read, d : call[c] = FreezeCall(FreezeRow(f, prepared, read, d))
    BY <1>3 DEF ReadMembers, MembersKnown, FreezeKnown
  <2> DEFINE next == FreezeCall(FreezeRow(f, prepared, {members}, d))
  <2>3. [call[c] EXCEPT !.row.members = {members}] = next
    BY <2>2 DEF FreezeCall, FreezeRow
  <2>4. call' = [call EXCEPT ![c] = next]
    BY <2>1, <2>3
  <2>5. /\ next.row.form = f /\ next.row.prepared = prepared /\ next.row.members = {members}
        /\ next.row.decision = d
        /\ call[c].row.form = f /\ call[c].row.prepared = prepared /\ call[c].row.decision = d
        /\ call[c].stage = "FREEZE"
    BY <2>2 DEF FreezeCall, FreezeRow
  <2> HIDE DEF next
  <2>6. FreezeAuthorized(next)
    BY <2>1, <2>5, ReadingsOfForm DEF FreezeAuthorized
  <2> QED
    BY <1>0, <2>4, <2>6, AuthorizedMoves
<1>4. ASSUME NEW c \in Callers,
             AdmitDecision(c) \/ AbandonDecision(c) \/ AbandonFreeze(c) \/ Freeze(c)
      PROVE  Done
  <2>1. call' = [call EXCEPT ![c] = Idle]
    BY <1>4 DEF AdmitDecision, AbandonDecision, AbandonFreeze, Freeze, Leave
  <2>2. FreezeAuthorized(Idle)
    BY DEF FreezeAuthorized, Idle
  <2> QED
    BY <1>0, <2>1, <2>2, AuthorizedMoves
<1>5. ASSUME NEW c \in Callers, NEW f \in Verdicts, PrepareDecision(c, f) PROVE Done
  <2> DEFINE next == [stage |-> "C3", row |-> Row(f, EvidenceOf(f.run))]
  <2>1. call' = [call EXCEPT ![c] = next] /\ next.stage # "FREEZE"
    BY <1>5 DEF PrepareDecision, Enter
  <2> HIDE DEF next
  <2>2. FreezeAuthorized(next)
    BY <2>1 DEF FreezeAuthorized
  <2> QED
    BY <1>0, <2>1, <2>2, AuthorizedMoves
<1> HIDE DEF Done
<1>6. ASSUME QualificationNext PROVE Done
  <2>1. \/ UNCHANGED call
        \/ \E c \in Callers, f \in Verdicts : PrepareDecision(c, f)
        \/ \E c \in Callers : AdmitDecision(c)
    BY <1>6 DEF QualificationNext, CreateRun, RecordArtifact, Start, AuthorizeAdoption,
       RequestExecution, AppendTransition, CompleteEffect, ExhaustEffect, Advance
  <2> QED
    BY <1>1, <1>4, <1>5, <2>1
<1>7. ASSUME \/ \E f \in Designs, d \in Decisions : CreateCandidate(f, d)
             \/ \E f \in ReviewerKeys, d \in Decisions : AcceptReviewer(f, d)
             \/ \E r \in Opinions, k \in reviewers, actor \in Actors : AdmitReview(r, k.form.key, actor)
             \/ \E f \in Publishings, d \in Decisions : Publish(f, d)
      PROVE  UNCHANGED call
  BY <1>7 DEF CreateCandidate, AcceptReviewer, AdmitReview, Publish
<1>8. Done
  BY <1>1, <1>2, <1>3, <1>4, <1>6, <1>7 DEF LineNext, FreezeStep, lineVars
<1> QED
  BY <1>8 DEF Done

LEMMA GroundedStep ==
  ASSUME LineInv, Grounded, [LineNext]_lineVars
  PROVE  Grounded'
  BY DecisionsStayGrounded, AdoptionsStayGrounded, ExecutionsStayGrounded, LineStaysConsumed,
     CallsStayAuthorized DEF Grounded, LineInv

LEMMA GroundedInit == LineInit => Grounded
<1> SUFFICES ASSUME LineInit PROVE Grounded
  OBVIOUS
<1>1. \A c \in Callers : FreezeAuthorized(call[c])
  BY DEF LineInit, QualificationInit, FreezeAuthorized, Idle
<1> QED
  BY <1>1 DEF LineInit, QualificationInit, Grounded, DecisionsGrounded, LineConsumed

-----------------------------------------------------------------------------
(* What verifies after a step verified before it                           *)

\* The evidence of a decision is all there is, and was all there was.
LEMMA DecisionVerified ==
  ASSUME DecisionsGrounded, [LineNext]_lineVars, NEW v \in verdicts, DecisionVerifies(v)'
  PROVE  DecisionVerifies(v)
<1>1. /\ BindingOf(v.form.run) # {} /\ v.snapshot \subseteq EvidenceOf(v.form.run)
      /\ BindingOf(v.form.run) \subseteq BindingOf(v.form.run)'
      /\ EvidenceOf(v.form.run) \subseteq EvidenceOf(v.form.run)'
  BY EvidenceOnlyAdded DEF DecisionsGrounded
<1>2. v.snapshot = EvidenceOf(v.form.run)
  BY <1>1 DEF DecisionVerifies
<1>3. GateVerifies(v.form.run)
  BY <1>1 DEF DecisionVerifies, GateVerifies
<1>4. Involved(v.form.run, v.snapshot) \subseteq Involved(v.form.run, v.snapshot)'
  <2>1. labs \subseteq labs'
    BY QualifiedGrows
  <2> QED
    BY <1>1, <2>1 DEF Involved
<1>5. SelectionStands(v) /\ IndependentMaker(v)
  BY <1>4 DEF DecisionVerifies, SelectionStands, IndependentMaker
<1> QED
  BY <1>2, <1>3, <1>5 DEF DecisionVerifies

LEMMA AdoptionVerified ==
  ASSUME Grounded, DecisionsGrounded', [LineNext]_lineVars, NEW a \in adoptions,
         AdoptionVerifies(a)'
  PROVE  AdoptionVerifies(a)
<1>1. AdoptionGrounded(a) /\ DecisionsGrounded
  BY DEF Grounded
<1>2. PICK v \in verdicts : v.form.id = a.verdict
  BY <1>1 DEF AdoptionGrounded
<1>3. PICK w \in verdicts' : /\ w.form.id = a.verdict
                             /\ w.form.run = a.form.run
                             /\ w.form.selected = {a.candidate}
                             /\ DecisionVerifies(w)'
  BY DEF AdoptionVerifies
<1>4. v \in verdicts'
  BY <1>2, QualifiedGrows
<1>5. w = v
  BY <1>2, <1>3, <1>4 DEF DecisionsGrounded
<1>6. DecisionVerifies(v)
  BY <1>1, <1>3, <1>5, DecisionVerified
<1> QED
  BY <1>1, <1>2, <1>3, <1>5, <1>6 DEF AdoptionVerifies, AdoptionGrounded

LEMMA ExecutionVerified ==
  ASSUME Grounded, DecisionsGrounded', ExecutionsKeyed', [LineNext]_lineVars,
         NEW e \in executions, ExecutionVerifies(e)'
  PROVE  ExecutionVerifies(e)
<1>1. ExecutionGrounded(e)
  BY DEF Grounded
<1>2. PICK a \in adoptions : a.form.id = e.form.adoption
  BY <1>1 DEF ExecutionGrounded
<1>3. PICK b \in adoptions' :
          /\ b.form.id = e.form.adoption /\ AdoptionVerifies(b)'
          /\ AuthorizesExactly(e.decision, e.form.by, "c3.adoption.execute", b.candidate,
                               <<e.form.id, e.form.adoption, e.form.plan>>)
  BY DEF ExecutionVerifies, AuthorizesExactly
<1>4. b = a
  BY <1>2, <1>3, QualifiedGrows DEF ExecutionsKeyed
<1>5. AdoptionVerifies(a)
  BY <1>3, <1>4, AdoptionVerified
<1>6. e.outbox = IF e.status \in Terminal THEN "SUCCEEDED" ELSE "OPEN"
  BY DEF ExecutionVerifies
<1> QED
  BY <1>1, <1>3, <1>4, <1>5, <1>6 DEF ExecutionVerifies, ExecutionGrounded

\* The execution of a frozen member is settled: it and its adoption are there.
LEMMA SnapshotBefore ==
  ASSUME Grounded, DecisionsGrounded', ExecutionsKeyed, ExecutionsKeyed', [LineNext]_lineVars,
         NEW x, NEW execution, MemberSettled(x), x \in Snapshots(execution)'
  PROVE  x \in Snapshots(execution)
<1>1. PICK e \in executions', a \in adoptions' :
          /\ e.form.id = execution /\ ExecutionVerifies(e)' /\ e.status \in Eligible
          /\ \E z \in executions' : z.form.id = execution /\ z.form.adoption = a.form.id
          /\ x = [id |-> e.form.id, status |-> e.status, by |-> e.form.by,
                  candidate |-> a.candidate]
  BY DEF Snapshots
<1>2. x.id = execution
  BY <1>1
<1>3. PICK y \in executions : y.form.id = x.id /\ y.status \in Eligible /\ y.outbox = "SUCCEEDED"
  BY DEF MemberSettled
<1>4. y \in executions'
  BY <1>3, ExecutionsStep DEF SettledKept, Eligible, Terminal
<1>5. e = y
  BY <1>1, <1>2, <1>3, <1>4 DEF ExecutionsKeyed
<1>6. ExecutionVerifies(e)
  BY <1>1, <1>5, ExecutionVerified
<1>7. e.form.adoption = a.form.id
  BY <1>1 DEF ExecutionsKeyed
<1>8. PICK b \in adoptions : b.form.id = e.form.adoption
  BY <1>5 DEF Grounded, ExecutionGrounded
<1>9. a \in adoptions
  BY <1>7, <1>8, QualifiedGrows DEF ExecutionsKeyed
<1> QED
  BY <1>1, <1>5, <1>6, <1>7, <1>9 DEF Snapshots

LEMMA InputVerified ==
  ASSUME LineInv, LineInv', Grounded, Grounded', [LineNext]_lineVars, NEW i \in inputs,
         InputVerifies(i)'
  PROVE  InputVerifies(i)
<1>1. ASSUME NEW k \in DOMAIN i.members
      PROVE  i.members[k] \in Snapshots(i.form.executions[k])
  <2>1. MemberSettled(i.members[k])
    BY DEF LineInv, MembersKnown, MembersSettled, MembersOf
  <2>2. i.members[k] \in Snapshots(i.form.executions[k])'
    BY DEF InputVerifies
  <2> QED
    BY <2>1, <2>2, SnapshotBefore DEF LineInv, Grounded
<1>2. /\ Successes(i.members) # {}
      /\ DOMAIN i.members = DOMAIN i.form.executions
      /\ AuthorizesExactly(i.decision, i.form.by, "c4.architecture-input.freeze", i.form.id,
                           FreezeTerms(i.form, i.members))
  BY DEF InputVerifies, Successes, MembersOf, AuthorizesExactly, FreezeTerms
<1>3. Use(i.decision, "C4_ARCHITECTURE_INPUT_FROZEN", i.form.id, i.form.by) \in consumed
  BY DEF Grounded, LineConsumed
<1> QED
  BY <1>1, <1>2, <1>3 DEF InputVerifies

LEMMA CandidateVerified ==
  ASSUME LineInv, LineInv', Grounded, Grounded', [LineNext]_lineVars, NEW c \in candidates,
         CandidateVerifies(c)'
  PROVE  CandidateVerifies(c)
<1>1. PICK j \in inputs : j.form.id = c.form.input
  BY DEF LineInv, CandidatesBound
<1>2. PICK i \in InputOf(c.form)' : InputVerifies(i)' /\ ManifestStands(c.form.manifest, i.members)'
  BY DEF CandidateVerifies, DesignStands
<1>3. i = j
  <2>1. i \in inputs' /\ i.form.id = c.form.input /\ j \in inputs'
    BY <1>1, <1>2, LineGrows DEF InputOf
  <2> QED
    BY <1>1, <2>1 DEF LineInv, LineKeyed
<1>4. InputVerifies(i)
  BY <1>2, <1>3, InputVerified
<1>5. ManifestStands(c.form.manifest, i.members)
  BY <1>2 DEF ManifestStands, OwnersStand, FabricStands, BindingsStand, BenchmarkStands,
     Successes, MembersOf
<1>6. AuthorizesExactly(c.decision, c.form.by, "c4.architecture-candidate.create", c.form.id,
                        DesignTerms(c.form))
  BY DEF CandidateVerifies, DesignStands, AuthorizesExactly, DesignTerms
<1>7. Use(c.decision, "C4_ARCHITECTURE_CANDIDATE_CREATED", c.form.id, c.form.by) \in consumed
  BY DEF Grounded, LineConsumed
<1>8. i \in InputOf(c.form)
  BY <1>1, <1>3 DEF InputOf
<1> QED
  BY <1>4, <1>5, <1>6, <1>7, <1>8 DEF CandidateVerifies, DesignStands

LEMMA ReviewerVerified ==
  ASSUME Grounded, NEW k \in reviewers, ReviewerVerifies(k)'
  PROVE  ReviewerVerifies(k)
<1>1. Use(k.decision, "C4_ARCHITECTURE_REVIEWER_ACCEPTED", k.form.key, k.form.by) \in consumed
  BY DEF Grounded, LineConsumed
<1> QED
  BY <1>1 DEF ReviewerVerifies, AuthorizesExactly

LEMMA ReviewVerified ==
  ASSUME LineInv, LineInv', Grounded, Grounded', [LineNext]_lineVars, NEW o \in reviews,
         ReviewVerifies(o)'
  PROVE  ReviewVerifies(o)
<1>1. PICK d \in candidates, l \in reviewers : Strange(o, d, l)
  BY DEF LineInv, ReviewsStrange
<1>2. VerdictStands(o.signed)
  BY DEF ReviewVerifies, ReviewStands, VerdictStands
<1>3. PICK c \in candidates', k \in reviewers' :
          /\ CandidateVerifies(c)' /\ k.form.key = o.key /\ ReviewerVerifies(k)'
          /\ Bound(o.signed, c, k, o.by)'
  BY DEF ReviewVerifies, ReviewStands
<1>4. c = d
  BY <1>1, <1>3, LineGrows DEF Strange, Bound, LineInv, LineKeyed
<1>5. k = l
  BY <1>1, <1>3, LineGrows DEF Strange, LineInv, LineKeyed
<1>6. CandidateVerifies(c) /\ ReviewerVerifies(k)
  BY <1>3, <1>4, <1>5, CandidateVerified, ReviewerVerified
<1>7. Hands(c)' = Hands(c)
  BY <1>4, LineGrows, HandsStay DEF LineInv
<1>8. Bound(o.signed, c, k, o.by)
  BY <1>3, <1>7 DEF Bound
<1> QED
  BY <1>2, <1>3, <1>4, <1>5, <1>6, <1>8 DEF ReviewVerifies, ReviewStands

LEMMA PublicationVerified ==
  ASSUME LineInv, LineInv', Grounded, Grounded', [LineNext]_lineVars, NEW p \in publications,
         PublicationVerifies(p)'
  PROVE  PublicationVerifies(p)
<1>1. PICK r \in reviews : r.signed.id = p.form.review /\ r.signed.candidate = p.form.candidate
  BY DEF LineInv, PublicationsLinked
<1>2. PICK d \in candidates : d.form.id = r.signed.candidate
  BY DEF LineInv, ReviewsStrange, Strange
<1>3. PICK c \in candidates', o \in reviews' :
          /\ c.form.id = p.form.candidate /\ CandidateVerifies(c)'
          /\ o.signed.id = p.form.review /\ ReviewVerifies(o)'
          /\ o.signed.candidate = c.form.id /\ o.signed.verdict = "ACCEPTED"
  BY DEF PublicationVerifies, MaterialStands
<1>4. c = d /\ o = r
  BY <1>1, <1>2, <1>3, LineGrows DEF LineInv, LineKeyed
<1>5. CandidateVerifies(c) /\ ReviewVerifies(o)
  BY <1>3, <1>4, CandidateVerified, ReviewVerified
<1>6. MaterialStands(p.form)
  BY <1>3, <1>4, <1>5 DEF MaterialStands
<1>7. Use(p.decision, "C4_ARCHITECTURE_PUBLISHED_NOT_DEPLOYED", p.form.id, p.form.by) \in consumed
  BY DEF Grounded, LineConsumed
<1> QED
  BY <1>6, <1>7 DEF PublicationVerifies, AuthorizesExactly

-----------------------------------------------------------------------------
(* A row verifies when it appears                                          *)

\* Which operation adds a row, and that it leaves the rows of C3 alone.
LEMMA LineSteps ==
  ASSUME [LineNext]_lineVars
  PROVE  /\ UNCHANGED inputs \/ \E c \in Callers : Freeze(c)
         /\ UNCHANGED candidates \/ \E f \in Designs, d \in Decisions : CreateCandidate(f, d)
         /\ UNCHANGED reviewers \/ \E f \in ReviewerKeys, d \in Decisions : AcceptReviewer(f, d)
         /\ \/ UNCHANGED reviews
            \/ \E r \in Opinions, k \in reviewers, actor \in Actors :
                  AdmitReview(r, k.form.key, actor)
         /\ UNCHANGED publications \/ \E f \in Publishings, d \in Decisions : Publish(f, d)
<1>1. CASE UNCHANGED line
  BY <1>1 DEF line
<1>2. ASSUME NEW c, Freeze(c) PROVE UNCHANGED <<candidates, reviewers, reviews, publications>>
  BY <1>2 DEF Freeze
<1>3. ASSUME NEW f, NEW d, CreateCandidate(f, d)
      PROVE  UNCHANGED <<inputs, reviewers, reviews, publications>>
  BY <1>3 DEF CreateCandidate
<1>4. ASSUME NEW f, NEW d, AcceptReviewer(f, d)
      PROVE  UNCHANGED <<inputs, candidates, reviews, publications>>
  BY <1>4 DEF AcceptReviewer
<1>5. ASSUME NEW r, NEW key, NEW actor, AdmitReview(r, key, actor)
      PROVE  UNCHANGED <<inputs, candidates, reviewers, publications>>
  BY <1>5 DEF AdmitReview
<1>6. ASSUME NEW f, NEW d, Publish(f, d) PROVE UNCHANGED <<inputs, candidates, reviewers, reviews>>
  BY <1>6 DEF Publish
<1>7. ASSUME NEW c \in Callers,
             \/ AbandonDecision(c) \/ ReadMembers(c) \/ AbandonFreeze(c)
             \/ \E f \in InputSets : \E members \in Readings(f), d \in Decisions :
                   PrepareFreeze(c, f, members, d)
      PROVE  UNCHANGED line
  BY <1>7 DEF AbandonDecision, PrepareFreeze, ReadMembers, AbandonFreeze
<1> QED
  BY <1>1, <1>2, <1>3, <1>4, <1>5, <1>6, <1>7 DEF LineNext, FreezeStep, lineVars

\* What verifies does so still when decisions are consumed.
LEMMA SnapshotsStand ==
  ASSUME UNCHANGED qualified, consumed \subseteq consumed', NEW execution
  PROVE  Snapshots(execution) \subseteq Snapshots(execution)'
<1>1. ASSUME NEW v \in verdicts, DecisionVerifies(v) PROVE DecisionVerifies(v)'
  BY <1>1 DEF DecisionVerifies, GateVerifies, SelectionStands, IndependentMaker, Involved,
     EvidenceOf, Evidence, BindingOf, qualified, laboratory
<1>2. ASSUME NEW a \in adoptions, AdoptionVerifies(a) PROVE AdoptionVerifies(a)'
  BY <1>1, <1>2 DEF AdoptionVerifies, AuthorizesExactly, qualified
<1>3. ASSUME NEW e \in executions, ExecutionVerifies(e) PROVE ExecutionVerifies(e)'
  BY <1>2, <1>3 DEF ExecutionVerifies, AuthorizesExactly, qualified
<1> QED
  BY <1>3 DEF Snapshots, qualified

LEMMA InputStands ==
  ASSUME UNCHANGED qualified, consumed \subseteq consumed', NEW i, InputVerifies(i)
  PROVE  InputVerifies(i)'
  BY SnapshotsStand DEF InputVerifies, Successes, MembersOf, AuthorizesExactly, FreezeTerms

LEMMA DesignStaysUp ==
  ASSUME UNCHANGED <<qualified, inputs>>, consumed \subseteq consumed', NEW f, NEW d,
         DesignStands(f, d)
  PROVE  DesignStands(f, d)'
<1>1. PICK i \in InputOf(f) : InputVerifies(i) /\ ManifestStands(f.manifest, i.members)
  BY DEF DesignStands
<1>2. InputVerifies(i)'
  BY <1>1, InputStands
<1>3. ManifestStands(f.manifest, i.members)'
  BY <1>1 DEF ManifestStands, OwnersStand, FabricStands, BindingsStand, BenchmarkStands,
     Successes, MembersOf
<1>4. InputOf(f)' = InputOf(f)
  BY DEF InputOf
<1> QED
  BY <1>1, <1>2, <1>3, <1>4 DEF DesignStands, AuthorizesExactly, DesignTerms

LEMMA ReviewStaysUp ==
  ASSUME UNCHANGED <<qualified, inputs, candidates, reviewers>>, consumed \subseteq consumed',
         NEW r, NEW key, NEW actor, ReviewStands(r, key, actor)
  PROVE  ReviewStands(r, key, actor)'
<1>1. PICK c \in candidates, k \in reviewers :
          /\ CandidateVerifies(c)
          /\ k.form.key = key /\ ReviewerVerifies(k)
          /\ Bound(r, c, k, actor)
  BY DEF ReviewStands
<1>2. CandidateVerifies(c)'
  BY <1>1, DesignStaysUp DEF CandidateVerifies
<1>3. ReviewerVerifies(k)'
  BY <1>1 DEF ReviewerVerifies, AuthorizesExactly
<1>4. Hands(c)' = Hands(c)
  BY DEF Hands, InputOf, Authors, MembersOf
<1>5. Bound(r, c, k, actor)'
  BY <1>1, <1>4 DEF Bound
<1>6. VerdictStands(r)'
  BY DEF ReviewStands, VerdictStands
<1> QED
  BY <1>1, <1>2, <1>3, <1>5, <1>6 DEF ReviewStands

\* The second reading and the first, which the transaction repeats, are the
\* same: what was settled when it was read is settled still.
LEMMA ReadingsAgree ==
  ASSUME ExecutionsKeyed, NEW f, NEW prepared \in Readings(f), NEW members,
         MembersSettled(members), MembersOfForm(f, members)
  PROVE  members = prepared
<1>1. MembersOfForm(f, prepared)
  BY ReadingsOfForm
<1>2. DOMAIN members = DOMAIN f.executions /\ DOMAIN prepared = DOMAIN f.executions
  BY <1>1 DEF MembersOfForm
<1>3. ASSUME NEW k \in DOMAIN f.executions
      PROVE  /\ members[k].status = prepared[k].status
             /\ members[k].by = prepared[k].by
             /\ members[k].candidate = prepared[k].candidate
  <2>1. MemberSettled(members[k])
    BY <1>2 DEF MembersSettled, MembersOf
  <2>2. members[k].id = f.executions[k]
    BY DEF MembersOfForm
  <2>3. PICK e \in executions :
            /\ e.form.id = members[k].id /\ e.form.by = members[k].by
            /\ e.status = members[k].status /\ Selected(e, members[k].candidate)
    BY <2>1 DEF MemberSettled
  <2>4. PICK x \in Snapshots(f.executions[k]) : x = prepared[k]
    BY <1>2 DEF Readings
  <2>5. PICK y \in executions, a \in adoptions :
            /\ y.form.id = f.executions[k]
            /\ \E z \in executions : z.form.id = f.executions[k] /\ z.form.adoption = a.form.id
            /\ x = [id |-> y.form.id, status |-> y.status, by |-> y.form.by,
                     candidate |-> a.candidate]
    BY DEF Snapshots
  <2>6. /\ prepared[k].status = y.status /\ prepared[k].by = y.form.by
        /\ prepared[k].candidate = a.candidate
    BY <2>4, <2>5
  <2>7. y = e
    BY <2>2, <2>3, <2>5 DEF ExecutionsKeyed
  <2>8. e.form.adoption = a.form.id
    BY <2>2, <2>3, <2>5 DEF ExecutionsKeyed
  <2>9. a.candidate = members[k].candidate
    BY <2>3, <2>8 DEF Selected, ExecutionsKeyed
  <2> QED
    BY <2>3, <2>6, <2>7, <2>9
<1> QED
  BY <1>1, <1>3 DEF MembersOfForm

LEMMA InputsStart ==
  ASSUME LineInv, Grounded, [LineNext]_lineVars, NEW i \in inputs' \ inputs
  PROVE  InputVerifies(i)'
<1>1. PICK c \in Callers : Freeze(c)
  BY LineSteps
<1>0. PICK row : row = call[c].row
  OBVIOUS
<1>2. PICK members \in row.members :
          inputs' = inputs \cup {[form |-> row.form, members |-> members,
                                  decision |-> row.decision]}
  BY <1>0, <1>1 DEF Freeze
<1>3. i.form = row.form /\ i.members = members /\ i.decision = row.decision
  BY <1>2
<1>4. /\ row.prepared \in Readings(row.form)
      /\ UNCHANGED qualified /\ consumed \subseteq consumed'
      /\ Use(row.decision, "C4_ARCHITECTURE_INPUT_FROZEN", row.form.id, row.form.by) \in consumed'
  BY <1>0, <1>1 DEF Freeze, Consume
<1>5. /\ MembersSettled(members) /\ MembersOfForm(row.form, members)
      /\ AuthorizesExactly(row.decision, row.form.by, "c4.architecture-input.freeze",
                           row.form.id, FreezeTerms(row.form, row.prepared))
  BY <1>0, <1>1, <1>2 DEF Freeze, LineInv, MembersKnown, FreezeKnown, Grounded, FreezeAuthorized
<1>6. members = row.prepared
  BY <1>4, <1>5, ReadingsAgree DEF LineInv
<1>7. /\ Successes(members) # {} /\ DOMAIN members = DOMAIN row.form.executions
      /\ \A k \in DOMAIN members : members[k] \in Snapshots(row.form.executions[k])
  BY <1>4, <1>6 DEF Readings
<1>8. \A k \in DOMAIN members : members[k] \in Snapshots(row.form.executions[k])'
  BY <1>4, <1>7, SnapshotsStand
<1> QED
  BY <1>3, <1>4, <1>5, <1>6, <1>7, <1>8
     DEF InputVerifies, Successes, MembersOf, AuthorizesExactly, FreezeTerms

LEMMA CandidatesStart ==
  ASSUME [LineNext]_lineVars, NEW c \in candidates' \ candidates
  PROVE  CandidateVerifies(c)'
<1>1. PICK f \in Designs, d \in Decisions : CreateCandidate(f, d)
  BY LineSteps
<1>2. c.form = f /\ c.decision = d
  BY <1>1 DEF CreateCandidate
<1>3. /\ DesignStands(f, d) /\ UNCHANGED <<qualified, inputs>> /\ consumed \subseteq consumed'
      /\ Use(d, "C4_ARCHITECTURE_CANDIDATE_CREATED", f.id, f.by) \in consumed'
  BY <1>1 DEF CreateCandidate, Consume
<1>4. DesignStands(f, d)'
  BY <1>3, DesignStaysUp
<1> QED
  BY <1>2, <1>3, <1>4 DEF CandidateVerifies

LEMMA ReviewersStart ==
  ASSUME [LineNext]_lineVars, NEW k \in reviewers' \ reviewers
  PROVE  ReviewerVerifies(k)'
<1>1. PICK f \in ReviewerKeys, d \in Decisions : AcceptReviewer(f, d)
  BY LineSteps
<1>2. k.form = f /\ k.decision = d
  BY <1>1 DEF AcceptReviewer
<1> QED
  BY <1>1, <1>2 DEF AcceptReviewer, Consume, ReviewerVerifies, AuthorizesExactly

LEMMA ReviewsStart ==
  ASSUME [LineNext]_lineVars, NEW o \in reviews' \ reviews
  PROVE  ReviewVerifies(o)'
<1>1. PICK r \in Opinions, k \in reviewers, actor \in Actors : AdmitReview(r, k.form.key, actor)
  BY LineSteps
<1>2. o.signed = r /\ o.key = k.form.key /\ o.by = actor
  BY <1>1 DEF AdmitReview
<1>3. ReviewStands(r, k.form.key, actor)
      /\ UNCHANGED <<qualified, consumed, inputs, candidates, reviewers>>
  BY <1>1 DEF AdmitReview
<1>4. ReviewStands(r, k.form.key, actor)'
  BY <1>3, ReviewStaysUp
<1> QED
  BY <1>2, <1>4 DEF ReviewVerifies

LEMMA PublicationsStart ==
  ASSUME [LineNext]_lineVars, NEW p \in publications' \ publications
  PROVE  PublicationVerifies(p)'
<1>1. PICK f \in Publishings, d \in Decisions : Publish(f, d)
  BY LineSteps
<1>2. p.form = f /\ p.decision = d
  BY <1>1 DEF Publish
<1>3. /\ MaterialStands(f) /\ consumed \subseteq consumed'
      /\ UNCHANGED <<qualified, inputs, candidates, reviewers, reviews>>
      /\ AuthorizesExactly(d, f.by, "c4.architecture.publish", f.id, <<f.candidate, f.review>>)
      /\ Use(d, "C4_ARCHITECTURE_PUBLISHED_NOT_DEPLOYED", f.id, f.by) \in consumed'
  BY <1>1 DEF Publish, Consume
<1>4. PICK c \in candidates, o \in reviews :
          /\ c.form.id = f.candidate /\ CandidateVerifies(c)
          /\ o.signed.id = f.review /\ ReviewVerifies(o)
          /\ o.signed.candidate = c.form.id
          /\ o.signed.verdict = "ACCEPTED"
  BY <1>3 DEF MaterialStands
<1>5. CandidateVerifies(c)'
  BY <1>3, <1>4, DesignStaysUp DEF CandidateVerifies
<1>6. ReviewVerifies(o)'
  BY <1>3, <1>4, ReviewStaysUp DEF ReviewVerifies
<1>7. MaterialStands(f)'
  BY <1>3, <1>4, <1>5, <1>6 DEF MaterialStands
<1> QED
  BY <1>2, <1>3, <1>7 DEF PublicationVerifies, AuthorizesExactly

\* Whatever is frozen, created, accepted, reviewed or published verifies when it
\* appears, though a freeze read it before, and nothing that has gone stale
\* verifies again, for any documents, callers and order of steps.
THEOREM LineStalenessIsFinal == LineSpec => LineVerifiesUntilStale
<1> DEFINE Stale == /\ LineStaleForever(inputs, InputVerifies)
                    /\ LineStaleForever(candidates, CandidateVerifies)
                    /\ LineStaleForever(reviewers, ReviewerVerifies)
                    /\ LineStaleForever(reviews, ReviewVerifies)
                    /\ LineStaleForever(publications, PublicationVerifies)
<1>1. LineInit => LineInv /\ Grounded
  BY LineInvInit, GroundedInit
<1>2. LineInv /\ Grounded /\ [LineNext]_lineVars => LineInv' /\ Grounded'
  BY ExecutionsStep, MembersStep, KeysStep, CandidatesStep, ReviewsStep, PublicationsStep,
     GroundedStep DEF LineInv
<1>3. LineInv /\ Grounded /\ LineInv' /\ Grounded' /\ [LineNext]_lineVars => Stale
  <2> SUFFICES ASSUME LineInv, Grounded, LineInv', Grounded', [LineNext]_lineVars PROVE Stale
    OBVIOUS
  <2>1. LineStaleForever(inputs, InputVerifies)
    BY InputsStart, InputVerified DEF LineStaleForever
  <2>2. LineStaleForever(candidates, CandidateVerifies)
    BY CandidatesStart, CandidateVerified DEF LineStaleForever
  <2>3. LineStaleForever(reviewers, ReviewerVerifies)
    BY ReviewersStart, ReviewerVerified DEF LineStaleForever
  <2>4. LineStaleForever(reviews, ReviewVerifies)
    BY ReviewsStart, ReviewVerified DEF LineStaleForever
  <2>5. LineStaleForever(publications, PublicationVerifies)
    BY PublicationsStart, PublicationVerified DEF LineStaleForever
  <2> QED
    BY <2>1, <2>2, <2>3, <2>4, <2>5
<1> HIDE DEF Stale
<1>4. LineInv /\ Grounded /\ LineInv' /\ Grounded' /\ [LineNext]_lineVars => [Stale]_lineVars
  BY <1>3
<1>5. LineSpec => [][Stale]_lineVars
  BY <1>1, <1>2, <1>4, PTL DEF LineSpec
<1> QED
  BY <1>5 DEF LineVerifiesUntilStale, Stale
=============================================================================
