------------------------ MODULE MissionKernelProofs -------------------------
(***************************************************************************)
(* Proofs about MissionKernel for any missions, people, rules, grants and  *)
(* claims: types, the authority behind sensitive moves, the reserve a DENY *)
(* rule leaves, and the proof behind success.                              *)
(***************************************************************************)
EXTENDS MissionKernel, TLAPS

-----------------------------------------------------------------------------
(* Types                                                                   *)

\* A claim that is created is well formed.
LEMMA CreateClaimTyped ==
    ASSUME ProofTypeOK, NEW c \in Claims, NEW s \in Subjects, NEW a \in Actors,
           CreateClaim(c, s, a)
    PROVE  ProofTypeOK'
  BY DEF ProofTypeOK, CreateClaim, Claim, NoClaim, Statuses

\* A claim with more evidence is well formed.
LEMMA AttachTyped ==
    ASSUME ProofTypeOK, NEW c \in Claims, NEW e \in Evidence, AttachEvidence(c, e)
    PROVE  ProofTypeOK'
<1> DEFINE new == [claims[c] EXCEPT !.evidence = claims[c].evidence \cup {e},
                                    !.status = "EVIDENCE_ATTACHED"]
<1>1. claims[c] \in Claim
  BY DEF ProofTypeOK
<1>2. new \in Claim
  BY <1>1 DEF Claim, Statuses
<1>3. claims' = [claims EXCEPT ![c] = new]
  BY DEF AttachEvidence, ProofTypeOK
<1>4. QED
  BY <1>2, <1>3 DEF ProofTypeOK

\* A claim with a verdict is well formed.
LEMMA VerifyTyped ==
    ASSUME ProofTypeOK, NEW c \in Claims, NEW a \in Actors, NEW v \in {"APPROVED", "REJECTED"},
           VerifyClaim(c, a, v)
    PROVE  ProofTypeOK'
<1> DEFINE new == [claims[c] EXCEPT !.verifier = a, !.verdict = v,
                                    !.sealed = claims[c].evidence,
                                    !.status = IF v = "APPROVED" THEN "VERIFIED" ELSE "REJECTED"]
<1>1. claims[c] \in Claim
  BY DEF ProofTypeOK
<1>2. new \in Claim
  BY <1>1 DEF Claim, Statuses
<1>3. claims' = [claims EXCEPT ![c] = new]
  BY DEF VerifyClaim, ProofTypeOK
<1>4. QED
  BY <1>2, <1>3 DEF ProofTypeOK

\* A claim with a certificate is well formed.
LEMMA CertifyTyped ==
    ASSUME ProofTypeOK, NEW c \in Claims, NEW a \in Actors, CertifyClaim(c, a)
    PROVE  ProofTypeOK'
<1> DEFINE new == [claims[c] EXCEPT !.certifier = a, !.status = "CERTIFIED"]
<1>1. claims[c] \in Claim
  BY DEF ProofTypeOK
<1>2. new \in Claim
  BY <1>1 DEF Claim, Statuses
<1>3. claims' = [claims EXCEPT ![c] = new]
  BY DEF CertifyClaim, ProofTypeOK
<1>4. QED
  BY <1>2, <1>3 DEF ProofTypeOK

\* Every operation of the proof engine writes well-formed claims.
LEMMA ProofStepTyped == ASSUME ProofTypeOK, ProofStep PROVE ProofTypeOK'
<1>1. CASE CreateClaimStep
  BY <1>1, CreateClaimTyped DEF CreateClaimStep
<1>2. CASE AttachStep
  BY <1>2, AttachTyped DEF AttachStep
<1>3. CASE VerifyStep
  BY <1>3, VerifyTyped DEF VerifyStep
<1>4. CASE CertifyStep
  BY <1>4, CertifyTyped DEF CertifyStep
<1>5. QED
  BY <1>1, <1>2, <1>3, <1>4 DEF ProofStep

\* A verdict names one of the issued grants, or none.
LEMMA VerdictsTyped ==
    ASSUME NEW request, NEW at, NEW v \in Verdicts(request, at)
    PROVE  v.allowed \in BOOLEAN /\ v.grant \in (grants \ consumed) \cup {NoGrant}
<1>1. FirstUsable(request, at) \subseteq grants \ consumed
  BY DEF FirstUsable, Usable
<1>2. \/ v = [allowed |-> FALSE, grant |-> NoGrant]
      \/ v = [allowed |-> TRUE, grant |-> NoGrant]
      \/ \E g \in FirstUsable(request, at) : v = [allowed |-> TRUE, grant |-> g]
  BY Zenon DEF Verdicts
<1>3. CASE \E g \in FirstUsable(request, at) : v = [allowed |-> TRUE, grant |-> g]
  <2>1. PICK g \in FirstUsable(request, at) : v = [allowed |-> TRUE, grant |-> g]
    BY <1>3
  <2>2. g \in grants \ consumed
    BY <1>1
  <2>3. QED
    BY <2>1, <2>2
<1>4. CASE v = [allowed |-> FALSE, grant |-> NoGrant]
  <2>1. v.grant = NoGrant /\ v.allowed = FALSE
    BY <1>4
  <2>2. QED
    BY <2>1
<1>5. CASE v = [allowed |-> TRUE, grant |-> NoGrant]
  <2>1. v.grant = NoGrant /\ v.allowed = TRUE
    BY <1>5
  <2>2. QED
    BY <2>1
<1>6. QED
  BY <1>2, <1>3, <1>4, <1>5 DEF NoGrant

\* One call of authorize, with its verdict picked.
LEMMA AuthorizeStepShape ==
    ASSUME AuthorizeStep
    PROVE  \E r \in Requests, g \in (grants \ consumed) \cup {NoGrant}, ok \in BOOLEAN,
              spends \in BOOLEAN :
              /\ decisions' = Append(decisions, [request |-> r, allowed |-> ok,
                                                 grant |-> g, spends |-> spends])
              /\ consumed' = IF spends THEN consumed \cup {g} ELSE consumed
              /\ spends => g \in grants
              /\ spends <=> g \in grants /\ g.single_use /\ spends
              /\ ok /\ Ruled(r, "DENY") => FALSE
              /\ UNCHANGED <<rules, grants>>
<1>1. PICK r \in Requests, at \in Times, consume \in BOOLEAN : Authorize(r, at, consume)
  BY DEF AuthorizeStep
<1>2. PICK v \in Verdicts(r, at) :
         LET spends == v.grant \in grants /\ v.grant.single_use /\ consume
         IN /\ decisions' = Append(decisions, [request |-> r, allowed |-> v.allowed,
                                               grant |-> v.grant, spends |-> spends])
            /\ consumed' = IF spends THEN consumed \cup {v.grant} ELSE consumed
  BY <1>1 DEF Authorize
<1> DEFINE spends == v.grant \in grants /\ v.grant.single_use /\ consume
<1>3. v.allowed \in BOOLEAN /\ v.grant \in (grants \ consumed) \cup {NoGrant}
  BY VerdictsTyped
<1>4. v.allowed /\ Ruled(r, "DENY") => FALSE
  BY DEF Verdicts
<1>5. UNCHANGED <<rules, grants>>
  BY <1>1 DEF Authorize
<1>6. spends \in BOOLEAN
  OBVIOUS
<1>7. QED
  BY <1>2, <1>3, <1>4, <1>5, <1>6

\* What transition appends, and that it changes nothing else.
LEMMA TransitionShape ==
    ASSUME TypeOK, NEW m \in Missions, NEW to \in States, NEW actor \in Actors, NEW key \in Nat,
           NEW d \in {NoDecision} \cup DecisionIds, NEW c \in Claims \cup {Nobody},
           Transition(m, to, actor, key, d, c)
    PROVE  \E r \in Receipt :
              /\ r = [from |-> state[m], to |-> to, actor |-> actor, key |-> key,
                      decision |-> d, certificate |-> c]
              /\ journal' = [journal EXCEPT ![m] = Append(journal[m], r)]
<1>1. state[m] \in States
  BY DEF TypeOK, Transition, Allowed, States
<1>2. d \in Nat
  BY DEF NoDecision, DecisionIds, TypeOK, TrustTypeOK
<1>3. [from |-> state[m], to |-> to, actor |-> actor, key |-> key,
       decision |-> d, certificate |-> c] \in Receipt
  BY <1>1, <1>2 DEF Receipt
<1>4. QED
  BY <1>3 DEF Transition

\* The empty database is well typed.
LEMMA InitTyped == Init => TypeOK
<1> SUFFICES ASSUME Init PROVE TypeOK
  OBVIOUS
<1>1. TrustTypeOK
  BY DEF Init, TrustInit, TrustTypeOK
<1>2. ProofTypeOK
  BY DEF Init, ProofInit, ProofTypeOK, Claim, NoClaim, Statuses
<1>3. QED
  BY <1>1, <1>2 DEF Init, TypeOK

\* authorize records a well-formed decision and consumes only issued grants.
LEMMA AuthorizeTyped == ASSUME TrustTypeOK, AuthorizeStep PROVE TrustTypeOK'
<1>1. PICK r \in Requests, g \in (grants \ consumed) \cup {NoGrant}, ok \in BOOLEAN,
           spends \in BOOLEAN :
              /\ decisions' = Append(decisions, [request |-> r, allowed |-> ok,
                                                 grant |-> g, spends |-> spends])
              /\ consumed' = IF spends THEN consumed \cup {g} ELSE consumed
              /\ spends => g \in grants
              /\ UNCHANGED <<rules, grants>>
  BY AuthorizeStepShape
<1>2. [request |-> r, allowed |-> ok, grant |-> g, spends |-> spends] \in Decision
  BY DEF TrustTypeOK, Decision
<1>3. decisions' \in Seq(Decision)
  BY <1>1, <1>2 DEF TrustTypeOK
<1>4. QED
  BY <1>1, <1>3 DEF TrustTypeOK

\* Every operation of the trust plane writes well-formed rows.
LEMMA TrustStepTyped == ASSUME TrustTypeOK, TrustStep PROVE TrustTypeOK'
<1>1. CASE AddRule
  BY <1>1 DEF AddRule, TrustTypeOK
<1>2. CASE IssueGrant
  BY <1>2 DEF IssueGrant, TrustTypeOK
<1>3. CASE AuthorizeStep
  BY <1>3, AuthorizeTyped
<1>4. QED
  BY <1>1, <1>2, <1>3 DEF TrustStep

\* So does every operation of the three services together.
LEMMA NextTyped == TypeOK /\ [Next]_vars => TypeOK'
<1> SUFFICES ASSUME TypeOK, [Next]_vars PROVE TypeOK'
  OBVIOUS
<1>1. CASE Deciding
  BY <1>1, TrustStepTyped DEF Deciding, missionVars, TypeOK, ProofTypeOK
<1>2. CASE Proving
  BY <1>2, ProofStepTyped DEF Proving, trustVars, missionVars, TypeOK, TrustTypeOK
<1>3. CASE CreateStep
  BY <1>3 DEF CreateStep, CreateMission, trustVars, TypeOK, TrustTypeOK, ProofTypeOK, States
<1>4. CASE TransitionStep
  <2>1. PICK m \in Missions, to \in States, actor \in Actors :
              \E key \in RequestKeys(m), d \in {NoDecision} \cup DecisionIds,
                 c \in Claims \cup {Nobody} : Transition(m, to, actor, key, d, c)
    BY <1>4 DEF TransitionStep
  <2>2. PICK key \in RequestKeys(m), d \in {NoDecision} \cup DecisionIds,
             c \in Claims \cup {Nobody} : Transition(m, to, actor, key, d, c)
    BY <2>1
  <2>3. key \in Nat
    BY DEF RequestKeys
  <2>4. PICK r \in Receipt : journal' = [journal EXCEPT ![m] = Append(journal[m], r)]
    BY <2>2, <2>3, TransitionShape
  <2>5. journal' \in [Missions -> Seq(Receipt)]
    BY <2>4 DEF TypeOK
  <2>6. state' \in [Missions -> States \cup {"NONE"}]
    BY <2>2 DEF Transition, TypeOK
  <2>7. UNCHANGED <<trustVars, claims>>
    BY <2>2 DEF Transition
  <2>8. QED
    BY <2>5, <2>6, <2>7 DEF TypeOK, TrustTypeOK, ProofTypeOK, trustVars
<1>5. CASE UNCHANGED vars
  BY <1>5 DEF vars, trustVars, missionVars, TypeOK, TrustTypeOK, ProofTypeOK
<1>6. QED
  BY <1>1, <1>2, <1>3, <1>4, <1>5 DEF Next

\* Every row the three services write is well formed.
THEOREM TypeCorrect == Spec => []TypeOK
  BY InitTyped, NextTyped, PTL DEF Spec

-----------------------------------------------------------------------------
(* How the journal grows                                                   *)

\* An append adds one row and leaves every other where it is.
LEMMA AppendAddsARow ==
    ASSUME TypeOK, NEW m \in Missions, NEW r \in Receipt,
           journal' = [journal EXCEPT ![m] = Append(journal[m], r)]
    PROVE  /\ \A p \in Places : p \in Places' /\ At(p)' = At(p)
           /\ \A p \in Places' : \/ p \in Places
                                 \/ p = <<m, Len(journal[m]) + 1>> /\ p \notin Places /\ At(p)' = r
<1>1. journal[m] \in Seq(Receipt)
  BY DEF TypeOK
<1>2. \A n \in Missions : /\ journal[n] \in Seq(Receipt)
                          /\ journal'[n] = IF n = m THEN Append(journal[m], r) ELSE journal[n]
  BY DEF TypeOK
<1>3. ASSUME NEW p \in Places PROVE p \in Places' /\ At(p)' = At(p)
  <2>1. PICK n \in Missions, i \in 1..MaxMoves : p = <<n, i>>
    BY DEF Places
  <2>2. i <= Len(journal[n])
    BY <2>1 DEF Places
  <2>3. i <= Len(journal'[n]) /\ journal'[n][i] = journal[n][i]
    BY <1>1, <1>2, <2>2
  <2>4. QED
    BY <2>1, <2>3 DEF Places, At
<1>4. ASSUME NEW p \in Places', p \notin Places
      PROVE  p = <<m, Len(journal[m]) + 1>> /\ At(p)' = r
  <2>1. PICK n \in Missions, i \in 1..MaxMoves : p = <<n, i>>
    BY DEF Places
  <2>2. i <= Len(journal'[n]) /\ ~ (i <= Len(journal[n]))
    BY <1>4, <2>1 DEF Places
  <2>3. n = m /\ i = Len(journal[m]) + 1
    BY <1>1, <1>2, <2>2
  <2>4. journal'[m][i] = r
    <3>1. journal'[m] = Append(journal[m], r)
      BY <1>2
    <3>2. Append(journal[m], r)[Len(journal[m]) + 1] = r
      BY <1>1
    <3>3. QED
      BY <2>3, <3>1, <3>2
  <2>5. QED
    BY <2>1, <2>3, <2>4 DEF At
<1>5. QED
  BY <1>3, <1>4

\* A step of the whole system keeps every row of every journal.
LEMMA JournalOnlyGrows ==
    ASSUME TypeOK, [Next]_vars
    PROVE  \A p \in Places : p \in Places' /\ At(p)' = At(p)
<1>1. CASE UNCHANGED journal
  BY <1>1 DEF Places, At
<1>2. CASE TransitionStep
  <2>1. PICK m \in Missions, to \in States, actor \in Actors :
              \E key \in RequestKeys(m), d \in {NoDecision} \cup DecisionIds,
                 c \in Claims \cup {Nobody} : Transition(m, to, actor, key, d, c)
    BY <1>2 DEF TransitionStep
  <2>2. PICK key \in RequestKeys(m), d \in {NoDecision} \cup DecisionIds,
             c \in Claims \cup {Nobody} : Transition(m, to, actor, key, d, c)
    BY <2>1
  <2>3. PICK r \in Receipt : journal' = [journal EXCEPT ![m] = Append(journal[m], r)]
    BY <2>2, TransitionShape DEF RequestKeys
  <2>4. QED
    BY <2>3, AppendAddsARow
<1>3. QED
  BY <1>1, <1>2 DEF Next, Deciding, Proving, CreateStep, CreateMission, vars, missionVars

\* Decisions are appended and never changed; a new one is not allowed where a
\* DENY rule holds, and spends a grant only if the grant was not consumed.
LEMMA DecisionsOnlyGrow ==
    ASSUME TypeOK, [Next]_vars
    PROVE  /\ \A d \in DecisionIds : d \in DecisionIds' /\ decisions'[d] = decisions[d]
           /\ consumed \subseteq consumed'
           /\ \A d \in DecisionIds' \ DecisionIds :
                 /\ d = Len(decisions) + 1
                 /\ decisions'[d].allowed => ~Ruled(decisions'[d].request, "DENY")
                 /\ decisions'[d].spends => /\ decisions'[d].grant \notin consumed
                                            /\ decisions'[d].grant \in consumed'
<1>1. CASE UNCHANGED <<decisions, consumed>>
  BY <1>1 DEF DecisionIds
<1>2. CASE AuthorizeStep
  <2>1. PICK r \in Requests, g \in (grants \ consumed) \cup {NoGrant}, ok \in BOOLEAN,
             spends \in BOOLEAN :
              /\ decisions' = Append(decisions, [request |-> r, allowed |-> ok,
                                                 grant |-> g, spends |-> spends])
              /\ consumed' = IF spends THEN consumed \cup {g} ELSE consumed
              /\ spends => g \in grants
              /\ ok /\ Ruled(r, "DENY") => FALSE
    BY <1>2, AuthorizeStepShape
  <2>2. decisions \in Seq(Decision) /\ grants \subseteq Grants
    BY DEF TypeOK, TrustTypeOK
  <2>3. spends => g \notin consumed
    BY <2>1, <2>2, TrustAssumption DEF TrustAssumption
  <2> DEFINE new == [request |-> r, allowed |-> ok, grant |-> g, spends |-> spends]
  <2>4. /\ new.request = r /\ new.grant = g
        /\ new.allowed = ok /\ new.spends = spends
    OBVIOUS
  <2>5. /\ Len(decisions') = Len(decisions) + 1
        /\ decisions'[Len(decisions) + 1] = new
        /\ \A d \in 1..Len(decisions) : decisions'[d] = decisions[d]
    BY <2>1, <2>2
  <2> HIDE DEF new
  <2>6. Len(decisions) \in Nat
    BY <2>2
  <2>7. QED
    BY <2>1, <2>3, <2>4, <2>5, <2>6 DEF DecisionIds
<1>3. CASE TransitionStep
  BY <1>1, <1>3 DEF TransitionStep, Transition, trustVars
<1>4. CASE AddRule \/ IssueGrant
  BY <1>1, <1>4 DEF AddRule, IssueGrant
<1>5. CASE Proving \/ CreateStep
  BY <1>1, <1>5 DEF Proving, CreateStep, CreateMission, trustVars
<1>6. CASE UNCHANGED vars
  BY <1>1, <1>6 DEF vars, trustVars
<1>7. QED
  BY <1>2, <1>3, <1>4, <1>5, <1>6 DEF Next, Deciding, TrustStep

-----------------------------------------------------------------------------
(* The authority behind sensitive moves                                    *)

\* What a decision authorizes it authorizes for ever: decisions are immutable.
LEMMA AuthorityLasts ==
    ASSUME TypeOK, [Next]_vars, NEW d, NEW m, NEW to, NEW actor, Authorizes(d, m, to, actor)
    PROVE  /\ d \in DecisionIds'
           /\ decisions'[d].allowed
           /\ decisions'[d].request = [subject |-> actor, action |-> AuthorizationAction[to],
                                       resource |-> m, mission |-> m]
<1>1. d \in DecisionIds /\ d \in DecisionIds' /\ decisions'[d] = decisions[d]
  BY DecisionsOnlyGrow DEF Authorizes
<1>2. QED
  BY <1>1 DEF Authorizes

\* No step leaves a sensitive move without its own authority.
LEMMA AuthorityKept ==
    TypeOK /\ SensitiveMovesAreAuthorized /\ [Next]_vars => SensitiveMovesAreAuthorized'
<1> SUFFICES ASSUME TypeOK, SensitiveMovesAreAuthorized, [Next]_vars
             PROVE  SensitiveMovesAreAuthorized'
  OBVIOUS
<1> DEFINE Backed(p) == At(p).to \in Sensitive
                          => Authorizes(At(p).decision, p[1], At(p).to, At(p).actor)
<1>1. \A p \in Places : Backed(p)'
  <2> SUFFICES ASSUME NEW p \in Places PROVE Backed(p)'
    OBVIOUS
  <2>1. At(p)' = At(p)
    BY JournalOnlyGrows
  <2>2. PICK x : x = At(p)
    OBVIOUS
  <2>3. x.to \in Sensitive => Authorizes(x.decision, p[1], x.to, x.actor)
    BY <2>2 DEF SensitiveMovesAreAuthorized, Covers, Authorizes
  <2>4. x.to \in Sensitive => Authorizes(x.decision, p[1], x.to, x.actor)'
    BY <2>3, AuthorityLasts DEF Authorizes
  <2>5. QED
    BY <2>1, <2>2, <2>4 DEF Sensitive, Authorizes
<1>2. CASE UNCHANGED journal
  <2>1. Places' = Places /\ \A p \in Places : At(p)' = At(p)
    BY <1>2 DEF Places, At
  <2>2. QED
    BY <1>1, <2>1 DEF SensitiveMovesAreAuthorized, Covers, Authorizes
<1>3. CASE TransitionStep
  <2>1. PICK m \in Missions, to \in States, actor \in Actors :
              \E key \in RequestKeys(m), d \in {NoDecision} \cup DecisionIds,
                 c \in Claims \cup {Nobody} : Transition(m, to, actor, key, d, c)
    BY <1>3 DEF TransitionStep
  <2>2. PICK key \in RequestKeys(m), d \in {NoDecision} \cup DecisionIds,
             c \in Claims \cup {Nobody} : Transition(m, to, actor, key, d, c)
    BY <2>1
  <2>3. PICK r \in Receipt :
              /\ r = [from |-> state[m], to |-> to, actor |-> actor, key |-> key,
                      decision |-> d, certificate |-> c]
              /\ journal' = [journal EXCEPT ![m] = Append(journal[m], r)]
    BY <2>2, TransitionShape DEF RequestKeys
  <2>4. r.to = to /\ r.actor = actor /\ r.decision = d
    BY <2>3
  <2> DEFINE new == <<m, Len(journal[m]) + 1>>
  <2>5. /\ \A p \in Places : p \in Places' /\ At(p)' = At(p)
        /\ \A p \in Places' : p \in Places \/ (p = new /\ At(p)' = r)
    <3>1. journal' = [journal EXCEPT ![m] = Append(journal[m], r)]
      BY <2>3
    <3>2. /\ \A p \in Places : p \in Places' /\ At(p)' = At(p)
          /\ \A p \in Places' : \/ p \in Places
                                \/ p = new /\ p \notin Places /\ At(p)' = r
      BY <3>1, AppendAddsARow
    <3>3. QED
      BY <3>2
  <2>6. ASSUME NEW p \in Places', p \notin Places PROVE Backed(p)'
    <3>1. At(p)' = r /\ p[1] = m
      BY <2>5, <2>6
    <3>2. to \in Sensitive => Authorizes(d, m, to, actor)
      BY <2>2 DEF Transition
    <3>3. to \in Sensitive => Authorizes(d, m, to, actor)'
      BY <3>2, AuthorityLasts DEF Authorizes
    <3>4. QED
      BY <2>4, <3>1, <3>3 DEF Sensitive, Authorizes
  <2>7. \A p \in Places : At(p).decision = d => d = NoDecision
    BY <2>2 DEF Transition, Unspent
  <2>8. ASSUME NEW p \in Places', NEW q \in Places' \ {p}, At(p)'.decision = At(q)'.decision
        PROVE  At(p)'.decision = NoDecision
    <3>1. CASE p \in Places /\ q \in Places
      BY <2>5, <2>8, <3>1 DEF SensitiveMovesAreAuthorized
    <3>2. CASE p \in Places /\ q \notin Places
      BY <2>4, <2>5, <2>7, <2>8, <3>2
    <3>3. CASE p \notin Places /\ q \in Places
      BY <2>4, <2>5, <2>7, <2>8, <3>3
    <3>4. CASE p \notin Places /\ q \notin Places
      BY <2>5, <2>8, <3>4
    <3>5. QED
      BY <3>1, <3>2, <3>3, <3>4
  <2>9. QED
    BY <1>1, <2>6, <2>8 DEF SensitiveMovesAreAuthorized, Covers, Authorizes
<1>4. QED
  BY <1>2, <1>3 DEF Next, Deciding, Proving, CreateStep, CreateMission, vars, missionVars

\* No mission is authorized or runs without an allowed decision of its own
\* for exactly its actor, action and mission.
THEOREM MovesAreAuthorized == Spec => []SensitiveMovesAreAuthorized
<1>1. Init => SensitiveMovesAreAuthorized
  BY DEF Init, SensitiveMovesAreAuthorized, Places
<1>2. QED
  BY <1>1, AuthorityKept, TypeCorrect, PTL DEF Spec

-----------------------------------------------------------------------------
(* Grants and the reserve of authority                                     *)

\* A consumed grant was consumed by one decision only.
SpendingIsUnique ==
    /\ \A d \in DecisionIds : decisions[d].spends => decisions[d].grant \in consumed
    /\ \A d, e \in DecisionIds :
          decisions[d].spends /\ decisions[e].spends /\ decisions[d].grant = decisions[e].grant
             => d = e

\* Every decision a move cites exists.
CitedExist == \A p \in Places : At(p).decision \in {NoDecision} \cup DecisionIds

\* Decisions are never deleted, so those that moves cite keep existing.
LEMMA CitedKept == TypeOK /\ CitedExist /\ [Next]_vars => CitedExist'
<1> SUFFICES ASSUME TypeOK, CitedExist, [Next]_vars PROVE CitedExist'
  OBVIOUS
<1>1. ASSUME NEW p \in Places PROVE At(p)'.decision \in ({NoDecision} \cup DecisionIds)'
  <2>1. At(p)' = At(p)
    BY JournalOnlyGrows
  <2>2. At(p).decision \in {NoDecision} \cup DecisionIds
    BY DEF CitedExist
  <2>3. DecisionIds \subseteq DecisionIds' /\ NoDecision' = NoDecision
    BY DecisionsOnlyGrow DEF NoDecision
  <2>4. QED
    BY <2>1, <2>2, <2>3
<1>2. CASE UNCHANGED journal
  <2>1. Places' = Places
    BY <1>2 DEF Places
  <2>2. QED
    BY <1>1, <2>1 DEF CitedExist
<1>3. CASE TransitionStep
  <2>1. PICK m \in Missions, to \in States, actor \in Actors :
              \E key \in RequestKeys(m), d \in {NoDecision} \cup DecisionIds,
                 c \in Claims \cup {Nobody} : Transition(m, to, actor, key, d, c)
    BY <1>3 DEF TransitionStep
  <2>2. PICK key \in RequestKeys(m), d \in {NoDecision} \cup DecisionIds,
             c \in Claims \cup {Nobody} : Transition(m, to, actor, key, d, c)
    BY <2>1
  <2>3. PICK r \in Receipt :
              /\ r = [from |-> state[m], to |-> to, actor |-> actor, key |-> key,
                      decision |-> d, certificate |-> c]
              /\ journal' = [journal EXCEPT ![m] = Append(journal[m], r)]
    BY <2>2, TransitionShape DEF RequestKeys
  <2>4. \A p \in Places' : p \in Places \/ At(p)' = r
    <3>1. journal' = [journal EXCEPT ![m] = Append(journal[m], r)]
      BY <2>3
    <3>2. QED
      BY <3>1, AppendAddsARow
  <2>5. r.decision = d /\ d \in ({NoDecision} \cup DecisionIds)'
    BY <2>2, <2>3 DEF Transition, trustVars, DecisionIds, NoDecision
  <2>6. QED
    BY <1>1, <2>4, <2>5 DEF CitedExist
<1>4. QED
  BY <1>2, <1>3 DEF Next, Deciding, Proving, CreateStep, CreateMission, vars, missionVars

\* authorize consumes only a grant that no decision has consumed before.
LEMMA SpendingKept == TypeOK /\ SpendingIsUnique /\ [Next]_vars => SpendingIsUnique'
<1> SUFFICES ASSUME TypeOK, SpendingIsUnique, [Next]_vars PROVE SpendingIsUnique'
  OBVIOUS
<1>1. /\ \A d \in DecisionIds : d \in DecisionIds' /\ decisions'[d] = decisions[d]
      /\ consumed \subseteq consumed'
      /\ \A d \in DecisionIds' \ DecisionIds :
            /\ d = Len(decisions) + 1
            /\ decisions'[d].spends => /\ decisions'[d].grant \notin consumed
                                       /\ decisions'[d].grant \in consumed'
  BY DecisionsOnlyGrow
<1>2. ASSUME NEW d \in DecisionIds', decisions'[d].spends PROVE decisions'[d].grant \in consumed'
  BY <1>1, <1>2 DEF SpendingIsUnique
<1>3. ASSUME NEW d \in DecisionIds', NEW e \in DecisionIds', decisions'[d].spends,
             decisions'[e].spends, decisions'[d].grant = decisions'[e].grant
      PROVE  d = e
  <2>1. CASE d \in DecisionIds /\ e \in DecisionIds
    BY <1>1, <1>3, <2>1 DEF SpendingIsUnique
  <2>2. CASE d \in DecisionIds /\ e \notin DecisionIds
    BY <1>1, <1>3, <2>2 DEF SpendingIsUnique
  <2>3. CASE d \notin DecisionIds /\ e \in DecisionIds
    BY <1>1, <1>3, <2>3 DEF SpendingIsUnique
  <2>4. CASE d \notin DecisionIds /\ e \notin DecisionIds
    BY <1>1, <2>4
  <2>5. QED
    BY <2>1, <2>2, <2>3, <2>4
<1>4. QED
  BY <1>2, <1>3 DEF SpendingIsUnique

\* One consuming decision per grant and one move per decision make one move per grant.
LEMMA SpentOnceByMoves ==
    CitedExist /\ SensitiveMovesAreAuthorized /\ SpendingIsUnique => GrantSpentOnce
<1> SUFFICES ASSUME CitedExist, SensitiveMovesAreAuthorized, SpendingIsUnique,
                    NEW g \in grants, NEW p \in MovesOn(g), NEW q \in MovesOn(g)
             PROVE  p = q
  BY DEF GrantSpentOnce
<1>1. p \in Places /\ q \in Places
  BY DEF MovesOn
<1>2. At(p).decision \in DecisionIds /\ At(q).decision \in DecisionIds
  BY <1>1 DEF MovesOn, CitedExist
<1>3. At(p).decision = At(q).decision /\ At(p).decision # NoDecision
  BY <1>2 DEF MovesOn, SpendingIsUnique
<1>4. QED
  BY <1>1, <1>3 DEF SensitiveMovesAreAuthorized

\* A single-use grant stands behind at most one move.
THEOREM GrantsAreSpentOnce == Spec => []GrantSpentOnce
<1>1. Init => SpendingIsUnique /\ CitedExist
  BY DEF Init, TrustInit, SpendingIsUnique, CitedExist, Places, DecisionIds
<1>2. QED
  BY <1>1, SpendingKept, CitedKept, SpentOnceByMoves, TypeCorrect, MovesAreAuthorized, PTL DEF Spec

\* A DENY rule ends the supply of authority for the requests it covers.
THEOREM DenyDrains == Spec => DenyOnlyDrains
<1>1. TypeOK /\ [Next]_vars
        => [\A r \in Requests : Ruled(r, "DENY") => Reserve(r)' \subseteq Reserve(r)]_vars
  <2> SUFFICES ASSUME TypeOK, [Next]_vars, NEW r \in Requests, Ruled(r, "DENY"),
                      NEW d \in Reserve(r)'
               PROVE  d \in Reserve(r)
    OBVIOUS
  <2>1. d \in DecisionIds' /\ decisions'[d].request = r /\ decisions'[d].allowed /\ Unspent(d)'
    BY DEF Reserve
  <2>2. d \in DecisionIds /\ decisions'[d] = decisions[d]
    BY <2>1, DecisionsOnlyGrow
  <2>3. Unspent(d)
    BY <2>1, JournalOnlyGrows DEF Unspent
  <2>4. QED
    BY <2>1, <2>2, <2>3 DEF Reserve
<1>2. QED
  BY <1>1, TypeCorrect, PTL DEF Spec, DenyOnlyDrains

-----------------------------------------------------------------------------
(* The proof behind success                                                *)

\* What the rows of one claim have in common with each other.
Sane(x) == /\ x.verdict = "NONE" <=> x.status \in {"NONE", "DRAFT", "EVIDENCE_ATTACHED"}
           /\ x.status \in {"VERIFIED", "CERTIFIED"} =>
                 /\ x.verdict = "APPROVED"
                 /\ x.evidence = x.sealed
                 /\ x.sealed # {}
                 /\ x.author # x.verifier
           /\ x.certifier # Nobody <=> x.status = "CERTIFIED"
           /\ x.certifier # Nobody => x.certifier \notin {x.author, x.verifier}
ClaimsSane == \A c \in Claims : Sane(claims[c])

\* A claim changes by one call at a time, and a certified one no more.
LEMMA ClaimStep ==
    ASSUME ProofTypeOK, ClaimsSane, ProofStep
    PROVE  \E c \in Claims : \E x \in Claim :
              /\ claims' = [claims EXCEPT ![c] = x]
              /\ Sane(x)
              /\ ~Certified(c)
<1> USE ProofAssumption DEF ProofAssumption
<1>1. CASE CreateClaimStep
  <2>1. PICK c \in Claims, s \in Subjects, a \in Actors : CreateClaim(c, s, a)
    BY <1>1 DEF CreateClaimStep
  <2> DEFINE x == [NoClaim EXCEPT !.status = "DRAFT", !.subject = s, !.author = a]
  <2>2. x \in Claim /\ Sane(x)
    BY DEF Claim, NoClaim, Statuses, Sane
  <2>3. claims' = [claims EXCEPT ![c] = x] /\ ~Certified(c)
    BY <2>1 DEF CreateClaim, ClaimsSane, Sane, Certified
  <2>4. QED
    BY <2>2, <2>3
<1>2. CASE AttachStep
  <2>1. PICK c \in Claims, e \in Evidence : AttachEvidence(c, e)
    BY <1>2 DEF AttachStep
  <2>2. claims[c] \in Claim /\ Sane(claims[c])
    BY DEF ProofTypeOK, ClaimsSane
  <2> DEFINE x == [claims[c] EXCEPT !.evidence = claims[c].evidence \cup {e},
                                    !.status = "EVIDENCE_ATTACHED"]
  <2>3. claims' = [claims EXCEPT ![c] = x]
    BY <2>1 DEF AttachEvidence, ProofTypeOK
  <2>4. x \in Claim
    BY <2>2 DEF Claim, Statuses
  <2>5. claims[c].status \in {"DRAFT", "EVIDENCE_ATTACHED"}
    BY <2>1 DEF AttachEvidence, Open
  <2>6. Sane(x)
    BY <2>2, <2>5 DEF Claim, Sane
  <2>7. ~Certified(c)
    BY <2>2, <2>5 DEF Sane, Certified
  <2>8. QED
    BY <2>3, <2>4, <2>6, <2>7
<1>3. CASE VerifyStep
  <2>1. PICK c \in Claims, a \in Actors, v \in {"APPROVED", "REJECTED"} : VerifyClaim(c, a, v)
    BY <1>3 DEF VerifyStep
  <2>2. claims[c] \in Claim /\ Sane(claims[c])
    BY DEF ProofTypeOK, ClaimsSane
  <2> DEFINE x == [claims[c] EXCEPT !.verifier = a, !.verdict = v,
                     !.sealed = claims[c].evidence,
                     !.status = IF v = "APPROVED" THEN "VERIFIED" ELSE "REJECTED"]
  <2>3. claims' = [claims EXCEPT ![c] = x]
    BY <2>1 DEF VerifyClaim, ProofTypeOK
  <2>4. x \in Claim
    BY <2>2 DEF Claim, Statuses
  <2>5. /\ claims[c].status \in {"DRAFT", "EVIDENCE_ATTACHED"}
        /\ claims[c].author # a
        /\ v = "APPROVED" => claims[c].evidence # {}
    BY <2>1 DEF VerifyClaim, Open
  <2>6. Sane(x)
    BY <2>2, <2>5 DEF Claim, Sane
  <2>7. ~Certified(c)
    BY <2>2, <2>5 DEF Sane, Certified
  <2>8. QED
    BY <2>3, <2>4, <2>6, <2>7
<1>4. CASE CertifyStep
  <2>1. PICK c \in Claims, a \in Actors : CertifyClaim(c, a)
    BY <1>4 DEF CertifyStep
  <2>2. claims[c] \in Claim /\ Sane(claims[c])
    BY DEF ProofTypeOK, ClaimsSane
  <2> DEFINE x == [claims[c] EXCEPT !.certifier = a, !.status = "CERTIFIED"]
  <2>3. claims' = [claims EXCEPT ![c] = x]
    BY <2>1 DEF CertifyClaim, ProofTypeOK
  <2>4. x \in Claim
    BY <2>2 DEF Claim, Statuses
  <2>5. /\ claims[c].status = "VERIFIED"
        /\ claims[c].verdict = "APPROVED"
        /\ a \notin {claims[c].author, claims[c].verifier}
    BY <2>1 DEF CertifyClaim, MayCertify
  <2>6. Sane(x)
    BY <2>2, <2>5 DEF Claim, Sane
  <2>7. ~Certified(c)
    BY <2>2, <2>5 DEF Sane, Certified
  <2>8. QED
    BY <2>3, <2>4, <2>6, <2>7
<1>5. QED
  BY <1>1, <1>2, <1>3, <1>4 DEF ProofStep

\* Sanity is kept, and so is everything about a certified claim.
LEMMA CertifiedStays ==
    ASSUME TypeOK, ClaimsSane, [Next]_vars
    PROVE  ClaimsSane' /\ \A c \in Claims : Certified(c) => claims'[c] = claims[c]
<1>1. CASE UNCHANGED claims
  BY <1>1 DEF ClaimsSane
<1>2. CASE ProofStep
  <2>1. PICK c \in Claims : \E x \in Claim : /\ claims' = [claims EXCEPT ![c] = x]
                                           /\ Sane(x) /\ ~Certified(c)
    BY <1>2, ClaimStep DEF TypeOK
  <2>2. PICK x \in Claim : claims' = [claims EXCEPT ![c] = x] /\ Sane(x) /\ ~Certified(c)
    BY <2>1
  <2>3. \A b \in Claims : claims'[b] = IF b = c THEN x ELSE claims[b]
    BY <2>2 DEF TypeOK, ProofTypeOK
  <2>4. QED
    BY <2>2, <2>3 DEF ClaimsSane
<1>3. CASE CreateStep
  <2>1. UNCHANGED claims
    BY <1>3 DEF CreateStep, CreateMission
  <2>2. QED
    BY <1>1, <2>1
<1>4. CASE TransitionStep
  <2>1. UNCHANGED claims
    BY <1>4 DEF TransitionStep, Transition
  <2>2. QED
    BY <1>1, <2>1
<1>5. QED
  BY <1>1, <1>2, <1>3, <1>4 DEF Next, Deciding, Proving, vars

\* Before a claim is created all its rows are absent.
LEMMA SaneInit == Init => ClaimsSane
  BY DEF Init, ProofInit, ClaimsSane, Sane, NoClaim

\* What a certified claim looks like is what verify_certificate asks for.
LEMMA SaneCertificatesVerify == ClaimsSane => CertificatesStayValid
  BY DEF ClaimsSane, Sane, CertificatesStayValid, CertificateVerifies, Certified

\* An issued certificate verifies for ever.
THEOREM CertificatesVerify == Spec => []CertificatesStayValid
<1>1. TypeOK /\ ClaimsSane /\ [Next]_vars => ClaimsSane'
  BY CertifiedStays
<1>2. QED
  BY <1>1, SaneInit, SaneCertificatesVerify, TypeCorrect, PTL DEF Spec

\* A successful mission ends its journal with a certificate about itself.
EndsCertified(m) ==
    /\ journal[m] # <<>>
    /\ journal[m][Len(journal[m])].certificate \in Claims
    /\ Certified(journal[m][Len(journal[m])].certificate)
    /\ claims[journal[m][Len(journal[m])].certificate].subject = m
SuccessEndsCertified == \A m \in Missions : state[m] = "SUCCEEDED" => EndsCertified(m)

\* SUCCEEDED is terminal, and the certificate of the last receipt is never withdrawn.
LEMMA SuccessKept ==
    TypeOK /\ ClaimsSane /\ SuccessEndsCertified /\ [Next]_vars => SuccessEndsCertified'
<1> SUFFICES ASSUME TypeOK, ClaimsSane, SuccessEndsCertified, [Next]_vars,
                    NEW n \in Missions, state'[n] = "SUCCEEDED"
             PROVE  EndsCertified(n)'
  BY DEF SuccessEndsCertified
<1>1. CASE state[n] = "SUCCEEDED" /\ journal'[n] = journal[n]
  <2>1. PICK x : x = journal[n][Len(journal[n])].certificate
    OBVIOUS
  <2>2. journal[n] # <<>> /\ x \in Claims /\ Certified(x) /\ claims[x].subject = n
    BY <1>1, <2>1 DEF SuccessEndsCertified, EndsCertified
  <2>3. claims'[x] = claims[x]
    BY <2>2, CertifiedStays
  <2>4. QED
    BY <1>1, <2>1, <2>2, <2>3 DEF EndsCertified, Certified
<1>2. CASE UNCHANGED missionVars
  BY <1>1, <1>2 DEF missionVars
<1>3. CASE CreateStep
  BY <1>1, <1>3 DEF CreateStep, CreateMission, TypeOK
<1>4. CASE TransitionStep
  <2>1. PICK m \in Missions, to \in States, actor \in Actors :
              \E key \in RequestKeys(m), d \in {NoDecision} \cup DecisionIds,
                 c \in Claims \cup {Nobody} : Transition(m, to, actor, key, d, c)
    BY <1>4 DEF TransitionStep
  <2>2. PICK key \in RequestKeys(m), d \in {NoDecision} \cup DecisionIds,
             c \in Claims \cup {Nobody} : Transition(m, to, actor, key, d, c)
    BY <2>1
  <2>3. PICK r \in Receipt :
              /\ r = [from |-> state[m], to |-> to, actor |-> actor, key |-> key,
                      decision |-> d, certificate |-> c]
              /\ journal' = [journal EXCEPT ![m] = Append(journal[m], r)]
    BY <2>2, TransitionShape DEF RequestKeys
  <2>4. state' = [state EXCEPT ![m] = to] /\ claims' = claims
    BY <2>2 DEF Transition
  <2>5. CASE n = m
    <3>1. to = "SUCCEEDED"
      BY <2>4, <2>5 DEF TypeOK
    <3>2. c \in Claims /\ Certified(c) /\ claims[c].subject = m
      BY <2>2, <3>1 DEF Transition, Proves, CertificateVerifies
    <3>3. journal'[m] = Append(journal[m], r) /\ journal[m] \in Seq(Receipt)
      BY <2>3 DEF TypeOK
    <3>4. journal'[m] # <<>> /\ journal'[m][Len(journal'[m])] = r
      BY <3>3
    <3>5. r.certificate = c
      BY <2>3
    <3>6. QED
      BY <2>4, <2>5, <3>2, <3>4, <3>5 DEF EndsCertified, Certified
  <2>6. CASE n # m
    BY <1>1, <2>3, <2>4, <2>6 DEF TypeOK
  <2>7. QED
    BY <2>5, <2>6
<1>5. QED
  BY <1>2, <1>3, <1>4 DEF Next, Deciding, Proving, vars

\* A mission succeeds only on a certificate about itself that three people made.
THEOREM SuccessesAreProved == Spec => []SuccessIsProved
<1>1. Init => SuccessEndsCertified
  BY DEF Init, SuccessEndsCertified
<1>2. ClaimsSane /\ SuccessEndsCertified => SuccessIsProved
  BY DEF ClaimsSane, Sane, SuccessEndsCertified, EndsCertified, SuccessIsProved, Certified
<1>3. TypeOK /\ ClaimsSane /\ [Next]_vars => ClaimsSane'
  BY CertifiedStays
<1>4. QED
  BY <1>1, <1>2, <1>3, SaneInit, SuccessKept, TypeCorrect, PTL DEF Spec

-----------------------------------------------------------------------------
(* The journal is the history of the state                                 *)

\* Appending a permitted move under a new key extends a legal path.
LEMMA PathGrows ==
    ASSUME NEW h \in Seq(Receipt), NEW r \in Receipt, LegalPath(h), r.from = EndOf(h),
           EndOf(h) \notin Terminal, \A x \in Range(h) : x.key # r.key
    PROVE  LegalPath(Append(h, r)) /\ EndOf(Append(h, r)) = r.to
<1> DEFINE g == Append(h, r)
<1>1. /\ Len(g) = Len(h) + 1 /\ Len(h) \in Nat /\ g[Len(h) + 1] = r
      /\ \A i \in 1..Len(h) : g[i] = h[i]
  OBVIOUS
<1>2. \A i \in 1..Len(h) : h[i].key # r.key
  BY DEF Range
<1>3. h # <<>> <=> Len(h) > 0
  OBVIOUS
<1> HIDE DEF g
<1>4. ASSUME NEW i \in 1..Len(g)
      PROVE  g[i].from = IF i = 1 THEN "CREATED" ELSE g[i - 1].to
  <2>1. CASE i \in 1..Len(h)
    BY <1>1, <2>1 DEF LegalPath
  <2>2. CASE i = Len(h) + 1
    BY <1>1, <1>3, <2>2 DEF EndOf
  <2>3. QED
    BY <1>1, <2>1, <2>2
<1>5. ASSUME NEW i \in 1..Len(g), i < Len(g)
      PROVE  g[i].to \notin Terminal
  BY <1>1, <1>3, <1>5 DEF LegalPath, EndOf
<1>6. ASSUME NEW i \in 1..Len(g), NEW j \in 1..Len(g), g[i].key = g[j].key
      PROVE  i = j
  <2>1. CASE i \in 1..Len(h) /\ j \in 1..Len(h)
    BY <1>1, <1>6, <2>1 DEF LegalPath
  <2>2. CASE i = Len(h) + 1 \/ j = Len(h) + 1
    BY <1>1, <1>2, <1>6, <2>2
  <2>3. QED
    BY <1>1, <2>1, <2>2
<1>7. LegalPath(g)
  BY <1>4, <1>5, <1>6 DEF LegalPath
<1>8. EndOf(g) = r.to
  BY <1>1 DEF EndOf, g
<1>9. QED
  BY <1>7, <1>8 DEF g

\* No step breaks the agreement of a mission with its journal.
LEMMA JournalKept ==
    TypeOK /\ JournalTellsTheState /\ [Next]_vars => JournalTellsTheState'
<1> SUFFICES ASSUME TypeOK, JournalTellsTheState, [Next]_vars PROVE JournalTellsTheState'
  OBVIOUS
<1>1. CASE UNCHANGED missionVars
  BY <1>1 DEF missionVars, JournalTellsTheState
<1>2. CASE CreateStep
  <2>1. PICK m \in Missions : CreateMission(m)
    BY <1>2 DEF CreateStep
  <2>2. journal' = journal /\ state[m] = "NONE" /\ state' = [state EXCEPT ![m] = "CREATED"]
    BY <2>1 DEF CreateMission
  <2>3. QED
    BY <2>2 DEF JournalTellsTheState, EndOf, TypeOK
<1>3. CASE TransitionStep
  <2>1. PICK m \in Missions, to \in States, actor \in Actors :
              \E key \in RequestKeys(m), d \in {NoDecision} \cup DecisionIds,
                 c \in Claims \cup {Nobody} : Transition(m, to, actor, key, d, c)
    BY <1>3 DEF TransitionStep
  <2>2. PICK key \in RequestKeys(m), d \in {NoDecision} \cup DecisionIds,
             c \in Claims \cup {Nobody} : Transition(m, to, actor, key, d, c)
    BY <2>1
  <2>3. PICK r \in Receipt :
              /\ r = [from |-> state[m], to |-> to, actor |-> actor, key |-> key,
                      decision |-> d, certificate |-> c]
              /\ journal' = [journal EXCEPT ![m] = Append(journal[m], r)]
    BY <2>2, TransitionShape DEF RequestKeys
  <2>4. r.from = state[m] /\ r.to = to /\ r.key = key
    BY <2>3
  <2>5. state[m] \notin Terminal \cup {"NONE"}
    BY <2>2 DEF Transition, Allowed, Terminal
  <2>6. journal[m] \in Seq(Receipt) /\ state[m] = EndOf(journal[m]) /\ LegalPath(journal[m])
    BY <2>5 DEF TypeOK, JournalTellsTheState
  <2>7. \A x \in Range(journal[m]) : x.key # r.key
    BY <2>2, <2>4 DEF Transition, NewRequest
  <2>8. LegalPath(Append(journal[m], r)) /\ EndOf(Append(journal[m], r)) = to
    BY <2>4, <2>5, <2>6, <2>7, PathGrows
  <2>9. \A n \in Missions : /\ journal'[n] = IF n = m THEN Append(journal[m], r) ELSE journal[n]
                            /\ state'[n] = IF n = m THEN to ELSE state[n]
    BY <2>2, <2>3 DEF Transition, TypeOK
  <2>10. to # "NONE"
    BY DEF States
  <2>11. QED
    BY <2>8, <2>9, <2>10 DEF JournalTellsTheState
<1>4. QED
  BY <1>1, <1>2, <1>3 DEF Next, Deciding, Proving, vars

\* The journal of a mission is a legal path to its state and applies no
\* request twice.
THEOREM JournalsTellTheState == Spec => []JournalTellsTheState
<1>1. Init => JournalTellsTheState
  BY DEF Init, JournalTellsTheState, LegalPath
<1>2. QED
  BY <1>1, JournalKept, TypeCorrect, PTL DEF Spec
=============================================================================
