--------------------------- MODULE MissionKernel ----------------------------
(***************************************************************************)
(* MissionKernel of src/starcom/mission.py together with the two services  *)
(* it consults inside its transaction, the trust plane and the proof       *)
(* engine: who may move a mission, and what its success rests on.          *)
(*                                                                         *)
(* Every public operation is one BEGIN IMMEDIATE transaction and one       *)
(* action.  A call that is refused, and the replay of a stored request,    *)
(* write nothing and are no steps.                                         *)
(***************************************************************************)
EXTENDS TrustPlane, ProofEngine, Functions, FiniteSets

CONSTANTS Missions,     \* mission ids
          MaxMoves      \* bound: missions are moved this often at most

\* mission:<id> as resource and the mission id of a request both name a
\* mission; actions are those of AUTHORIZATION_ACTIONS.
AuthorizationAction == [AUTHORIZED |-> "mission:authorize", RUNNING |-> "mission:run"]
Sensitive == DOMAIN AuthorizationAction

ASSUME KernelAssumption ==
    /\ Missions \subseteq Subjects
    /\ Requests \subseteq [subject : Actors, action : {"mission:authorize", "mission:run"},
                           resource : Missions, mission : Missions]
    /\ MaxMoves \in Nat

VARIABLES state,     \* state[m]: missions.state ("NONE": not created)
          journal    \* journal[m]: the mission_transitions of m in order

missionVars == <<state, journal>>
vars == <<trustVars, claims, missionVars>>

States == {"CREATED", "PLANNED", "AUTHORIZED", "RUNNING", "PAUSED",
           "SUCCEEDED", "FAILED", "CANCELLED"}
Terminal == {"SUCCEEDED", "FAILED", "CANCELLED"}

\* ALLOWED_TRANSITIONS
Allowed(s) ==
    CASE s = "CREATED" -> {"PLANNED", "CANCELLED"}
      [] s = "PLANNED" -> {"AUTHORIZED", "CANCELLED"}
      [] s = "AUTHORIZED" -> {"RUNNING", "CANCELLED"}
      [] s = "RUNNING" -> {"PAUSED", "SUCCEEDED", "FAILED", "CANCELLED"}
      [] s = "PAUSED" -> {"RUNNING", "FAILED", "CANCELLED"}
      [] OTHER -> {}

NoDecision == 0
Receipt == [from : States, to : States, actor : Actors, key : Nat,
            decision : Nat, certificate : Claims \cup {Nobody}]

\* The rows of mission_transitions, each named by its mission and revision.
Places == {p \in Missions \X (1..MaxMoves) : p[2] <= Len(journal[p[1]])}
At(p) == journal[p[1]][p[2]]

\* create
CreateMission(m) ==
    /\ state[m] = "NONE"
    /\ state' = [state EXCEPT ![m] = "CREATED"]
    /\ UNCHANGED <<journal, trustVars, claims>>

\* Bug: the key of a request is not looked up, nor unique in the table.
AnyRequest(m, key) == m \in Missions /\ key \in Nat

\* The lookup of the idempotency key and the UNIQUE (mission, key) behind it.
NewRequest(m, key) == \A r \in Range(journal[m]) : r.key # key

\* No transition of any mission carries this decision yet.
Unspent(d) == \A p \in Places : At(p).decision # d

\* Bug: the decision is matched with the actor and the action only.
AuthorizesSomewhere(d, m, to, actor) ==
    /\ d \in DecisionIds
    /\ decisions[d].allowed
    /\ decisions[d].request.subject = actor
    /\ decisions[d].request.action = AuthorizationAction[to]

\* _validate_authorization
Authorizes(d, m, to, actor) ==
    /\ d \in DecisionIds
    /\ decisions[d].allowed
    /\ decisions[d].request = [subject |-> actor, action |-> AuthorizationAction[to],
                               resource |-> m, mission |-> m]

\* Bug: any verified certificate will do.
ProvesSomething(c, m) == m \in Missions /\ c \in Claims /\ CertificateVerifies(c)

\* _validate_certificate
Proves(c, m) == c \in Claims /\ CertificateVerifies(c) /\ claims[c].subject = m

\* transition: authority and proof are checked again at the moment of use.
Transition(m, to, actor, key, d, c) ==
    /\ NewRequest(m, key)
    /\ to \in Allowed(state[m])
    /\ d # NoDecision => Unspent(d) /\ d \in DecisionIds
    /\ to \in Sensitive => Authorizes(d, m, to, actor)
    /\ IF to = "SUCCEEDED" THEN Proves(c, m) ELSE c = Nobody
    /\ journal' = [journal EXCEPT ![m] =
                     Append(journal[m], [from |-> state[m], to |-> to, actor |-> actor,
                                         key |-> key, decision |-> d, certificate |-> c])]
    /\ state' = [state EXCEPT ![m] = to]
    /\ UNCHANGED <<trustVars, claims>>

\* A caller numbers the requests for a mission in the order it first makes
\* them; any earlier one may be repeated.
RequestKeys(m) == 1..(Len(journal[m]) + 1)

TransitionStep ==
    \E m \in Missions, to \in States, actor \in Actors :
       /\ Cardinality(Places) < MaxMoves
       /\ \E key \in RequestKeys(m), d \in {NoDecision} \cup DecisionIds,
             c \in Claims \cup {Nobody} : Transition(m, to, actor, key, d, c)

Init == /\ TrustInit
        /\ ProofInit
        /\ state = [m \in Missions |-> "NONE"]
        /\ journal = [m \in Missions |-> <<>>]

CreateStep == \E m \in Missions : CreateMission(m)
Deciding == TrustStep /\ UNCHANGED <<claims, missionVars>>
Proving == ProofStep /\ UNCHANGED <<trustVars, missionVars>>

Next == Deciding \/ Proving \/ CreateStep \/ TransitionStep

Spec == Init /\ [][Next]_vars

-----------------------------------------------------------------------------
(* Properties                                                              *)

\* Every variable has its type.
TypeOK == /\ TrustTypeOK
          /\ ProofTypeOK
          /\ state \in [Missions -> States \cup {"NONE"}]
          /\ journal \in [Missions -> Seq(Receipt)]

\* No mission is authorized or runs, or runs again after a pause, on borrowed
\* authority: the receipt cites an allowed decision for exactly its actor,
\* action and mission, and no other transition of any mission cites it too.
Covers(d, p) == /\ d \in DecisionIds
                /\ decisions[d].allowed
                /\ decisions[d].request = [subject |-> At(p).actor,
                                           action |-> AuthorizationAction[At(p).to],
                                           resource |-> p[1], mission |-> p[1]]
SensitiveMovesAreAuthorized ==
    \A p \in Places :
        /\ At(p).to \in Sensitive => Covers(At(p).decision, p)
        /\ \A q \in Places \ {p} : At(p).decision = At(q).decision
                                   => At(p).decision = NoDecision

\* A single-use grant stands behind at most one move of a mission, whatever is
\* asked again.  A decision made with consume=False does not spend the grant
\* and is as good as any other: moves that cite one are not counted.
MovesOn(g) == {p \in Places : /\ At(p).decision # NoDecision
                              /\ decisions[At(p).decision].grant = g
                              /\ decisions[At(p).decision].spends}
GrantSpentOnce ==
    \A g \in grants : g.single_use => \A p, q \in MovesOn(g) : p = q

\* Once a DENY rule covers a request, authority for it can only be used up:
\* decisions made before the rule stay valid, but no new one appears,
\* however many ALLOW rules and grants there are.
Reserve(request) == {d \in DecisionIds : /\ decisions[d].request = request
                                         /\ decisions[d].allowed
                                         /\ Unspent(d)}
DenyOnlyDrains ==
    [][\A r \in Requests : Ruled(r, "DENY") => Reserve(r)' \subseteq Reserve(r)]_vars

\* The journal of a mission is a legal path from CREATED to its state, and no
\* request was applied twice, although the path may pass a state repeatedly
\* and a late retry may then find its move allowed again.
EndOf(h) == IF h = <<>> THEN "CREATED" ELSE h[Len(h)].to
LegalPath(h) ==
    \A i \in 1..Len(h) :
        /\ h[i].from = IF i = 1 THEN "CREATED" ELSE h[i - 1].to
        /\ i < Len(h) => h[i].to \notin Terminal
        /\ \A j \in 1..Len(h) : h[i].key = h[j].key => i = j
JournalTellsTheState ==
    \A m \in Missions : /\ LegalPath(journal[m])
                        /\ IF state[m] = "NONE" THEN journal[m] = <<>>
                           ELSE state[m] = EndOf(journal[m])

\* A certificate that was issued keeps verifying: no later evidence, verdict
\* or certifier can disturb what it covers.
CertificatesStayValid == \A c \in Claims : Certified(c) => CertificateVerifies(c)

\* A mission succeeds only on the word of three different people: the claim
\* its last receipt cites is about this mission, was approved by somebody
\* other than its author over all the evidence it has, which is not empty,
\* and was certified by a third.
SuccessIsProved ==
    \A m \in Missions : state[m] = "SUCCEEDED" =>
        LET c == journal[m][Len(journal[m])].certificate
        IN /\ c \in Claims
           /\ claims[c].subject = m
           /\ claims[c].verdict = "APPROVED"
           /\ claims[c].evidence = claims[c].sealed
           /\ claims[c].sealed # {}
           /\ claims[c].author # claims[c].verifier
           /\ claims[c].certifier \notin {Nobody, claims[c].author, claims[c].verifier}
=============================================================================
