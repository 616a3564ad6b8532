---------------------------- MODULE ServiceProofs ----------------------------
(***************************************************************************)
(* Theorems about the services beside the evidence chain: Deployment,      *)
(* Cockpit, CreativeJobs, Census and ReleaseEvidence.  Their tables only   *)
(* grow, so that what an operation found in its transaction is there ever  *)
(* after, and the keys of the tables make it the only thing a name can     *)
(* mean.                                                                   *)
(***************************************************************************)
EXTENDS Deployment, Cockpit, CreativeJobs, Census, ReleaseEvidence, FiniteSetTheorems, TLAPS

-----------------------------------------------------------------------------
(* Deployment                                                              *)

\* Nodes go by their keys, assignments by their ids, uses by their decisions.
FabricKeyed ==
    /\ \A n, o \in nodes : n.form.key = o.form.key => n = o
    /\ \A a, b \in assignments : a.form.id = b.form.id => a = b
    /\ \A u, w \in consumed : u.decision = w.decision => u = w

FabricInv == FabricKeyed /\ \A a \in assignments : AssignmentVerifies(a)

\* The tables grow.
LEMMA FabricGrows ==
  ASSUME [FabricNext]_fabricVars
  PROVE  /\ bundles \subseteq bundles' /\ nodes \subseteq nodes'
         /\ consumed \subseteq consumed'
  BY DEF FabricNext, SealBundle, EnrollNode, AuthorizeAssignment, Consume, fabricVars, fabric

\* An assignment that verifies keeps verifying.
LEMMA AssignmentsKeepVerifying ==
  ASSUME [FabricNext]_fabricVars, NEW a, AssignmentVerifies(a)
  PROVE  AssignmentVerifies(a)'
<1>1. PICK b \in bundles, n \in nodes :
          /\ b.form.id = a.form.bundle /\ BundleVerifies(b)
          /\ n.form.id = a.form.node /\ NodeVerifies(n)
          /\ Compatible(b.form, n.form)
          /\ AuthorizesExactly(a.decision, a.form.by, "deployment.assignment.authorize",
                               a.form.id, PairTerms(b.form, n.form))
  BY DEF AssignmentVerifies, AssignmentStands
<1>2. BundleVerifies(b)' /\ NodeVerifies(n)'
  BY <1>1, FabricGrows DEF BundleVerifies, NodeVerifies
<1>3. b \in bundles' /\ n \in nodes'
  BY FabricGrows
<1>4. AssignmentStands(a.form, a.decision)'
  BY <1>1, <1>2, <1>3 DEF AssignmentStands
<1> QED
  BY <1>4, FabricGrows DEF AssignmentVerifies

\* Consuming a decision leaves one use of every decision.
LEMMA ConsumesOnce ==
  ASSUME NEW d, NEW kind, NEW op, NEW actor, Consume(d, kind, op, actor),
         \A u, w \in consumed : u.decision = w.decision => u = w
  PROVE  \A u, w \in consumed' : u.decision = w.decision => u = w
<1> DEFINE use == Use(d, kind, op, actor)
<1>1. consumed' = consumed \cup {use} /\ \A u \in consumed : u.decision # use.decision
  BY DEF Consume, Unconsumed, Use
<1> HIDE DEF use
<1> QED
  BY <1>1

\* The keys hold, and an assignment verifies when it appears.
LEMMA FabricStep == FabricInv /\ [FabricNext]_fabricVars => FabricInv'
<1> SUFFICES ASSUME FabricInv, [FabricNext]_fabricVars PROVE FabricInv'
  OBVIOUS
<1>1. \A a \in assignments : AssignmentVerifies(a)'
  BY AssignmentsKeepVerifying DEF FabricInv
<1>2. CASE UNCHANGED fabricVars
  BY <1>1, <1>2 DEF fabricVars, fabric, FabricInv, FabricKeyed
<1>3. ASSUME NEW f \in Bundles, NEW d \in Decisions, SealBundle(f, d) PROVE FabricInv'
  <2>1. UNCHANGED <<nodes, assignments>> /\ Consume(d, "DEPLOYMENT_BUNDLE_SEAL", f.id, f.by)
    BY <1>3 DEF SealBundle
  <2> QED
    BY <1>1, <2>1, ConsumesOnce DEF FabricInv, FabricKeyed
<1>4. ASSUME NEW f \in Nodes, NEW d \in Decisions, EnrollNode(f, d) PROVE FabricInv'
  <2> DEFINE row == [form |-> f, decision |-> d]
  <2>1. /\ nodes' = nodes \cup {row} /\ row.form = f /\ UNCHANGED assignments
        /\ \A n \in nodes : n.form.key # f.key
        /\ Consume(d, "DEPLOYMENT_NODE_ENROLL", f.id, f.by)
    BY <1>4 DEF EnrollNode
  <2> HIDE DEF row
  <2> QED
    BY <1>1, <2>1, ConsumesOnce DEF FabricInv, FabricKeyed
<1>5. ASSUME NEW f \in Assignments, NEW d \in Decisions, AuthorizeAssignment(f, d)
      PROVE  FabricInv'
  <2> DEFINE row == [form |-> f, decision |-> d]
  <2> DEFINE kind == "DEPLOYMENT_ASSIGNMENT_AUTHORIZE"
  <2>1. /\ assignments' = assignments \cup {row} /\ row.form = f /\ row.decision = d
        /\ \A a \in assignments : a.form.id # f.id
        /\ UNCHANGED <<bundles, nodes>> /\ AssignmentStands(f, d)
        /\ Consume(d, kind, f.id, f.by)
    BY <1>5 DEF AuthorizeAssignment
  <2> HIDE DEF row
  <2>2. Use(d, kind, f.id, f.by) \in consumed' /\ consumed \subseteq consumed'
    BY <2>1 DEF Consume
  <2>3. AssignmentStands(f, d)'
    BY <2>1, <2>2 DEF AssignmentStands, BundleVerifies, NodeVerifies
  <2>4. AssignmentVerifies(row)'
    BY <2>1, <2>2, <2>3 DEF AssignmentVerifies
  <2>5. FabricKeyed'
    BY <2>1, ConsumesOnce DEF FabricInv, FabricKeyed
  <2> QED
    BY <1>1, <2>1, <2>4, <2>5 DEF FabricInv
<1> QED
  BY <1>2, <1>3, <1>4, <1>5 DEF FabricNext

\* An assignment is of the very bundle and node that were decided about, for any
\* forms that race for their ids and keys.
THEOREM AssignmentsAreDecided == FabricSpec => []AssignedAsDecided
<1>1. FabricInit /\ ConsumedInit => FabricInv
  BY DEF FabricInit, ConsumedInit, FabricInv, FabricKeyed
<1>2. FabricInv => AssignedAsDecided
  <2> SUFFICES ASSUME FabricInv, NEW a \in assignments
               PROVE  /\ AssignmentVerifies(a)
                      /\ \E b \in bundles, n \in nodes :
                            /\ a.decision.terms = PairTerms(b.form, n.form)
                            /\ Compatible(b.form, n.form)
                            /\ \A o \in nodes : o.form.key = n.form.key => o = n
                      /\ \A o \in assignments : o.decision = a.decision => o = a
    BY DEF AssignedAsDecided
  <2>1. AssignmentVerifies(a)
    BY DEF FabricInv
  <2>2. \E b \in bundles, n \in nodes :
            /\ a.decision.terms = PairTerms(b.form, n.form)
            /\ Compatible(b.form, n.form)
    BY <2>1 DEF AssignmentVerifies, AssignmentStands, AuthorizesExactly
  <2>3. ASSUME NEW o \in assignments, o.decision = a.decision PROVE o = a
    <3> DEFINE spent(x) == Use(x.decision, "DEPLOYMENT_ASSIGNMENT_AUTHORIZE", x.form.id, x.form.by)
    <3>1. spent(o) \in consumed /\ spent(a) \in consumed
      BY <2>3 DEF FabricInv, AssignmentVerifies
    <3>2. spent(o).decision = spent(a).decision /\ spent(o).op = o.form.id
          /\ spent(a).op = a.form.id
      BY <2>3 DEF Use
    <3> HIDE DEF spent
    <3> QED
      BY <3>1, <3>2 DEF FabricInv, FabricKeyed
  <2> QED
    BY <2>1, <2>2, <2>3 DEF FabricInv, FabricKeyed
<1> QED
  BY <1>1, <1>2, FabricStep, PTL DEF FabricSpec

-----------------------------------------------------------------------------
(* Cockpit                                                                 *)

CockpitKeyed ==
    /\ \A s, u \in sessions : s.id = u.id => s = u
    /\ \A k, o \in commands : k.decision = o.decision => k = o

CockpitInv ==
    /\ CockpitKeyed
    /\ \A k \in commands : /\ Commandable(k.form, k.decision, k.by)
                           /\ SessionLives(k.form, k.by, k.at)

\* A command that was admissible is so to the tables as they grow.
LEMMA CommandsStay ==
  ASSUME sessions \subseteq sessions', snapshots \subseteq snapshots',
         NEW f, NEW d, NEW actor, NEW at,
         Commandable(f, d, actor), SessionLives(f, actor, at)
  PROVE  Commandable(f, d, actor)' /\ SessionLives(f, actor, at)'
  BY DEF Commandable, SessionLives, CommandTerms

\* A command enters the table by its transaction, whoever called it.
LEMMA CommandInserted ==
  ASSUME CockpitInv, UNCHANGED <<snapshots, sessions>>, NEW f, NEW d, NEW actor, NEW at,
         Admissible(f, d, actor, at), InsertCommand(f, d, actor, at)
  PROVE  CockpitInv'
<1> DEFINE row == [form |-> f, decision |-> d, by |-> actor, at |-> at]
<1>1. /\ commands' = commands \cup {row}
      /\ row.form = f /\ row.decision = d /\ row.by = actor /\ row.at = at
  BY DEF InsertCommand
<1>2. Commandable(f, d, actor) /\ SessionLives(f, actor, at) /\ CommandFresh(f, d)
  BY DEF Admissible
<1> HIDE DEF row
<1>3. CockpitKeyed'
  BY <1>1, <1>2 DEF CockpitInv, CockpitKeyed, CommandFresh
<1>4. \A k \in commands' : Commandable(k.form, k.decision, k.by)'
                           /\ SessionLives(k.form, k.by, k.at)'
  BY <1>1, <1>2, CommandsStay DEF CockpitInv
<1> QED
  BY <1>3, <1>4 DEF CockpitInv

\* Keys hold, and the session a command came from is there.
LEMMA CockpitStep == CockpitInv /\ [CockpitNext]_cockpit => CockpitInv'
<1> SUFFICES ASSUME CockpitInv, [CockpitNext]_cockpit PROVE CockpitInv'
  OBVIOUS
<1>1. ASSUME sessions \subseteq sessions', snapshots \subseteq snapshots', UNCHANGED commands,
             \A s, u \in sessions' : s.id = u.id => s = u
      PROVE  CockpitInv'
  BY <1>1, CommandsStay DEF CockpitInv, CockpitKeyed
<1>2. CASE UNCHANGED <<snapshots, sessions, commands>>
  BY <1>1, <1>2 DEF CockpitInv, CockpitKeyed
<1>3. ASSUME NEW f \in Views, AdmitSnapshot(f) PROVE CockpitInv'
  BY <1>1, <1>3 DEF AdmitSnapshot, CockpitInv, CockpitKeyed
<1>4. ASSUME NEW f \in Sessions, NEW at \in 0..LastTime, CreateSession(f, at) PROVE CockpitInv'
  BY <1>1, <1>4 DEF CreateSession, CockpitInv, CockpitKeyed
<1>5. ASSUME NEW f, NEW d, NEW actor, NEW at, AuthorizeCommand(f, d, actor, at)
      PROVE  CockpitInv'
  BY <1>5, CommandInserted DEF AuthorizeCommand
<1>6. ASSUME NEW c \in Clients, CommitCommand(c) PROVE CockpitInv'
  BY <1>6, CommandInserted DEF CommitCommand
<1>7. ASSUME NEW c \in Clients,
             \/ \E f \in Commands, d \in Decisions, s \in Sessions :
                   Authenticate(c, f, d, s.token, s.csrf)
             \/ StampCommand(c) \/ EndPost(c)
      PROVE  UNCHANGED <<snapshots, sessions, commands>>
  BY <1>7 DEF Authenticate, StampCommand, EndPost
<1> QED
  BY <1>2, <1>3, <1>4, <1>5, <1>6, <1>7 DEF CockpitNext, CockpitTick, cockpit

\* A command is given within its session, however long the request took and
\* however many requests and callers there are.
THEOREM SessionsCommand == CockpitSpec => []CommandsOfALiveSession
<1>1. CockpitInit => CockpitInv
  BY DEF CockpitInit, CockpitInv, CockpitKeyed
<1>2. CockpitInv => CommandsOfALiveSession
  BY DEF CockpitInv, CockpitKeyed, CommandsOfALiveSession, CommandVerifies, Commandable,
     SessionLives, AuthorizesExactly
<1> QED
  BY <1>1, <1>2, CockpitStep, PTL DEF CockpitSpec

-----------------------------------------------------------------------------
(* Creative jobs                                                           *)

JobTypes ==
    /\ phase \in [JobIds -> Outbox!Phases] /\ attempts \in [JobIds -> Nat]
    /\ posted = [e \in JobIds |-> posted[e]]
    /\ \A e \in JobIds : posted[e] = [digest |-> posted[e].digest, by |-> posted[e].by]

\* An effect that was never leased is PENDING, if it is there.
EffectsSound ==
    /\ JobTypes
    /\ \A e \in JobIds : phase[e] = "NONE" => attempts[e] = 0
    /\ \A e \in JobIds : phase[e] # "NONE" /\ attempts[e] = 0 => phase[e] = "PENDING"

\* A job has its effect, with its plan, and the decision it was requested by.
Bound(j) == /\ j.form \in Jobs
            /\ JobAuthorized(j.form, j.decision)
            /\ phase[j.form.id] # "NONE" /\ posted[j.form.id].digest = j.form.digest

JobInv == /\ EffectsSound
          /\ \A j \in jobs : Bound(j)

\* Whoever uses the outbox, an effect that is there stays as it was posted, and
\* leases are only ever added.
EffectsGoOn ==
    \A e \in JobIds :
        /\ attempts'[e] >= attempts[e]
        /\ phase[e] # "NONE" => phase'[e] # "NONE" /\ posted'[e] = posted[e]

\* An effect is enqueued, for a job or not.
LEMMA EffectsEnqueued ==
  ASSUME EffectsSound, NEW e \in JobIds, NEW digest \in Names, NEW by \in Actors,
         Outbox!Enqueue({e}, Tries),
         posted' = [posted EXCEPT ![e] = [digest |-> digest, by |-> by]]
  PROVE  /\ EffectsSound' /\ EffectsGoOn
         /\ posted'[e] = [digest |-> digest, by |-> by]
         /\ phase'[e] = "PENDING" /\ attempts'[e] = 0
<1>1. /\ phase' = [x \in JobIds |-> IF x = e THEN "PENDING" ELSE phase[x]]
      /\ attempts' = attempts /\ phase[e] = "NONE"
  BY DEF Outbox!Enqueue
<1>2. phase' \in [JobIds -> Outbox!Phases] /\ attempts' \in [JobIds -> Nat]
  BY <1>1 DEF EffectsSound, JobTypes, Outbox!Phases
<1>3. /\ posted' = [x \in JobIds |-> posted'[x]]
      /\ posted'[e] = [digest |-> digest, by |-> by]
      /\ \A x \in JobIds \ {e} : posted'[x] = posted[x]
  BY DEF EffectsSound, JobTypes
<1>4. \A x \in JobIds : posted'[x] = [digest |-> posted'[x].digest, by |-> posted'[x].by]
  BY <1>3 DEF EffectsSound, JobTypes
<1>5. \A x \in JobIds : phase'[x] = IF x = e THEN "PENDING" ELSE phase[x]
  BY <1>1
<1>6. EffectsSound'
  BY <1>1, <1>2, <1>3, <1>4, <1>5 DEF EffectsSound, JobTypes, Outbox!Phases
<1>7. EffectsGoOn
  BY <1>1, <1>3, <1>5 DEF EffectsSound, JobTypes, EffectsGoOn
<1> QED
  BY <1>1, <1>3, <1>5, <1>6, <1>7 DEF EffectsSound

\* Workers lease, release and settle effects.
LEMMA EffectsWorkedOn ==
  ASSUME EffectsSound, WorkOnEffects
  PROVE  EffectsSound' /\ EffectsGoOn
<1>1. ASSUME NEW S \in SUBSET JobIds, Outbox!Claim(S), UNCHANGED posted
      PROVE  EffectsSound' /\ EffectsGoOn
  BY <1>1 DEF EffectsSound, JobTypes, EffectsGoOn, Outbox!Claim, Outbox!Phases
<1>2. ASSUME NEW S \in SUBSET JobIds, Outbox!Release(S), UNCHANGED posted
      PROVE  EffectsSound' /\ EffectsGoOn
  BY <1>2 DEF EffectsSound, JobTypes, EffectsGoOn, Outbox!Release, Outbox!Phases
<1>3. ASSUME NEW e \in JobIds, Outbox!Succeed(e, attempts[e]), UNCHANGED posted
      PROVE  EffectsSound' /\ EffectsGoOn
  BY <1>3 DEF EffectsSound, JobTypes, EffectsGoOn, Outbox!Succeed, Outbox!Phases
<1> QED
  BY <1>1, <1>2, <1>3 DEF WorkOnEffects

\* A job verifies to its own requester from its request to the first lease, for
\* any jobs, outsiders, workers and budgets.
LEMMA JobStep ==
  ASSUME JobInv, [JobNext]_jobVars
  PROVE  /\ JobInv'
         /\ \A j \in jobs' \ jobs :
               JobVerifies(j)' <=> phase[j.form.id] = "NONE" \/ (/\ posted[j.form.id].by = j.form.by
                                                                 /\ attempts[j.form.id] = 0)
         /\ \A j \in jobs : JobVerifies(j)' <=> (JobVerifies(j) /\ attempts'[j.form.id] = 0)
<1>1. EffectsSound
  BY DEF JobInv
<1>2. ASSUME EffectsSound', EffectsGoOn
      PROVE  \A j \in jobs :
                /\ phase'[j.form.id] # "NONE" /\ posted'[j.form.id] = posted[j.form.id]
                /\ JobVerifies(j)' <=> (JobVerifies(j) /\ attempts'[j.form.id] = 0)
  <2> SUFFICES ASSUME NEW j \in jobs
               PROVE  /\ phase'[j.form.id] # "NONE" /\ posted'[j.form.id] = posted[j.form.id]
                      /\ JobVerifies(j)' <=> (JobVerifies(j) /\ attempts'[j.form.id] = 0)
    OBVIOUS
  <2> DEFINE e == j.form.id
  <2>1. e \in JobIds /\ phase[e] # "NONE"
    BY DEF JobInv, Bound, JobIds
  <2>2. phase'[e] # "NONE" /\ posted'[e] = posted[e] /\ attempts'[e] >= attempts[e]
    BY <1>2, <2>1 DEF EffectsGoOn
  <2>3. attempts'[e] = 0 => phase'[e] = "PENDING"
    BY <1>2, <2>1, <2>2 DEF EffectsSound
  <2>4. attempts'[e] = 0 => attempts[e] = 0 /\ phase[e] = "PENDING"
    BY <1>1, <2>1, <2>2 DEF EffectsSound, JobTypes
  <2> QED
    BY <2>2, <2>3, <2>4 DEF JobVerifies, JobAuthorized, AuthorizesExactly
<1>3. ASSUME EffectsSound', EffectsGoOn, UNCHANGED jobs
      PROVE  /\ JobInv'
             /\ \A j \in jobs : JobVerifies(j)' <=> (JobVerifies(j) /\ attempts'[j.form.id] = 0)
  <2>1. ASSUME NEW j \in jobs PROVE Bound(j)'
    <3>1. /\ Bound(j) /\ phase'[j.form.id] # "NONE"
          /\ posted'[j.form.id] = posted[j.form.id]
      BY <1>2, <1>3 DEF JobInv
    <3> QED
      BY <3>1 DEF Bound, JobAuthorized, AuthorizesExactly
  <2>2. JobInv'
    BY <1>3, <2>1 DEF JobInv
  <2> QED
    BY <1>2, <1>3, <2>2
<1>4. CASE UNCHANGED jobVars
  <2>1. EffectsSound' /\ EffectsGoOn /\ UNCHANGED jobs
    BY <1>1, <1>4 DEF jobVars, effects, EffectsSound, EffectsGoOn, JobTypes, JobIds
  <2> QED
    BY <1>3, <2>1
<1>5. ASSUME NEW p \in Posts, PostEffect(p)
      PROVE  EffectsSound' /\ EffectsGoOn /\ UNCHANGED jobs
  <2>1. p.digest \in Names /\ p.by \in Actors
    BY JobAssumption
  <2>2. p.id \in JobIds
    BY JobAssumption DEF JobIds
  <2> QED
    BY <1>1, <1>5, <2>1, <2>2, EffectsEnqueued DEF PostEffect
<1>6. ASSUME WorkOnEffects PROVE EffectsSound' /\ EffectsGoOn /\ UNCHANGED jobs
  BY <1>1, <1>6, EffectsWorkedOn DEF WorkOnEffects
<1>7. ASSUME NEW f \in Jobs, NEW d \in Decisions, RequestJob(f, d)
      PROVE  /\ JobInv'
             /\ \A j \in jobs' \ jobs :
                   JobVerifies(j)' <=> phase[j.form.id] = "NONE" \/ (/\ posted[j.form.id].by = j.form.by
                                                                     /\ attempts[j.form.id] = 0)
             /\ \A j \in jobs : JobVerifies(j)' <=> (JobVerifies(j) /\ attempts'[j.form.id] = 0)
  <2> DEFINE row == [form |-> f, decision |-> d]
  <2>1. /\ jobs' = jobs \cup {row} /\ row.form = f /\ row.decision = d
        /\ JobAuthorized(f, d) /\ EnqueueOnce(f)
    BY <1>7 DEF RequestJob
  <2> HIDE DEF row
  <2>2. f.id \in JobIds /\ f.digest \in Names /\ f.by \in Actors
    BY JobAssumption DEF JobIds
  <2>3. CASE Outbox!Enqueue({f.id}, Tries)
             /\ posted' = [posted EXCEPT ![f.id] = [digest |-> f.digest, by |-> f.by]]
    <3>1. /\ EffectsSound' /\ EffectsGoOn
          /\ posted'[f.id] = [digest |-> f.digest, by |-> f.by]
          /\ phase'[f.id] = "PENDING" /\ attempts'[f.id] = 0
      BY <1>1, <2>2, <2>3, EffectsEnqueued
    <3>2. phase[f.id] = "NONE"
      BY <2>3 DEF Outbox!Enqueue
    <3>3. JobVerifies(row)'
      BY <2>1, <3>1 DEF JobVerifies, JobAuthorized, AuthorizesExactly
    <3>4. JobInv'
      BY <1>2, <2>1, <3>1 DEF JobInv, Bound, JobAuthorized, AuthorizesExactly
    <3> QED
      BY <1>2, <2>1, <3>1, <3>2, <3>3, <3>4
  <2>4. CASE phase[f.id] # "NONE" /\ posted[f.id].digest = f.digest /\ UNCHANGED <<posted, effects>>
    <3>1. EffectsSound' /\ EffectsGoOn
      BY <1>1, <2>4 DEF effects, EffectsSound, EffectsGoOn, JobTypes, JobIds
    <3>2. posted'[f.id] = posted[f.id] /\ phase'[f.id] = phase[f.id]
          /\ attempts'[f.id] = attempts[f.id]
      BY <2>4 DEF effects
    <3>3. posted[f.id] = [digest |-> f.digest, by |-> f.by] <=> posted[f.id].by = f.by
      BY <1>1, <2>2, <2>4 DEF EffectsSound, JobTypes
    <3>4. attempts[f.id] = 0 => phase[f.id] = "PENDING"
      BY <1>1, <2>2, <2>4 DEF EffectsSound
    <3>5. JobVerifies(row)' <=> posted[f.id].by = f.by /\ attempts[f.id] = 0
      BY <2>1, <3>2, <3>3, <3>4 DEF JobVerifies, JobAuthorized, AuthorizesExactly
    <3>6. JobInv'
      BY <1>2, <2>1, <2>4, <3>1, <3>2 DEF JobInv, Bound, JobAuthorized, AuthorizesExactly
    <3> QED
      BY <1>2, <2>1, <2>4, <3>1, <3>5, <3>6
  <2> QED
    BY <2>1, <2>3, <2>4 DEF EnqueueOnce
<1> QED
  BY <1>3, <1>4, <1>5, <1>6, <1>7 DEF JobNext, jobVars

\* Whoever else uses the outbox, a job has an effect with its plan, and a defect
\* that verify reports of a job is reported ever after.
THEOREM EffectsOfJobs == JobSpec => JobsKeepTheirEffect
<1> DEFINE Kept ==
        /\ \A j \in jobs : phase[j.form.id] # "NONE" /\ posted[j.form.id].digest = j.form.digest
        /\ \A j \in jobs : JobVerifies(j)' => JobVerifies(j)
<1>1. JobInit => JobInv
  <2>1. JobInit => JobTypes
    <3> SUFFICES ASSUME JobInit PROVE JobTypes
      OBVIOUS
    <3>1. phase \in [JobIds -> Outbox!Phases] /\ attempts \in [JobIds -> Nat]
      BY DEF JobInit, Outbox!Init, Outbox!Phases
    <3>2. posted = [e \in JobIds |-> Nobody]
      BY DEF JobInit
    <3>3. \A e \in JobIds : posted[e] = [digest |-> posted[e].digest, by |-> posted[e].by]
      BY <3>2 DEF Nobody
    <3> QED
      BY <3>1, <3>2, <3>3 DEF JobTypes
  <2> QED
    BY <2>1 DEF JobInit, JobInv, EffectsSound, Outbox!Init
<1>2. JobInv /\ [JobNext]_jobVars => JobInv'
  BY JobStep
<1>3. ASSUME JobInv, [JobNext]_jobVars PROVE Kept
  <2>1. \A j \in jobs : Bound(j)
    BY <1>3 DEF JobInv
  <2>2. \A j \in jobs : JobVerifies(j)' => JobVerifies(j)
    BY <1>3, JobStep
  <2> QED
    BY <2>1, <2>2 DEF Bound
<1> HIDE DEF Kept
<1>4. JobInv /\ [JobNext]_jobVars => [Kept]_jobVars
  BY <1>3
<1>5. JobSpec => [][Kept]_jobVars
  BY <1>1, <1>2, <1>4, PTL DEF JobSpec
<1> QED
  BY <1>5 DEF JobsKeepTheirEffect, Kept

-----------------------------------------------------------------------------
(* Census                                                                  *)

\* The names and the observations of the census are distinct, all its evidence
\* is linked, and so is that of the calls under way.
CensusKept ==
    /\ research \in [Attempts -> Research!Attempt]
    /\ IsFiniteSet(census)
    /\ \A i, j \in census : i.key = j.key => i = j
    /\ \A i, j \in census : <<i.attempt, i.observation>> = <<j.attempt, j.observation>> => i = j
    /\ \A i \in census : i \in Identities /\ Linked(i)
    /\ \A w \in calls : recollection # {}
    /\ \A w \in calls : w.kind = "IDENTITY" => w.form \in Identities /\ Linked(w.form)

Certified(t) == /\ recollection # {}
                /\ t.members \subseteq census
                /\ Cardinality(t.members) >= Target
                /\ IndependentCertifier(t)

CensusInv == CensusKept /\ \A t \in certified : Certified(t)

\* Evidence that is linked stays linked, whatever is recorded.
LEMMA LinkedStays ==
  ASSUME research \in [Attempts -> Research!Attempt], [CensusNext]_censusVars
  PROVE  /\ research' \in [Attempts -> Research!Attempt]
         /\ \A f \in Identities : Linked(f) => Linked(f)'
<1> DEFINE Later == /\ research' \in [Attempts -> Research!Attempt]
                    /\ \A k \in Attempts :
                          /\ research[k].receipt = "SUCCESS" => research'[k].receipt = "SUCCESS"
                          /\ research'[k].observations >= research[k].observations
<1>1. ASSUME UNCHANGED research PROVE Later
  BY <1>1 DEF Research!Attempt
<1>2. ASSUME NEW k \in Attempts, NEW wave \in CampaignWaves, Research!BeginNew(k, wave)
      PROVE  Later
  BY <1>2 DEF Research!Attempt, Research!BeginNew
<1>3. ASSUME NEW k \in Attempts, Research!Evidence(k) PROVE Later
  <2>1. ASSUME NEW o \in Research!Outcomes, Research!RecordReceipt(k, o) PROVE Later
    BY <2>1 DEF Research!Attempt, Research!RecordReceipt, Research!Outcomes
  <2>2. ASSUME Research!RecordObservation(k) PROVE Later
    BY <2>2, CensusAssumption DEF Research!Attempt, Research!RecordObservation
  <2>3. ASSUME NEW c \in CampaignCursors, Research!CheckpointCursor(k, c) PROVE Later
    BY <2>3 DEF Research!Attempt, Research!CheckpointCursor
  <2> QED
    BY <1>3, <2>1, <2>2, <2>3 DEF Research!Evidence
<1>4. Later
  <2>1. CASE UNCHANGED research
    BY <2>1, <1>1
  <2>2. CASE \E k \in Attempts, wave \in CampaignWaves : Research!BeginNew(k, wave)
    BY <2>2, <1>2
  <2>3. CASE \E k \in Attempts : Research!Evidence(k)
    BY <2>3, <1>3
  <2> QED
    BY <2>1, <2>2, <2>3 DEF CensusNext, censusVars, BeginAttempt, RecordEvidence,
       Research!EvidenceStep, StartRecollection, PrepareIdentity, PrepareCertification,
       RegisterIdentity, AdmitCertification, RefuseCall
<1>5. ASSUME NEW f \in Identities, Linked(f) PROVE Linked(f)'
  <2>1. f.attempt \in Attempts /\ f.observation \in Nat
    BY CensusAssumption
  <2> QED
    BY <1>4, <1>5, <2>1 DEF Linked, Research!Attempt
<1> QED
  BY <1>4, <1>5

\* An identity that is registered adds one name and one observation.
LEMMA IdentityAdded ==
  ASSUME CensusKept, NEW w \in calls, RegisterIdentity(w)
  PROVE  /\ IsFiniteSet(census')
         /\ \A i, j \in census' : i.key = j.key => i = j
         /\ \A i, j \in census' :
               <<i.attempt, i.observation>> = <<j.attempt, j.observation>> => i = j
         /\ \A i \in census' : i \in Identities /\ Linked(i)
         /\ calls' \subseteq calls /\ census \subseteq census'
<1>1. /\ census' = census \cup {w.form} /\ calls' = calls \ {w}
      /\ w.form \in Identities /\ Linked(w.form) /\ IdentityFresh(w.form)
  BY DEF RegisterIdentity, CensusKept
<1>2. IsFiniteSet(census')
  BY <1>1, FS_AddElement DEF CensusKept
<1>3. \A i, j \in census' : i.key = j.key => i = j
  BY <1>1 DEF IdentityFresh, CensusKept
<1>4. \A i, j \in census' : <<i.attempt, i.observation>> = <<j.attempt, j.observation>> => i = j
  BY <1>1 DEF IdentityFresh, CensusKept
<1> QED
  BY <1>1, <1>2, <1>3, <1>4 DEF CensusKept

\* A certificate is admitted of the census as it is in the transaction.
LEMMA CertificateAdded ==
  ASSUME CensusKept, NEW w \in calls, AdmitCertification(w)
  PROVE  /\ \A t \in certified' : t \in certified \/ Certified(t)
         /\ calls' \subseteq calls /\ census' = census /\ recollection' = recollection
<1> DEFINE t == [form |-> w.form, members |-> w.members]
<1>1. /\ certified' = certified \cup {t} /\ calls' = calls \ {w}
      /\ census' = census /\ recollection' = recollection
      /\ Certifiable(w)
  BY DEF AdmitCertification
<1>2. Certified(t)
  BY <1>1 DEF Certifiable, Certified, IndependentCertifier, CensusVerifies, RecollectionVerifies
<1> HIDE DEF t
<1> QED
  BY <1>1, <1>2

\* A call under way has found the campaign bound, and an identity its evidence.
LEMMA CallPrepared ==
  ASSUME CensusKept,
         \/ \E f \in Identities : PrepareIdentity(f)
         \/ \E f \in Certifications : PrepareCertification(f)
  PROVE  /\ recollection # {} /\ UNCHANGED <<census, certified, recollection>>
         /\ \A w \in calls' : w.kind = "IDENTITY" => w.form \in Identities /\ Linked(w.form)
<1>1. ASSUME NEW f \in Identities, PrepareIdentity(f)
      PROVE  /\ recollection # {} /\ UNCHANGED <<census, certified, recollection>>
             /\ \A w \in calls' : w.kind = "IDENTITY" => w.form \in Identities /\ Linked(w.form)
  <2> DEFINE new == [kind |-> "IDENTITY", form |-> f, members |-> {}]
  <2>1. calls' = calls \cup {new} /\ new.form = f /\ Linked(f)
        /\ recollection # {} /\ UNCHANGED <<census, certified, recollection>>
    BY <1>1 DEF PrepareIdentity, RecollectionVerifies, count
  <2> HIDE DEF new
  <2> QED
    BY <2>1 DEF CensusKept
<1>2. ASSUME NEW f \in Certifications, PrepareCertification(f)
      PROVE  /\ recollection # {} /\ UNCHANGED <<census, certified, recollection>>
             /\ \A w \in calls' : w.kind = "IDENTITY" => w.form \in Identities /\ Linked(w.form)
  <2> DEFINE new == [kind |-> "CERTIFICATE", form |-> f, members |-> census]
  <2>1. calls' = calls \cup {new} /\ new.kind # "IDENTITY"
        /\ recollection # {} /\ UNCHANGED <<census, certified, recollection>>
    BY <1>2 DEF PrepareCertification, Certifiable, CensusVerifies, RecollectionVerifies, count
  <2> HIDE DEF new
  <2> QED
    BY <2>1 DEF CensusKept
<1> QED
  BY <1>1, <1>2

\* What was certified stays certified when the census grows.
LEMMA CertifiedStays ==
  ASSUME NEW t, Certified(t), census \subseteq census', recollection' = recollection
  PROVE  Certified(t)'
  BY DEF Certified, IndependentCertifier

LEMMA CensusStep ==
  ASSUME CensusInv, [CensusNext]_censusVars
  PROVE  CensusInv'
<1> USE DEF CensusInv
<1>1. /\ research' \in [Attempts -> Research!Attempt]
      /\ \A f \in Identities : Linked(f) => Linked(f)'
  BY LinkedStays DEF CensusKept
<1>2. ASSUME UNCHANGED <<census, certified, recollection>>, calls' \subseteq calls
      PROVE  CensusInv'
  <2>1. CensusKept'
    BY <1>1, <1>2 DEF CensusKept, Research!Attempt
  <2>2. \A t \in certified' : Certified(t)'
    BY <1>2, CertifiedStays
  <2> QED
    BY <2>1, <2>2
<1>3. ASSUME NEW f \in Recollections, StartRecollection(f) PROVE CensusInv'
  <2>1. /\ recollection = {} /\ recollection' = {f}
        /\ UNCHANGED <<census, certified, calls>>
    BY <1>3 DEF StartRecollection
  <2>2. certified' = {}
    BY <2>1 DEF Certified
  <2>3. CensusKept'
    BY <1>1, <2>1 DEF CensusKept, Research!Attempt
  <2> QED
    BY <2>2, <2>3
<1>4. CASE \/ \E f \in Identities : PrepareIdentity(f)
           \/ \E f \in Certifications : PrepareCertification(f)
  <2>1. /\ recollection # {} /\ UNCHANGED <<census, certified, recollection>>
        /\ \A w \in calls' : w.kind = "IDENTITY" => w.form \in Identities /\ Linked(w.form)
    BY <1>4, CallPrepared
  <2>2. CensusKept'
    BY <1>1, <2>1 DEF CensusKept, Research!Attempt
  <2>3. \A t \in certified' : Certified(t)'
    BY <2>1, CertifiedStays
  <2> QED
    BY <2>2, <2>3
<1>5. ASSUME NEW w \in calls, RegisterIdentity(w) PROVE CensusInv'
  <2>1. UNCHANGED <<recollection, certified>>
    BY <1>5 DEF RegisterIdentity
  <2>2. CensusKept'
    BY <1>1, <1>5, <2>1, IdentityAdded DEF CensusKept, Research!Attempt
  <2>3. \A t \in certified' : Certified(t)'
    BY <1>5, <2>1, IdentityAdded, CertifiedStays
  <2> QED
    BY <2>2, <2>3
<1>6. ASSUME NEW w \in calls, AdmitCertification(w) PROVE CensusInv'
  <2>1. /\ \A t \in certified' : t \in certified \/ Certified(t)
        /\ calls' \subseteq calls /\ census' = census /\ recollection' = recollection
    BY <1>6, CertificateAdded
  <2>2. CensusKept'
    BY <1>1, <2>1 DEF CensusKept, Research!Attempt
  <2>3. \A t \in certified' : Certified(t)'
    BY <2>1, CertifiedStays
  <2> QED
    BY <2>2, <2>3
<1> QED
  BY <1>2, <1>3, <1>4, <1>5, <1>6 DEF CensusNext, BeginAttempt, RecordEvidence, RefuseCall,
     censusVars, count

\* As many things as there are under different names.
LEMMA Distinct ==
  ASSUME NEW M, IsFiniteSet(M), NEW F, \A x, y \in M : F[x] = F[y] => x = y
  PROVE  Cardinality({F[x] : x \in M}) = Cardinality(M)
<1> DEFINE T == {F[x] : x \in M}
           g == [x \in M |-> F[x]]
<1>1. g \in [M -> T]
  OBVIOUS
<1>2. \A x, y \in M : g[x] = g[y] => x = y
  OBVIOUS
<1>3. \A y \in T : \E x \in M : g[x] = y
  OBVIOUS
<1>4. g \in Bijection(M, T)
  BY <1>1, <1>2, <1>3 DEF Bijection, Injection, Surjection, IsInjective
<1>5. ExistsBijection(M, T)
  BY <1>4 DEF ExistsBijection
<1> HIDE DEF T, g
<1>6. Cardinality(T) = Cardinality(M)
  BY <1>5, FS_Bijection
<1> QED
  BY <1>6 DEF T

\* A certificate counts Target different names and observations, for any census,
\* any number of calls under way and any Target, and verifies with the campaign.
THEOREM CertificatesStand == CensusSpec => []CertificatesStandWithTheCampaign
<1>1. CensusInit => CensusInv
  <2> SUFFICES ASSUME CensusInit PROVE CensusInv
    OBVIOUS
  <2>1. research \in [Attempts -> Research!Attempt]
    <3>1. Research!NotBegun \in Research!Attempt
      BY CensusAssumption DEF Research!NotBegun, Research!Attempt
    <3> QED
      BY <3>1 DEF CensusInit, Research!CampaignInit
  <2>2. IsFiniteSet(census)
    BY FS_EmptySet DEF CensusInit
  <2> QED
    BY <2>1, <2>2 DEF CensusInit, CensusInv, CensusKept
<1>2. CensusInv => CertificatesStandWithTheCampaign
  <2> SUFFICES ASSUME CensusInv, NEW t \in certified
               PROVE  /\ Cardinality({i.key : i \in t.members}) >= Target
                      /\ Cardinality({<<i.attempt, i.observation>> : i \in t.members}) >= Target
                      /\ \A r \in recollection, i \in t.members : t.form.certifier \notin {r.by, i.by}
                      /\ CertificateVerifies(t) <=> (Research!CampaignClean /\ backdated = {})
    BY DEF CertificatesStandWithTheCampaign
  <2>1. /\ t.members \subseteq census /\ Cardinality(t.members) >= Target
        /\ IndependentCertifier(t) /\ recollection # {}
    BY DEF CensusInv, Certified
  <2>2. IsFiniteSet(t.members)
    BY <2>1, FS_Subset DEF CensusInv, CensusKept
  <2> DEFINE K == [i \in t.members |-> i.key]
             O == [i \in t.members |-> <<i.attempt, i.observation>>]
  <2>3. Cardinality({i.key : i \in t.members}) >= Target
    <3>1. \A i, j \in t.members : K[i] = K[j] => i = j
      BY <2>1 DEF CensusInv, CensusKept
    <3>2. {K[i] : i \in t.members} = {i.key : i \in t.members}
      OBVIOUS
    <3> HIDE DEF K
    <3>3. Cardinality({K[i] : i \in t.members}) = Cardinality(t.members)
      BY <2>2, <3>1, Distinct
    <3> QED
      BY <2>1, <3>2, <3>3
  <2>4. Cardinality({<<i.attempt, i.observation>> : i \in t.members}) >= Target
    <3>1. \A i, j \in t.members : O[i] = O[j] => i = j
      BY <2>1 DEF CensusInv, CensusKept
    <3>2. {O[i] : i \in t.members} = {<<i.attempt, i.observation>> : i \in t.members}
      OBVIOUS
    <3> HIDE DEF O
    <3>3. Cardinality({O[i] : i \in t.members}) = Cardinality(t.members)
      BY <2>2, <3>1, Distinct
    <3> QED
      BY <2>1, <3>2, <3>3
  <2>5. \A r \in recollection, i \in t.members : t.form.certifier \notin {r.by, i.by}
    BY <2>1 DEF IndependentCertifier
  <2>6. CertificateVerifies(t) <=> (Research!CampaignClean /\ backdated = {})
    BY <2>1 DEF CertificateVerifies, CensusVerifies, RecollectionVerifies, CensusInv, CensusKept
  <2> QED
    BY <2>3, <2>4, <2>5, <2>6
<1> QED
  BY <1>1, <1>2, CensusStep, PTL DEF CensusSpec

-----------------------------------------------------------------------------
(* External evidence and release candidates                                *)

\* A subject has one testimony of a kind, a version one assessment, and that
\* verifies.
ReleaseInv ==
    /\ today \in Nat /\ \A r \in testified : r.form \in Testimonies
    /\ \A r, s \in testified :
          r.form.kind = s.form.kind /\ r.form.subject = s.form.subject => r = s
    /\ \A a, b \in assessed : a.form.version = b.form.version => a = b
    /\ \A a \in assessed : CandidacyVerifies(a)

\* Each table grows by a row whose keys are free, or not at all.
LEMMA ReleaseSteps ==
  ASSUME [ReleaseNext]_release
  PROVE  /\ \/ testified' = testified
            \/ \E r : /\ testified' = testified \cup {r}
                      /\ r.form \in Testimonies /\ TestimonyFresh(r.form)
         /\ \/ assessed' = assessed
            \/ \E a : /\ assessed' = assessed \cup {a}
                      /\ CandidacyFresh(a.form) /\ CandidacyVerifies(a)
<1>1. ASSUME NEW by, NEW at, NEW f \in Testimonies, AdmitTestimony(f, by, at)
      PROVE  /\ assessed' = assessed
             /\ \E r : /\ testified' = testified \cup {r}
                       /\ r.form \in Testimonies /\ TestimonyFresh(r.form)
  <2>1. PICK r : r = [form |-> f, by |-> by, at |-> at]
    OBVIOUS
  <2>2. r.form = f /\ testified' = testified \cup {r} /\ TestimonyFresh(f) /\ assessed' = assessed
    BY <1>1, <2>1 DEF AdmitTestimony
  <2> QED
    BY <2>2
<1>2. ASSUME NEW by, NEW at, NEW f, AssessCandidate(f, by, at)
      PROVE  /\ testified' = testified
             /\ \E a : /\ assessed' = assessed \cup {a}
                       /\ CandidacyFresh(a.form) /\ CandidacyVerifies(a)
  <2>1. PICK verdict : verdict = Derived(f)
    OBVIOUS
  <2>2. PICK a : a = [form |-> f, by |-> by, at |-> at, verdict |-> verdict]
    OBVIOUS
  <2>3. a.form = f /\ a.by = by /\ a.at = at /\ a.verdict = verdict
    BY <2>2
  <2>4. /\ assessed' = assessed \cup {a} /\ testified' = testified
        /\ CandidacyFresh(f) /\ CandidacyStands(f, by, at)
    BY <1>2, <2>1, <2>2 DEF AssessCandidate
  <2> QED
    BY <2>1, <2>3, <2>4 DEF CandidacyVerifies
<1> QED
  BY <1>1, <1>2 DEF ReleaseNext, NextDay, release

LEMMA ReleaseInvStep ==
  ASSUME ReleaseInv, [ReleaseNext]_release
  PROVE  ReleaseInv'
<1>1. \A r, s \in testified' :
         r.form.kind = s.form.kind /\ r.form.subject = s.form.subject => r = s
  BY ReleaseSteps DEF ReleaseInv, TestimonyFresh
<1>2. \A a, b \in assessed' : a.form.version = b.form.version => a = b
  BY ReleaseSteps DEF ReleaseInv, CandidacyFresh
<1>3. \A a \in assessed' : CandidacyVerifies(a)
  BY ReleaseSteps DEF ReleaseInv
<1>4. \A a : CandidacyVerifies(a)' = CandidacyVerifies(a)
  BY DEF CandidacyVerifies, CandidacyStands, Derived
<1>5. today' \in Nat /\ \A r \in testified' : r.form \in Testimonies
  <2>1. today' \in {today, today + 1}
    BY DEF ReleaseNext, NextDay, AdmitTestimony, AssessCandidate, release
  <2> QED
    BY <2>1, ReleaseSteps DEF ReleaseInv
<1> QED
  BY <1>1, <1>2, <1>3, <1>4, <1>5 DEF ReleaseInv

\* Neither a lapsed testimony nor a verdict is ever replaced, for any payloads,
\* admitters and dates they give.
THEOREM LapsedStaysLapsed == ReleaseSpec => NothingIsRenewed
<1> DEFINE Kept ==
        /\ \A r \in testified, s \in testified' :
              /\ s.form.kind = r.form.kind /\ s.form.subject = r.form.subject
              /\ r.form.until < today
              => ~TestimonyVerifies(s, today)
        /\ \A k \in Categories, d \in Days : Proven(k, d) => Proven(k, d)'
        /\ \A a \in assessed, b \in assessed' :
              a.form.version = b.form.version
              => b.verdict = a.verdict /\ CandidacyVerifies(b)
<1>1. ReleaseInit => ReleaseInv
  BY DEF ReleaseInit, ReleaseInv
<1>2. ASSUME ReleaseInv, ReleaseInv', [ReleaseNext]_release PROVE Kept
  <2>1. testified \subseteq testified' /\ assessed \subseteq assessed'
    BY <1>2, ReleaseSteps
  <2>2. \A r \in testified, s \in testified' :
           s.form.kind = r.form.kind /\ s.form.subject = r.form.subject => s = r
    BY <1>2, <2>1 DEF ReleaseInv
  <2>3. \A a \in assessed, b \in assessed' : a.form.version = b.form.version => b = a
    BY <1>2, <2>1 DEF ReleaseInv
  <2>4. \A k \in Categories, d \in Days : Proven(k, d) => Proven(k, d)'
    BY <2>1 DEF Proven, TestimonyVerifies, Parses
  <2>5. \A r \in testified : r.form.until < today => ~TestimonyVerifies(r, today)
    BY <1>2, ReleaseAssumption DEF ReleaseInv, TestimonyVerifies
  <2>6. \A a \in assessed : CandidacyVerifies(a)
    BY <1>2 DEF ReleaseInv
  <2> QED
    BY <2>2, <2>3, <2>4, <2>5, <2>6
<1> HIDE DEF Kept
<1>3. ReleaseInv /\ [ReleaseNext]_release => ReleaseInv'
  BY ReleaseInvStep
<1>4. ReleaseInv /\ ReleaseInv' /\ [ReleaseNext]_release => [Kept]_release
  BY <1>2
<1>5. ReleaseSpec => [][Kept]_release
  BY <1>1, <1>3, <1>4, PTL DEF ReleaseSpec
<1> QED
  BY <1>5 DEF NothingIsRenewed, Kept
=============================================================================
