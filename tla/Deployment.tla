----------------------------- MODULE Deployment -----------------------------
(***************************************************************************)
(* deployment.py: sealed bundles, enrolled nodes, and assignments of a     *)
(* bundle to a node, none of which deploys anything.  Each is authorized   *)
(* by a decision of its own, consumed in the table it shares with the      *)
(* continuity kernel and the lines of C3 and C4.                           *)
(*                                                                         *)
(* Rows are never updated or deleted, there is no way to retire a node or  *)
(* a bundle.  What an operation reads before its transaction can therefore *)
(* not change in between, and each operation is one action; a replay that  *)
(* returns the row is no step.                                             *)
(***************************************************************************)
EXTENDS ConsumedDecisions

CONSTANTS Resources,    \* cpu_cores, memory_mb, storage_mb
          Bundles,      \* forms of seal_bundle
          Nodes,        \* forms of enroll_node
          Assignments   \* forms of authorize_assignment

\* manifest and digest stand for the whole bundle or node; gpus: the equipment
\* that meets the bundle's GPU requirement; offline: offline_capability of a
\* bundle, offline_mode of a node.
ASSUME DeploymentAssumption ==
    /\ Bundles \subseteq [id : Names, manifest : Names, platform : Names,
                          needs : [Resources -> Nat], gpus : SUBSET Names,
                          offline : BOOLEAN, by : Actors]
    /\ Nodes \subseteq [id : Names, digest : Names, key : Names, platform : Names,
                        has : [Resources -> Nat], gpu : Names,
                        offline : BOOLEAN, by : Actors]
    /\ Assignments \subseteq [id : Names, bundle : Names, node : Names, by : Actors]

VARIABLES bundles,      \* deployment_bundles
          nodes,        \* deployment_nodes
          assignments   \* deployment_assignments

fabric == <<bundles, nodes, assignments>>
fabricVars == <<fabric, consumed>>

-----------------------------------------------------------------------------
(* Bundles and nodes                                                       *)

BundleAuthorized(f, d) ==
    AuthorizesExactly(d, f.by, "deployment.bundle.seal", f.id, <<f.manifest>>)

\* seal_bundle
SealBundle(f, d) ==
    /\ \A b \in bundles : b.form.id # f.id /\ b.form.manifest # f.manifest
    /\ BundleAuthorized(f, d)
    /\ Consume(d, "DEPLOYMENT_BUNDLE_SEAL", f.id, f.by)
    /\ bundles' = bundles \cup {[form |-> f, decision |-> d]}
    /\ UNCHANGED <<nodes, assignments>>

\* _bundle_verification_defects finds none.
BundleVerifies(b) ==
    /\ BundleAuthorized(b.form, b.decision)
    /\ Use(b.decision, "DEPLOYMENT_BUNDLE_SEAL", b.form.id, b.form.by) \in consumed

NodeAuthorized(f, d) ==
    AuthorizesExactly(d, f.by, "deployment.node.enroll", f.id, <<f.digest, f.key>>)

\* enroll_node: a public key belongs to one node.
EnrollNode(f, d) ==
    /\ \A n \in nodes : n.form.id # f.id /\ n.form.key # f.key /\ n.form.digest # f.digest
    /\ NodeAuthorized(f, d)
    /\ Consume(d, "DEPLOYMENT_NODE_ENROLL", f.id, f.by)
    /\ nodes' = nodes \cup {[form |-> f, decision |-> d]}
    /\ UNCHANGED <<bundles, assignments>>

\* _node_verification_defects finds none.
NodeVerifies(n) ==
    /\ NodeAuthorized(n.form, n.decision)
    /\ Use(n.decision, "DEPLOYMENT_NODE_ENROLL", n.form.id, n.form.by) \in consumed

-----------------------------------------------------------------------------
(* Assignments                                                             *)

\* _compatibility_defects finds none.
Compatible(b, n) ==
    /\ b.platform = n.platform
    /\ \A r \in Resources : n.has[r] >= b.needs[r]
    /\ n.gpu \in b.gpus
    /\ b.offline => n.offline

\* The context of the decision: the last two make up compatibility_digest.
PairTerms(b, n) == <<b.id, n.id, n.key, b.manifest, n.digest>>

\* What prepare_assignment and the verification ask of the pair and the decision.
AssignmentStands(f, d) ==
    \E b \in bundles, n \in nodes :
        /\ b.form.id = f.bundle /\ BundleVerifies(b)
        /\ n.form.id = f.node /\ NodeVerifies(n)
        /\ Compatible(b.form, n.form)
        /\ AuthorizesExactly(d, f.by, "deployment.assignment.authorize", f.id,
                             PairTerms(b.form, n.form))

\* authorize_assignment
AuthorizeAssignment(f, d) ==
    /\ \A a \in assignments : a.form.id # f.id
    /\ AssignmentStands(f, d)
    /\ Consume(d, "DEPLOYMENT_ASSIGNMENT_AUTHORIZE", f.id, f.by)
    /\ assignments' = assignments \cup {[form |-> f, decision |-> d]}
    /\ UNCHANGED <<bundles, nodes>>

\* _assignment_verification_defects finds none.
AssignmentVerifies(a) ==
    /\ AssignmentStands(a.form, a.decision)
    /\ Use(a.decision, "DEPLOYMENT_ASSIGNMENT_AUTHORIZE", a.form.id, a.form.by) \in consumed

FabricInit == bundles = {} /\ nodes = {} /\ assignments = {}

FabricNext ==
    \/ \E f \in Bundles, d \in Decisions : SealBundle(f, d)
    \/ \E f \in Nodes, d \in Decisions : EnrollNode(f, d)
    \/ \E f \in Assignments, d \in Decisions : AuthorizeAssignment(f, d)

FabricSpec == FabricInit /\ ConsumedInit /\ [][FabricNext]_fabricVars

-----------------------------------------------------------------------------
(* Properties                                                              *)

\* An assignment pairs the very bundle and node its decision was made about,
\* whatever was sealed or enrolled under their ids since, and they fit: the node
\* has the key the decision names, no other node has it, and nothing that fits
\* the decision was assigned before.
AssignedAsDecided ==
    \A a \in assignments :
        /\ AssignmentVerifies(a)
        /\ \E b \in bundles, n \in nodes :
              /\ a.decision.terms = PairTerms(b.form, n.form)
              /\ Compatible(b.form, n.form)
              /\ \A o \in nodes : o.form.key = n.form.key => o = n
        /\ \A o \in assignments : o.decision = a.decision => o = a
=============================================================================
