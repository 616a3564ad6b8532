----------------------------- MODULE MCServices -----------------------------
(***************************************************************************)
(* The services that stand beside one another in the program.  They share  *)
(* no row but those of consumed, which other operations never take from    *)
(* them (their kinds and actions differ), so that a behaviour of this      *)
(* instance belongs to one of them: products of their states are left out. *)
(***************************************************************************)
EXTENDS ArchitectureLine, Deployment, CreativeJobs, Cockpit, Census, ReleaseEvidence, TLC

Decision(id, subject, action, object, terms) ==
    [id |-> id, subject |-> subject, action |-> action, object |-> object, terms |-> terms]

-----------------------------------------------------------------------------
(* The line of C4: two laboratory runs, r1 and r2, each with a candidate,  *)
(* an evaluation, a decision, an adoption and an execution.  Input i1      *)
(* freezes x1, input i2 both; the candidates over them claim architecture  *)
(* A.  Evidence e2 may come for run r1 at any time.                        *)

MCCertificates == {[id |-> t, certifier |-> "cert"] : t \in {"t1", "t2"}}
MCLabs == {[id |-> l, by |-> "ana"] : l \in {"l1", "l2"}}

Artifact(id, lab, kind) == [id |-> id, lab |-> lab, kind |-> kind, by |-> "ana", early |-> FALSE]

MCArtifacts ==
    {Artifact("c1", "l1", "CANDIDATE"), Artifact("e1", "l1", "EVALUATION"),
     Artifact("e2", "l1", "EVALUATION"),
     Artifact("c2", "l2", "CANDIDATE"), Artifact("e3", "l2", "EVALUATION")}

MCStarts == {[id |-> "r1", lab |-> "l1", certificate |-> "t1", by |-> "ops"],
             [id |-> "r2", lab |-> "l2", certificate |-> "t2", by |-> "ops"]}

MCVerdicts ==
    {[id |-> "v1", run |-> "r1", selected |-> {"c1"}, maker |-> "maker", by |-> "root"],
     [id |-> "v2", run |-> "r2", selected |-> {"c2"}, maker |-> "maker", by |-> "root"]}

MCAdoptions == {[id |-> "a1", run |-> "r1", rollback |-> "rb", by |-> "ops"],
                [id |-> "a2", run |-> "r2", rollback |-> "rb", by |-> "ops"]}
MCRequests == {[id |-> "x1", adoption |-> "a1", plan |-> "ep", by |-> "req"],
               [id |-> "x2", adoption |-> "a2", plan |-> "ep", by |-> "req"]}
MCEndings == {"SUCCEEDED", "ROLLBACK_FAILED"}
MCCallers == {"m"}

MCInputSets == {[id |-> "i1", executions |-> <<"x1">>, by |-> "frz"],
                [id |-> "i2", executions |-> <<"x1", "x2">>, by |-> "frz"]}

MCStages == {"ANALYSE", "APPLY"}

\* One component, bound to a port that serves both stages.
Manifest(name, execution, artifact, evidence) ==
    [name |-> name, architecture |-> "A",
     adrs |-> {[owner |-> "own", ports |-> {"port"}, evidence |-> evidence]},
     ports |-> [port |-> [owner |-> "own", capability |-> "cap", tests |-> {"test"}]],
     fabric |-> [s \in MCStages |-> {"port"}],
     bindings |-> {[execution |-> execution, artifact |-> artifact, ports |-> {"port"},
                    capabilities |-> {"cap"}]},
     tests |-> [s \in MCStages |-> {"test"}]]

\* g3 passes the component of another run off as that of x1.
MCDesigns ==
    {[id |-> "g1", input |-> "i1", by |-> "cand", manifest |-> Manifest("m1", "x1", "c1", {"x1"})],
     [id |-> "g2", input |-> "i2", by |-> "cand",
      manifest |-> Manifest("m2", "x1", "c1", {"x1", "x2"})],
     [id |-> "g3", input |-> "i1", by |-> "cand", manifest |-> Manifest("m3", "x1", "c2", {"x1"})]}

\* Nobody accepts a key of their own; cand has a key, and candidates to review.
MCReviewerKeys ==
    {[key |-> "k1", pem |-> "pem1", reviewer |-> "rev", by |-> "root"],
     [key |-> "k2", pem |-> "pem2", reviewer |-> "cand", by |-> "root"]}

Opinion(id, candidate, manifest, signer, reviewer, verdict) ==
    [id |-> id, candidate |-> candidate, manifest |-> manifest, signer |-> signer,
     reviewer |-> reviewer, excluded |-> {"frz", "cand", "req"},
     failed |-> verdict # "ACCEPTED", findings |-> verdict # "ACCEPTED", verdict |-> verdict]

MCOpinions ==
    {Opinion("o1", "g1", "m1", "pem1", "rev", "ACCEPTED"),
     Opinion("o2", "g1", "m1", "pem1", "rev", "REWORK_REQUIRED"),
     Opinion("o3", "g2", "m2", "pem1", "rev", "ACCEPTED"),
     Opinion("o4", "g1", "m1", "pem2", "cand", "ACCEPTED"),
     Opinion("o5", "g3", "m3", "pem1", "rev", "ACCEPTED"),
     [Opinion("o6", "g1", "m1", "pem1", "rev", "REJECTED") EXCEPT !.findings = FALSE]}

MCPublishings ==
    {[id |-> "q1", candidate |-> "g1", review |-> "o1", by |-> "pub"],
     [id |-> "q2", candidate |-> "g2", review |-> "o3", by |-> "pub"],
     [id |-> "q3", candidate |-> "g1", review |-> "o4", by |-> "pub"],
     [id |-> "q4", candidate |-> "g3", review |-> "o5", by |-> "pub"]}

LineDecisions ==
    {Decision("d1", "ops", "c3.adoption.authorize", "c1", <<"v1", "rb">>),
     Decision("d2", "ops", "c3.adoption.authorize", "c2", <<"v2", "rb">>),
     Decision("d3", "req", "c3.adoption.execute", "c1", <<"x1", "a1", "ep">>),
     Decision("d4", "req", "c3.adoption.execute", "c2", <<"x2", "a2", "ep">>),
     Decision("d5", "frz", "c4.architecture-input.freeze", "i1", <<"x1", "SUCCEEDED">>),
     Decision("d6", "frz", "c4.architecture-input.freeze", "i2",
              <<"x1", "x2", "SUCCEEDED", "FAILED_NO_EFFECT">>)}
    \cup {Decision(f.id, "cand", "c4.architecture-candidate.create", f.id, DesignTerms(f))
            : f \in MCDesigns}
    \cup {Decision(f.key, "root", "c4.architecture-reviewer.accept", f.key,
                   <<f.pem, f.reviewer>>) : f \in MCReviewerKeys}
    \cup {Decision(f.id, "pub", "c4.architecture.publish", f.id,
                   <<f.candidate, f.review>>) : f \in MCPublishings}

\* The second run comes after the first, the line after both.
InOrder ==
    /\ (\E l \in labs : l.id = "l2")
          => \E e \in executions : e.status \in Eligible /\ e.outbox # "OPEN"
    /\ reviewers # {} => inputs # {}

-----------------------------------------------------------------------------
(* The census: observation 1 of attempt k1 is given two names, and cert,   *)
(* who wants to certify the count, has counted one identity.               *)

Identity(id, key, attempt, observation, by) ==
    [id |-> id, key |-> key, attempt |-> attempt, observation |-> observation, by |-> by]

MCIdentities ==
    {Identity("n1", "alpha", "k1", 1, "cen"), Identity("n2", "beta", "k1", 2, "cen"),
     Identity("n3", "beta", "k1", 1, "cen"), Identity("n4", "gamma", "k2", 1, "cert")}
MCRecollections == {[id |-> "rc", by |-> "ops"]}
MCCertifications == {[id |-> "s1", certifier |-> "cert"], [id |-> "s2", certifier |-> "ops"],
                    [id |-> "s3", certifier |-> "aud"]}

-----------------------------------------------------------------------------
(* Deployment: two nodes want the same id, two the same key, and n2 lacks  *)
(* the memory that b1 needs.  Decisions are there for every pair.          *)

MCBundles ==
    {[id |-> b, manifest |-> m, platform |-> "LINUX", needs |-> [memory |-> 2],
      gpus |-> {"none"}, offline |-> TRUE, by |-> "ops"] : b \in {"b1"}, m \in {"bm1", "bm2"}}

MCNodes ==
    {[id |-> n[1], digest |-> n[2], key |-> n[3], platform |-> "LINUX", has |-> [memory |-> n[4]],
      gpu |-> "none", offline |-> TRUE, by |-> "ops"]
        : n \in {<<"n1", "nd1", "pk1", 2>>, <<"n1", "nd2", "pk2", 3>>, <<"n2", "nd3", "pk1", 1>>,
                 <<"n3", "nd4", "pk3", 2>>}}

MCAssignments ==
    {[id |-> a, bundle |-> "b1", node |-> n, by |-> "ops"] : a \in {"as1", "as2"},
                                                            n \in {"n1", "n2"}}

FabricDecisions ==
    {Decision("seal" \o f.manifest, "ops", "deployment.bundle.seal", f.id, <<f.manifest>>)
        : f \in MCBundles}
    \cup {Decision("enrol" \o f.digest, "ops", "deployment.node.enroll", f.id, <<f.digest, f.key>>)
            : f \in MCNodes}
    \cup {Decision("assign" \o a \o b.manifest \o n.digest, "ops",
                   "deployment.assignment.authorize", a, PairTerms(b, n))
            : a \in {"as1", "as2"}, b \in MCBundles,
              n \in {x \in MCNodes : x.id # "n3"}}

-----------------------------------------------------------------------------
(* Creative jobs: the first two share an idempotency key; an outsider      *)
(* enqueues effects under their ids, with the payload of the job or not.   *)

MCJobs ==
    {[id |-> j[1], key |-> j[2], digest |-> j[3], by |-> "ops"]
        : j \in {<<"j1", "ik1", "jd1">>, <<"j2", "ik1", "jd2">>, <<"j3", "ik2", "jd3">>}}
MCPosts ==
    {[id |-> p[1], digest |-> p[2], by |-> p[3]]
        : p \in {<<"j1", "jd1", "ana">>, <<"j1", "jd1", "ops">>, <<"j1", "other", "ana">>,
                 <<"j3", "jd3", "ana">>}}

JobDecisions ==
    {Decision("job" \o f.id, "ops", "creative.job.request", f.id, <<f.digest>>) : f \in MCJobs}

-----------------------------------------------------------------------------
(* The cockpit: one long and one short session, and a command of each.     *)

MCViews == {[id |-> "w1", digest |-> "wd1", by |-> "ops"], [id |-> "w2", digest |-> "wd2", by |-> "ops"]}
MCSessions ==
    {[id |-> "se1", subject |-> "ana", token |-> "tok1", csrf |-> "cs1", expires |-> 1],
     [id |-> "se2", subject |-> "ops", token |-> "tok2", csrf |-> "cs2", expires |-> 3]}
MCCommands ==
    {[id |-> k[1], session |-> k[2], snapshot |-> k[3], what |-> "START"]
        : k \in {<<"k1", "se1", "w1">>, <<"k2", "se2", "w1">>, <<"k2", "se2", "w2">>}}

CommandDecisions ==
    {Decision("cmd1", "ana", "cockpit.command.authorize", "k1",
              <<"se1", "ana", "w1", "wd1", "START">>),
     Decision("cmd2", "ops", "cockpit.command.authorize", "k2",
              <<"se2", "ops", "w1", "wd1", "START">>),
     Decision("cmd3", "ops", "cockpit.command.authorize", "k1",
              <<"se1", "ana", "w1", "wd1", "START">>)}

-----------------------------------------------------------------------------
(* Evidence of a release: two testimonies about one deployment, of which   *)
(* the first lapses, one about another; of version v1 an assessment that   *)
(* waits for evidence and one that has it, of v2 one with a failed gate.   *)

MCCategories == {"REAL_DEPLOYMENT", "COMPONENT_ADOPTION"}

Testimony(id, kind, subject, captured, until) ==
    [id |-> id, kind |-> kind, subject |-> subject, operator |-> "ops", reviewer |-> "rev",
     captured |-> captured, until |-> until]
MCTestimonies ==
    {Testimony("xe1", "REAL_DEPLOYMENT", "site1", 0, 0),
     Testimony("xe2", "REAL_DEPLOYMENT", "site1", 1, 2),
     Testimony("xe3", "REAL_DEPLOYMENT", "site2", 0, 1),
     Testimony("xe4", "COMPONENT_ADOPTION", "site1", 0, 2),
     [Testimony("xe5", "COMPONENT_ADOPTION", "site3", 0, 2) EXCEPT !.reviewer = "ops"]}

Candidacy(id, version, proven, gates) ==
    [id |-> id, version |-> version, proven |-> proven, gates |-> gates,
     statuses |-> {"PROVEN"}, benchmarks |-> {TRUE}, attacks |-> {"PASS"},
     assessor |-> "ana", reviewer |-> "rev", assessed |-> 0, reviewed |-> 1]
MCCandidacies ==
    {Candidacy("rc1", "v1", {}, {"PASS"}), Candidacy("rc2", "v1", MCCategories, {"PASS"}),
     Candidacy("rc3", "v2", MCCategories, {"PASS", "FAIL"})}

-----------------------------------------------------------------------------
(* All of them                                                             *)

MCDecisions == LineDecisions \cup FabricDecisions \cup JobDecisions \cup CommandDecisions

MCActors == {"ana", "ops", "cert", "cen", "maker", "root", "req", "frz", "cand", "rev", "pub"}
MCNames ==
    {d.id : d \in MCDecisions} \cup {d.object : d \in MCDecisions}
    \cup UNION {{d.terms[k] : k \in DOMAIN d.terms} : d \in MCDecisions}
    \cup MCActors
    \cup {"r1", "r2", "l1", "l2", "t1", "t2", "e1", "e2", "e3"}
    \cup UNION {{r.id, r.candidate, r.manifest, r.signer} : r \in MCOpinions}
    \cup {"LINUX", "none", "ik1", "ik2", "other", "w2", "wd2", "k2", "n3", "tok1", "tok2", "cs1", "cs2"}

\* A service works while no other has begun.
Alone(k) ==
    LET begun == <<labs # {} \/ reviewers # {}, fabric # <<{}, {}, {}>>,
                   jobs # {} \/ \E j \in JobIds : phase[j] # "NONE",
                   now > 0 \/ snapshots # {} \/ sessions # {},
                   recollection # {} \/ \E a \in Attempts : research[a].wave # 0,
                   release # <<0, {}, {}>>>>
    IN \A i \in 1..6 : begun[i] => i = k

ServicesInit == LineInit /\ FabricInit /\ JobInit /\ CockpitInit /\ CensusInit /\ ReleaseInit

ServicesNext ==
    \/ Alone(1) /\ LineNext /\ UNCHANGED <<fabric, jobVars, cockpit, censusVars, release>>
    \/ Alone(2) /\ FabricNext /\ UNCHANGED <<qualified, call, line, jobVars, cockpit, censusVars, release>>
    \/ Alone(3) /\ JobNext /\ UNCHANGED <<lineVars, fabric, cockpit, censusVars, release>>
    \/ Alone(4) /\ CockpitNext /\ UNCHANGED <<lineVars, fabric, jobVars, censusVars, release>>
    \/ Alone(5) /\ CensusNext /\ UNCHANGED <<lineVars, fabric, jobVars, cockpit, release>>
    \/ Alone(6) /\ ReleaseNext /\ UNCHANGED <<lineVars, fabric, jobVars, cockpit, censusVars>>

ServicesSpec ==
    ServicesInit /\ [][ServicesNext]_<<lineVars, fabric, jobVars, cockpit, censusVars, release>>

\* The line begins with the laboratories in order, and who posts a command cites
\* a decision about it.
Focus ==
    /\ InOrder
    /\ \A c \in Clients :
          posting[c].stage # "NONE" => posting[c].decision.object = posting[c].form.id
=============================================================================
