-------------------------- MODULE MCEvidenceChain ---------------------------
(***************************************************************************)
(* Run r1 goes all the way: candidate c1, evaluation e1, a decision, an    *)
(* adoption, an execution, baseline 5 of architecture 10, and the stages   *)
(* above.  Evidence e2 may come at any time.  Run r2 selects nothing; its  *)
(* baseline 3 claims the same architecture and comes first in order.       *)
(* Beside each proper document stands one that someone who took part       *)
(* before would sign, or that says what its contents do not.               *)
(***************************************************************************)
EXTENDS EvidenceChain, TLC

CONSTANTS m, n   \* the two processes that admit

MCActors == {"ana", "ops", "cert", "maker", "root", "arch", "arev", "plan", "prev",
             "red", "adj", "pack", "chk", "chk-2"}

MCNames == {"r1", "r2", "l1", "l2", "t1", "t2", "c1", "e1", "e2", "c2", "e3",
            "v1", "v2", "a1", "x1", "p1", "p2", "s1", "s2", "k1", "k2", "rb", "ep", "d1", "d2"}

MCDecisions ==
    {[id |-> "d1", subject |-> "ops", action |-> "c3.adoption.authorize",
      object |-> "c1", terms |-> <<"v1", "rb">>],
     [id |-> "d2", subject |-> "root", action |-> "c3.adoption.execute",
      object |-> "c1", terms |-> <<"x1", "a1", "ep">>]}

MCCertificates == {[id |-> t, certifier |-> "cert"] : t \in {"t1", "t2"}}
MCLabs == {[id |-> l, by |-> "ana"] : l \in {"l1", "l2"}}

Artifact(id, lab, kind) == [id |-> id, lab |-> lab, kind |-> kind, by |-> "ana", early |-> FALSE]

MCArtifacts ==
    {Artifact("c1", "l1", "CANDIDATE"), Artifact("e1", "l1", "EVALUATION"),
     Artifact("e2", "l1", "EVALUATION"),
     Artifact("c2", "l2", "CANDIDATE"), Artifact("e3", "l2", "EVALUATION")}

MCStarts == {[id |-> "r1", lab |-> "l1", certificate |-> "t1", by |-> "ops"],
             [id |-> "r2", lab |-> "l2", certificate |-> "t2", by |-> "ops"]}

\* ana recorded the evidence; cert signed the certificate.
MCVerdicts ==
    {[id |-> "v1", run |-> "r1", selected |-> {"c1"}, maker |-> p, by |-> "root"]
        : p \in {"maker", "ana"}}
    \cup {[id |-> "v2", run |-> "r2", selected |-> {}, maker |-> "maker", by |-> "root"]}

MCAdoptions == {[id |-> "a1", run |-> "r1", rollback |-> "rb", by |-> "ops"]}
MCRequests == {[id |-> "x1", adoption |-> "a1", plan |-> "ep", by |-> "root"]}
MCEndings == {"SUCCEEDED"}
MCCallers == {m, n}
Processes == Permutations(MCCallers)

MCBaselines ==
    {[id |-> 5, architecture |-> 10, run |-> "r1", architect |-> "arch",
      reviewer |-> q, by |-> "ops"] : q \in {"arev", "root"}}
    \cup {[id |-> 3, architecture |-> 10, run |-> "r2", architect |-> "arch",
           reviewer |-> "arev", by |-> "ops"]}

MCPlans ==
    {[id |-> p, architecture |-> 10, planner |-> "plan", reviewer |-> "prev", by |-> "ops"]
        : p \in {"p1", "p2"}}

\* Plan p1 does not pass, plan p2 of the same architecture would.
MCAssessments ==
    {[id |-> "s1", plan |-> "p1", outcomes |-> {"PASS"}, blocking |-> TRUE, verdict |-> v,
      assessor |-> "red", adjudicator |-> "adj", by |-> "ops"]
        : v \in {"PASS", "FAIL"}}
    \cup {[id |-> "s2", plan |-> "p2", outcomes |-> {"PASS"}, blocking |-> FALSE,
           verdict |-> "PASS", assessor |-> "red", adjudicator |-> "adj", by |-> "ops"]}

MCRelated == {<<"chk", "chk-2">>}

MCPacks ==
    {[id |-> k, assessment |-> s, packager |-> "pack", verifier |-> q, by |-> "ops"]
        : k \in {"k1"}, s \in {"s1", "s2"}, q \in {"chk", "adj"}}

\* Run r2 has its evidence before r1 has a laboratory: until r2 is decided, none
\* of these steps touches what a step of r1 reads.
SecondRunFirst ==
    (\E l \in labs : l.id = "l1") => {a \in MCArtifacts : a.lab = "l2"} \subseteq artifacts
=============================================================================
