------------------------ MODULE MCAdoptionExecution ------------------------
(***************************************************************************)
(* Small instances of AdoptionExecution for TLC and its liveness.          *)
(***************************************************************************)
EXTENDS AdoptionExecution

\* A worker process that is up takes its next step, some worker keeps asking
\* for work, and somebody keeps recovering leases whose worker is gone.
FairSpec == /\ Init /\ [][Next]_vars
            /\ \A w \in Workers : WF_vars(WorkerStep(w))
            /\ \A e \in Executions : /\ WF_vars(\E w \in Workers : Claim(w, e))
                                     /\ WF_vars(Recover({e}))

\* Every requested execution ends, and its effect is settled with it.
EveryRequestEnds ==
    \A e \in Executions :
        Current(e) = "REQUESTED" ~> Current(e) \in Terminal /\ phase[e] = "SUCCEEDED"
=============================================================================
