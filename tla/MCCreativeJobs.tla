--------------------------- MODULE MCCreativeJobs ---------------------------
(***************************************************************************)
(* One creative job and its decision for TLC: requested, leased, replayed. *)
(***************************************************************************)
EXTENDS CreativeJobs

MCJobs == {[id |-> "j1", key |-> "ik1", digest |-> "g1", by |-> "ops"]}

MCDecisions == {[id |-> "d1", subject |-> "ops", action |-> "creative.job.request",
                 object |-> "j1", terms |-> <<"g1">>]}

MCNames == {"j1", "ik1", "g1", "d1"}

\* Nobody consumes decisions in the shared table here: creative_jobs itself keeps
\* a decision from being used again.
ReplaySpec ==
    JobInit /\ ConsumedInit /\ [][JobNext /\ UNCHANGED consumed]_<<jobVars, consumed>>
=============================================================================
