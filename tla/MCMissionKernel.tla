-------------------------- MODULE MCMissionKernel --------------------------
(***************************************************************************)
(* A small instance of MissionKernel for TLC.                              *)
(***************************************************************************)
EXTENDS MissionKernel, TLC

CONSTANTS bo, cy   \* people who never ask for authority

Ask(subject, action, resource, mission) ==
    [subject |-> subject, action |-> action, resource |-> resource, mission |-> mission]

\* Ana asks for the two authorities of m1; m2 is there to be confused with it.
AnaAuthorizes == Ask("ana", "mission:authorize", "m1", "m1")
AnaRuns == Ask("ana", "mission:run", "m1", "m1")
MCRequests == {AnaAuthorizes, AnaRuns}

\* A rule that denies the run, and one that allows everything.
DenyRun == [effect |-> "DENY", scope |-> {AnaRuns}]
AllowAll == [effect |-> "ALLOW", scope |-> {AnaAuthorizes, AnaRuns}]
MCRules == {DenyRun, AllowAll}

\* A single-use grant for the run, tried before a reusable one for everything.
Once == [id |-> "once", scope |-> {AnaRuns}, expires |-> 1, single_use |-> TRUE]
Standing == [id |-> "standing", scope |-> {AnaAuthorizes, AnaRuns}, expires |-> 2,
             single_use |-> FALSE]
MCGrants == {Once, Standing}

\* Two halves of the instance that have little to do with one another.  Authority:
\* three decisions on two missions, without claims.
Authority ==
    /\ AllowAll \notin rules
    /\ claims = [c \in Claims |-> NoClaim]

\* Proof: a claim by three people, and a mission that is free to run.
Proof ==
    /\ grants = {} /\ DenyRun \notin rules
    /\ Len(decisions) <= 2 /\ Cardinality(Places) <= 4
    /\ state["m2"] = "NONE" /\ state["m1"] \notin {"CANCELLED", "PAUSED", "FAILED"}

\* Only ana moves missions, the others would do what she does without authority;
\* and m2 does not end before it begins.
OneHalf ==
    /\ Authority \/ Proof
    /\ state["m2"] # "CANCELLED"
    /\ \A p \in Places : At(p).actor = "ana"

\* They are interchangeable.
People == Permutations({bo, cy})
=============================================================================
