------------------------ MODULE MCResearchMarathon -------------------------
(***************************************************************************)
(* Small instances of ResearchMarathon for TLC.                            *)
(***************************************************************************)
EXTENDS ResearchMarathon, TLC

CONSTANTS outsider   \* somebody who shares the campaign

\* The request keys of the marathon and one of the outsider.
MCKeys == (Partitions \X (1..MaxAttempts)) \cup {<<outsider, 1>>}

\* Partitions, workers, coordinators and cursors are interchangeable.
Interchangeable == Permutations(Partitions) \cup Permutations(Workers)
                     \cup Permutations(Coordinators) \cup Permutations(CursorKeys)
=============================================================================
