\* Authority: one mission pair, three decisions, a run that is paused and
\* resumed.  Proof: a claim about one of two missions, three people, two pieces
\* of evidence, and a mission that may use the certificate.  A mission that ended
\* and spent decisions leave nothing to do.
CONSTANTS
    Requests <- MCRequests
    Rules <- MCRules
    Grants <- MCGrants
    Times = {0, 1}
    MaxDecisions = 3
    Claims = {"c1"}
    bo = bo
    cy = cy
    Actors = {"ana", bo, cy}
    Subjects = {"m1", "m2"}
    Missions = {"m1", "m2"}
    Evidence = {"e1", "e2"}
    MaxMoves = 5
SYMMETRY People
CONSTRAINT OneHalf
SPECIFICATION Spec
INVARIANTS SensitiveMovesAreAuthorized GrantSpentOnce JournalTellsTheState
    CertificatesStayValid SuccessIsProved
PROPERTIES DenyOnlyDrains
CHECK_DEADLOCK FALSE
