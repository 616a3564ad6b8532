SYMMETRY Processes
SPECIFICATION Spec
CONSTANTS
    Actors <- MCActors
    Names <- MCNames
    Decisions <- MCDecisions
    Certificates <- MCCertificates
    Labs <- MCLabs
    Artifacts <- MCArtifacts
    Starts <- MCStarts
    Verdicts <- MCVerdicts
    Adoptions <- MCAdoptions
    Requests <- MCRequests
    Endings <- MCEndings
    m = m
    n = n
    Callers <- MCCallers
    Baselines <- MCBaselines
    Plans <- MCPlans
    Assessments <- MCAssessments
    Packs <- MCPacks
    Related <- MCRelated
INVARIANTS
    SeparatedDuties
    NoSecondOpinion
    PackCurrency
PROPERTY VerifiesUntilStale
CONSTRAINT SecondRunFirst
\* Every document of the instance admitted, or refused for good: work ends.
CHECK_DEADLOCK FALSE
