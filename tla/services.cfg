SPECIFICATION ServicesSpec
CONSTRAINT Focus
CONSTANTS
    Actors <- MCActors
    Names <- MCNames
    Decisions <- MCDecisions
    Certificates <- MCCertificates
    Labs <- MCLabs
    Artifacts <- MCArtifacts
    Starts <- MCStarts
    Verdicts <- MCVerdicts
    Adoptions <- MCAdoptions
    Requests <- MCRequests
    Endings <- MCEndings
    Callers <- MCCallers
    InputSets <- MCInputSets
    Designs <- MCDesigns
    Stages <- MCStages
    ReviewerKeys <- MCReviewerKeys
    Opinions <- MCOpinions
    Publishings <- MCPublishings
    Attempts = {"k1", "k2"}
    CampaignWaves = {1}
    CampaignCursors = {"u1", "u2"}
    MaxSeen = 2
    Recollections <- MCRecollections
    Identities <- MCIdentities
    Certifications <- MCCertifications
    Target = 2
    MaxCalls = 2
    Resources = {"memory"}
    Bundles <- MCBundles
    Nodes <- MCNodes
    Assignments <- MCAssignments
    Jobs <- MCJobs
    Posts <- MCPosts
    Tries = 3
    Views <- MCViews
    Sessions <- MCSessions
    Commands <- MCCommands
    Clients = {"h1", "h2"}
    LastTime = 3
    Categories <- MCCategories
    Testimonies <- MCTestimonies
    Candidacies <- MCCandidacies
    Admitters = {"ops", "rev"}
    LastDay = 2
INVARIANTS
    PublishedComponentsAreAdopted
    ReviewedOnceByAStranger
    AssignedAsDecided
    CommandsOfALiveSession
    CertificatesStandWithTheCampaign
PROPERTIES
    LineVerifiesUntilStale
    JobsKeepTheirEffect
    NothingIsRenewed
CHECK_DEADLOCK FALSE
