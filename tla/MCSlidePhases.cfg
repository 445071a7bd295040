SPECIFICATION Spec
CONSTANTS
    Participants  <- MCParticipants
    Team          <- MCTeam
    Initiative    <- MCInitiative
    Width         = 5
    MaxVitality   = 3
    Actions       <- MCActions
    Economy       = "fixed"
    Budgets       = {}
    InitialAmount <- NoCost
    ResetBoundary <- NoCost
    Allowance     = {}
    Ceiling       = 0
    Owned         <- MCOwned
    Sentries      = {}
    Registration  <- MCRegistration
    Vitality0     <- MCVitality
    Position0     <- MCPosition
    MaxRevision   = 4
    MaxEvidence   = 2
INVARIANT OnePhase
CHECK_DEADLOCK FALSE
