SPECIFICATION Spec
CONSTANTS
    Participants      <- Trio
    Team              <- TrioTeam
    Initiative        <- TrioInitiative
    Width             = 5
    EffectDefinitions <- MCEffects
    SourceDefinitions <- MCSources
    Modifiers         <- MCModifiers
    MaximumActive     = 3
    MaximumKeys       = 4
    Procedures        <- MCProcedures
    Rulesets          <- MCRulesets
    Vitality0         <- TrioVitality
    Position0         <- TrioPosition
    Resource0         <- TrioResource
    MaxRevision       = 4
INVARIANTS
    LedgerRestores
    EffectTenure
    SourceTenure
    ModifierTenure
    TurnCanEnd
PROPERTIES
    TriggersOncePerTransition
CHECK_DEADLOCK FALSE
