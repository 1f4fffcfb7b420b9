CONSTANTS
    Names <- MCNames
    Svcs <- MCSvcs
    Ops <- MCOps
    Modules <- MCModules
    SvcOps <- MCSvcOps
    ModOps <- MCModOps
    ModHandlers <- MCModHandlers
    SystemNames <- MCSystemNames
    OptionalNames <- NoNames
    Rules <- MCRules
    Dispatchers <- MCDispatchers
    MaxCalls = 4
SPECIFICATION Spec
INVARIANT GlobalEngagementReachesAll
