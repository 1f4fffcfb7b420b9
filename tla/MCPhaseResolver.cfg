CONSTANTS
    Names <- MCNames
    Svcs <- MCSvcs
    Ops <- MCOps
    Modules <- MCModules
    SvcOps <- MCSvcOps
    ModOps <- MCModOps
    ModHandlers <- MCModHandlers
    SystemNames <- MCSystemNames
    OptionalNames <- MCOptionalNames
    Rules <- MCRules
    Dispatchers <- MCDispatchers
    MaxCalls = 5
SPECIFICATION Spec
INVARIANTS EngagedOpsHaveHandlers SystemHandlersPresent GlobalEngagementComplete DispatchersKept
