CONSTANTS
    algebra = algebra
    algebraTwo = algebraTwo
    physics = physics
    Courses = {algebra, algebraTwo, physics}
    PartOf <- MCPartOf
    Configs <- AnyConfig
    MaxPolls = 2
SPECIFICATION FairFlowSpec
INVARIANT FlowTypeOK
INVARIANT SuccessMeansClicked
INVARIANT LateActsBounded
PROPERTY EntersRequestedCourse
PROPERTY ClosedOnlyForCause
PROPERTY StopReleases
PROPERTY FlowComesToRest
PROPERTY ImplementsClassFlow
CHECK_DEADLOCK FALSE
