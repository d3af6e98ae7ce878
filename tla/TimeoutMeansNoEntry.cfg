CONSTANTS
    algebra = algebra
    algebraTwo = algebraTwo
    physics = physics
    Courses = {algebra, algebraTwo, physics}
    PartOf <- MCPartOf
    Configs <- AnyConfig
    MaxPolls = 2
SPECIFICATION FlowSpec
INVARIANT TimeoutMeansNoEntry
CHECK_DEADLOCK FALSE
