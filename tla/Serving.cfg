SPECIFICATION Spec
CONSTANTS
    decision = decision
    stuck = stuck
    None = None
    Requests = {decision, stuck}
    Operation <- MCOperation
    Scripts <- MCScripts
    Hangs = {stuck}
    Probes = {probe}
    Dependencies = {"postgres", "redis"}
    PoolSize = 2
INVARIANTS TypeOK  AnswersDeclared CleanExit
PROPERTIES AllAnswered Stops
CHECK_DEADLOCK FALSE
