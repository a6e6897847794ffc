SPECIFICATION Spec
CONSTANTS
    Sources = {linux}
    Total = 2
    Parallel = 2
    RetryLimit = 2
    WrongAnswers = FALSE
    Cut = Cut
    Wrong = Wrong
    None = None
INVARIANTS RerunRepairs
