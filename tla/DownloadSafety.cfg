SPECIFICATION FairSpec
CONSTANTS
    Sources = {linux, darwin}
    Total = 3
    Parallel = 2
    RetryLimit = 2
    WrongAnswers = TRUE
    Cut = Cut
    Wrong = Wrong
    None = None
INVARIANTS TypeOK SavedIsWhole OkIsComplete 
PROPERTIES  RunEnds
