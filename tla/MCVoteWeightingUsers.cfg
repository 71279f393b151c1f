CONSTANTS
    NumUsers = 2
    NumNominees = 1
    WEEK = 2
    WEIGHT_VOTE_DELAY = 3
    MAX_NUM_WEEKS = 2
    MAX_WEIGHT = 2
    Slopes = {1, 2}
    LockEnds = {8, 12}
    Removable = {}
    StartTime = 4
    MaxTime = 9
    NumWeeks = 6
SPECIFICATION Spec
INVARIANTS ChangesExact WeightExact
