CONSTANTS
    NumUsers = 1
    NumNominees = 2
    WEEK = 2
    WEIGHT_VOTE_DELAY = 3
    MAX_NUM_WEEKS = 4
    MAX_WEIGHT = 2
    Slopes = {2}
    LockEnds = {6, 10}
    Removable = {1}
    StartTime = 3
    MaxTime = 9
    NumWeeks = 6
SPECIFICATION Spec
INVARIANTS RelativeWeightAtMostOne
