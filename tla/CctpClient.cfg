SPECIFICATION Spec
CONSTANTS
    Burns = {b1, b2}
    NoBurn = NoBurn
    MaxPolls = 2
    MaxVisits = 1
INVARIANT MintedIsOurs
PROPERTIES FollowsPipeline PollEnds
CHECK_DEADLOCK FALSE
