CONSTANTS
    u1 = u1
    u2 = u2
    Users <- TwoUsers
    Groups = {1, 2}
    group_of <- GroupPerUser
    OldGroups <- FirstGroup
    CrossRecords <- OneCrossing
    GMT_REVERS_MASK = 10
    KeepDays = 2
    LastDay = 3
    MaxLog = 1
    MaxCrashes = 1
SPECIFICATION Spec
INVARIANT CheckCoversGroups
CHECK_DEADLOCK FALSE
