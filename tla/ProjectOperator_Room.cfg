\* Two projects that need next to nothing, and room for one.
SPECIFICATION LiveSpec
CONSTANTS
    a = a
    b = b
    Projects <- TwoProjects
    Scenarios <- OnlySmall
    MaxTotalProjects = 1
    MaxGen = 1
    MaxKeys = 1
    MaxFaults = 0
CHECK_DEADLOCK FALSE
PROPERTY RoomIsUsed
