SPECIFICATION FairSpec
CONSTANTS
    Worker <- FiveCustom
    CustomRole <- FiveCustom
    MaxOpen = 5
    MaxReads = 1
    c1 = c1
    c2 = c2
    c3 = c3
    c4 = c4
    c5 = c5
PROPERTIES
    RequestsFinish
CHECK_DEADLOCK FALSE
