SPECIFICATION GmFairSpec
CONSTANTS
    MaxMsg = 3
    PageSize = 2
    MaxPages = 2
    MaxLabelings = 1
    MaxExpired = 0
    MaxFaults = 0
PROPERTY DiscoversAll
