SPECIFICATION FairSpec
CONSTANTS
    MaxUid = 2
    LastUid = 1
    FlagChunk = 1
    Flag = {"seen"}
    Req = {r1}
    MaxAttempts = 2
    MaxChanges = 1
    MaxRemote = 1
    MaxFaults = 1
PROPERTY Converges
