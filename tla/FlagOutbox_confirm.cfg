SPECIFICATION Spec
CONSTANTS
    MaxUid = 1
    LastUid = 1
    FlagChunk = 1
    Flag = {"seen"}
    Req = {r1}
    MaxAttempts = 2
    MaxChanges = 2
    MaxRemote = 0
    MaxFaults = 0
PROPERTY ConfirmedBeforeRemoval
