CONSTANTS MaxLevel = 1  MaxStamp = 5
CONSTANTS Part = {"handoff", "terminal"}  LINE_MAX = 3  U32_MAX = 16  F32_MAX = 16
SPECIFICATION SafeModeSpec
INVARIANTS OnlyConfirmedConfigsRun AppliedIsAudited
PROPERTIES StagedChangeKept SaveIsAccepted StagedChangeTakesEffect TypedIsStored
