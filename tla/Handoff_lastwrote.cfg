CONSTANTS MaxLevel = 1  MaxStamp = 5
SPECIFICATION Spec
INVARIANT RunsWhatSafeModeLastWrote
