CONSTANTS MaxLevel = 1  MaxStamp = 1  MaxCommits = 3
SPECIFICATION Spec
INVARIANT CommitIsMigrated
