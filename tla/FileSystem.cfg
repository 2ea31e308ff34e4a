CONSTANTS Part = {"tree", "paths", "handles", "mounts"}
Name = {"a", "b"}  BadName = {".", ".."}  MaxInode = 6  Thread = {t1, t2}
Requests <- MCRequests
Handle = {h1, h2}  Readable = {h1}  Writable = {h1, h2}
Appending = {h2}  Positioned = TRUE  MaxSize = 3
\* One caller: open and rename do not change the table.
Caller = {"caller"}  Fs = {root, dev}  RootFs = root  MAX_MOUNTS = 3
SPECIFICATION FileSystemSpec
INVARIANTS TreeWellFormed
  ExclusiveOpensDiffer StablePathsResolve SharedOffsetExact PathsPickTheirMount MadeWhereNamed
PROPERTY ImplementsNamespace
SYMMETRY ThreadSymmetry
CHECK_DEADLOCK FALSE
