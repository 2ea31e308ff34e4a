CONSTANTS Thread = {t1, t2}  Handle = {h1, h2}  Readable = {}  Writable = {h1, h2}
Appending = {h1, h2}  Positioned = FALSE  MaxSize = 3
SPECIFICATION Spec
INVARIANT AppendsKept
CHECK_DEADLOCK FALSE
