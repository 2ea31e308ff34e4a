CONSTANTS Part = {"paging"}
BITMAP_WORDS = 2  WordBits = 3  FrameSize = 2
Thread = {t1, t2}  Levels = 3  Index = {0, 1}  UserFlag = {FALSE, TRUE}
Page <- MCPagesUser
MemoryMaps <- MCMaps
Boot = t1  Handoffs <- MCHandoffs  HeapRegions <- MCHeapRegions
HEAP_SIZE = 96  PAGE_SIZE = 32  HEADER = 16  ALIGN = 8  MaxLive = 6
SPECIFICATION MemorySpec
INVARIANT UserMappingsReachable
CHECK_DEADLOCK FALSE
