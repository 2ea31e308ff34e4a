CONSTANTS Server = {s1, s2}  QUEUE_SIZE = 2  IdxMod = 4  MaxMessages = 4
Devices <- AllDevices
SPECIFICATION FairSpec
INVARIANTS OneOutstanding RepliesOnceInOrder
PROPERTY RegistrationAnswered
CHECK_DEADLOCK FALSE
