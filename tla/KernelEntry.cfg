CONSTANTS
  Part = {"locks", "syscall"}
  Task = {idle, a, b}  IdleTask = idle
  Thread = {t1, t2}
  WORD = 4096  USER_VA_MAX = 2048  I32_MAX = 1023
  KERNEL_RSP = 20
SPECIFICATION MCSpec
INVARIANTS NotReentered FlagsTransparent UserContextPreserved ArgumentsArrive OnlyUserRangesAccepted
CHECK_DEADLOCK FALSE
