CONSTANTS Task = {idle, a, b}  IdleTask = idle
SPECIFICATION Spec
INVARIANT TickDoesNotSelfDeadlock
CHECK_DEADLOCK FALSE
