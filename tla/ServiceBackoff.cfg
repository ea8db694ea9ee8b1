CONSTANT MAX_EXPONENT = 1023
SPECIFICATION Spec
INVARIANT ErrorsNeverEndLoop
CHECK_DEADLOCK FALSE
