\* Keys and values from two strings, lists of up to four arguments.
CONSTANTS
    Strings = {"a", "b"}
    MaxArgs = 4
    MaxCalls = 2

SPECIFICATION Spec
INVARIANT IndexHoldsEveryPair
CHECK_DEADLOCK FALSE
