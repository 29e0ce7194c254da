\* SpanIndex called on the child c1.
CONSTANTS
    r = r
    c1 = c1
    t1 = t1
    Spans <- MCSpans
    Root = r
    TimerProcs <- MCTimerProcs
    DataWriters = {}
    IndexWriters = {c1}
    MaxWrites = 0
    MaxIndex = 1
    MaxLines = 0

SPECIFICATION Spec
INVARIANT NoLostMutation
