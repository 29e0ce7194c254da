\* Only the child c1 writes data, and no one calls SpanIndex: the
\* buffer-parent's nil map is out of reach.
CONSTANTS
    r = r
    c1 = c1
    t1 = t1
    Spans <- MCSpans
    Root = r
    TimerProcs <- MCTimerProcs
    DataWriters = {c1}
    IndexWriters = {}
    MaxWrites = 1
    MaxIndex = 0
    MaxLines = 0

SPECIFICATION Spec
INVARIANT NoPanic
