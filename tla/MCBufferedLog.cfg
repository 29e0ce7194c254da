\* Safety of the dirty list: the buffer-parent r and one child c1 (forked
\* with Fork/Step or *NoWait), one timerFlush goroutine.  Every span writes
\* data once (the buffer-parent's write panics); only r calls SpanIndex.
CONSTANTS
    r = r
    c1 = c1
    t1 = t1
    Spans <- MCSpans
    Root = r
    TimerProcs <- MCTimerProcs
    DataWriters <- MCSpans
    IndexWriters = {r}
    MaxWrites = 1
    MaxIndex = 1
    MaxLines = 1

SPECIFICATION Spec
INVARIANT TypeOK
INVARIANT NoLostMutation
INVARIANT NoDuplicateDirty
INVARIANT AtMostOneRedundantWrite
