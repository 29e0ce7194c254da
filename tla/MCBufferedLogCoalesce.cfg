\* Timer coalescing: the buffer-parent r and one child c1, one timerFlush
\* goroutine; no span data, only log lines (two on r), which re-arm the
\* timer through enableFlushTimer once a timerFlush has stored 0 in
\* FlushActive.
CONSTANTS
    r = r
    c1 = c1
    t1 = t1
    Spans <- MCSpans
    Root = r
    TimerProcs <- MCTimerProcs
    DataWriters = {}
    IndexWriters = {}
    MaxWrites = 0
    MaxIndex = 0
    MaxLines = 2

SPECIFICATION Spec
INVARIANT TimerCoalesces
