\* Liveness of the End-triggered flush: r and one child c1, one timerFlush
\* goroutine.  Log lines are left out (they only arm the timer, which the
\* safety run covers) and only the child writes data.
CONSTANTS
    r = r
    c1 = c1
    t1 = t1
    Spans <- MCSpans
    Root = r
    TimerProcs <- MCTimerProcs
    DataWriters = {c1}
    IndexWriters = {}
    MaxWrites = 1
    MaxIndex = 0
    MaxLines = 0

SPECIFICATION Spec
PROPERTY EndFlushesEverything
PROPERTY FlushReturns
