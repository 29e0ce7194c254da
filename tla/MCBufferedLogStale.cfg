\* Staleness with nobody calling End or Flush: only the timer flushes.
CONSTANTS
    r = r
    c1 = c1
    t1 = t1
    Spans <- MCSpans
    Root = r
    TimerProcs <- MCTimerProcs
    DataWriters = {c1}
    IndexWriters = {r}
    MaxWrites = 1
    MaxIndex = 1
    MaxLines = 0

SPECIFICATION Spec
PROPERTY TimerBoundsStaleness
