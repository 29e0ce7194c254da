CONSTANTS
    g1 = g1
    g2 = g2
    k1 = k1
    v1 = v1
    v2 = v2
    Goroutines <- MCGoroutines
    Keys <- MCKeys
    Values <- MCValues
    MaxTime = 2
    MaxCalls = 3
SYMMETRY Symmetry
SPECIFICATION Spec
INVARIANT MetadataEventsAgree
