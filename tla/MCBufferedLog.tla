---------------------------- MODULE MCBufferedLog ----------------------------
(* Model values and bounds for checking BufferedLog with TLC.             *)
EXTENDS BufferedLog

CONSTANTS r, c1, t1

MCSpans == {r, c1}
MCTimerProcs == {t1}

=============================================================================
