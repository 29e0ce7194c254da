---------------------------- MODULE TestLogger ----------------------------
(***************************************************************************)
(* The test logger backend (src/xoptest/testlogger.go) used concurrently  *)
(* by several goroutines: two requests in two traces and a child span of  *)
(* the first, log lines, Done, Flush and span metadata.                    *)
(*                                                                         *)
(* Each critical section under TestLogger.lock or Span.lock blocks on      *)
(* nothing and touches only what those locks protect, so it is one step;   *)
(* so is each atomic store to Span.EndTime. Callers take their timestamp   *)
(* before the call: a call's t is a clock reading up to now and no      *)
(* older than the goroutine's previous one. The short   *)
(* name "T<traceNum>.<spanCount>" is the pair <<traceNum, spanCount>>.     *)
(***************************************************************************)
EXTENDS Integers, Sequences, FiniteSets

CONSTANTS
    Goroutines, \* goroutines using the logger
    Keys,       \* single-valued metadata attributes
    Values,     \* metadata values
    MaxTime,    \* last clock reading
    MaxCalls    \* calls per goroutine

(* r1 and its child c1 belong to one trace, r2 to another. *)
Requests == {"r1", "r2"}
Spans == Requests \cup {"c1"}
TraceOf == [r1 |-> "A", c1 |-> "A", r2 |-> "B"]
Traces == {"A", "B"}
None == "none"
Unseen == [spanCount |-> 0, traceNum |-> 0]   \* no traceMap entry
NoShort == <<0, 0>>                           \* short not yet set

VARIABLES
    pc,         \* goroutine -> the step of its current call
    arg,        \* goroutine -> arguments of its current call
    calls,      \* goroutine -> calls made so far
    lastT,      \* goroutine -> the timestamp of its latest call
    now,        \* the clock that time.Now() reads
    traceCount, \* TestLogger.traceCount
    traceMap,   \* TestLogger.traceMap: trace -> [spanCount, traceNum], or Unseen
    short,      \* Span.short, NoShort until the span is created
    endTime,    \* Span.EndTime
    metadata,   \* Span.Metadata: span -> key -> value
    events,     \* TestLogger.Events
    doneMax     \* largest t of a Done call that has returned, per span

vars == <<pc, arg, calls, lastT, now, traceCount, traceMap, short, endTime, metadata,
          events, doneMax>>

NoArg == [span |-> "r1", t |-> 0, key |-> None, val |-> None]

Created == {s \in Spans : short[s] # NoShort}

Init ==
    /\ pc = [g \in Goroutines |-> "idle"]
    /\ arg = [g \in Goroutines |-> NoArg]
    /\ calls = [g \in Goroutines |-> 0]
    /\ lastT = [g \in Goroutines |-> 0]
    /\ now = 0
    /\ traceCount = 0
    /\ traceMap = [tr \in Traces |-> Unseen]
    /\ short = [s \in Spans |-> NoShort]
    /\ endTime = [s \in Spans |-> 0]
    /\ metadata = [s \in Spans |-> [k \in Keys |-> None]]
    /\ events = <<>>
    /\ doneMax = [s \in Spans |-> 0]

Mx(a, b) == IF a >= b THEN a ELSE b

Begin(g) == pc[g] = "idle" /\ calls[g] < MaxCalls /\ calls' = [calls EXCEPT ![g] = @ + 1]

Event(type, s, k) == [type |-> type, span |-> s, key |-> k]

(* Time passes. *)
Tick == now < MaxTime /\ now' = now + 1 /\ UNCHANGED <<pc, arg, calls, lastT, traceCount,
            traceMap, short, endTime, metadata, events, doneMax>>

(* setShort, called with the logger lock held: a span of a known trace    *)
(* takes the trace's next span number; the first span of a trace opens a  *)
(* new trace number.                                                       *)
SetShort(s) ==
    LET tr == TraceOf[s] IN
    IF traceMap[tr] # Unseen
    THEN /\ traceMap' = [traceMap EXCEPT ![tr].spanCount = @ + 1]
         /\ short' = [short EXCEPT ![s] = <<traceMap[tr].traceNum, traceMap[tr].spanCount + 1>>]
         /\ UNCHANGED traceCount
    ELSE /\ traceCount' = traceCount + 1
         /\ traceMap' = [traceMap EXCEPT ![tr] = [spanCount |-> 1, traceNum |-> traceCount + 1]]
         /\ short' = [short EXCEPT ![s] = <<traceCount + 1, 1>>]

(* TestLogger.Request: under the logger lock, the span is named, recorded *)
(* and its RequestStart event appended.                                    *)
Request(g, s) ==
    /\ Begin(g) /\ s \in Requests /\ s \notin Created
    /\ SetShort(s)
    /\ events' = Append(events, Event("requestStart", s, None))
    /\ UNCHANGED <<lastT, pc, arg, now, endTime, metadata, doneMax>>

(* Span.Span: under the logger lock and the parent's lock, the child is   *)
(* named, recorded and its SpanStart event appended.                       *)
Span(g) ==
    /\ Begin(g) /\ "r1" \in Created /\ "c1" \notin Created
    /\ SetShort("c1")
    /\ events' = Append(events, Event("spanStart", "c1", None))
    /\ UNCHANGED <<lastT, pc, arg, now, endTime, metadata, doneMax>>

(* Span.Done(t): atomic.StoreInt64 of t into EndTime. *)
DoneStore(g, s, t) ==
    /\ Begin(g) /\ s \in Created
    /\ endTime' = [endTime EXCEPT ![s] = t]
    /\ arg' = [arg EXCEPT ![g] = [NoArg EXCEPT !.span = s, !.t = t]]
    /\ pc' = [pc EXCEPT ![g] = "done_event"]
    /\ lastT' = [lastT EXCEPT ![g] = t]
    /\ UNCHANGED <<now, traceCount, traceMap, short, metadata, events, doneMax>>

(* Then, under the logger lock, the RequestDone or SpanDone event; Done   *)
(* returns.                                                                *)
DoneEvent(g) ==
    /\ pc[g] = "done_event"
    /\ LET s == arg[g].span IN
       /\ events' = Append(events, Event(IF s \in Requests THEN "requestDone"
                                                           ELSE "spanDone", s, None))
       /\ doneMax' = [doneMax EXCEPT ![s] = Mx(@, arg[g].t)]
    /\ pc' = [pc EXCEPT ![g] = "idle"]
    /\ arg' = [arg EXCEPT ![g] = NoArg]
    /\ UNCHANGED <<calls, lastT, now, traceCount, traceMap, short, endTime, metadata>>

(* Span.Flush: a FlushEvent under the logger lock. *)
Flush(g, s) ==
    /\ Begin(g) /\ s \in Created
    /\ events' = Append(events, Event("flush", s, None))
    /\ UNCHANGED <<lastT, pc, arg, now, traceCount, traceMap, short, endTime, metadata, doneMax>>

(* Prefilled.Line(level, t): atomic.StoreInt64 of the line's t into       *)
(* EndTime; the line is then built and its Msg or Template call sends it. *)
LineStart(g, s, t) ==
    /\ Begin(g) /\ s \in Created
    /\ endTime' = [endTime EXCEPT ![s] = t]
    /\ arg' = [arg EXCEPT ![g] = [NoArg EXCEPT !.span = s, !.t = t]]
    /\ pc' = [pc EXCEPT ![g] = "line_send"]
    /\ lastT' = [lastT EXCEPT ![g] = t]
    /\ UNCHANGED <<now, traceCount, traceMap, short, metadata, events, doneMax>>

(* Line.send: the text goes to testing.T, then under the logger lock and  *)
(* the span's lock the line is appended to Lines, Events and Span.Lines.  *)
LineSend(g) ==
    /\ pc[g] = "line_send"
    /\ events' = Append(events, Event("line", arg[g].span, None))
    /\ pc' = [pc EXCEPT ![g] = "idle"]
    /\ arg' = [arg EXCEPT ![g] = NoArg]
    /\ UNCHANGED <<calls, lastT, now, traceCount, traceMap, short, endTime, metadata, doneMax>>

(* Span.Metadata<Type>, first critical section: under the logger lock,    *)
(* the MetadataSet event, which names the key but not the value.          *)
MetadataEvent(g, s, k, v) ==
    /\ Begin(g) /\ s \in Created
    /\ events' = Append(events, Event("metadata", s, k))
    /\ arg' = [arg EXCEPT ![g] = [span |-> s, t |-> 0, key |-> k, val |-> v]]
    /\ pc' = [pc EXCEPT ![g] = "meta_apply"]
    /\ UNCHANGED <<lastT, now, traceCount, traceMap, short, endTime, metadata, doneMax>>

(* Second critical section, under the span's lock: the value is stored.   *)
MetadataApply(g) ==
    /\ pc[g] = "meta_apply"
    /\ metadata' = [metadata EXCEPT ![arg[g].span][arg[g].key] = arg[g].val]
    /\ pc' = [pc EXCEPT ![g] = "idle"]
    /\ arg' = [arg EXCEPT ![g] = NoArg]
    /\ UNCHANGED <<calls, lastT, now, traceCount, traceMap, short, endTime, events, doneMax>>

(* CustomEvent: an event with a message and no span, under the logger    *)
(* lock.                                                                   *)
CustomEvent(g) ==
    /\ Begin(g)
    /\ events' = Append(events, Event("custom", None, None))
    /\ UNCHANGED <<lastT, pc, arg, now, traceCount, traceMap, short, endTime, metadata, doneMax>>

Finished == \A g \in Goroutines : pc[g] = "idle" /\ calls[g] = MaxCalls

Terminated == Finished /\ UNCHANGED vars

Next ==
    \/ Tick
    \/ \E g \in Goroutines :
          \/ Span(g) \/ CustomEvent(g) \/ DoneEvent(g) \/ LineSend(g) \/ MetadataApply(g)
          \/ \E s \in Spans :
                \/ Request(g, s) \/ Flush(g, s)
                \/ \E t \in lastT[g]..now : DoneStore(g, s, t) \/ LineStart(g, s, t)
                \/ \E k \in Keys, v \in Values : MetadataEvent(g, s, k, v)
    \/ Terminated

Spec == Init /\ [][Next]_vars

-----------------------------------------------------------------------------
(* Properties *)

TypeOK ==
    /\ pc \in [Goroutines -> {"idle", "done_event", "line_send", "meta_apply"}]
    /\ calls \in [Goroutines -> 0..MaxCalls]
    /\ now \in 0..MaxTime
    /\ traceCount \in 0..Cardinality(Traces)
    /\ endTime \in [Spans -> 0..MaxTime]
    /\ metadata \in [Spans -> [Keys -> Values \cup {None}]]

(* Once Done(t) has returned, the span's EndTime is at least t, whatever  *)
(* Done and Line calls with older timestamps run concurrently.            *)
EndTimeCoversDone == \A s \in Spans : endTime[s] >= doneMax[s]
=============================================================================
