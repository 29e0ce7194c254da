----------------------------- MODULE Recorder -----------------------------
(***************************************************************************)
(* The in-memory recorder backend (src/xoprecorder/recorder.go) used      *)
(* concurrently by several goroutines: a request and one child span, log  *)
(* lines, Done, Flush and span metadata.                                   *)
(*                                                                         *)
(* Every critical section under Logger.lock (and, nested in it, Span.lock) *)
(* touches only state those locks protect and blocks on nothing, so each   *)
(* is one step. The atomic max operations on EndTime and                   *)
(* provisionalEndTime are one step each. SpanMetadata (a type outside this *)
(* repository) is taken to apply a value atomically. Callers take their   *)
(* timestamp (time.Now()) before the call: a call's t is a clock reading *)
(* up to now, no older than the goroutine's previous one, so one goroutine's timestamp may be older than      *)
(* another's by the time it is used.                                      *)
(***************************************************************************)
EXTENDS Integers, Sequences, FiniteSets

CONSTANTS
    Goroutines, \* goroutines using the logger
    Keys,       \* single-valued metadata attributes
    Values,     \* metadata values
    MaxTime,    \* last clock reading
    MaxCalls    \* calls per goroutine

Spans == {"request", "child"}
None == "none"

VARIABLES
    pc,          \* goroutine -> the step of its current call
    arg,         \* goroutine -> arguments of its current call
    calls,       \* goroutine -> calls made so far
    lastT,       \* goroutine -> the timestamp of its latest call
    now,         \* the clock that time.Now() reads
    created,     \* spans returned by Request and Span
    provisional, \* Span.provisionalEndTime
    endTime,     \* Span.EndTime
    metadata,    \* Span.SpanMetadata: span -> key -> value
    events,      \* Logger.Events
    doneMax      \* per span, the latest time a returned Done call had seen
                 \* when it began: its own t and the t of every line
                 \* folded into provisionalEndTime before it

vars == <<pc, arg, calls, lastT, now, created, provisional, endTime, metadata,
          events, doneMax>>

NoArg == [span |-> "request", t |-> 0, key |-> None, val |-> None]

Init ==
    /\ pc = [g \in Goroutines |-> "idle"]
    /\ arg = [g \in Goroutines |-> NoArg]
    /\ calls = [g \in Goroutines |-> 0]
    /\ lastT = [g \in Goroutines |-> 0]
    /\ now = 0
    /\ created = {}
    /\ provisional = [s \in Spans |-> 0]
    /\ endTime = [s \in Spans |-> 0]
    /\ metadata = [s \in Spans |-> [k \in Keys |-> None]]
    /\ events = <<>>
    /\ doneMax = [s \in Spans |-> 0]

Mx(a, b) == IF a >= b THEN a ELSE b

(* xoputil.AtomicMaxInt64 on the word of span s: raise it to v if it is   *)
(* smaller. (Its result, the value it then holds, is Mx(word[s], v).)     *)
AtomicMax(word, s, v) == [word EXCEPT ![s] = Mx(@, v)]

(* A goroutine starts a call on the logger. *)
Begin(g) == pc[g] = "idle" /\ calls[g] < MaxCalls /\ calls' = [calls EXCEPT ![g] = @ + 1]

Event(type, s, k, v) == [type |-> type, span |-> s, key |-> k, val |-> v]

(* Time passes. *)
Tick == now < MaxTime /\ now' = now + 1 /\ UNCHANGED <<pc, arg, calls, lastT, created,
            provisional, endTime, metadata, events, doneMax>>

(* Logger.Request: under the logger lock, the span is numbered            *)
(* (setRequestNumber; RequestNum is left out, no property reads it),      *)
(* recorded and its RequestStart event appended.                          *)
Request(g) ==
    /\ Begin(g) /\ "request" \notin created
    /\ created' = created \cup {"request"}
    /\ events' = Append(events, Event("requestStart", "request", None, None))
    /\ UNCHANGED <<lastT, pc, arg, now, provisional, endTime, metadata, doneMax>>

(* Span.Span: under the logger lock and the parent's lock, the child is   *)
(* numbered from its parent, recorded, and its SpanStart event appended.  *)
Span(g) ==
    /\ Begin(g) /\ "request" \in created /\ "child" \notin created
    /\ created' = created \cup {"child"}
    /\ events' = Append(events, Event("spanStart", "child", None, None))
    /\ UNCHANGED <<lastT, pc, arg, now, provisional, endTime, metadata, doneMax>>

DoneProvisionalAdd(g, s, t) ==
    /\ Begin(g) /\ s \in created
    /\ provisional' = [provisional EXCEPT ![s] = @ + t]
    /\ arg' = [arg EXCEPT ![g] = [span |-> s, t |-> t,
                                  key |-> None, val |-> provisional[s] + t]]
    /\ pc' = [pc EXCEPT ![g] = "done_end"]
    /\ lastT' = [lastT EXCEPT ![g] = t]
    /\ UNCHANGED <<now, created, endTime, metadata, events, doneMax>>

DoneProvisionalIgnoreResult(g, s, t) ==
    /\ Begin(g) /\ s \in created
    /\ provisional' = AtomicMax(provisional, s, t)
    /\ arg' = [arg EXCEPT ![g] = [span |-> s, t |-> Mx(provisional[s], t),
                                  key |-> None, val |-> t]]
    /\ pc' = [pc EXCEPT ![g] = "done_end"]
    /\ lastT' = [lastT EXCEPT ![g] = t]
    /\ UNCHANGED <<now, created, endTime, metadata, events, doneMax>>

(* Span.Done(t, final), first step: the inner AtomicMaxInt64 on           *)
(* provisionalEndTime, whose result the outer one will use.                *)
DoneProvisional(g, s, t) ==
    /\ Begin(g) /\ s \in created
    /\ provisional' = AtomicMax(provisional, s, t)
    /\ arg' = [arg EXCEPT ![g] = [span |-> s, t |-> Mx(provisional[s], t),
                                  key |-> None, val |-> Mx(provisional[s], t)]]
    /\ pc' = [pc EXCEPT ![g] = "done_end"]
    /\ lastT' = [lastT EXCEPT ![g] = t]
    /\ UNCHANGED <<now, created, endTime, metadata, events, doneMax>>

(* The outer AtomicMaxInt64 on EndTime. *)
DoneEnd(g) ==
    /\ pc[g] = "done_end"
    /\ endTime' = AtomicMax(endTime, arg[g].span, arg[g].val)
    /\ pc' = [pc EXCEPT ![g] = "done_event"]
    /\ UNCHANGED <<arg, calls, lastT, now, created, provisional, metadata, events, doneMax>>

(* Under the logger lock: the RequestDone or SpanDone event; Done returns. *)
DoneEvent(g) ==
    /\ pc[g] = "done_event"
    /\ LET s == arg[g].span IN
       /\ events' = Append(events, Event(IF s = "request" THEN "requestDone"
                                                        ELSE "spanDone", s, None, None))
       /\ doneMax' = [doneMax EXCEPT ![s] = Mx(@, arg[g].t)]
    /\ pc' = [pc EXCEPT ![g] = "idle"]
    /\ arg' = [arg EXCEPT ![g] = NoArg]
    /\ UNCHANGED <<calls, lastT, now, created, provisional, endTime, metadata>>

(* Span.Flush: a FlushEvent under the logger lock. *)
Flush(g, s) ==
    /\ Begin(g) /\ s \in created
    /\ events' = Append(events, Event("flush", s, None, None))
    /\ UNCHANGED <<lastT, pc, arg, now, created, provisional, endTime, metadata, doneMax>>

(* Prefilled.Line: the line's timestamp is folded into                    *)
(* provisionalEndTime; the line is then built and its Msg, Template, Link *)
(* or Model call sends it.                                                 *)
LineStart(g, s, t) ==
    /\ Begin(g) /\ s \in created
    /\ provisional' = AtomicMax(provisional, s, t)
    /\ arg' = [arg EXCEPT ![g] = [NoArg EXCEPT !.span = s, !.t = t]]
    /\ pc' = [pc EXCEPT ![g] = "line_send"]
    /\ lastT' = [lastT EXCEPT ![g] = t]
    /\ UNCHANGED <<now, created, endTime, metadata, events, doneMax>>

(* Line.send: under the logger lock and the span's lock the line is       *)
(* appended to Logger.Lines, Logger.Events and Span.Lines.                *)
LineSend(g) ==
    /\ pc[g] = "line_send"
    /\ events' = Append(events, Event("line", arg[g].span, None, None))
    /\ pc' = [pc EXCEPT ![g] = "idle"]
    /\ arg' = [arg EXCEPT ![g] = NoArg]
    /\ UNCHANGED <<calls, lastT, now, created, provisional, endTime, metadata, doneMax>>

(* Span.Metadata<Type>, first step: SpanMetadata records the value. *)
MetadataApply(g, s, k, v) ==
    /\ Begin(g) /\ s \in created
    /\ metadata' = [metadata EXCEPT ![s][k] = v]
    /\ arg' = [arg EXCEPT ![g] = [span |-> s, t |-> 0, key |-> k, val |-> v]]
    /\ pc' = [pc EXCEPT ![g] = "meta_event"]
    /\ UNCHANGED <<lastT, now, created, provisional, endTime, events, doneMax>>

(* Then, under the logger lock, the MetadataSet event with the value. *)
MetadataEvent(g) ==
    /\ pc[g] = "meta_event"
    /\ events' = Append(events, Event("metadata", arg[g].span, arg[g].key, arg[g].val))
    /\ pc' = [pc EXCEPT ![g] = "idle"]
    /\ arg' = [arg EXCEPT ![g] = NoArg]
    /\ UNCHANGED <<calls, lastT, now, created, provisional, endTime, metadata, doneMax>>

(* CustomEvent: an event with a message and no span, under the logger    *)
(* lock.                                                                   *)
CustomEvent(g) ==
    /\ Begin(g)
    /\ events' = Append(events, Event("custom", None, None, None))
    /\ UNCHANGED <<lastT, pc, arg, now, created, provisional, endTime, metadata, doneMax>>

Finished == \A g \in Goroutines : pc[g] = "idle" /\ calls[g] = MaxCalls

Terminated == Finished /\ UNCHANGED vars

Next ==
    \/ Tick
    \/ \E g \in Goroutines :
          \/ Request(g) \/ Span(g) \/ CustomEvent(g)
          \/ DoneEnd(g) \/ DoneEvent(g) \/ LineSend(g) \/ MetadataEvent(g)
          \/ \E s \in Spans :
                \/ Flush(g, s)
                \/ \E t \in lastT[g]..now : DoneProvisional(g, s, t) \/ LineStart(g, s, t)
                \/ \E k \in Keys, v \in Values : MetadataApply(g, s, k, v)
    \/ Terminated

Spec == Init /\ [][Next]_vars

-----------------------------------------------------------------------------
(* Properties *)

TypeOK ==
    /\ pc \in [Goroutines -> {"idle", "done_end", "done_event", "line_send", "meta_event"}]
    /\ calls \in [Goroutines -> 0..MaxCalls]
    /\ now \in 0..MaxTime
    /\ created \subseteq Spans
    /\ provisional \in [Spans -> 0..MaxTime] /\ endTime \in [Spans -> 0..MaxTime]
    /\ metadata \in [Spans -> [Keys -> Values \cup {None}]]

(* Once Done(t) has returned, the span's EndTime is at least t and at     *)
(* least the timestamp of every line started on the span before the Done, *)
(* whatever Done and Line calls with older timestamps run concurrently:   *)
(* Span.Done folds provisionalEndTime into EndTime with two              *)
(* AtomicMaxInt64 calls, and neither ever lowers its word.                *)
EndTimeCoversDone == \A s \in Spans : endTime[s] >= doneMax[s]

(* A goroutine between the two steps of a Metadata call on (s, k). *)
Setting(s, k) == \E g \in Goroutines : pc[g] = "meta_event" /\ arg[g].span = s /\ arg[g].key = k

(* When no Metadata call on (s, k) is in progress, the value of the last  *)
(* MetadataSet event for (s, k) in Logger.Events is the value the span's  *)
(* SpanMetadata holds: a reader of the event log sees the span's state.   *)
MetadataEventsAgree ==
    \A s \in Spans, k \in Keys :
        LET sets == {n \in 1..Len(events) : events[n].type = "metadata"
                                           /\ events[n].span = s /\ events[n].key = k}
        IN  sets # {} /\ ~Setting(s, k) =>
                events[CHOOSE n \in sets : \A m \in sets : m <= n].val = metadata[s][k]
=============================================================================
