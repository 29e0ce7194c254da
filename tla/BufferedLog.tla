----------------------------- MODULE BufferedLog -----------------------------
(***************************************************************************)
(* The buffered span lifecycle and flush coordinator of src/logger.go.     *)
(*                                                                         *)
(* One buffer-parent span (Root, made by Seed.Log) shares one `shared`     *)
(* struct with every span forked or stepped from it.  Each span is driven  *)
(* by its own goroutine (its owner); the flush timer runs timerFlush on    *)
(* goroutines of its own (TimerProcs).  Every Go statement that another    *)
(* goroutine can observe in between is a separate step: the atomic swaps   *)
(* on InDirty and FlushActive, the atomic adds on RefCount and             *)
(* UnflushedLogs, each acquisition of shared.DataLock, and each iteration  *)
(* of the Flush loop.  Attribute data is abstracted to a version count per *)
(* span (written), the index to the number of SpanIndex calls (indexVer), *)
(* and the backend to the last snapshot it received per span (sent).  The *)
(* list of base loggers is abstracted to one backend: the Flush loop hands *)
(* every one of them the same snapshot under the same lock.               *)
(***************************************************************************)
EXTENDS Integers, Sequences, FiniteSets, Functions

CONSTANTS
    Spans,        \* span identities; Root is the buffer-parent of Seed.Log
    Root,
    TimerProcs,   \* goroutines started by time.AfterFunc to run timerFlush
    DataWriters,  \* spans on which the application calls LocalSpanData
    IndexWriters, \* spans on which the application calls SpanIndex
    MaxWrites,    \* bound on LocalSpanData calls per span
    MaxIndex,     \* bound on SpanIndex calls
    MaxLines      \* bound on log lines per span

ASSUME Root \in Spans /\ DataWriters \subseteq Spans /\ IndexWriters \subseteq Spans

Procs == Spans \cup TimerProcs
NoProc == "none"

VARIABLES
    pc,            \* program counter of every goroutine
    ret,           \* where enableFlushTimer / Flush return to
    child,         \* the span a goroutine is creating in Fork/Step
    fi,            \* loop position of a goroutine inside Flush
    kind,          \* "root", "waited" (Fork/Step), "nowait" (*NoWait) or "none"
    ended,         \* the span's End() has been called
    refCount,      \* shared.RefCount
    inDirty,       \* local.InDirty
    dirty,         \* shared.Dirty
    lockHolder,    \* holder of shared.DataLock
    localHolder,   \* span -> holder of its local.DataLock
    flushActive,   \* shared.FlushActive
    timer,         \* shared.FlushTimer: "waiting" (armed, its delay not yet
                   \* elapsed), "due" (will fire) or "idle" (fired)
    fired,         \* automatic flushes since a flush-delay window last elapsed
    unflushedLogs, \* shared.UnflushedLogs
    written,       \* version of local.Data of each child span
    indexVer,      \* number of SpanIndex calls that modified shared.Index
    lines,         \* log lines written per span
    sent,          \* last snapshot handed to Buffered.Span per span (-1: none)
    dup,           \* consecutive resubmissions of an unchanged snapshot
    panicked       \* a goroutine panicked: the process is gone

locals  == <<ret, child, fi>>
life    == <<kind, ended, refCount>>
queue   == <<inDirty, dirty, lockHolder, localHolder>>
timing  == <<flushActive, timer, fired, unflushedLogs>>
data    == <<written, indexVer, lines>>
backend == <<sent, dup>>
vars == <<pc, locals, life, queue, timing, data, backend, panicked>>

(* The data Flush reads for a span: the buffer-parent hands over          *)
(* shared.Index and shared.Data (Seed data, never written afterwards),    *)
(* a child its local.Data.                                                *)
Snapshot(s) == IF kind[s] = "root" THEN indexVer ELSE written[s]

Goto(p, l) == pc' = [pc EXCEPT ![p] = l]
Call(p, l, r) == Goto(p, l) /\ ret' = [ret EXCEPT ![p] = r]
Return(p) == Goto(p, ret[p]) /\ ret' = [ret EXCEPT ![p] = "idle"]
Created(s) == pc[s] # "unborn"

(* Time is counted in windows of DefaultFlushDelay.  A timer armed with  *)
(* a zero delay is due at once, one armed with DefaultFlushDelay after    *)
(* the next window has elapsed.  shared.FlushDelay is never assigned:     *)
(* Seed.Log leaves it at its zero value.                                  *)
DefaultFlushDelay == 1
FlushDelay == 0
Armed(delay) == IF delay = 0 THEN "due" ELSE "waiting"

Init ==
    /\ pc = [p \in Procs |-> IF p \in TimerProcs \/ p = Root THEN "idle" ELSE "unborn"]
    /\ ret = [p \in Procs |-> "idle"]
    /\ child = [p \in Spans |-> Root]
    /\ fi = [p \in Procs |-> 1]
    \* Seed.Log: RefCount 1, the new span already in Dirty, FlushActive 1
    \* and the timer started by time.AfterFunc(DefaultFlushDelay, ...)
    /\ kind = [s \in Spans |-> IF s = Root THEN "root" ELSE "none"]
    /\ ended = [s \in Spans |-> FALSE]
    /\ refCount = 1
    /\ inDirty = [s \in Spans |-> IF s = Root THEN 1 ELSE 0]
    /\ dirty = <<Root>>
    /\ lockHolder = NoProc
    /\ localHolder = [s \in Spans |-> NoProc]
    /\ flushActive = 1
    /\ timer = Armed(DefaultFlushDelay)
    /\ fired = 0
    /\ unflushedLogs = 0
    /\ written = [s \in Spans |-> 0]
    /\ indexVer = 0
    /\ lines = [s \in Spans |-> 0]
    /\ sent = [s \in Spans |-> -1]
    /\ dup = [s \in Spans |-> 0]
    /\ panicked = FALSE

-----------------------------------------------------------------------------
(* touched(): the atomic swap of InDirty; if it was 0, the append under   *)
(* shared.DataLock and, when Dirty had been empty, enableFlushTimer while *)
(* still holding the lock.                                                *)
(* Variants of touched() that check the properties can tell a wrong      *)
(* implementation: AddInt32 in place of SwapInt32, and an append that     *)
(* ignores what the swap returned.                                        *)
TouchSwapAdd(s) ==
    /\ pc[s] = "touch_swap"
    /\ inDirty' = [inDirty EXCEPT ![s] = @ + 1]
    /\ Goto(s, IF inDirty[s] = 0 THEN "touch_append" ELSE "idle")
    /\ UNCHANGED <<locals, life, dirty, lockHolder, localHolder, timing, data, backend, panicked>>

TouchSwapUnguarded(s) ==
    /\ pc[s] = "touch_swap"
    /\ inDirty' = [inDirty EXCEPT ![s] = 1]
    /\ Goto(s, "touch_append")
    /\ UNCHANGED <<locals, life, dirty, lockHolder, localHolder, timing, data, backend, panicked>>

TouchSwap(s) ==
    /\ pc[s] = "touch_swap"
    /\ inDirty' = [inDirty EXCEPT ![s] = 1]
    /\ Goto(s, IF inDirty[s] = 0 THEN "touch_append" ELSE "idle")
    /\ UNCHANGED <<locals, life, dirty, lockHolder, localHolder, timing, data, backend, panicked>>

TouchAppend(s) ==
    /\ pc[s] = "touch_append"
    /\ lockHolder = NoProc
    /\ dirty' = Append(dirty, s)
    /\ IF Len(dirty') = 1
         THEN lockHolder' = s /\ Call(s, "enable_swap", "touch_unlock")
         ELSE UNCHANGED <<lockHolder, ret>> /\ Goto(s, "idle")
    /\ UNCHANGED <<child, fi, life, inDirty, localHolder, timing, data, backend, panicked>>

(* Variant: the deferred Unlock lost on the enableFlushTimer path.        *)
TouchUnlockKeep(s) ==
    /\ pc[s] = "touch_unlock"
    /\ Goto(s, "idle")
    /\ UNCHANGED <<locals, life, queue, timing, data, backend, panicked>>

TouchUnlock(s) ==
    /\ pc[s] = "touch_unlock"
    /\ lockHolder' = NoProc
    /\ Goto(s, "idle")
    /\ UNCHANGED <<locals, life, inDirty, dirty, localHolder, timing, data, backend, panicked>>

(* enableFlushTimer(): only the goroutine whose swap of FlushActive saw 0 *)
(* resets the timer.                                                      *)
EnableSwap(p) ==
    /\ pc[p] = "enable_swap"
    /\ flushActive' = 1
    /\ IF flushActive = 0 THEN Goto(p, "enable_reset") /\ UNCHANGED ret
                          ELSE Return(p)
    /\ UNCHANGED <<child, fi, life, queue, timer, fired, unflushedLogs, data, backend, panicked>>

EnableReset(p) ==
    /\ pc[p] = "enable_reset"
    /\ timer' = Armed(FlushDelay)
    /\ Return(p)
    /\ UNCHANGED <<child, fi, life, queue, flushActive, fired, unflushedLogs, data, backend, panicked>>

-----------------------------------------------------------------------------
(* Flush(): reset UnflushedLogs; under shared.DataLock, for each entry of *)
(* Dirty clear its InDirty, then read its data and hand it to the         *)
(* backend; truncate Dirty and unlock; then notify Buffered.Flush().      *)
FlushStart(p) ==
    /\ pc[p] = "flush_start"
    /\ unflushedLogs' = 0
    /\ Goto(p, "flush_lock")
    /\ UNCHANGED <<locals, life, queue, flushActive, timer, fired, data, backend, panicked>>

FlushLock(p) ==
    /\ pc[p] = "flush_lock"
    /\ lockHolder = NoProc
    /\ lockHolder' = p
    /\ fi' = [fi EXCEPT ![p] = 1]
    /\ Goto(p, "flush_loop")
    /\ UNCHANGED <<ret, child, life, inDirty, dirty, localHolder, timing, data, backend, panicked>>

(* Variant: the loop forgets to store 0 in InDirty.                        *)
FlushClearDirtyKeepFlag(p) ==
    /\ pc[p] = "flush_loop"
    /\ fi[p] <= Len(dirty)
    /\ Goto(p, "flush_read")
    /\ UNCHANGED <<locals, life, queue, timing, data, backend, panicked>>

FlushClearDirty(p) ==
    /\ pc[p] = "flush_loop"
    /\ fi[p] <= Len(dirty)
    /\ inDirty' = [inDirty EXCEPT ![dirty[fi[p]]] = 0]
    /\ Goto(p, "flush_read")
    /\ UNCHANGED <<locals, life, dirty, lockHolder, localHolder, timing, data, backend, panicked>>

(* The data is read as a map reference: a child's local.Data under its  *)
(* own local.DataLock, taken while shared.DataLock is held and released   *)
(* again before the backend call; the buffer-parent's shared.Data and    *)
(* shared.Index directly.  Nothing is observable while Flush holds the   *)
(* local lock, so taking, reading and releasing it is one step that waits *)
(* for the lock to be free.                                               *)
FlushRead(p) ==
    /\ pc[p] = "flush_read"
    /\ LET s == dirty[fi[p]] IN kind[s] # "root" => localHolder[s] = NoProc
    /\ Goto(p, "flush_submit")
    /\ UNCHANGED <<locals, life, queue, timing, data, backend, panicked>>

(* Buffered.Span reads the map it was handed: what it sees is the map's   *)
(* content now, not at the read above.                                    *)
FlushSubmit(p) ==
    /\ pc[p] = "flush_submit"
    /\ LET s == dirty[fi[p]] IN
         /\ sent' = [sent EXCEPT ![s] = Snapshot(s)]
         /\ dup' = [dup EXCEPT ![s] = IF Snapshot(s) = sent[s] THEN @ + 1 ELSE 0]
    /\ fi' = [fi EXCEPT ![p] = @ + 1]
    /\ Goto(p, "flush_loop")
    /\ UNCHANGED <<ret, child, life, queue, timing, data, panicked>>

(* Variant: Dirty is not truncated after the sweep.                        *)
FlushTruncateKeep(p) ==
    /\ pc[p] = "flush_loop"
    /\ fi[p] > Len(dirty)
    /\ lockHolder' = NoProc
    /\ fi' = [fi EXCEPT ![p] = 1]
    /\ Goto(p, "flush_notify")
    /\ UNCHANGED <<ret, child, life, inDirty, dirty, localHolder, timing, data, backend, panicked>>

FlushTruncate(p) ==
    /\ pc[p] = "flush_loop"
    /\ fi[p] > Len(dirty)
    /\ dirty' = <<>>
    /\ lockHolder' = NoProc
    /\ fi' = [fi EXCEPT ![p] = 1]
    /\ Goto(p, "flush_notify")
    /\ UNCHANGED <<ret, child, life, inDirty, localHolder, timing, data, backend, panicked>>

FlushNotify(p) ==
    /\ pc[p] = "flush_notify"
    /\ Return(p)
    /\ UNCHANGED <<child, fi, life, queue, timing, data, backend, panicked>>

(* time.AfterFunc runs timerFlush on a fresh goroutine when the timer     *)
(* fires; timerFlush stores 0 in FlushActive and calls Flush.             *)
TimerFire(t) ==
    /\ timer = "due"
    /\ pc[t] = "idle"
    /\ timer' = "idle"
    /\ fired' = fired + 1
    /\ Goto(t, "timer_flush")
    /\ UNCHANGED <<locals, life, queue, flushActive, unflushedLogs, data, backend, panicked>>

TimerFlush(t) ==
    /\ pc[t] = "timer_flush"
    /\ flushActive' = 0
    /\ Call(t, "flush_start", "idle")
    /\ UNCHANGED <<child, fi, life, queue, timer, fired, unflushedLogs, data, backend, panicked>>

-----------------------------------------------------------------------------
(* The operations an owner goroutine calls on its span.                  *)

(* LocalSpanData on a child: take local.DataLock, merge, release it (the  *)
(* deferred Unlock of the inner func), then touched().                    *)
LocalSpanData(s) ==
    /\ pc[s] = "idle" /\ s \in DataWriters /\ kind[s] # "root"
    /\ written[s] < MaxWrites
    /\ localHolder[s] = NoProc
    /\ localHolder' = [localHolder EXCEPT ![s] = s]
    /\ Goto(s, "local_write")
    /\ UNCHANGED <<locals, life, inDirty, dirty, lockHolder, timing, data, backend, panicked>>

LocalWrite(s) ==
    /\ pc[s] = "local_write"
    /\ written' = [written EXCEPT ![s] = @ + 1]
    /\ localHolder' = [localHolder EXCEPT ![s] = NoProc]
    /\ Goto(s, "touch_swap")
    /\ UNCHANGED <<locals, life, inDirty, dirty, lockHolder, timing, indexVer, lines,
                   backend, panicked>>

(* A child's local.Data is also read by a backend inside Buffered.Span,  *)
(* under shared.DataLock only, after Flush released local.DataLock.  A   *)
(* LocalSpanData write then is an unsynchronized map write concurrent     *)
(* with that read: the Go runtime may abort the process with "concurrent  *)
(* map read and map write" (or the write goes through, as LocalSpanData). *)
Exposed(s) == \E p \in Procs : pc[p] = "flush_submit" /\ dirty[fi[p]] = s

LocalSpanDataRace(s) ==
    /\ pc[s] = "local_write"
    /\ Exposed(s)
    /\ panicked' = TRUE
    /\ UNCHANGED <<pc, locals, life, queue, timing, data, backend>>

(* LocalSpanData on the buffer-parent delegates to BufferedSpanData,      *)
(* which takes shared.DataLock and assigns into l.local.Data: Seed.Log    *)
(* never allocates that map, and assigning into a nil map panics.         *)
BufferedSpanData(s) ==
    /\ pc[s] = "idle" /\ s \in DataWriters /\ kind[s] = "root"
    /\ lockHolder = NoProc
    /\ panicked' = TRUE
    /\ UNCHANGED <<pc, locals, life, queue, timing, data, backend>>

(* BufferedSpanData called directly on a child: the merge into its        *)
(* local.Data happens under shared.DataLock, the lock the backend holds   *)
(* while it reads that map, then touched().                               *)
BufferedSpanDataChild(s) ==
    /\ pc[s] = "idle" /\ s \in DataWriters /\ kind[s] # "root"
    /\ written[s] < MaxWrites
    /\ lockHolder = NoProc
    /\ written' = [written EXCEPT ![s] = @ + 1]
    /\ Goto(s, "touch_swap")
    /\ UNCHANGED <<locals, life, queue, timing, indexVer, lines, backend, panicked>>

(* SpanIndex: append to shared.Index under shared.DataLock (which pairs   *)
(* get through the loop bound is IndexPairs), then touched() on the       *)
(* calling span, whichever span that is.                                  *)
SpanIndex(s) ==
    /\ pc[s] = "idle" /\ s \in IndexWriters
    /\ lockHolder = NoProc
    /\ indexVer < MaxIndex
    /\ indexVer' = indexVer + 1
    /\ Goto(s, "touch_swap")
    /\ UNCHANGED <<locals, life, queue, timing, written, lines, backend, panicked>>

(* log() behind Debug/Trace/Info/Warn/Error/Alert: AddInt32 on            *)
(* UnflushedLogs, enableFlushTimer on the 0 -> 1 transition; the line     *)
(* itself goes straight to every Prefilled.Log and is not buffered.       *)
LogLine(s) ==
    /\ pc[s] = "idle" /\ lines[s] < MaxLines
    /\ lines' = [lines EXCEPT ![s] = @ + 1]
    /\ unflushedLogs' = unflushedLogs + 1
    /\ IF unflushedLogs' = 1 THEN Call(s, "enable_swap", "idle")
                             ELSE UNCHANGED ret /\ Goto(s, "idle")
    /\ UNCHANGED <<child, fi, life, queue, flushActive, timer, fired, written, indexVer,
                   backend, panicked>>

(* Fork/Step call addRef (AddInt32 +1) before creating the child;          *)
(* ForkNoWait/StepNoWait go straight to newChildLog.  The child's id is    *)
(* reserved here; nothing can observe it before newChildLog.  Fork and    *)
(* Step differ only in the suffix rendered from their own counters.       *)
Fork(s, w) ==
    /\ pc[s] = "idle"
    /\ \E c \in Spans :
         /\ kind[c] = "none"
         /\ kind' = [kind EXCEPT ![c] = w]
         /\ child' = [child EXCEPT ![s] = c]
    /\ IF w = "waited"
         THEN /\ refCount' = refCount + 1
              /\ Goto(s, IF refCount' > 1 THEN "new_child" ELSE "addref_warn")
         ELSE UNCHANGED refCount /\ Goto(s, "new_child")
    /\ UNCHANGED <<ret, fi, ended, queue, timing, data, backend, panicked>>

(* addRef after RefCount had dropped to 0: l.Warn (the log() path), then  *)
(* FlushTimer.Reset(DefaultFlushDelay) without touching FlushActive.      *)
AddRefWarn(s) ==
    /\ pc[s] = "addref_warn"
    /\ unflushedLogs' = unflushedLogs + 1
    /\ IF unflushedLogs' = 1 THEN Call(s, "enable_swap", "addref_reset")
                             ELSE UNCHANGED ret /\ Goto(s, "addref_reset")
    /\ UNCHANGED <<child, fi, life, queue, flushActive, timer, fired, data, backend, panicked>>

AddRefReset(s) ==
    /\ pc[s] = "addref_reset"
    /\ timer' = Armed(DefaultFlushDelay)
    /\ Goto(s, "new_child")
    /\ UNCHANGED <<locals, life, queue, flushActive, fired, unflushedLogs, data, backend, panicked>>

(* newChildLog: the child starts with InDirty 1 and is appended to Dirty  *)
(* under shared.DataLock; the timer is not touched.                       *)
NewChildLog(s) ==
    /\ pc[s] = "new_child"
    /\ lockHolder = NoProc
    /\ LET c == child[s] IN
         /\ inDirty' = [inDirty EXCEPT ![c] = 1]
         /\ dirty' = Append(dirty, c)
         /\ pc' = [pc EXCEPT ![s] = "idle", ![c] = "idle"]
    /\ UNCHANGED <<locals, life, lockHolder, localHolder, timing, data, backend, panicked>>

(* Variant: End flushes only when RefCount goes below zero.                *)
EndBelowZero(s) ==
    /\ pc[s] = "idle" /\ kind[s] # "none"
    /\ ended' = [ended EXCEPT ![s] = TRUE]
    /\ refCount' = refCount - 1
    /\ IF refCount' < 0 THEN Call(s, "flush_start", "done")
                        ELSE UNCHANGED ret /\ Goto(s, "done")
    /\ UNCHANGED <<child, fi, kind, queue, timing, data, backend, panicked>>

(* End: AddInt32 -1 on RefCount and Flush when the result is <= 0.  The   *)
(* *NoWait spans need no End; one that calls it anyway is the usage error *)
(* addRef warns about.                                                    *)
End(s) ==
    /\ pc[s] = "idle" /\ kind[s] # "none"
    /\ ended' = [ended EXCEPT ![s] = TRUE]
    /\ refCount' = refCount - 1
    /\ IF refCount' <= 0 THEN Call(s, "flush_start", "done")
                         ELSE UNCHANGED ret /\ Goto(s, "done")
    /\ UNCHANGED <<child, fi, kind, queue, timing, data, backend, panicked>>

(* A *NoWait span's goroutine may also just return without End.           *)
Exit(s) ==
    /\ pc[s] = "idle" /\ kind[s] = "nowait"
    /\ Goto(s, "done")
    /\ UNCHANGED <<locals, life, queue, timing, data, backend, panicked>>

(* An explicit call of the exported Flush.                                *)
ExplicitFlush(s) ==
    /\ pc[s] = "idle"
    /\ Call(s, "flush_start", "idle")
    /\ UNCHANGED <<child, fi, life, queue, timing, data, backend, panicked>>

-----------------------------------------------------------------------------
(* Steps a goroutine takes once it is inside a call.                      *)
Running(p) ==
    \/ TouchSwap(p) \/ TouchAppend(p) \/ TouchUnlock(p)
    \/ EnableSwap(p) \/ EnableReset(p)
    \/ AddRefWarn(p) \/ AddRefReset(p) \/ NewChildLog(p)
    \/ FlushStart(p) \/ FlushLock(p) \/ FlushClearDirty(p) \/ FlushRead(p)
    \/ FlushSubmit(p)
    \/ LocalWrite(p) \/ LocalSpanDataRace(p)
    \/ FlushTruncate(p) \/ FlushNotify(p) \/ TimerFlush(p)

(* Calls an owner goroutine may start on its span.                        *)
Calls(s) ==
    \/ LocalSpanData(s) \/ BufferedSpanData(s) \/ BufferedSpanDataChild(s)
    \/ SpanIndex(s)
    \/ LogLine(s)
    \/ \E w \in {"waited", "nowait"} : Fork(s, w)
    \/ End(s) \/ Exit(s) \/ ExplicitFlush(s)

(* A flush-delay window elapses: a waiting timer becomes due.  Nothing    *)
(* else observes the clock.                                               *)
Tick ==
    /\ timer = "waiting" \/ fired > 0
    /\ timer' = IF timer = "waiting" THEN "due" ELSE timer
    /\ fired' = 0
    /\ UNCHANGED <<pc, locals, life, queue, flushActive, unflushedLogs, data, backend,
                   panicked>>

(* Every goroutine has returned (or the process panicked): nothing more   *)
(* happens.                                                               *)
Finished ==
    \/ panicked
    \/ /\ \A s \in Spans : pc[s] \in {"unborn", "done"}
       /\ \A t \in TimerProcs : pc[t] = "idle"
       /\ timer = "idle"

Terminated == Finished /\ UNCHANGED vars

Next ==
    \/ /\ ~panicked
       /\ \/ \E p \in Procs : Running(p)
          \/ \E s \in Spans : Calls(s)
          \/ \E t \in TimerProcs : TimerFire(t)
          \/ Tick
    \/ Terminated

(* Goroutines inside a call keep being scheduled, and a waiter on         *)
(* sync.Mutex is not starved (starvation mode), hence strong fairness on  *)
(* the steps that need the lock; time passes and a due timer eventually  *)
(* fires.                                                                 *)
(* Nothing forces the application to make a call.                         *)
Fairness ==
    /\ \A p \in Procs : SF_vars(Running(p))
    /\ \A t \in TimerProcs : WF_vars(TimerFire(t))
    /\ WF_vars(Tick)

Spec == Init /\ [][Next]_vars /\ Fairness

-----------------------------------------------------------------------------
(* Properties.                                                             *)

Pcs == {"unborn", "idle", "done", "touch_swap", "touch_append", "touch_unlock",
        "local_write", "enable_swap", "enable_reset", "addref_warn", "addref_reset", "new_child",
        "flush_start", "flush_lock", "flush_loop", "flush_read", "flush_submit",
        "flush_notify",
        "timer_flush"}

TypeOK ==
    /\ pc \in [Procs -> Pcs]
    /\ ret \in [Procs -> Pcs]
    /\ child \in [Spans -> Spans]
    /\ fi \in [Procs -> 1..Cardinality(Spans) + 1]
    /\ kind \in [Spans -> {"root", "waited", "nowait", "none"}]
    /\ ended \in [Spans -> BOOLEAN]
    /\ refCount \in -Cardinality(Spans)..Cardinality(Spans)
    /\ inDirty \in [Spans -> {0, 1}]
    /\ dirty \in Seq(Spans)
    /\ lockHolder \in Procs \cup {NoProc}
    /\ localHolder \in [Spans -> Procs \cup {NoProc}]
    /\ flushActive \in {0, 1}
    /\ timer \in {"waiting", "due", "idle"}
    /\ fired \in Nat
    /\ unflushedLogs \in Nat
    /\ written \in [Spans -> 0..MaxWrites]
    /\ indexVer \in 0..MaxIndex
    /\ lines \in [Spans -> 0..MaxLines]
    /\ sent \in [Spans -> -1..MaxWrites + MaxIndex]
    /\ dup \in [Spans -> Nat]
    /\ panicked \in BOOLEAN

(* A span whose data changed since the backend last got it will be part   *)
(* of a later sweep: it is flagged InDirty, or its owner has written and  *)
(* not yet run touched(), or a Flush has cleared its flag and is about to *)
(* read it.                                                                *)
Tracked(s) ==
    \/ inDirty[s] = 1
    \/ pc[s] = "touch_swap"
    \/ \E p \in Procs : pc[p] \in {"flush_read", "flush_submit"} /\ dirty[fi[p]] = s

(* No lost mutation (spec section 8): every change to a span's data,      *)
(* including index entries, which only the buffer-parent's submission     *)
(* carries, is tracked until a sweep hands it to the backend; and a span  *)
(* flagged InDirty is in shared.Dirty or about to be appended by the      *)
(* touched() whose swap saw 0.  This is about the race between touched()  *)
(* and the Flush loop that clears InDirty before reading the data.        *)
NoLostMutation ==
    \A s \in Spans : Created(s) =>
        /\ Snapshot(s) # sent[s] => Tracked(s)
        /\ inDirty[s] = 1 => (s \in Range(dirty) \/ pc[s] = "touch_append")

(* No duplicate dirty entries (spec section 8): between two sweeps a span *)
(* is in shared.Dirty at most once, however many goroutines touch it.     *)
NoDuplicateDirty == IsInjective(dirty)

(* At most one redundant write per dirty cycle (spec section 2): a span   *)
(* is never handed to the backend twice in a row with data unchanged     *)
(* since the first of those submissions, whatever the interleaving of     *)
(* touched(), timerFlush, End and explicit Flush calls.                   *)
AtMostOneRedundantWrite == \A s \in Spans : dup[s] <= 1

(* Every span started with Seed.Log, Fork or Step is ended.               *)
AllWaitedEnded == \A s \in Spans : kind[s] \in {"root", "waited"} => ended[s]

Delivered(s) == Snapshot(s) = sent[s]

(* End flushes everything (spec section 4.3): once every span that holds  *)
(* a reference has called End, the data of each ended span reaches the    *)
(* backend, through the Flush of the End that drove RefCount to <= 0,     *)
(* unless the process has died first (NoPanic is about that).            *)
EndFlushesEverything ==
    \A s \in Spans : (AllWaitedEnded /\ ended[s]) ~> (Delivered(s) \/ panicked)

(* Span data never brings the process down: LocalSpanData on the          *)
(* buffer-parent is kept (spec sections 4.3 and 8: write {"foo":"bar"} on *)
(* the buffer-parent, End, and the backend receives it), and a child's    *)
(* data handed to the backend is a snapshot taken at drain time (spec     *)
(* section 4.2), so a LocalSpanData racing the drain never meets a        *)
(* backend reading the same map.                                          *)
NoPanic == ~panicked

(* The flush timer bounds staleness (spec section 4.2, timerFlush): every *)
(* mutation of a span reaches the backend even if nobody calls End or     *)
(* Flush (unless the process has died first).                             *)
TimerBoundsStaleness ==
    \A s \in Spans : \A v \in 0..MaxWrites + MaxIndex :
        (Created(s) /\ Snapshot(s) = v) ~> (sent[s] >= v \/ panicked)

(* Every Flush returns (spec section 4.3: End flushes; logger.go nests a *)
(* child's local.DataLock inside shared.DataLock in Flush and takes       *)
(* shared.DataLock in touched() only after LocalSpanData released its     *)
(* local lock): a goroutine that enters Flush, from End, timerFlush or an *)
(* explicit call, eventually reaches the Buffered.Flush notification,     *)
(* whatever the writers, the timer and the other flushers do, unless the  *)
(* process has died.  A lock held across another acquisition in the       *)
(* wrong order, or a lock left held, keeps some Flush from returning.     *)
FlushReturns ==
    \A p \in Procs : (pc[p] = "flush_start") ~> (pc[p] = "flush_notify" \/ panicked)

(* Timer coalescing (spec section 8): mutations that arrive within one     *)
(* flush-delay window share one automatic flush, so between two           *)
(* automatic flushes (timerFlush runs) at least one window elapses.  This *)
(* is about enableFlushTimer re-arming the timer after a timerFlush.      *)
TimerCoalesces == fired <= 1

=============================================================================
