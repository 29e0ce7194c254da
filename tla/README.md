# TLA+ models of xm (xop buffered logging)

This directory holds the TLA+ models of the repository, the TLC configurations
that check them, and `PROJECT.json`, which maps every model definition to the
Go lines it translates.

## The system

The repository has four parts.

* **`src/logger.go`**: the span tree of one request, the *buffer-parent*
  (`Seed.Log`) and its children (`Fork`/`Step`). The spans share one `shared`
  record:
  * a `Dirty` list of spans changed since the last flush, guarded by
    `shared.DataLock`;
  * a flush timer (`time.AfterFunc`) with a `FlushActive` flag;
  * a reference count of waited-for spans;
  * the request's `Index` and `Data`.

  A span that changes calls `touched()`. Its atomic swap of `InDirty` decides
  whether it joins `Dirty`, and the first joiner arms the timer. `Flush` (from
  the timer, from `End` reaching a count of 0, or called directly) does three
  things under the shared lock:
  1. clears each dirty span's flag;
  2. snapshots the span's data and hands it to every base logger;
  3. truncates the list.
* **`src/context.go`**: attaches a `*Log` to a `context.Context` and retrieves
  it.
* **Backends**: `src/xoprecorder` (in-memory recorder) and `src/xoptest`
  (the test logger). Each has a logger lock and per-span locks.
* **`src/xopjson`**: the JSON encoder's options, and `ReplayFromStrings`,
  which turns JSON lines back into base-logger calls.

They interact as follows. Goroutines of the application call span methods
concurrently. The flush timer runs `timerFlush` in a goroutine of its own.
`Flush` calls the backends while it holds `shared.DataLock` and, one after
another, each child's `local.DataLock`.

## Modules

| Module | Models | State ↔ code |
|---|---|---|
| `BufferedLog` | `src/logger.go`: every operation of `Log` | See below |
| `MCBufferedLog` | Instantiates `BufferedLog` with one buffer-parent `r`, one child `c1` and one timer goroutine `t1` (model values) | |
| `IndexPairs` | The key/value loop of `SpanIndex` as a RECURSIVE operator | `index` is `shared.Index`. `expected` is what the spec's pairing rule gives. |
| `Replay` | `src/xopjson/replay.go`: `ReplayFromStrings` and `spanReplayData.Replay` | See below |
| `Recorder`, `MCRecorder` | `src/xoprecorder/recorder.go`, used by two goroutines | See below |
| `TestLogger`, `MCTestLogger` | `src/xoptest/testlogger.go`, used by two goroutines | See below |

### BufferedLog

Each span and timer goroutine has a program counter `pc`. An operation is split
into one action per atomic step:
* an atomic swap or add;
* a lock acquisition;
* an append;
* a submission.

`ret` records where a shared sub-routine (`enableFlushTimer`, `Flush`) returns
to.

State corresponds to the code as follows.

| Model | Code |
|---|---|
| `inDirty` | `local.InDirty` |
| `dirty` (a sequence) | `shared.Dirty` |
| `lockHolder` | `shared.DataLock`, with the goroutine that holds it |
| `localHolder` | Each child's `local.DataLock`, with the goroutine that holds it |
| `flushActive` | `shared.FlushActive` |
| `timer` (`waiting`/`due`/`idle`) | `shared.FlushTimer`: armed and its delay not yet elapsed, due to fire, or fired |
| `fired` | Automatic flushes (`TimerFire`) since a flush-delay window last elapsed |
| `refCount` | `shared.RefCount` |
| `unflushedLogs` | `shared.UnflushedLogs` |
| `written` | Count of data writes per span. Data is abstracted to a version. |
| `indexVer` | Count of `SpanIndex` calls |
| `sent` | The version each span last handed to the backend |
| `dup` | Consecutive resubmissions of an unchanged version |
| `panicked` | A Go panic |

Actions correspond to the code as follows.

| Actions | Code |
|---|---|
| `TouchSwap`, `TouchAppend`, `TouchUnlock` | `touched` |
| `EnableSwap`, `EnableReset` | `enableFlushTimer` |
| `FlushStart` … `FlushNotify` | `Flush`. `FlushRead` takes the map reference, and `FlushSubmit` is the backend's read of it. |
| `TimerFire`, `TimerFlush` | The `AfterFunc` goroutine and `timerFlush` |
| `Tick` | A window of `DefaultFlushDelay` elapses and a waiting timer becomes due. `Armed(delay)` is what `Reset(delay)` does: a zero delay is due at once. `FlushDelay` is 0, because `Seed.Log` never assigns `shared.FlushDelay`. |
| `LocalSpanData`, `LocalWrite` | `LocalSpanData` on a child: take `local.DataLock`, then merge and release it. `FlushRead` waits for that lock to be free. |
| `BufferedSpanData` | `LocalSpanData` or `BufferedSpanData` on the buffer-parent (the nil-map write) |
| `BufferedSpanDataChild` | `BufferedSpanData` called on a child: merge under `shared.DataLock`, then `touched` |
| `LocalSpanDataRace` | A `LocalSpanData` write while a backend reads the same map (`Exposed`). The data race is undefined behaviour, so the model lets the write either go through (`LocalSpanData`) or end the process. |
| `SpanIndex` | `SpanIndex` |
| `LogLine` | `log` |
| `Fork` | `Fork`, `Step`, `ForkNoWait`, `StepNoWait` |
| `AddRefWarn`, `AddRefReset` | `addRef` |
| `NewChildLog` | `newChildLog` |
| `End` | `End` |
| `ExplicitFlush` | A direct `Flush` |

**Fairness.** Each goroutine's running steps are strongly fair, and each
timer's `TimerFire` is weakly fair:
* A goroutine that is runnable is eventually scheduled.
* `sync.Mutex` hands the lock to a waiter that has been starving for 1 ms, so
  a goroutine blocked on the shared lock, which is repeatedly enabled, acquires
  it eventually.
* Time passes (`Tick` is weakly fair), and a due `AfterFunc` timer eventually fires.

The application's own calls carry no fairness, because a program may stop
logging at any time. The liveness properties promise delivery only while the
process lives: a run that ends in a panic satisfies them, and `NoPanic` is the
property about panics.

### No refinement

No abstract specification is checked against `BufferedLog`. The obvious one
says that each submission carries the span's current version. It holds by
construction, because `FlushSubmit` reads the data at submit time, and it
would add nothing to `NoLostMutation` and `AtMostOneRedundantWrite`. The spec's actual promise, a snapshot taken at drain time, is
what the `flush_data_race` run shows the code breaks.

### Replay

`input` is the log, one record per JSON line. Each record has a type:
* `bad`: a line `json.Unmarshal` rejects;
* `other`: an empty line or an unknown type;
* `line`, `request` or `span`.

A record also has an `id`, a `parent`, and, for a request, whether its header
(parent id, source, namespace) parses.

A record's position stands for the decoded value that the code allocates. Its
`decodeSpanShared.subSpans` is `subSpans[position]`. Names, timestamps and
sequence codes are abstracted to the id of the record they come from.

The actions follow the code's loops:

| Action | Code |
|---|---|
| `Decode` | One iteration of the decode loop |
| `Link` | One iteration of the parent-linking loop |
| `ReplayRequest` | One iteration of the requests loop, last to first |
| `ReplaySubSpan`, `ReplayReturn` | One iteration of the recursion's `subSpans` loop, and its return. `stack` holds the recursion's frames. |

`Spec` is weakly fair on `Next`: `ReplayFromStrings` is a single sequential
call, which keeps taking steps until it returns.

`Init` takes every *well-formed* log of up to three records over three ids. In
a well-formed log, all versions of an id agree on type and parent, as the JSON
logger writes them.

### Recorder and TestLogger

Two goroutines call the backend's methods. Every lock-protected section takes
no other lock that can block, so it is one step. Every atomic operation is one
step.

The modelled state:
* `events` (`Logger.Events`);
* `metadata` (the span's metadata);
* `endTime` (and, for the recorder, `provisional`);
* for the test logger, `traceCount`, `traceMap` and `short` (the `T<n>.<m>`
  names).

`now` is the clock. A call's timestamp is any reading from the goroutine's
previous timestamp (`lastT`) up to `now`. A goroutine can thus be preempted
between `time.Now()` and the store, but its own timestamps never go backwards.

A metadata call is two steps, in the code's order:
* the recorder applies the value, then appends the event;
* the test logger appends the event, then stores the value under the span
  lock.

`doneMax` is a ghost variable: what a returned `Done` call had seen.

## Runs

| Run | Cfg | Expect | What it shows |
|---|---|---|---|
| `dirty_list_safety` | `MCBufferedLog.cfg` | pass | `NoLostMutation`, `NoDuplicateDirty`, `AtMostOneRedundantWrite` and `TypeOK` hold. |
| `end_flushes_everything` | `MCBufferedLogEnd.cfg` | pass | When every waited-for span has ended, every ended span's last version reaches the backend, including when a `*NoWait` span's End drove the count negative (`EndFlushesEverything`). Every `Flush`, whether started by `End`, `timerFlush` or an explicit call, returns (`FlushReturns`). It does so although it takes a child's `local.DataLock` inside `shared.DataLock` while writers, the timer and other flushers contend for both locks (`logger.go:127`). Its mutant loses `touched`'s deferred unlock. |
| `timer_not_coalesced` | `MCBufferedLogCoalesce.cfg` | violation | `TimerCoalesces` (spec section 8: mutations within one delay window share one automatic flush) fails. One log line is enough: the timer fires after the first window, and `timerFlush` stores 0 in `FlushActive`. The line's `enableFlushTimer` then swaps that 0 and calls `Reset(shared.FlushDelay)`, which is 0. A second automatic flush follows in the same window (`logger.go:104`). |
| `flush_data_race` | `MCBufferedLogRace.cfg` | violation | `Flush` hands the child's `local.Data` map to the backend after releasing the child's lock. A `LocalSpanData` on the child during the backend call writes the map the backend reads (`logger.go:129`), which Go may abort as a concurrent map read and write. |
| `child_index_lost` | `MCBufferedLogChildIndex.cfg` | violation | A child's `SpanIndex` entry is never submitted: it dirties the child, but only the parent's submission carries the index (`logger.go:241`). |
| `timer_misses_new_child` | `MCBufferedLogStale.cfg` | violation | After the timer fires, `newChildLog` makes `Dirty` non-empty without arming the timer. The child's data then waits forever (`logger.go:83`). |
| `index_drops_last_pair` | `IndexPairs.cfg` | violation | `SpanIndex("a","a")` indexes nothing, because of the off-by-one loop bound (`logger.go:236`). |
| `replay_structure` | `Replay.cfg` | pass | For every well-formed log of up to three records, replay returns (`ReplayReturns`), even though its recursion keeps no visited set. It also recreates every request, and every span reachable from one, on the output span of its logged parent. Its recursion stays within the tree's depth. |
| `replay_not_faithful` | `ReplayFaithful.cfg` | violation | Replay does not reproduce the spans. Each sub-span gets its parent's name, timestamp and sequence code (`replay.go:238`), and a span written in two versions is recreated twice (`replay.go:148`). TLC's shortest trace shows the naming bug. The duplicate appears with three records: two versions of a span and its request. |
| `recorder_end_time` | `MCRecorder.cfg` | pass | Once `Done(t)` returns, `EndTime` covers `t` and every line started before it, however older timestamps interleave. This is the two `AtomicMaxInt64` calls at work. |
| `recorder_metadata_order` | `MCRecorderMetadata.cfg` | violation | Two `Metadata` calls on one key apply their values as v1 then v2 but append their events as v2 then v1. The event log's last value is then not the span's value (`recorder.go:488`). |
| `testlogger_end_time` | `MCTestLoggerEndTime.cfg` | violation | A `Done` holding an older timestamp stores it after a later `Done` has returned, and `EndTime` goes backwards (`testlogger.go:196`, and `Prefilled.Line` at 273). |

In `dirty_list_safety`, `NoLostMutation` holds under every interleaving of
`touched`, `newChildLog`, log lines, `End`, explicit `Flush` and `timerFlush`.
It says that every span whose current data differs from what was last sent is
in `Dirty`, or is about to be.

**Bounds.**

For the backends:
* two goroutines, three calls each;
* two clock ticks (one for the test logger);
* one key and two values.

These are enough for two concurrent calls on one span, each holding a
different timestamp or value. Goroutines and values are symmetric.

For replay, three records over three ids are enough for the following:
* a request with a two-level subtree;
* a repeated version;
* a missing parent;
* a malformed line.

For BufferedLog:
* Two spans (parent and child) and one timer goroutine.
* At most one data write per writer, one index call, and one log line (two
  in the coalescing run).
* Time in windows of `DefaultFlushDelay`. One window is enough to tell a
  timer armed with that delay from one armed with zero.

These bounds reach the following interleavings:
* a write between a flusher's clear and its read;
* a touch racing a truncate;
* an End that reaches 0 while the timer flush holds the lock;
* a Fork after the timer has fired.

They do not reach `addRef` after the count dropped to 0 (`AddRefWarn`,
`AddRefReset`). That needs an unbalanced End and then a Fork of a third
span, while with two spans the only Fork comes before `r`'s End. Three spans
take more than half an hour. The liveness run drops log lines and index calls,
so that it finishes within five minutes.

`EndFlushesEverything` cannot tell `End`'s `<= 0` test from `== 0`. When
the final End does not flush, the flush timer delivers the data later, and
that difference in latency is not measured.

Every property of the passing runs has a mutant in `PROJECT.json`: a plausible
bug in the mapped action that TLC shows breaks it.

## Not modelled

* **Seed, Copy, base26 prefixes.** This code is not in `src/`. Fork and Step
  take their counters from an `atomic.AddInt32` on the span. That makes
  suffixes distinct whatever the interleaving, so there is nothing left to
  check, short of `base26` itself, which lives outside `src/`.
* **Time within a window.** Time is counted in whole `DefaultFlushDelay`
  windows (`Tick`). Nothing in `logger.go` reads the clock other than the
  timer. `local.Created` is set but never read.
* **`LocalSpanData` on the buffer-parent.** It panics on the nil
  `local.Data` map (`logger.go:211`). The model keeps the panic
  (`BufferedSpanData`). The run that checks `NoPanic` excludes
  buffer-parent writes, so that its trace shows the map race instead. The
  nil-map panic happens on the first call, and the first scenario of spec
  section 8 exercises it.
* **Several goroutines on one span.** Spec section 5 allows several
  goroutines to use the same span. In the model, each span is driven by its
  owner goroutine alone, plus the flushers. A second writer per span would
  multiply the state space of the safety run, which already holds 2.6M states.
* **`BufferedSpanData` on a child from a second goroutine.** Called by the
  span's own goroutine, it is modelled (`BufferedSpanDataChild`), and it is
  safe: the backend reads the map under the same `shared.DataLock`. It
  races with `LocalSpanData` only when two goroutines call on one span (see
  above). That race is listed as a hazard.
* **`context.go`.** It consists of single-call lookups. Its defects are listed
  as hazards.
* **Backend details.** The test logger's event/value order in `Metadata*`
  cannot be seen: its events carry no value. `WithLock` readers, text
  formatting, builders, `Span.Lines` and `Logger.Lines` (appended in the same
  step as the event) are not modelled. `Done`'s `final` flag is not modelled
  either. The test logger's `setShort` is modelled but has no run of its own:
  it runs entirely under the logger lock.
* **Replay.** Line records are decoded but never replayed (`replay.go:119`,
  never read again). The model keeps them in `lines` only.
* **Adversarial replay input.** A log whose versions disagree on a span's
  parent can link a span under itself, and the recursion then overflows the
  stack. Such logs are outside `Init`, because the JSON logger does not write
  them, so no property covers this hazard (`replay.go:225`).
* **Compile errors.** `FromContextOrDiscard` (`context.go:16`) lacks a final
  return statement, and `Replay` (`replay.go:218`) has an unused range
  variable. Neither file compiles as written. Each defect is about a single
  call, and the models' reading of that code does not depend on it.
