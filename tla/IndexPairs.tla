----------------------------- MODULE IndexPairs -----------------------------
(***************************************************************************)
(* What SpanIndex (src/logger.go) does to shared.Index: the key/value     *)
(* argument list is walked by `for i := 0; i < len(kv)-2; i += 2` and     *)
(* kv[i+1] is appended to Index[kv[i]].  shared.Index is a map from key   *)
(* to the sequence of values appended to it.  `expected` is the index the *)
(* spec describes for the same calls: every complete pair appended, a     *)
(* trailing unpaired argument dropped.                                    *)
(***************************************************************************)
EXTENDS Integers, Sequences, SequencesExt, TLC

CONSTANTS
    Strings,   \* the strings passed as keys and values
    MaxArgs,   \* longest keyValuePairs list passed to one call
    MaxCalls   \* bound on SpanIndex calls

VARIABLES index, expected, calls

vars == <<index, expected, calls>>

EmptyIndex == [k \in {} |-> <<>>]

(* index[key] = append(index[key], value) on a Go map of slices.          *)
AppendValue(ix, k, v) ==
    IF k \in DOMAIN ix THEN [ix EXCEPT ![k] = Append(@, v)]
                       ELSE ix @@ (k :> <<v>>)

(* The loop of SpanIndex, from Go index i (kv[i+1] in TLA+).              *)
RECURSIVE IndexLoop(_, _, _)
IndexLoop(ix, kv, i) ==
    IF i < Len(kv) - 2
      THEN IndexLoop(AppendValue(ix, kv[i + 1], kv[i + 2]), kv, i + 2)
      ELSE ix

(* The reference: the complete pairs of kv, in order.                     *)
Pairs(kv) == [j \in 1..(Len(kv) \div 2) |-> <<kv[2 * j - 1], kv[2 * j]>>]

AppendPairs(ix, kv) ==
    FoldLeft(LAMBDA acc, p : AppendValue(acc, p[1], p[2]), ix, Pairs(kv))

Init ==
    /\ index = EmptyIndex
    /\ expected = EmptyIndex
    /\ calls = 0

(* SpanIndex(keyValuePairs...): the loop under shared.DataLock.           *)
SpanIndex(kv) ==
    /\ calls < MaxCalls
    /\ index' = IndexLoop(index, kv, 0)
    /\ expected' = AppendPairs(expected, kv)
    /\ calls' = calls + 1

Next == \E kv \in BoundedSeq(Strings, MaxArgs) : SpanIndex(kv)

Spec == Init /\ [][Next]_vars

(* SpanIndex appends every complete key/value pair and drops only an     *)
(* unpaired trailing argument (spec sections 4.3, 7 and 8).               *)
IndexHoldsEveryPair == index = expected

=============================================================================
