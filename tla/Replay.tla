------------------------------ MODULE Replay ------------------------------
(***************************************************************************)
(* ReplayFromStrings (src/xopjson/replay.go): decode the JSON lines of a    *)
(* log, link every span record to its parent's record, then walk the       *)
(* requests from last to first and replay each one's sub-span tree onto    *)
(* an xopbase.Logger by recursive spanReplayData.Replay calls.             *)
(*                                                                         *)
(* A JSON line is a record. A record's identity in memory (the `super`      *)
(* value that decoding allocates, whose decodeSpanShared holds subSpans)   *)
(* is its position in the input. A span's name, timestamp and sequence     *)
(* code are abstracted to the id of the record they come from. The         *)
(* recursion is an explicit stack of frames.                               *)
(***************************************************************************)
EXTENDS Integers, Sequences, SequencesExt, FiniteSets, Relation

CONSTANTS
    Ids,        \* span ids that appear in the log
    MaxRecords  \* longest input

NoId == "none"

(* The kinds of JSON line: "bad" fails json.Unmarshal, "line" is type "" or *)
(* "line", "other" is an empty line or an unknown type (both skipped).      *)
(* A request's `hdr` says whether its parent id, source and namespace      *)
(* parse.                                                                  *)
Records ==
    [type : {"request"}, id : Ids, parent : {NoId}, hdr : {"ok", "bad"}]
    \cup [type : {"span"}, id : Ids, parent : Ids \cup {NoId}, hdr : {"ok"}]
    \cup [type : {"bad", "line", "other"}, id : {NoId}, parent : {NoId}, hdr : {"ok"}]

(* The JSON logger writes every version of a span with the same type, id   *)
(* and parent; versions differ only in attributes and duration.            *)
WellFormed(log) ==
    \A k, l \in 1..Len(log) :
        log[k].id = log[l].id /\ log[k].id # NoId => log[k] = log[l]

Inputs == {log \in BoundedSeq(Records, MaxRecords) : WellFormed(log)}

Frames == [rec : 1..MaxRecords, j : Nat, span : Nat]

VARIABLES
    input,      \* the decoded lines of `data`
    pc,         \* "parse", "link", "requests", "replay", "done"
    i,          \* index of the loop that pc names
    lines,      \* lines: positions of line records
    requests,   \* requests: positions of request records
    spans,      \* spans: positions of span records
    spanMap,    \* x.spanMap: id -> position of its last record, 0 if none
    subSpans,   \* position -> subSpans of that record's decodeSpanShared
    spansSeen,  \* x.spansSeen
    stack,      \* the spanReplayData.Replay frames being executed
    calls,      \* Request and Span calls made on the output logger
    result      \* "none", or what ReplayFromStrings returns: "ok" or "error"

vars == <<input, pc, i, lines, requests, spans, spanMap, subSpans, spansSeen,
          stack, calls, result>>

(* The record that x.spanMap holds for id s once decoding is over. *)
Rec(s) == input[spanMap[s]]

Fail == pc' = "done" /\ result' = "error"

Init ==
    /\ input \in Inputs
    /\ pc = "parse"
    /\ i = 1
    /\ lines = <<>> /\ requests = <<>> /\ spans = <<>>
    /\ spanMap = [s \in Ids |-> 0]
    /\ subSpans = [k \in 1..Len(input) |-> <<>>]
    /\ spansSeen = {}
    /\ stack = <<>>
    /\ calls = <<>>
    /\ result = "none"

(* One iteration of the decode loop over strings.Split(data, "\n"). *)
Decode ==
    /\ pc = "parse" /\ i <= Len(input)
    /\ LET r == input[i] IN
       \/ r.type = "bad" /\ Fail /\ UNCHANGED <<i, lines, requests, spans, spanMap>>
       \/ r.type = "other" /\ i' = i + 1 /\ UNCHANGED <<pc, result, lines, requests, spans, spanMap>>
       \/ /\ r.type = "line"
          /\ lines' = Append(lines, i) /\ i' = i + 1
          /\ UNCHANGED <<pc, result, requests, spans, spanMap>>
       \/ /\ r.type = "request"
          /\ requests' = Append(requests, i)
          /\ spanMap' = [spanMap EXCEPT ![r.id] = i]
          /\ i' = i + 1
          /\ UNCHANGED <<pc, result, lines, spans>>
       \/ /\ r.type = "span"
          /\ spanMap' = [spanMap EXCEPT ![r.id] = i]
          /\ spans' = Append(spans, i)
          /\ i' = i + 1
          /\ UNCHANGED <<pc, result, lines, requests>>
    /\ UNCHANGED <<input, subSpans, spansSeen, stack, calls>>

DecodeDone ==
    /\ pc = "parse" /\ i > Len(input)
    /\ pc' = "link" /\ i' = 1
    /\ UNCHANGED <<input, lines, requests, spans, spanMap, subSpans, spansSeen,
                   stack, calls, result>>

(* One iteration of the loop that attaches child spans to parent spans:   *)
(* the child's id goes to the subSpans of its parent's last record.       *)
Link ==
    /\ pc = "link" /\ i <= Len(spans)
    /\ LET r == input[spans[i]] IN
       \/ r.parent = NoId /\ Fail /\ UNCHANGED <<i, subSpans>>
       \/ r.parent # NoId /\ spanMap[r.parent] = 0 /\ Fail /\ UNCHANGED <<i, subSpans>>
       \/ /\ r.parent # NoId /\ spanMap[r.parent] # 0
          /\ subSpans' = [subSpans EXCEPT ![spanMap[r.parent]] = Append(@, r.id)]
          /\ i' = i + 1
          /\ UNCHANGED <<pc, result>>
    /\ UNCHANGED <<input, lines, requests, spans, spanMap, spansSeen, stack, calls>>

LinkDoneSkipLast ==
    /\ pc = "link" /\ i > Len(spans)
    /\ pc' = "requests" /\ i' = Len(requests) - 1
    /\ UNCHANGED <<input, lines, requests, spans, spanMap, subSpans, spansSeen,
                   stack, calls, result>>

LinkDone ==
    /\ pc = "link" /\ i > Len(spans)
    /\ pc' = "requests" /\ i' = Len(requests)
    /\ UNCHANGED <<input, lines, requests, spans, spanMap, subSpans, spansSeen,
                   stack, calls, result>>

(* Variant: a request already replayed is skipped without moving on.     *)
ReplayRequestNoAdvance ==
    /\ pc = "requests" /\ i >= 1
    /\ LET k == requests[i]
           r == input[k] IN
       \/ r.id \in spansSeen
          /\ UNCHANGED <<i, pc, result, spansSeen, stack, calls>>
       \/ r.id \notin spansSeen /\ r.hdr = "bad" /\ Fail
          /\ UNCHANGED <<i, spansSeen, stack, calls>>
       \/ /\ r.id \notin spansSeen /\ r.hdr = "ok"
          /\ calls' = Append(calls, [kind |-> "request", id |-> r.id,
                                     name |-> r.id, parent |-> 0])
          /\ spansSeen' = spansSeen \cup {r.id}
          /\ stack' = <<[rec |-> k, j |-> 1, span |-> Len(calls')]>>
          /\ pc' = "replay"
          /\ UNCHANGED <<i, result>>
    /\ UNCHANGED <<input, lines, requests, spans, spanMap, subSpans>>

(* One iteration of the loop over requests, last to first: a request id  *)
(* already replayed is skipped; otherwise its header is parsed, the       *)
(* output Request is made and its spanReplayData.Replay begins.           *)
ReplayRequest ==
    /\ pc = "requests" /\ i >= 1
    /\ LET k == requests[i]
           r == input[k] IN
       \/ r.id \in spansSeen /\ i' = i - 1
          /\ UNCHANGED <<pc, result, spansSeen, stack, calls>>
       \/ r.id \notin spansSeen /\ r.hdr = "bad" /\ Fail
          /\ UNCHANGED <<i, spansSeen, stack, calls>>
       \/ /\ r.id \notin spansSeen /\ r.hdr = "ok"
          /\ calls' = Append(calls, [kind |-> "request", id |-> r.id,
                                     name |-> r.id, parent |-> 0])
          /\ spansSeen' = spansSeen \cup {r.id}
          /\ stack' = <<[rec |-> k, j |-> 1, span |-> Len(calls')]>>
          /\ pc' = "replay"
          /\ UNCHANGED <<i, result>>
    /\ UNCHANGED <<input, lines, requests, spans, spanMap, subSpans>>

RequestsDone ==
    /\ pc = "requests" /\ i < 1
    /\ pc' = "done" /\ result' = "ok"
    /\ UNCHANGED <<input, i, lines, requests, spans, spanMap, subSpans,
                   spansSeen, stack, calls>>

ReplaySubSpanOnRequest ==
    /\ pc = "replay"
    /\ LET f == stack[Len(stack)]
           sid == subSpans[f.rec][f.j] IN
       /\ f.j <= Len(subSpans[f.rec])
       /\ calls' = Append(calls, [kind |-> "span", id |-> sid,
                                  name |-> input[f.rec].id, parent |-> stack[1].span])
       /\ stack' = Append([stack EXCEPT ![Len(stack)].j = f.j + 1],
                           [rec |-> spanMap[sid], j |-> 1, span |-> Len(calls')])
    /\ UNCHANGED <<pc, result, input, i, lines, requests, spans, spanMap, subSpans, spansSeen>>

ReplaySubSpanSameInput ==
    /\ pc = "replay"
    /\ LET f == stack[Len(stack)]
           sid == subSpans[f.rec][f.j] IN
       /\ f.j <= Len(subSpans[f.rec])
       /\ calls' = Append(calls, [kind |-> "span", id |-> sid,
                                  name |-> input[f.rec].id, parent |-> f.span])
       /\ stack' = Append([stack EXCEPT ![Len(stack)].j = f.j + 1],
                           [rec |-> f.rec, j |-> 1, span |-> Len(calls')])
    /\ UNCHANGED <<pc, result, input, i, lines, requests, spans, spanMap, subSpans, spansSeen>>

(* One iteration of the subSpans loop of spanReplayData.Replay: the       *)
(* output Span is created on the frame's span with the name, timestamp    *)
(* and sequence code of x.spanInput, and Replay recurses into the         *)
(* sub-span's last record. (The "internal error" branch cannot be taken:  *)
(* every id in subSpans is a key of spanMap.)                             *)
ReplaySubSpan ==
    /\ pc = "replay"
    /\ LET f == stack[Len(stack)]
           sid == subSpans[f.rec][f.j] IN
       /\ f.j <= Len(subSpans[f.rec])
       /\ calls' = Append(calls, [kind |-> "span", id |-> sid,
                                  name |-> input[f.rec].id, parent |-> f.span])
       /\ stack' = Append([stack EXCEPT ![Len(stack)].j = f.j + 1],
                           [rec |-> spanMap[sid], j |-> 1, span |-> Len(calls')])
    /\ UNCHANGED <<pc, result, input, i, lines, requests, spans, spanMap, subSpans, spansSeen>>

(* spanReplayData.Replay returns; after the request's own frame the      *)
(* requests loop continues with the previous request.                     *)
ReplayReturn ==
    /\ pc = "replay"
    /\ LET f == stack[Len(stack)] IN f.j > Len(subSpans[f.rec])
    /\ stack' = SubSeq(stack, 1, Len(stack) - 1)
    /\ IF Len(stack) = 1 THEN pc' = "requests" /\ i' = i - 1
                         ELSE UNCHANGED <<pc, i>>
    /\ UNCHANGED <<input, lines, requests, spans, spanMap, subSpans, spansSeen,
                   calls, result>>

Terminated == pc = "done" /\ UNCHANGED vars

Next ==
    \/ Decode \/ DecodeDone \/ Link \/ LinkDone
    \/ ReplayRequest \/ RequestsDone \/ ReplaySubSpan \/ ReplayReturn
    \/ Terminated

(* ReplayFromStrings is one sequential call: while it has a step to take  *)
(* it takes one.                                                          *)
Spec == Init /\ [][Next]_vars /\ WF_vars(Next)


-----------------------------------------------------------------------------
(* Properties *)

TypeOK ==
    /\ input \in Inputs
    /\ pc \in {"parse", "link", "requests", "replay", "done"}
    /\ spanMap \in [Ids -> 0..MaxRecords]
    /\ spansSeen \subseteq Ids
    /\ stack \in Seq(Frames) /\ Len(stack) <= Cardinality(Ids) + 1
    /\ result \in {"none", "ok", "error"}

SpanIds == {input[k].id : k \in {k \in 1..Len(input) : input[k].type = "span"}}
RequestIds == {input[k].id : k \in {k \in 1..Len(input) : input[k].type = "request"}}
CallIds(kind) == {calls[c].id : c \in {c \in 1..Len(calls) : calls[c].kind = kind}}

(* The logged parent relation: s names p as its span.parent_span. *)
ParentOf == [s, p \in Ids |-> \E k \in 1..Len(input) :
                 input[k].type = "span" /\ input[k].id = s /\ input[k].parent = p]
Ancestor == TransitiveClosure(ParentOf, Ids)

(* Every Span call on the output logger is made on the span that replays *)
(* the sub-span's logged parent (spanReplayData carries the span it      *)
(* created down the recursion), and it comes after that span's creation. *)
ParentPreserved ==
    \A c \in 1..Len(calls) : calls[c].kind = "span" =>
        /\ calls[c].parent \in 1..c - 1
        /\ calls[calls[c].parent].id = Rec(calls[c].id).parent

(* A replay that returns nil has recreated every request and every span  *)
(* whose chain of parents leads to a request: walking the requests from  *)
(* last to first finds the record that holds the subSpans.               *)
ReplayComplete ==
    result = "ok" =>
        /\ CallIds("request") = RequestIds
        /\ \A s \in SpanIds :
              (\E r \in RequestIds : Ancestor[s, r]) => s \in CallIds("span")

(* ReplayFromStrings returns on every log the JSON logger can write,     *)
(* including logs with several versions of a request or span: the         *)
(* requests loop moves past requests already seen, and the recursion of   *)
(* spanReplayData.Replay, which keeps no visited set and follows subSpans *)
(* wherever linking put them, ends because linking builds a tree below    *)
(* each request.                                                          *)
ReplayReturns == <>(pc = "done")

(* Replay reproduces the log's spans: each logged span is recreated once, *)
(* however many versions of it the log holds ("this may overwrite         *)
(* previous versions"), and with its own name, timestamp and sequence     *)
(* code.                                                                   *)
ReplayFaithful ==
    \A c \in 1..Len(calls) :
        /\ calls[c].name = calls[c].id
        /\ \A d \in 1..Len(calls) : d # c => calls[d].id # calls[c].id
=============================================================================
