---------------------------- MODULE MemoryStream ----------------------------
(***************************************************************************)
(* MemoryStreamBridge, for one run: its producer (run_agent) and its       *)
(* subscribers, which come, leave, and come back with Last-Event-ID.       *)
(*                                                                         *)
(* cleanup removes the run's stream from the table while subscribers may   *)
(* still hold it; whoever subscribes later gets a new, empty stream.  The  *)
(* producer is gone by then, so the new one never has events and never     *)
(* ends: only the first stream needs a state.                              *)
(***************************************************************************)
EXTENDS Integers

CONSTANTS
    Subscribers,
    MaxSize,    \* queue_maxsize
    MaxEvents   \* bound: events the producer publishes

ASSUME MemoryAssumption == MaxSize \in Nat /\ MaxEvents \in Nat

VARIABLES
    table,         \* _streams[run_id]: "none", "first" or "second"
    tail,          \* events published to the first stream; its event list
                   \* holds numbers start_offset + 1 .. tail
    start_offset,
    ended,
    prod,          \* the producer: "running", "ended", "cleaned", "lost"
    conn,          \* per subscriber: its subscribe() generator
    ref,           \* per subscriber: the stream its generator holds
    next_offset,   \* per subscriber: the generator's cursor
    got            \* per subscriber: the last event id its client received

vars == <<table, tail, start_offset, ended, prod, conn, ref, next_offset, got>>

Larger(a, b) == IF a >= b THEN a ELSE b

Init ==
    /\ table = "none"
    /\ tail = 0 /\ start_offset = 0 /\ ended = FALSE
    /\ prod = "running"
    /\ conn = [s \in Subscribers |-> "off"]
    /\ ref = [s \in Subscribers |-> "first"]
    /\ next_offset = [s \in Subscribers |-> 0]
    /\ got = [s \in Subscribers |-> 0]

-----------------------------------------------------------------------------
(* The producer.                                                           *)

\* _get_or_create_stream
Stream == IF table # "none" THEN table
          ELSE IF prod = "cleaned" THEN "second" ELSE "first"

\* (mutant) condition.notify_all is forgotten.
NotNotified == conn

\* condition.notify_all on the first stream.
Notified ==
    [s \in Subscribers |-> IF conn[s] = "waiting" /\ ref[s] = "first"
                           THEN "ready" ELSE conn[s]]

\* Append, and drop the overflow from the head.
Publish ==
    /\ prod = "running" /\ tail < MaxEvents
    /\ table' = Stream
    /\ tail' = tail + 1
    /\ start_offset' = Larger(start_offset, tail + 1 - MaxSize)
    /\ conn' = Notified
    /\ UNCHANGED <<ended, prod, ref, next_offset, got>>

PublishEnd ==
    /\ prod = "running"
    /\ table' = Stream
    /\ ended' = TRUE
    /\ prod' = "ended"
    /\ conn' = Notified
    /\ UNCHANGED <<tail, start_offset, ref, next_offset, got>>

\* run_agent leaves without publish_end, and without its delayed cleanup:
\* claiming the lease raised, or the task was cancelled before its try or
\* inside its finally.
ProducerLost ==
    /\ prod = "running"
    /\ prod' = "lost"
    /\ UNCHANGED <<table, tail, start_offset, ended, conn, ref, next_offset, got>>

\* The delayed cleanup task of run_agent.
Cleanup ==
    /\ prod = "ended"
    /\ table' = "none"
    /\ prod' = "cleaned"
    /\ UNCHANGED <<tail, start_offset, ended, conn, ref, next_offset, got>>

-----------------------------------------------------------------------------
(* A subscriber.                                                           *)

\* (mutant) one event too far.
ResolveSkips(str, k) ==
    IF str = "second" THEN 0
    ELSE IF k \in start_offset + 1 .. tail THEN k + 1 ELSE start_offset

\* _resolve_start_offset: k = 0 is no Last-Event-ID.
ResolveStartOffset(str, k) ==
    IF str = "second" THEN 0
    ELSE IF k \in start_offset + 1 .. tail THEN k ELSE start_offset

\* A client connects, afresh or with the last id it received.
Subscribe(s) ==
    /\ conn[s] \in {"off", "done"}
    /\ table' = Stream
    /\ ref' = [ref EXCEPT ![s] = Stream]
    /\ conn' = [conn EXCEPT ![s] = "ready"]
    /\ \E k \in {0, got[s]} :
        /\ got' = [got EXCEPT ![s] = k]
        /\ next_offset' = [next_offset EXCEPT ![s] = ResolveStartOffset(Stream, k)]
    /\ UNCHANGED <<tail, start_offset, ended, prod>>

\* (mutant) a subscriber that fell behind keeps its offset.
CursorUnclamped(s) == next_offset[s]

\* A subscriber that fell behind resumes at the oldest retained event.
Cursor(s) == IF ref[s] = "second" THEN next_offset[s]
             ELSE Larger(next_offset[s], start_offset)

HasEntry(s) == /\ ref[s] = "first"
               /\ Cursor(s) >= start_offset /\ Cursor(s) < tail

\* (mutant) the end is not looked for.
NeverEnds(s) == FALSE

AtEnd(s) == ref[s] = "first" /\ ended

\* One turn of the generator's loop, under the condition's lock.
Deliver(s) ==
    /\ conn[s] = "ready" /\ HasEntry(s)
    /\ next_offset' = [next_offset EXCEPT ![s] = Cursor(s) + 1]
    /\ got' = [got EXCEPT ![s] = Cursor(s) + 1]
    /\ UNCHANGED <<table, tail, start_offset, ended, prod, conn, ref>>

Finish(s) ==
    /\ conn[s] = "ready" /\ ~HasEntry(s) /\ AtEnd(s)
    /\ conn' = [conn EXCEPT ![s] = "done"]
    /\ next_offset' = [next_offset EXCEPT ![s] = Cursor(s)]
    /\ UNCHANGED <<table, tail, start_offset, ended, prod, ref, got>>

Wait(s) ==
    /\ conn[s] = "ready" /\ ~HasEntry(s) /\ ~AtEnd(s)
    /\ conn' = [conn EXCEPT ![s] = "waiting"]
    /\ next_offset' = [next_offset EXCEPT ![s] = Cursor(s)]
    /\ UNCHANGED <<table, tail, start_offset, ended, prod, ref, got>>

\* wait_for timed out: HEARTBEAT_SENTINEL, and the loop goes on.
Heartbeat(s) ==
    /\ conn[s] = "waiting"
    /\ conn' = [conn EXCEPT ![s] = "ready"]
    /\ UNCHANGED <<table, tail, start_offset, ended, prod, ref, next_offset, got>>

\* sse_consumer finds the request disconnected and leaves its loop.
Disconnect(s) ==
    /\ conn[s] \in {"ready", "waiting"}
    /\ conn' = [conn EXCEPT ![s] = "off"]
    /\ UNCHANGED <<table, tail, start_offset, ended, prod, ref, next_offset, got>>

ReaderStep(s) == Deliver(s) \/ Finish(s) \/ Wait(s) \/ Heartbeat(s)

Next ==
    \/ Publish \/ PublishEnd \/ ProducerLost \/ Cleanup
    \/ \E s \in Subscribers : Subscribe(s) \/ Disconnect(s) \/ ReaderStep(s)

Spec == Init /\ [][Next]_vars

\* The event loop runs the generators of connected clients.  Of the producer
\* nothing is assumed: it may run for ever, or go without publish_end.
FairSpec == Spec /\ \A s \in Subscribers : WF_vars(ReaderStep(s))

-----------------------------------------------------------------------------
(* Properties.                                                             *)

\* The shape of the state; no cursor and no client is past the last event,
\* and the retained window never exceeds queue_maxsize.
TypeOK ==
    /\ table \in {"none", "first", "second"}
    /\ tail \in 0 .. MaxEvents
    /\ start_offset \in 0 .. tail /\ tail - start_offset <= MaxSize
    /\ ended \in BOOLEAN
    /\ prod \in {"running", "ended", "cleaned", "lost"}
    /\ conn \in [Subscribers -> {"off", "ready", "waiting", "done"}]
    /\ ref \in [Subscribers -> {"first", "second"}]
    /\ next_offset \in [Subscribers -> 0 .. tail]
    /\ got \in [Subscribers -> 0 .. tail]

\* No lost wake-up: a generator sleeps only while there is nothing for it,
\* neither an event nor the end (publish, publish_end and notify_all).
NoMissedWakeup ==
    \A s \in Subscribers :
        conn[s] = "waiting" => ~HasEntry(s) /\ ~AtEnd(s)

Abstract == INSTANCE EventStream WITH
    count <- tail, evicted <- start_offset, over <- ended,
    conn <- [s \in Subscribers |->
               IF conn[s] = "waiting" \/ conn[s] = "ready" THEN "open" ELSE conn[s]]

\* The bridge keeps the promise of the interface: events in order, none
\* twice, none skipped unless evicted, and the end after all of them.
KeepsStreamPromise == Abstract!SSpec

\* A client connected to the run's stream is served to the end once
\* publish_end was called, cleanup or not, and before that, or with a producer
\* that went without it, it catches up with all that was published; unless it
\* leaves.
ServedToTheEnd ==
    \A s \in Subscribers :
        conn[s] \in {"ready", "waiting"} /\ ref[s] = "first"
            ~> \/ conn[s] \in {"off", "done"}
               \/ ~ended /\ got[s] = tail
=============================================================================
