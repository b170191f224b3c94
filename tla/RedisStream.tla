---------------------------- MODULE RedisStream ----------------------------
(***************************************************************************)
(* RedisStreamBridge, for one run: a Redis stream and an "ended" side key, *)
(* written by the producer's replica and polled by subscribers of any      *)
(* replica.  Every Redis command is a step of its own.  A command may fail *)
(* (the bridge logs and goes on), and the keys may be gone: cleanup, TTL.  *)
(***************************************************************************)
EXTENDS Integers

CONSTANTS
    Subscribers,
    MaxLen,     \* queue_maxsize
    Count,      \* entries one XREAD returns at most (100 in the code)
    MaxEvents,  \* bound: events the producer publishes
    MaxFaults   \* bound: Redis commands that fail

ASSUME RedisAssumption ==
    /\ MaxLen \in Nat \ {0} /\ Count \in Nat \ {0}
    /\ MaxEvents \in Nat /\ MaxFaults \in Nat

VARIABLES
    hi,       \* entries added; entry ids are 1 .. hi
    lo,       \* the stream key holds entries lo + 1 .. hi
    endkey,   \* the ended key exists
    calls,    \* publish calls of the producer
    prod,     \* the producer: "running", "ended", "cleaned" or "lost"
    conn,     \* per subscriber: what its subscribe() generator does next
    cursor,   \* per subscriber: the generator's cursor
    upto,     \* per subscriber: the last entry of the XREAD answer in hand
    got,      \* per subscriber: the last event id its client received
    budget    \* Redis commands that may still fail

vars == <<hi, lo, endkey, calls, prod, conn, cursor, upto, got, budget>>

Larger(a, b) == IF a >= b THEN a ELSE b
Smaller(a, b) == IF a <= b THEN a ELSE b

Fault == budget > 0 /\ budget' = budget - 1

Init ==
    /\ hi = 0 /\ lo = 0 /\ endkey = FALSE
    /\ calls = 0 /\ prod = "running"
    /\ conn = [s \in Subscribers |-> "off"]
    /\ cursor = [s \in Subscribers |-> 0]
    /\ upto = [s \in Subscribers |-> 0]
    /\ got = [s \in Subscribers |-> 0]
    /\ budget = MaxFaults

-----------------------------------------------------------------------------
(* The producer.                                                           *)

\* XADD with MAXLEN ~ (Redis may keep more than MaxLen); a failed XADD loses
\* the event.
Publish ==
    /\ prod = "running" /\ calls < MaxEvents
    /\ calls' = calls + 1
    /\ \/ /\ hi' = hi + 1
          /\ lo' \in lo .. Larger(lo, hi + 1 - MaxLen)
          /\ UNCHANGED budget
       \/ Fault /\ UNCHANGED <<hi, lo>>
    /\ UNCHANGED <<endkey, prod, conn, cursor, upto, got>>

\* SET of the side key; a failed one loses the end.
PublishEnd ==
    /\ prod = "running"
    /\ prod' = "ended"
    /\ \/ endkey' = TRUE /\ UNCHANGED budget
       \/ Fault /\ UNCHANGED endkey
    /\ UNCHANGED <<hi, lo, calls, conn, cursor, upto, got>>

\* The producer's process is gone, or its task was cancelled on the way to
\* publish_end.
ProducerLost ==
    /\ prod = "running"
    /\ prod' = "lost"
    /\ UNCHANGED <<hi, lo, endkey, calls, conn, cursor, upto, got, budget>>

\* DEL of both keys by the delayed cleanup of run_agent.
Cleanup ==
    /\ prod = "ended"
    /\ prod' = "cleaned"
    /\ \/ lo' = hi /\ endkey' = FALSE /\ UNCHANGED budget
       \/ Fault /\ UNCHANGED <<lo, endkey>>
    /\ UNCHANGED <<hi, calls, conn, cursor, upto, got>>

\* The TTL of the stream key runs from the last publish, while the run may
\* still be running; that of the ended key from publish_end.
Expire ==
    /\ \/ lo < hi /\ lo' = hi /\ UNCHANGED endkey
       \/ endkey /\ endkey' = FALSE /\ UNCHANGED lo
    /\ UNCHANGED <<hi, calls, prod, conn, cursor, upto, got, budget>>

-----------------------------------------------------------------------------
(* A subscriber.                                                           *)

Subscribe(s) ==
    /\ conn[s] \in {"off", "done"}
    /\ conn' = [conn EXCEPT ![s] = "read"]
    /\ \E k \in {0, got[s]} :
        /\ got' = [got EXCEPT ![s] = k]
        /\ cursor' = [cursor EXCEPT ![s] = k]
    /\ upto' = [upto EXCEPT ![s] = 0]
    /\ UNCHANGED <<hi, lo, endkey, calls, prod, budget>>

\* (mutant) the cursor is taken as inclusive.
FirstAtCursor(s) == Larger(cursor[s], lo + 1)

\* XREAD returns the retained entries with ids greater than the cursor.
FirstAfter(s) == Larger(cursor[s], lo) + 1

\* The cursor is set just before the first entry of the answer.  A failed
\* XREAD is a heartbeat and another turn.
XRead(s) ==
    /\ conn[s] = "read"
    /\ \/ /\ FirstAfter(s) <= hi
          /\ conn' = [conn EXCEPT ![s] = "yield"]
          /\ cursor' = [cursor EXCEPT ![s] = FirstAfter(s) - 1]
          /\ upto' = [upto EXCEPT ![s] = Smaller(hi, FirstAfter(s) + Count - 1)]
          /\ UNCHANGED budget
       \/ /\ FirstAfter(s) > hi
          /\ conn' = [conn EXCEPT ![s] = "check"]
          /\ UNCHANGED <<cursor, upto, budget>>
       \/ Fault /\ UNCHANGED <<conn, cursor, upto>>
    /\ UNCHANGED <<hi, lo, endkey, calls, prod, got>>

\* The entries in hand, one by one, whatever has happened to the key.
Yield(s) ==
    /\ conn[s] = "yield"
    /\ cursor' = [cursor EXCEPT ![s] = @ + 1]
    /\ got' = [got EXCEPT ![s] = cursor[s] + 1]
    /\ conn' = [conn EXCEPT ![s] = IF cursor[s] + 1 = upto[s] THEN "read"
                                   ELSE "yield"]
    /\ UNCHANGED <<hi, lo, endkey, calls, prod, upto, budget>>

\* (mutants) the end is not looked for; it is assumed.
EndUnseen == FALSE
EndAssumed == TRUE

\* EXISTS of the ended key.
EndSeen == endkey

\* A failed EXISTS counts as "not ended".
CheckEnd(s) ==
    /\ conn[s] = "check"
    /\ \/ /\ conn' = [conn EXCEPT ![s] = IF EndSeen THEN "done" ELSE "read"]
          /\ UNCHANGED budget
       \/ Fault /\ conn' = [conn EXCEPT ![s] = "read"]
    /\ UNCHANGED <<hi, lo, endkey, calls, prod, cursor, upto, got>>

Disconnect(s) ==
    /\ conn[s] \in {"read", "yield", "check"}
    /\ conn' = [conn EXCEPT ![s] = "off"]
    /\ UNCHANGED <<hi, lo, endkey, calls, prod, cursor, upto, got, budget>>

ReaderStep(s) == XRead(s) \/ Yield(s) \/ CheckEnd(s)

Next ==
    \/ Publish \/ PublishEnd \/ ProducerLost \/ Cleanup \/ Expire
    \/ \E s \in Subscribers : Subscribe(s) \/ Disconnect(s) \/ ReaderStep(s)

Spec == Init /\ [][Next]_vars

\* The run ends, if its process lives, and the event loop runs the generators
\* of connected clients.
FairSpec ==
    /\ Spec
    /\ WF_vars(PublishEnd)
    /\ \A s \in Subscribers : WF_vars(ReaderStep(s))

-----------------------------------------------------------------------------
(* Properties.                                                             *)

Open(s) == conn[s] \in {"read", "yield", "check"}

\* The shape of the state; an answer in hand is never exhausted, and no
\* client is ahead of its generator's cursor.
TypeOK ==
    /\ hi \in 0 .. MaxEvents /\ lo \in 0 .. hi /\ calls \in hi .. MaxEvents
    /\ endkey \in BOOLEAN
    /\ prod \in {"running", "ended", "cleaned", "lost"}
    /\ conn \in [Subscribers -> {"off", "read", "yield", "check", "done"}]
    /\ cursor \in [Subscribers -> 0 .. hi]
    /\ upto \in [Subscribers -> 0 .. hi]
    /\ got \in [Subscribers -> 0 .. hi]
    /\ \A s \in Subscribers :
        /\ conn[s] = "yield" => cursor[s] < upto[s]
        /\ got[s] <= cursor[s]
    /\ budget \in 0 .. MaxFaults

Abstract == INSTANCE EventStream WITH
    count <- hi, evicted <- lo, over <- prod = "ended" \/ prod = "cleaned",
    conn <- [s \in Subscribers |-> IF Open(s) THEN "open" ELSE conn[s]]

\* Events in order, none twice, none skipped unless evicted, and the end only
\* after publish_end, across replicas, failed commands and reconnections.
KeepsOrder == Abstract!SSpecEarly

\* A client of a run that ended is served to the end, unless it leaves, or
\* the ended key was never set, or removed before the client's next poll.
ServedWhileKeysLast ==
    \A s \in Subscribers :
        Open(s) ~> ~Open(s) \/ (prod # "running" /\ ~endkey)

=============================================================================
