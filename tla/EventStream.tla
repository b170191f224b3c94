---------------------------- MODULE EventStream ----------------------------
(***************************************************************************)
(* What the StreamBridge interface promises the subscribers of one run,    *)
(* whatever the backend: each receives the events in order, without        *)
(* repetition and without gaps other than evicted events, and the end of   *)
(* the stream once the producer called publish_end.  Events are numbered   *)
(* 1, 2, ... in the order they were published.                             *)
(***************************************************************************)
EXTENDS Integers

CONSTANT Subscribers

VARIABLES
    count,    \* events published
    evicted,  \* events 1 .. evicted are no longer retained
    over,     \* the producer called publish_end
    got,      \* per subscriber: the last event it received (Last-Event-ID)
    conn      \* per subscriber: its subscription

svars == <<count, evicted, over, got, conn>>

Larger(a, b) == IF a >= b THEN a ELSE b

SInit ==
    /\ count = 0 /\ evicted = 0
    /\ over = FALSE
    /\ got = [s \in Subscribers |-> 0]
    /\ conn = [s \in Subscribers |-> "off"]

SPublish ==
    /\ ~over
    /\ count' = count + 1
    /\ evicted' \in evicted .. count + 1
    /\ UNCHANGED <<over, got, conn>>

SEnd ==
    /\ ~over /\ over' = TRUE
    /\ UNCHANGED <<count, evicted, got, conn>>

\* Events may be dropped from the head at any time: maxlen, TTL, cleanup.
SEvict ==
    /\ evicted' \in evicted .. count
    /\ UNCHANGED <<count, over, got, conn>>

\* A client subscribes afresh, or resumes after the last event it received.
SOpen(s) ==
    /\ conn[s] # "open"
    /\ conn' = [conn EXCEPT ![s] = "open"]
    /\ got' \in {got, [got EXCEPT ![s] = 0]}
    /\ UNCHANGED <<count, evicted, over>>

\* The next event the subscriber has not received; it may miss evicted ones.
SDeliver(s) ==
    /\ conn[s] = "open"
    /\ \E k \in got[s] + 1 .. Larger(got[s], evicted) + 1 :
        k <= count /\ got' = [got EXCEPT ![s] = k]
    /\ UNCHANGED <<count, evicted, over, conn>>

\* END_SENTINEL, after everything that is retained.
SFinish(s) ==
    /\ conn[s] = "open" /\ over
    /\ Larger(got[s], evicted) = count
    /\ conn' = [conn EXCEPT ![s] = "done"]
    /\ UNCHANGED <<count, evicted, over, got>>

\* END_SENTINEL, with no promise about the events still to come.
SFinishEarly(s) ==
    /\ conn[s] = "open" /\ over
    /\ conn' = [conn EXCEPT ![s] = "done"]
    /\ UNCHANGED <<count, evicted, over, got>>

SClose(s) ==
    /\ conn[s] = "open"
    /\ conn' = [conn EXCEPT ![s] = "off"]
    /\ UNCHANGED <<count, evicted, over, got>>

SMove(s) == SOpen(s) \/ SDeliver(s) \/ SClose(s)

SNext ==
    \/ SPublish \/ SEnd \/ SEvict
    \/ \E s \in Subscribers : SMove(s) \/ SFinish(s)

\* The promise of the interface.
SSpec == SInit /\ [][SNext]_svars

SNextEarly ==
    \/ SPublish \/ SEnd \/ SEvict
    \/ \E s \in Subscribers : SMove(s) \/ SFinishEarly(s)

\* The same with an end that may overtake events.
SSpecEarly == SInit /\ [][SNextEarly]_svars
=============================================================================
