------------------------- MODULE RedisStreamProofs -------------------------
(***************************************************************************)
(* The Redis bridge delivers in order, for any number of subscribers and   *)
(* replicas, any retention, any failures of Redis commands and any loss of *)
(* the keys.                                                               *)
(***************************************************************************)
EXTENDS RedisStream, TLAPS

\* Between polls a generator's cursor is its client's position; an answer in
\* hand may start later, after entries that had been dropped.
PlaceInv(s) ==
    \/ cursor[s] = got[s]
    \/ conn[s] = "yield" /\ got[s] <= cursor[s] /\ cursor[s] <= lo

OrderInv ==
    /\ TypeOK
    /\ endkey => prod = "ended" \/ prod = "cleaned"
    /\ \A s \in Subscribers : Open(s) => PlaceInv(s)

-----------------------------------------------------------------------------
\* No generator is open initially.
LEMMA OrderInit == Init => OrderInv
  <1> SUFFICES ASSUME Init PROVE OrderInv
    OBVIOUS
  <1>1. /\ hi \in 0 .. MaxEvents /\ lo \in 0 .. hi /\ calls \in hi .. MaxEvents
        /\ 0 \in 0 .. hi /\ budget \in 0 .. MaxFaults
    BY RedisAssumption DEF Init
  <1>2. endkey \in BOOLEAN /\ ~endkey
    BY DEF Init
  <1>3. /\ cursor \in [Subscribers -> 0 .. hi]
        /\ upto \in [Subscribers -> 0 .. hi]
        /\ got \in [Subscribers -> 0 .. hi]
    BY <1>1 DEF Init
  <1>4. /\ conn \in [Subscribers -> {"off", "read", "yield", "check", "done"}]
        /\ prod \in {"running", "ended", "cleaned", "lost"}
        /\ \A s \in Subscribers : conn[s] = "off" /\ got[s] <= cursor[s]
    BY DEF Init
  <1>5. TypeOK
    BY <1>1, <1>2, <1>3, <1>4 DEF TypeOK
  <1> QED BY <1>2, <1>4, <1>5 DEF OrderInv, Open

\* The producer, cleanup and the TTL leave the subscribers alone.
LEMMA ProducerStep ==
    ASSUME OrderInv, Publish \/ PublishEnd \/ ProducerLost \/ Cleanup \/ Expire
    PROVE  OrderInv'
  <1>1. TypeOK
    BY DEF OrderInv
  <1>2. UNCHANGED <<conn, cursor, upto, got>>
    BY DEF Publish, PublishEnd, ProducerLost, Cleanup, Expire
  <1>3. /\ hi' \in 0 .. MaxEvents /\ hi' >= hi /\ lo' \in lo .. hi'
        /\ calls' \in hi' .. MaxEvents
    BY <1>1, RedisAssumption
       DEF TypeOK, Publish, PublishEnd, ProducerLost, Cleanup, Expire, Larger
  <1>4. budget' \in 0 .. MaxFaults
    BY <1>1, RedisAssumption
       DEF TypeOK, Publish, PublishEnd, ProducerLost, Cleanup, Expire, Fault
  <1>5. endkey' \in BOOLEAN
    BY <1>1 DEF TypeOK, Publish, PublishEnd, ProducerLost, Cleanup, Expire
  <1>6. /\ prod' \in {"running", "ended", "cleaned", "lost"}
        /\ endkey' => prod' = "ended" \/ prod' = "cleaned"
    BY <1>1 DEF OrderInv, TypeOK, Publish, PublishEnd, ProducerLost, Cleanup, Expire
  <1>7. TypeOK'
    BY <1>1, <1>2, <1>3, <1>4, <1>5, <1>6 DEF TypeOK
  <1>8. ASSUME NEW s \in Subscribers, Open(s)' PROVE PlaceInv(s)'
    BY <1>1, <1>2, <1>3, <1>8 DEF OrderInv, Open, PlaceInv, TypeOK
  <1> QED BY <1>6, <1>7, <1>8 DEF OrderInv

\* A step of one subscriber's generator or client.
LEMMA SubscriberStep ==
    ASSUME OrderInv, NEW s \in Subscribers,
           Subscribe(s) \/ Disconnect(s) \/ ReaderStep(s)
    PROVE  OrderInv'
  <1>1. TypeOK
    BY DEF OrderInv
  <1>2. UNCHANGED <<hi, lo, endkey, calls, prod>>
    BY DEF Subscribe, Disconnect, ReaderStep, XRead, Yield, CheckEnd
  <1>3. budget' \in 0 .. MaxFaults
    BY <1>1, RedisAssumption
       DEF TypeOK, Subscribe, Disconnect, ReaderStep, XRead, Yield, CheckEnd, Fault
  <1>4. ASSUME NEW q \in Subscribers, q # s
        PROVE  /\ conn'[q] = conn[q] /\ cursor'[q] = cursor[q]
               /\ upto'[q] = upto[q] /\ got'[q] = got[q]
    BY <1>1, <1>4
       DEF TypeOK, Subscribe, Disconnect, ReaderStep, XRead, Yield, CheckEnd
  <1> DEFINE Fits == /\ conn'[s] \in {"off", "read", "yield", "check", "done"}
                     /\ cursor'[s] \in 0 .. hi
                     /\ upto'[s] \in 0 .. hi
                     /\ got'[s] \in 0 .. hi /\ got'[s] <= cursor'[s]
                     /\ conn'[s] = "yield" => cursor'[s] < upto'[s]
                     /\ Open(s)' => PlaceInv(s)'
  <1>5. ASSUME Subscribe(s) PROVE Fits
    BY <1>1, <1>2, <1>5 DEF Subscribe, TypeOK, PlaceInv
  <1>6. ASSUME Disconnect(s) PROVE Fits
    BY <1>1, <1>2, <1>6 DEF Disconnect, TypeOK, Open
  <1>7. ASSUME CheckEnd(s) PROVE Fits
    <2>1. cursor[s] = got[s]
      BY <1>7 DEF CheckEnd, OrderInv, Open, PlaceInv
    <2>2. /\ conn'[s] \in {"read", "done"}
          /\ UNCHANGED <<cursor, upto, got>>
      BY <1>1, <1>7 DEF CheckEnd, TypeOK
    <2> QED BY <1>1, <2>1, <2>2 DEF TypeOK, PlaceInv
  <1>8. ASSUME Yield(s) PROVE Fits
    <2>1. cursor[s] < upto[s]
      BY <1>1, <1>8 DEF Yield, TypeOK
    <2>2. /\ cursor'[s] = cursor[s] + 1 /\ got'[s] = cursor[s] + 1
          /\ upto' = upto
          /\ conn'[s] = IF cursor[s] + 1 = upto[s] THEN "read" ELSE "yield"
      BY <1>1, <1>8 DEF Yield, TypeOK
    <2> QED BY <1>1, <2>1, <2>2 DEF TypeOK, PlaceInv
  <1>9. ASSUME XRead(s) PROVE Fits
    <2>1. cursor[s] = got[s] /\ conn[s] = "read"
      BY <1>9 DEF XRead, OrderInv, Open, PlaceInv
    <2>2. FirstAfter(s) \in 1 .. hi + 1 /\ FirstAfter(s) - 1 >= cursor[s]
          /\ (FirstAfter(s) - 1 = cursor[s] \/ FirstAfter(s) - 1 <= lo)
      BY <1>1 DEF FirstAfter, Larger, TypeOK
    <2>3. CASE /\ FirstAfter(s) <= hi
               /\ conn' = [conn EXCEPT ![s] = "yield"]
               /\ cursor' = [cursor EXCEPT ![s] = FirstAfter(s) - 1]
               /\ upto' = [upto EXCEPT ![s] = Smaller(hi, FirstAfter(s) + Count - 1)]
      <3>1. /\ conn'[s] = "yield" /\ cursor'[s] = FirstAfter(s) - 1
            /\ upto'[s] = Smaller(hi, FirstAfter(s) + Count - 1)
            /\ got' = got
        BY <1>1, <1>9, <2>3 DEF XRead, TypeOK
      <3>2. upto'[s] \in FirstAfter(s) .. hi
        BY <1>1, <2>2, <2>3, <3>1, RedisAssumption DEF Smaller, TypeOK
      <3> QED BY <1>1, <1>2, <2>1, <2>2, <2>3, <3>1, <3>2 DEF TypeOK, PlaceInv
    <2>4. CASE conn'[s] \in {"read", "check"} /\ UNCHANGED <<cursor, upto>>
      BY <1>1, <1>9, <2>1, <2>4 DEF XRead, TypeOK, PlaceInv
    <2> QED BY <1>1, <1>9, <2>3, <2>4 DEF XRead, TypeOK
  <1>10. Fits
    BY <1>5, <1>6, <1>7, <1>8, <1>9 DEF ReaderStep
  <1>11. /\ conn' \in [Subscribers -> {"off", "read", "yield", "check", "done"}]
         /\ cursor' \in [Subscribers -> 0 .. hi]
         /\ upto' \in [Subscribers -> 0 .. hi]
         /\ got' \in [Subscribers -> 0 .. hi]
    <2>1. /\ conn' = [conn EXCEPT ![s] = conn'[s]]
          /\ cursor' = [cursor EXCEPT ![s] = cursor'[s]]
          /\ upto' = [upto EXCEPT ![s] = upto'[s]]
          /\ got' = [got EXCEPT ![s] = got'[s]]
      BY <1>1
         DEF TypeOK, Subscribe, Disconnect, ReaderStep, XRead, Yield, CheckEnd
    <2> QED BY <1>1, <1>10, <2>1 DEF TypeOK
  <1>12. TypeOK'
    BY <1>1, <1>2, <1>3, <1>4, <1>10, <1>11 DEF TypeOK
  <1>13. ASSUME NEW q \in Subscribers, Open(q)' PROVE PlaceInv(q)'
    BY <1>2, <1>4, <1>10, <1>13 DEF OrderInv, Open, PlaceInv
  <1> QED BY <1>2, <1>12, <1>13 DEF OrderInv

\* The invariant behind in-order delivery, in every reachable state.
THEOREM OrderInvariant == Spec => []OrderInv
  <1>1. OrderInv /\ [Next]_vars => OrderInv'
    <2>1. OrderInv /\ UNCHANGED vars => OrderInv'
      BY DEF vars, OrderInv, TypeOK, Open, PlaceInv
    <2> QED BY <2>1, ProducerStep, SubscriberStep DEF Next
  <1> QED BY OrderInit, <1>1, PTL DEF Spec

-----------------------------------------------------------------------------
\* Every step of the bridge is a step of the promised stream, with an end
\* that may overtake events, or stutters.
LEMMA OrderRefines ==
    ASSUME OrderInv, [Next]_vars
    PROVE  [Abstract!SNextEarly]_(Abstract!svars)
  <1> DEFINE view == [s \in Subscribers |-> IF Open(s) THEN "open" ELSE conn[s]]
  <1>1. TypeOK
    BY DEF OrderInv
  <1>2. CASE Publish
    <2>1. UNCHANGED <<view, got, prod>> /\ prod = "running"
      BY <1>2 DEF Publish, Open
    <2>2. CASE /\ hi' = hi + 1 /\ lo' \in lo .. Larger(lo, hi + 1 - MaxLen)
      <3>1. lo' \in lo .. hi + 1
        BY <1>1, <2>2, RedisAssumption DEF Larger, TypeOK
      <3>2. Abstract!SPublish
        BY <2>1, <2>2, <3>1 DEF Abstract!SPublish
      <3> QED BY <3>2 DEF Abstract!SNextEarly
    <2>3. CASE UNCHANGED <<hi, lo>>
      BY <2>1, <2>3 DEF Abstract!svars
    <2> QED BY <1>2, <2>2, <2>3 DEF Publish
  <1>3. CASE PublishEnd
    <2>1. /\ UNCHANGED <<view, got, hi, lo>> /\ prod = "running" /\ prod' = "ended"
      BY <1>3 DEF PublishEnd, Open
    <2>2. Abstract!SEnd
      BY <2>1 DEF Abstract!SEnd
    <2> QED BY <2>2 DEF Abstract!SNextEarly
  <1>4. CASE Cleanup \/ Expire \/ ProducerLost
    <2>1. /\ UNCHANGED <<view, got, hi>>
          /\ (prod' = "ended" \/ prod' = "cleaned")
               = (prod = "ended" \/ prod = "cleaned")
      BY <1>4 DEF Cleanup, Expire, ProducerLost, Open
    <2>2. lo' \in lo .. hi
      BY <1>1, <1>4 DEF Cleanup, Expire, ProducerLost, TypeOK
    <2>3. Abstract!SEvict
      BY <2>1, <2>2 DEF Abstract!SEvict
    <2> QED BY <2>3 DEF Abstract!SNextEarly
  <1>5. CASE UNCHANGED vars
    BY <1>5 DEF vars, Open, Abstract!svars
  <1>6. ASSUME NEW s \in Subscribers, Subscribe(s)
        PROVE  Abstract!SOpen(s)
    <2>1. view[s] # "open" /\ view' = [view EXCEPT ![s] = "open"]
      BY <1>1, <1>6 DEF Subscribe, TypeOK, Open
    <2>2. got' \in {got, [got EXCEPT ![s] = 0]}
      <3>1. PICK k \in {0, got[s]} : got' = [got EXCEPT ![s] = k]
        BY <1>6 DEF Subscribe
      <3>2. [got EXCEPT ![s] = got[s]] = got
        BY <1>1 DEF TypeOK
      <3> QED BY <3>1, <3>2
    <2>3. UNCHANGED <<hi, lo, prod>>
      BY <1>6 DEF Subscribe
    <2> QED BY <2>1, <2>2, <2>3 DEF Abstract!SOpen
  <1>7. ASSUME NEW s \in Subscribers, Yield(s)
        PROVE  Abstract!SDeliver(s)
    <2>1. /\ conn[s] = "yield" /\ cursor[s] < upto[s] /\ PlaceInv(s)
      BY <1>1, <1>7 DEF Yield, TypeOK, OrderInv, Open
    <2>2. /\ cursor[s] + 1 \in got[s] + 1 .. Abstract!Larger(got[s], lo) + 1
          /\ cursor[s] + 1 <= hi
      BY <1>1, <2>1 DEF PlaceInv, Abstract!Larger, TypeOK
    <2>3. view[s] = "open" /\ view' = view
      BY <1>1, <1>7 DEF Yield, TypeOK, Open
    <2>4. got' = [got EXCEPT ![s] = cursor[s] + 1] /\ UNCHANGED <<hi, lo, prod>>
      BY <1>7 DEF Yield
    <2> QED BY <2>2, <2>3, <2>4 DEF Abstract!SDeliver
  <1>8. ASSUME NEW s \in Subscribers, XRead(s)
        PROVE  UNCHANGED Abstract!svars
    <2>1. view' = view
      BY <1>1, <1>8 DEF XRead, TypeOK, Open
    <2> QED BY <1>8, <2>1 DEF XRead, Abstract!svars
  <1>9. ASSUME NEW s \in Subscribers, CheckEnd(s)
        PROVE  Abstract!SFinishEarly(s) \/ UNCHANGED Abstract!svars
    <2>1. UNCHANGED <<hi, lo, prod, got>> /\ conn[s] = "check"
      BY <1>9 DEF CheckEnd
    <2>2. CASE conn' = [conn EXCEPT ![s] = "read"]
      <3>1. view' = view
        BY <1>1, <2>1, <2>2 DEF TypeOK, Open
      <3> QED BY <2>1, <3>1 DEF Abstract!svars
    <2>3. CASE endkey /\ conn' = [conn EXCEPT ![s] = "done"]
      <3>1. view[s] = "open" /\ view' = [view EXCEPT ![s] = "done"]
        BY <1>1, <2>1, <2>3 DEF TypeOK, Open
      <3>2. prod = "ended" \/ prod = "cleaned"
        BY <2>3 DEF OrderInv
      <3> QED BY <2>1, <3>1, <3>2 DEF Abstract!SFinishEarly
    <2> QED BY <1>9, <2>2, <2>3 DEF CheckEnd, EndSeen
  <1>10. ASSUME NEW s \in Subscribers, Disconnect(s)
         PROVE  Abstract!SClose(s)
    <2>1. view[s] = "open" /\ view' = [view EXCEPT ![s] = "off"]
      BY <1>1, <1>10 DEF Disconnect, TypeOK, Open
    <2> QED BY <1>10, <2>1 DEF Disconnect, Abstract!SClose
  <1> QED BY <1>2, <1>3, <1>4, <1>5, <1>6, <1>7, <1>8, <1>9, <1>10
     DEF Next, ReaderStep, Abstract!SNextEarly, Abstract!SMove

\* The Redis bridge delivers events in order, none twice, none skipped unless
\* dropped by Redis, and the end only after publish_end.
THEOREM RedisKeepsOrder == Spec => KeepsOrder
  <1>1. Init => Abstract!SInit
    BY DEF Init, Open, Abstract!SInit
  <1>2. OrderInv /\ [Next]_vars => [Abstract!SNextEarly]_(Abstract!svars)
    BY OrderRefines
  <1> QED BY OrderInvariant, <1>1, <1>2, PTL
     DEF Spec, KeepsOrder, Abstract!SSpecEarly

\* Every command of the Redis bridge, failed or not, keeps the shape of the
\* state.
THEOREM RedisTypes == Spec => []TypeOK
  <1>1. OrderInv => TypeOK
    BY DEF OrderInv
  <1> QED BY OrderInvariant, <1>1, PTL
=============================================================================
