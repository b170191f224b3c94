---------------------------- MODULE StreamProofs ----------------------------
(***************************************************************************)
(* The in-memory bridge keeps the promise of the StreamBridge interface,   *)
(* for any number of subscribers, any queue size and any number of events. *)
(***************************************************************************)
EXTENDS MemoryStream, TLAPS

\* A generator's cursor is its client's position, unless both lie before the
\* retained window; a stream has not ended while its producer runs.
CursorInv(s) ==
    \/ next_offset[s] = got[s]
    \/ next_offset[s] <= start_offset /\ got[s] <= start_offset

StreamInv ==
    /\ TypeOK
    /\ prod = "running" => ~ended
    /\ \A s \in Subscribers :
        conn[s] \in {"ready", "waiting"} /\ ref[s] = "first" => CursorInv(s)
    /\ NoMissedWakeup

-----------------------------------------------------------------------------
\* No generator is open initially.
LEMMA StreamInit == Init => StreamInv
  <1> SUFFICES ASSUME Init PROVE StreamInv
    OBVIOUS
  <1>1. TypeOK
    <2>1. /\ tail \in 0 .. MaxEvents /\ start_offset \in 0 .. tail
          /\ tail - start_offset <= MaxSize /\ 0 \in 0 .. tail
      BY MemoryAssumption DEF Init
    <2>2. ended \in BOOLEAN
      BY DEF Init
    <2>3. /\ next_offset \in [Subscribers -> 0 .. tail]
          /\ got \in [Subscribers -> 0 .. tail]
      BY <2>1 DEF Init
    <2>4. /\ table \in {"none", "first", "second"}
          /\ prod \in {"running", "ended", "cleaned", "lost"}
          /\ conn \in [Subscribers -> {"off", "ready", "waiting", "done"}]
          /\ ref \in [Subscribers -> {"first", "second"}]
      BY DEF Init
    <2> QED BY <2>1, <2>2, <2>3, <2>4 DEF TypeOK
  <1>2. \A s \in Subscribers : conn[s] = "off"
    BY DEF Init
  <1>3. prod = "running" /\ ~ended
    BY DEF Init
  <1> QED BY <1>1, <1>2, <1>3 DEF StreamInv, NoMissedWakeup

\* The clamped cursor of a generator on the run's stream.
LEMMA CursorFacts ==
    ASSUME TypeOK, NEW s \in Subscribers, ref[s] = "first"
    PROVE  /\ Cursor(s) \in start_offset .. tail
           /\ Cursor(s) = Larger(next_offset[s], start_offset)
           /\ HasEntry(s) <=> Cursor(s) < tail
  BY DEF TypeOK, Cursor, Larger, HasEntry

\* Every step keeps the types.
LEMMA TypeStep == TypeOK /\ [Next]_vars => TypeOK'
  <1> SUFFICES ASSUME TypeOK, [Next]_vars PROVE TypeOK'
    OBVIOUS
  <1>1. Notified \in [Subscribers -> {"off", "ready", "waiting", "done"}]
    BY DEF TypeOK, Notified
  <1>2. CASE Publish
    BY <1>1, <1>2, MemoryAssumption DEF TypeOK, Publish, Stream, Larger
  <1>3. CASE PublishEnd
    BY <1>1, <1>3 DEF TypeOK, PublishEnd, Stream
  <1>4. CASE ProducerLost \/ Cleanup
    BY <1>4 DEF TypeOK, ProducerLost, Cleanup
  <1>5. ASSUME NEW s \in Subscribers, Subscribe(s) PROVE TypeOK'
    BY <1>5 DEF TypeOK, Subscribe, Stream, ResolveStartOffset
  <1>6. ASSUME NEW s \in Subscribers, ReaderStep(s) \/ Disconnect(s) PROVE TypeOK'
    <2>1. CASE Deliver(s)
      BY <2>1, CursorFacts DEF TypeOK, Deliver, HasEntry
    <2>2. Cursor(s) \in 0 .. tail
      BY DEF TypeOK, Cursor, Larger
    <2>3. CASE Finish(s) \/ Wait(s)
      BY <2>2, <2>3 DEF TypeOK, Finish, Wait
    <2>4. CASE Heartbeat(s) \/ Disconnect(s)
      BY <2>4 DEF TypeOK, Heartbeat, Disconnect
    <2> QED BY <1>6, <2>1, <2>3, <2>4 DEF ReaderStep
  <1>7. CASE UNCHANGED vars
    BY <1>7 DEF vars, TypeOK
  <1> QED BY <1>2, <1>3, <1>4, <1>5, <1>6, <1>7 DEF Next

\* No step of anybody makes a client lose its place.
LEMMA CursorStep ==
    ASSUME StreamInv, TypeOK', [Next]_vars, NEW q \in Subscribers,
           conn'[q] \in {"ready", "waiting"}, ref'[q] = "first"
    PROVE  CursorInv(q)'
  <1>1. TypeOK
    BY DEF StreamInv
  <1>2. CASE Publish \/ PublishEnd \/ ProducerLost \/ Cleanup \/ UNCHANGED vars
    <2>1. /\ conn[q] \in {"ready", "waiting"} /\ ref[q] = "first"
          /\ UNCHANGED <<got, next_offset>> /\ start_offset' >= start_offset
      BY <1>1, <1>2
         DEF Publish, PublishEnd, ProducerLost, Cleanup, vars, Notified,
             TypeOK, Larger
    <2>2. CursorInv(q)
      BY <2>1 DEF StreamInv
    <2> QED BY <1>1, <2>1, <2>2 DEF CursorInv, TypeOK
  <1>3. ASSUME NEW s \in Subscribers, Subscribe(s)
        PROVE  CursorInv(q)'
    <2>1. CASE s = q
      <3>1. PICK k \in {0, got[s]} :
               /\ got' = [got EXCEPT ![s] = k]
               /\ next_offset' = [next_offset EXCEPT
                                    ![s] = ResolveStartOffset(Stream, k)]
        BY <1>3 DEF Subscribe
      <3>2. Stream = "first" /\ start_offset' = start_offset
        BY <1>1, <1>3, <2>1 DEF Subscribe, TypeOK
      <3>3. got'[q] = k /\ next_offset'[q] = ResolveStartOffset("first", k)
        BY <1>1, <2>1, <3>1, <3>2 DEF TypeOK
      <3> QED BY <1>1, <3>2, <3>3 DEF CursorInv, ResolveStartOffset, TypeOK
    <2>2. CASE s # q
      BY <1>1, <1>3, <2>2 DEF Subscribe, StreamInv, CursorInv, TypeOK
    <2> QED BY <2>1, <2>2
  <1>4. ASSUME NEW s \in Subscribers, ReaderStep(s) \/ Disconnect(s)
        PROVE  CursorInv(q)'
    <2>1. UNCHANGED <<ref, start_offset>>
      BY <1>4 DEF ReaderStep, Deliver, Finish, Wait, Heartbeat, Disconnect
    <2>2. CASE s # q
      <3>1. /\ conn'[q] = conn[q] /\ got'[q] = got[q]
            /\ next_offset'[q] = next_offset[q]
        BY <1>1, <1>4, <2>2
           DEF ReaderStep, Deliver, Finish, Wait, Heartbeat, Disconnect, TypeOK
      <3> QED BY <2>1, <3>1 DEF StreamInv, CursorInv
    <2>3. CASE s = q
      <3>1. conn[q] \in {"ready", "waiting"} /\ ref[q] = "first"
        BY <1>1, <1>4, <2>1, <2>3
           DEF ReaderStep, Deliver, Finish, Wait, Heartbeat, Disconnect, TypeOK
      <3>2. CursorInv(q)
        BY <3>1 DEF StreamInv
      <3>3. CASE Deliver(q)
        BY <1>1, <3>3 DEF Deliver, CursorInv, TypeOK
      <3>4. CASE Wait(q) \/ Finish(q)
        <4>1. next_offset'[q] = Larger(next_offset[q], start_offset)
              /\ got'[q] = got[q]
          BY <1>1, <3>1, <3>4, CursorFacts DEF Wait, Finish, TypeOK
        <4> QED BY <1>1, <2>1, <3>2, <4>1 DEF CursorInv, Larger, TypeOK
      <3>5. CASE Heartbeat(q) \/ Disconnect(q)
        BY <2>1, <3>2, <3>5 DEF Heartbeat, Disconnect, CursorInv
      <3> QED BY <1>4, <2>3, <3>3, <3>4, <3>5 DEF ReaderStep
    <2> QED BY <2>2, <2>3
  <1> QED BY <1>2, <1>3, <1>4 DEF Next

\* Nobody sleeps through an event or the end.
LEMMA WakeupStep ==
    ASSUME StreamInv, TypeOK', [Next]_vars
    PROVE  NoMissedWakeup'
  <1> SUFFICES ASSUME NEW q \in Subscribers, conn'[q] = "waiting"
               PROVE  ~HasEntry(q)' /\ ~AtEnd(q)'
    BY DEF NoMissedWakeup
  <1>1. TypeOK /\ NoMissedWakeup
    BY DEF StreamInv
  <1>2. CASE Publish \/ PublishEnd
    <2>1. ref'[q] = "second"
      BY <1>1, <1>2 DEF Publish, PublishEnd, Notified, TypeOK
    <2> QED BY <2>1 DEF HasEntry, AtEnd
  <1>3. CASE ProducerLost \/ Cleanup \/ UNCHANGED vars
    BY <1>1, <1>3 DEF ProducerLost, Cleanup, vars, NoMissedWakeup, HasEntry,
                      AtEnd, Cursor, Larger
  <1>4. ASSUME NEW s \in Subscribers, Subscribe(s) \/ ReaderStep(s) \/ Disconnect(s)
        PROVE  ~HasEntry(q)' /\ ~AtEnd(q)'
    <2>1. UNCHANGED <<tail, start_offset, ended>>
      BY <1>4 DEF Subscribe, ReaderStep, Deliver, Finish, Wait, Heartbeat, Disconnect
    <2>2. CASE s = q
      <3>1. Wait(q)
        BY <1>1, <1>4, <2>2
           DEF Subscribe, ReaderStep, Deliver, Finish, Wait, Heartbeat,
               Disconnect, TypeOK
      <3>2. /\ ref' = ref /\ ~HasEntry(q) /\ ~AtEnd(q)
            /\ next_offset'[q] = Cursor(q)
        BY <1>1, <3>1 DEF Wait, TypeOK
      <3> QED BY <1>1, <2>1, <3>2 DEF HasEntry, AtEnd, Cursor, Larger, TypeOK
    <2>3. CASE s # q
      <3>1. /\ conn'[q] = conn[q] /\ ref'[q] = ref[q]
            /\ next_offset'[q] = next_offset[q]
        BY <1>1, <1>4, <2>3
           DEF Subscribe, ReaderStep, Deliver, Finish, Wait, Heartbeat,
               Disconnect, TypeOK
      <3> QED BY <1>1, <2>1, <3>1
         DEF NoMissedWakeup, HasEntry, AtEnd, Cursor, Larger
    <2> QED BY <2>2, <2>3
  <1> QED BY <1>2, <1>3, <1>4 DEF Next

\* Every step keeps the invariant.
LEMMA StreamStep ==
    ASSUME StreamInv, [Next]_vars
    PROVE  StreamInv'
  <1>1. TypeOK'
    BY TypeStep DEF StreamInv
  <1>2. (prod = "running" => ~ended)'
    BY DEF StreamInv, TypeOK, Next, vars, Publish, PublishEnd, ProducerLost, Cleanup,
           Subscribe, ReaderStep, Deliver, Finish, Wait, Heartbeat, Disconnect
  <1>3. NoMissedWakeup'
    BY <1>1, WakeupStep
  <1> QED BY <1>1, <1>2, <1>3, CursorStep DEF StreamInv

-----------------------------------------------------------------------------
(* The theorems.                                                           *)

\* The inductive invariant of MemoryStreamBridge: types, a cursor that agrees
\* with its client, and no generator asleep while there is something for it.
THEOREM StreamInvariant == Spec => []StreamInv
  <1>1. StreamInv /\ [Next]_vars => StreamInv'
    BY StreamStep
  <1> QED BY StreamInit, <1>1, PTL DEF Spec

\* No subscriber sleeps while there is an event or the end for it.
THEOREM NobodySleepsThrough == Spec => []NoMissedWakeup
  <1>1. StreamInv => NoMissedWakeup
    BY DEF StreamInv
  <1> QED BY StreamInvariant, <1>1, PTL

\* Every step of the bridge is a step of the promised stream, or stutters.
LEMMA StreamRefines ==
    ASSUME StreamInv, [Next]_vars
    PROVE  [Abstract!SNext]_(Abstract!svars)
  <1> DEFINE view == [s \in Subscribers |->
                        IF conn[s] = "waiting" \/ conn[s] = "ready" THEN "open"
                        ELSE conn[s]]
  <1>1. TypeOK
    BY DEF StreamInv
  <1>2. CASE Publish
    <2>1. view' = view
      BY <1>1, <1>2 DEF Publish, Notified, TypeOK
    <2>2. ~ended /\ UNCHANGED <<ended, got>>
      BY <1>2 DEF Publish, StreamInv
    <2>3. tail' = tail + 1 /\ start_offset' \in start_offset .. tail + 1
      BY <1>1, <1>2, MemoryAssumption DEF Publish, Larger, TypeOK
    <2>4. Abstract!SPublish
      BY <2>1, <2>2, <2>3 DEF Abstract!SPublish
    <2> QED BY <2>4 DEF Abstract!SNext
  <1>3. CASE PublishEnd
    <2>1. view' = view
      BY <1>1, <1>3 DEF PublishEnd, Notified, TypeOK
    <2>2. /\ ~ended /\ ended' = TRUE /\ UNCHANGED <<tail, start_offset, got>>
      BY <1>3 DEF PublishEnd, StreamInv
    <2>3. Abstract!SEnd
      BY <2>1, <2>2 DEF Abstract!SEnd
    <2> QED BY <2>3 DEF Abstract!SNext
  <1>4. CASE ProducerLost \/ Cleanup \/ UNCHANGED vars
    BY <1>4 DEF ProducerLost, Cleanup, vars, Abstract!svars
  <1>5. ASSUME NEW s \in Subscribers, Subscribe(s)
        PROVE  Abstract!SOpen(s)
    <2>1. view[s] # "open" /\ view' = [view EXCEPT ![s] = "open"]
      BY <1>1, <1>5 DEF Subscribe, TypeOK
    <2>2. got' \in {got, [got EXCEPT ![s] = 0]}
      <3>1. PICK k \in {0, got[s]} : got' = [got EXCEPT ![s] = k]
        BY <1>5 DEF Subscribe
      <3>2. [got EXCEPT ![s] = got[s]] = got
        BY <1>1 DEF TypeOK
      <3> QED BY <3>1, <3>2
    <2>3. UNCHANGED <<tail, start_offset, ended>>
      BY <1>5 DEF Subscribe
    <2> QED BY <2>1, <2>2, <2>3 DEF Abstract!SOpen
  <1>6. ASSUME NEW s \in Subscribers, Deliver(s)
        PROVE  Abstract!SDeliver(s)
    <2>1. /\ conn[s] = "ready" /\ ref[s] = "first" /\ Cursor(s) < tail
          /\ got' = [got EXCEPT ![s] = Cursor(s) + 1]
          /\ UNCHANGED <<tail, start_offset, ended, conn>>
      BY <1>6 DEF Deliver, HasEntry
    <2>2. CursorInv(s) /\ Cursor(s) = Larger(next_offset[s], start_offset)
      BY <1>1, <2>1, CursorFacts DEF StreamInv
    <2>3. /\ Cursor(s) + 1 \in got[s] + 1 .. Abstract!Larger(got[s], start_offset) + 1
          /\ Cursor(s) + 1 <= tail
      BY <1>1, <2>1, <2>2 DEF CursorInv, Larger, Abstract!Larger, TypeOK
    <2>4. view[s] = "open" /\ view' = view
      BY <2>1
    <2> QED BY <2>1, <2>3, <2>4 DEF Abstract!SDeliver
  <1>7. ASSUME NEW s \in Subscribers, Finish(s)
        PROVE  Abstract!SFinish(s)
    <2>1. /\ conn[s] = "ready" /\ ref[s] = "first" /\ ended /\ ~HasEntry(s)
          /\ conn' = [conn EXCEPT ![s] = "done"]
          /\ UNCHANGED <<tail, start_offset, ended, got>>
      BY <1>7 DEF Finish, AtEnd
    <2>2. CursorInv(s) /\ Cursor(s) = Larger(next_offset[s], start_offset)
          /\ Cursor(s) = tail
      BY <1>1, <2>1, CursorFacts DEF StreamInv, TypeOK
    <2>3. Abstract!Larger(got[s], start_offset) = tail
      BY <1>1, <2>2 DEF CursorInv, Larger, Abstract!Larger, TypeOK
    <2>4. view[s] = "open" /\ view' = [view EXCEPT ![s] = "done"]
      BY <1>1, <2>1 DEF TypeOK
    <2> QED BY <2>1, <2>3, <2>4 DEF Abstract!SFinish
  <1>8. ASSUME NEW s \in Subscribers, Wait(s) \/ Heartbeat(s)
        PROVE  UNCHANGED Abstract!svars
    <2>1. view' = view
      BY <1>1, <1>8 DEF Wait, Heartbeat, TypeOK
    <2> QED BY <1>8, <2>1 DEF Wait, Heartbeat, Abstract!svars
  <1>9. ASSUME NEW s \in Subscribers, Disconnect(s)
        PROVE  Abstract!SClose(s)
    <2>1. view[s] = "open" /\ view' = [view EXCEPT ![s] = "off"]
      BY <1>1, <1>9 DEF Disconnect, TypeOK
    <2> QED BY <1>9, <2>1 DEF Disconnect, Abstract!SClose
  <1> QED BY <1>2, <1>3, <1>4, <1>5, <1>6, <1>7, <1>8, <1>9
     DEF Next, ReaderStep, Abstract!SNext, Abstract!SMove

\* The in-memory bridge implements the promise of the interface: events in
\* order, none twice, none skipped unless evicted, the end after all of them.
THEOREM MemoryKeepsPromise == Spec => KeepsStreamPromise
  <1>1. Init => Abstract!SInit
    BY DEF Init, Abstract!SInit
  <1>2. StreamInv /\ [Next]_vars => [Abstract!SNext]_(Abstract!svars)
    BY StreamRefines
  <1> QED BY StreamInvariant, <1>1, <1>2, PTL
     DEF Spec, KeepsStreamPromise, Abstract!SSpec

\* Every operation of the in-memory bridge keeps the shape of its state: no
\* cursor past the last event, no window beyond queue_maxsize.
THEOREM MemoryTypes == Spec => []TypeOK
  <1>1. StreamInv => TypeOK
    BY DEF StreamInv
  <1> QED BY StreamInvariant, <1>1, PTL
=============================================================================
