------------------------- MODULE AuditOutboxProofs -------------------------
(***************************************************************************)
(* The audit outbox for any number of events, workers, faults and crashes: *)
(* type correctness, nothing is called published that is not recorded, and *)
(* a dead letter cost as many failed transactions as the threshold says.   *)
(***************************************************************************)
EXTENDS AuditOutbox, FiniteSetTheorems, TLAPS

\* A worker that is about to mark its row published has seen the event in the
\* ledger, where nothing is ever removed.
RecordedInv ==
    /\ PublishedIsRecorded
    /\ \A w \in Workers : pc[w] \in {"mark", "duplicate"} => cur[w] \subseteq ledger

\* The workers that will charge the retry budget of e.
Failing(e) == {w \in Workers : pc[w] \in {"fail", "failing"} /\ e \in cur[w]}

\* Each of them stands for a fault of its own that attempts does not count
\* yet, and so does what it read: a write back of an old count is no excuse.
Charged(e, n) == n + Cardinality(Failing(e)) <= faults

BudgetOf(e) ==
    /\ Charged(e, attempts[e])
    /\ \A w \in Failing(e) : pc[w] = "failing" => Charged(e, seen[w].attempts)
    /\ status[e] = "dead_letter" => faults >= Threshold

BudgetInv ==
    /\ \A w \in Workers : \A a, b \in cur[w] : a = b
    /\ \A e \in Events \ Undecodable : BudgetOf(e)

-----------------------------------------------------------------------------
(* Types.                                                                  *)

USE OutboxAssumption

LEMMA OutboxTypeInit == OutboxInit => OutboxTypeOK
  BY DEF OutboxInit, OutboxTypeOK, Statuses, Unseen

\* A worker has a row in hand exactly while it handles one.
InHand(w) == cur[w] = {} <=> pc[w] \in {"idle", "claim", "publish"}

LEMMA OutboxTypeStep == OutboxTypeOK /\ [OutboxNext]_outboxVars => OutboxTypeOK'
  <1> SUFFICES ASSUME OutboxTypeOK, [OutboxNext]_outboxVars PROVE OutboxTypeOK'
    OBVIOUS
  <1> DEFINE Rows == /\ status \in [Events -> Statuses]
                     /\ attempts \in [Events -> Nat]
                     /\ ready \in [Events -> BOOLEAN]
                     /\ aged \in [Events -> BOOLEAN]
                     /\ ledger \subseteq Events
             Shape == /\ pc \in [Workers -> {"idle", "claim", "publish", "insert",
                                            "mark", "duplicate", "fail", "failing"}]
                      /\ held \in [Workers -> SUBSET Events]
                      /\ cur \in [Workers -> SUBSET Events]
                      /\ seen \in [Workers -> [status : Statuses, attempts : Nat]]
             Bounds == faults \in 0 .. MaxFaults /\ crashes \in 0 .. MaxCrashes
  <1>0. Rows /\ Shape /\ Bounds /\ \A w \in Workers : InHand(w)
    BY DEF OutboxTypeOK, InHand
  <1> SUFFICES (Rows /\ Shape /\ Bounds)' /\ \A w \in Workers : InHand(w)'
    BY DEF OutboxTypeOK, InHand
  <1> USE <1>0 DEF Goto, Fault, NoFault, Done, Statuses, rowVars, workerVars
  <1> HIDE DEF Rows, Shape, Bounds
  <1>1. ASSUME NEW e \in Events, Enqueue(e) \/ Passing(e)
        PROVE  (Rows /\ Shape /\ Bounds)' /\ \A w \in Workers : InHand(w)'
    <2>1. Rows'
      <3>1. status' \in [Events -> Statuses] /\ attempts' = attempts /\ ledger' = ledger
        BY <1>1 DEF Enqueue, Passing, BackoffEnds, ClaimAges, Rows
      <3>2. ready' = ready \/ ready' = [ready EXCEPT ![e] = TRUE]
        BY <1>1 DEF Enqueue, Passing, BackoffEnds, ClaimAges
      <3>3. aged' = aged \/ aged' = [aged EXCEPT ![e] = TRUE]
        BY <1>1 DEF Enqueue, Passing, BackoffEnds, ClaimAges
      <3> QED BY <3>1, <3>2, <3>3 DEF Rows
    <2>2. UNCHANGED <<pc, held, cur, seen, faults, crashes>>
      BY <1>1 DEF Enqueue, Passing, BackoffEnds, ClaimAges
    <2> QED BY <2>1, <2>2 DEF Shape, Bounds, InHand
  <1>2. ASSUME NEW w \in Workers, Release(w)
        PROVE  (Rows /\ Shape /\ Bounds)' /\ \A v \in Workers : InHand(v)'
    <2>1. Rows'
      BY <1>2 DEF Release, AttemptsAfterRelease, Rows, Shape
    <2>2. Shape'
      BY <1>2 DEF Release, AttemptsAfterRelease, Rows, Shape
    <2>3. Bounds'
      BY <1>2 DEF Release, AttemptsAfterRelease, Bounds
    <2>4. ASSUME NEW v \in Workers PROVE InHand(v)'
      BY <1>2 DEF Release, AttemptsAfterRelease, Shape, InHand
    <2> QED BY <2>1, <2>2, <2>3, <2>4
  <1>3. ASSUME NEW w \in Workers, Claim(w)
        PROVE  (Rows /\ Shape /\ Bounds)' /\ \A v \in Workers : InHand(v)'
    <2>1. PICK batch \in SUBSET Events :
              /\ \/ status' = status
                 \/ status' = [e \in Events |-> IF e \in batch THEN "processing" ELSE status[e]]
              /\ aged' = aged \/ aged' = [e \in Events |-> aged[e] /\ e \notin batch]
              /\ held' = held \/ held' = [held EXCEPT ![w] = batch]
      BY <1>3 DEF Claim, Claimable
    <2>2. Rows'
      <3>1. status' \in [Events -> Statuses]
        BY <2>1 DEF Rows
      <3>2. aged' \in [Events -> BOOLEAN]
        BY <2>1 DEF Rows
      <3> QED BY <1>3, <3>1, <3>2 DEF Claim, Rows
    <2>3. Shape'
      BY <1>3, <2>1 DEF Claim, Shape
    <2>4. Bounds'
      BY <1>3 DEF Claim, Claimable, Bounds
    <2>5. ASSUME NEW v \in Workers PROVE InHand(v)'
      BY <1>3 DEF Claim, Claimable, Shape, InHand
    <2> QED BY <2>2, <2>3, <2>4, <2>5
  <1>4. ASSUME NEW w \in Workers, NextRow(w)
        PROVE  (Rows /\ Shape /\ Bounds)' /\ \A v \in Workers : InHand(v)'
    <2>1. UNCHANGED <<rowVars, seen, faults, crashes>> /\ pc[w] = "publish"
      BY <1>4 DEF NextRow
    <2>2. Rows' /\ Bounds'
      BY <2>1 DEF Rows, Bounds
    <2>3. CASE Goto(w, "idle") /\ UNCHANGED <<held, cur>>
      BY <2>1, <2>2, <2>3 DEF Shape, InHand
    <2>4. ASSUME NEW e \in held[w],
                 held' = [held EXCEPT ![w] = @ \ {e}], cur' = [cur EXCEPT ![w] = {e}],
                 Goto(w, IF e \in Undecodable THEN "fail" ELSE "insert")
          PROVE  Shape' /\ \A v \in Workers : InHand(v)'
      <3>1. e \in Events
        BY <2>4 DEF Shape
      <3>2. pc'[w] \in {"fail", "insert"} /\ cur'[w] = {e}
        BY <2>4 DEF Shape
      <3>3. Shape'
        BY <2>1, <2>4, <3>1 DEF Shape
      <3>4. ASSUME NEW v \in Workers PROVE InHand(v)'
        <4>1. CASE v = w
          BY <3>2, <4>1 DEF InHand
        <4>2. CASE v # w
          BY <2>4, <4>2 DEF Shape, InHand
        <4> QED BY <4>1, <4>2
      <3> QED BY <3>3, <3>4
    <2> QED BY <1>4, <2>2, <2>3, <2>4 DEF NextRow
  <1>5. ASSUME NEW w \in Workers, Insert(w)
        PROVE  (Rows /\ Shape /\ Bounds)' /\ \A v \in Workers : InHand(v)'
    <2>1. Rows'
      BY <1>5 DEF Insert, OnInsertError, Rows, Shape
    <2>2. Shape'
      BY <1>5 DEF Insert, OnInsertError, Rows, Shape
    <2>3. Bounds'
      BY <1>5 DEF Insert, OnInsertError, Bounds
    <2>4. ASSUME NEW v \in Workers PROVE InHand(v)'
      BY <1>5 DEF Insert, OnInsertError, Shape, InHand
    <2> QED BY <2>1, <2>2, <2>3, <2>4
  <1>6. ASSUME NEW w \in Workers, MarkPublished(w)
        PROVE  (Rows /\ Shape /\ Bounds)' /\ \A v \in Workers : InHand(v)'
    <2>1. Rows'
      BY <1>6 DEF MarkPublished, Published, Rows, Shape
    <2>2. Shape'
      BY <1>6 DEF MarkPublished, Published, Rows, Shape
    <2>3. Bounds'
      BY <1>6 DEF MarkPublished, Published, Bounds
    <2>4. ASSUME NEW v \in Workers PROVE InHand(v)'
      BY <1>6 DEF MarkPublished, Published, Shape, InHand
    <2> QED BY <2>1, <2>2, <2>3, <2>4
  <1>7. ASSUME NEW w \in Workers, MarkDuplicate(w)
        PROVE  (Rows /\ Shape /\ Bounds)' /\ \A v \in Workers : InHand(v)'
    <2>1. Rows'
      BY <1>7 DEF MarkDuplicate, Published, Rows, Shape
    <2>2. Shape'
      BY <1>7 DEF MarkDuplicate, Published, Rows, Shape
    <2>3. Bounds'
      BY <1>7 DEF MarkDuplicate, Published, Bounds
    <2>4. ASSUME NEW v \in Workers PROVE InHand(v)'
      BY <1>7 DEF MarkDuplicate, Published, Shape, InHand
    <2> QED BY <2>1, <2>2, <2>3, <2>4
  <1>8. ASSUME NEW w \in Workers, MarkFailedRead(w)
        PROVE  (Rows /\ Shape /\ Bounds)' /\ \A v \in Workers : InHand(v)'
    <2>1. Rows'
      BY <1>8 DEF MarkFailedRead, Rows, Shape
    <2>2. Shape'
      <3>1. ASSUME NEW e \in cur[w]
            PROVE  [status |-> status[e], attempts |-> attempts[e]]
                      \in [status : Statuses, attempts : Nat]
        BY DEF Rows, Shape
      <3>2. seen' \in [Workers -> [status : Statuses, attempts : Nat]]
        BY <1>8, <3>1 DEF MarkFailedRead, Shape
      <3>3. pc' = [pc EXCEPT ![w] = "failing"] \/ pc' = [pc EXCEPT ![w] = "publish"]
        BY <1>8 DEF MarkFailedRead
      <3>4. held' = held /\ (cur' = cur \/ cur' = [cur EXCEPT ![w] = {}])
        BY <1>8 DEF MarkFailedRead
      <3> QED BY <3>2, <3>3, <3>4 DEF Shape
    <2>3. Bounds'
      BY <1>8 DEF MarkFailedRead, Bounds
    <2>4. ASSUME NEW v \in Workers PROVE InHand(v)'
      BY <1>8 DEF MarkFailedRead, Shape, InHand
    <2> QED BY <2>1, <2>2, <2>3, <2>4
  <1>9. ASSUME NEW w \in Workers, MarkFailedWrite(w)
        PROVE  (Rows /\ Shape /\ Bounds)' /\ \A v \in Workers : InHand(v)'
    <2>1. Rows'
      <3>1. status' \in [Events -> Statuses]
        BY <1>9 DEF MarkFailedWrite, Rows, Shape
      <3>2. attempts' \in [Events -> Nat]
        BY <1>9 DEF MarkFailedWrite, Rows, Shape
      <3>3. ready' \in [Events -> BOOLEAN]
        <4>1. CASE ready' = ready
          BY <4>1 DEF Rows
        <4>2. ASSUME NEW e \in Events, NEW b \in BOOLEAN,
                     ready' = [ready EXCEPT ![e] = @ /\ b]
              PROVE  ready' \in [Events -> BOOLEAN]
          BY <4>2 DEF Rows
        <4>3. \/ ready' = ready
              \/ \E e \in Events, b \in BOOLEAN : ready' = [ready EXCEPT ![e] = @ /\ b]
          BY <1>9 DEF MarkFailedWrite, Shape
        <4> QED BY <4>1, <4>2, <4>3
      <3> QED BY <1>9, <3>1, <3>2, <3>3 DEF MarkFailedWrite, Rows
    <2>2. Shape'
      BY <1>9 DEF MarkFailedWrite, Exhausted, Unseen, Rows, Shape
    <2>3. Bounds'
      BY <1>9 DEF MarkFailedWrite, Exhausted, Unseen, Bounds
    <2>4. ASSUME NEW v \in Workers PROVE InHand(v)'
      BY <1>9 DEF MarkFailedWrite, Exhausted, Unseen, Shape, InHand
    <2> QED BY <2>1, <2>2, <2>3, <2>4
  <1>10. ASSUME NEW w \in Workers, Crash(w)
        PROVE  (Rows /\ Shape /\ Bounds)' /\ \A v \in Workers : InHand(v)'
    <2>1. Rows'
      BY <1>10 DEF Crash, Unseen, Rows, Shape
    <2>2. Shape'
      BY <1>10 DEF Crash, Unseen, Rows, Shape
    <2>3. Bounds'
      BY <1>10 DEF Crash, Unseen, Bounds
    <2>4. ASSUME NEW v \in Workers PROVE InHand(v)'
      BY <1>10 DEF Crash, Unseen, Shape, InHand
    <2> QED BY <2>1, <2>2, <2>3, <2>4
  <1>11. CASE UNCHANGED outboxVars
    BY <1>11 DEF outboxVars, Rows, Shape, Bounds, InHand
  <1> QED BY <1>1, <1>2, <1>3, <1>4, <1>5, <1>6, <1>7, <1>8, <1>9, <1>10, <1>11 DEF OutboxNext, Drain

\* Every transaction of the outbox and its workers keeps the shape of the
\* state, with a row in hand exactly while a worker handles one.
THEOREM OutboxTypes == OutboxSpec => []OutboxTypeOK
  BY OutboxTypeInit, OutboxTypeStep, PTL DEF OutboxSpec

-----------------------------------------------------------------------------
(* Published means recorded.                                               *)

LEMMA RecordedStep ==
    OutboxTypeOK /\ RecordedInv /\ [OutboxNext]_outboxVars => RecordedInv'
  <1> SUFFICES ASSUME OutboxTypeOK, RecordedInv, [OutboxNext]_outboxVars
               PROVE  RecordedInv'
    OBVIOUS
  <1> USE DEF OutboxTypeOK, RecordedInv, PublishedIsRecorded, Goto, Fault, NoFault,
              Done, rowVars, workerVars
  <1>1. ASSUME NEW e \in Events, Enqueue(e) PROVE RecordedInv'
    BY <1>1 DEF Enqueue
  <1>2. ASSUME NEW e \in Events, Passing(e) PROVE RecordedInv'
    BY <1>2 DEF Passing, BackoffEnds, ClaimAges
  <1>3. ASSUME NEW w \in Workers, Release(w) PROVE RecordedInv'
    BY <1>3 DEF Release, AttemptsAfterRelease
  <1>4. ASSUME NEW w \in Workers, Claim(w) PROVE RecordedInv'
    BY <1>4 DEF Claim, Claimable
  <1>5. ASSUME NEW w \in Workers, NextRow(w) PROVE RecordedInv'
    BY <1>5 DEF NextRow
  <1>6. ASSUME NEW w \in Workers, Insert(w) PROVE RecordedInv'
    BY <1>6 DEF Insert, OnInsertError
  <1>7. ASSUME NEW w \in Workers, MarkPublished(w) PROVE RecordedInv'
    BY <1>7 DEF MarkPublished, Published
  <1>8. ASSUME NEW w \in Workers, MarkDuplicate(w) PROVE RecordedInv'
    BY <1>8 DEF MarkDuplicate, Published
  <1>9. ASSUME NEW w \in Workers, MarkFailedRead(w) PROVE RecordedInv'
    BY <1>9 DEF MarkFailedRead
  <1>10. ASSUME NEW w \in Workers, MarkFailedWrite(w) PROVE RecordedInv'
    BY <1>10 DEF MarkFailedWrite, Exhausted
  <1>11. ASSUME NEW w \in Workers, Crash(w) PROVE RecordedInv'
    BY <1>11 DEF Crash
  <1>12. CASE UNCHANGED outboxVars
    BY <1>12 DEF outboxVars
  <1> QED BY <1>1, <1>2, <1>3, <1>4, <1>5, <1>6, <1>7, <1>8, <1>9, <1>10, <1>11, <1>12
     DEF OutboxNext, Drain

\* However claims age, transactions fail after their commit and replicas
\* crash, mark_outbox_published never runs ahead of insert_audit_event.
THEOREM NothingPublishedUnrecorded == OutboxSpec => []PublishedIsRecorded
  <1>1. OutboxInit => RecordedInv
    BY DEF OutboxInit, RecordedInv, PublishedIsRecorded
  <1>2. RecordedInv => PublishedIsRecorded
    BY DEF RecordedInv
  <1> QED BY <1>1, <1>2, RecordedStep, OutboxTypes, PTL DEF OutboxSpec

-----------------------------------------------------------------------------
(* The retry budget.                                                       *)

LEMMA FailingFinite ==
    ASSUME NEW e
    PROVE  IsFiniteSet(Failing(e)) /\ Cardinality(Failing(e)) \in Nat
  <1>1. Failing(e) \in SUBSET Workers
    BY DEF Failing
  <1> QED BY <1>1, FS_Subset, FS_CardinalityType

LEMMA FailingFiniteNext ==
    ASSUME NEW e
    PROVE  IsFiniteSet(Failing(e)') /\ Cardinality(Failing(e)') \in Nat
  <1>1. Failing(e)' \in SUBSET Workers
    BY DEF Failing
  <1> QED BY <1>1, FS_Subset, FS_CardinalityType

\* A step by which no worker starts to fail on e, and no count goes up.
LEMMA BudgetIdle ==
    ASSUME OutboxTypeOK, OutboxTypeOK', BudgetInv, NEW e \in Events \ Undecodable,
           Failing(e)' \subseteq Failing(e), faults' >= faults,
           attempts'[e] = attempts[e],
           status'[e] = "dead_letter" => status[e] = "dead_letter",
           \A w \in Failing(e)' : pc'[w] = "failing" =>
                pc[w] = "failing" /\ seen'[w] = seen[w]
    PROVE  BudgetOf(e)'
  <1>1. Cardinality(Failing(e)') <= Cardinality(Failing(e))
    BY FailingFinite, FS_Subset
  <1>2. /\ Cardinality(Failing(e)) \in Nat /\ Cardinality(Failing(e)') \in Nat
        /\ attempts[e] \in Nat /\ faults \in Nat /\ faults' \in Nat /\ Threshold \in Nat
    BY FailingFinite, FailingFiniteNext DEF OutboxTypeOK
  <1>3. Charged(e, attempts[e])'
    BY <1>1, <1>2 DEF BudgetInv, BudgetOf, Charged
  <1>4. ASSUME NEW w \in Failing(e)', pc'[w] = "failing"
        PROVE  Charged(e, seen[w].attempts)'
    <2>1. seen[w].attempts \in Nat /\ w \in Failing(e)
      BY DEF Failing, OutboxTypeOK
    <2>2. seen[w].attempts + Cardinality(Failing(e)) <= faults
      BY <1>4, <2>1 DEF BudgetInv, BudgetOf, Charged
    <2> QED BY <1>1, <1>2, <1>4, <2>1, <2>2 DEF Charged
  <1>5. status'[e] = "dead_letter" => faults' >= Threshold
    BY <1>2 DEF BudgetInv, BudgetOf
  <1> QED BY <1>3, <1>4, <1>5 DEF BudgetOf

\* A publishing transaction of w raises, and w turns to mark_outbox_failed.
LEMMA BudgetFault ==
    ASSUME OutboxTypeOK, OutboxTypeOK', BudgetInv, NEW e \in Events \ Undecodable,
           NEW w \in Workers,
           pc' = [pc EXCEPT ![w] = "fail"], cur' = cur, seen' = seen,
           faults' = faults + 1, attempts' = attempts,
           status'[e] = "dead_letter" => status[e] = "dead_letter"
    PROVE  BudgetOf(e)'
  <1>1. Failing(e)' \in SUBSET (Failing(e) \cup {w})
    BY DEF Failing, OutboxTypeOK
  <1>2. Cardinality(Failing(e)') <= Cardinality(Failing(e)) + 1
    <2>1. /\ IsFiniteSet(Failing(e) \cup {w})
          /\ \/ Cardinality(Failing(e) \cup {w}) = Cardinality(Failing(e))
             \/ Cardinality(Failing(e) \cup {w}) = Cardinality(Failing(e)) + 1
      BY FailingFinite, FS_AddElement
    <2>2. Cardinality(Failing(e)') <= Cardinality(Failing(e) \cup {w})
      BY <1>1, <2>1, FS_Subset
    <2> QED BY <2>1, <2>2, FailingFinite, FailingFiniteNext
  <1>3. /\ Cardinality(Failing(e)) \in Nat /\ Cardinality(Failing(e)') \in Nat
        /\ attempts[e] \in Nat /\ faults \in Nat /\ Threshold \in Nat
    BY FailingFinite, FailingFiniteNext DEF OutboxTypeOK
  <1>4. Charged(e, attempts[e])'
    BY <1>2, <1>3 DEF BudgetInv, BudgetOf, Charged
  <1>5. ASSUME NEW v \in Failing(e)', pc'[v] = "failing"
        PROVE  Charged(e, seen[v].attempts)'
    <2>1. v \in Failing(e) /\ pc[v] = "failing" /\ seen[v].attempts \in Nat
      BY <1>5 DEF Failing, OutboxTypeOK
    <2>2. seen[v].attempts + Cardinality(Failing(e)) <= faults
      BY <2>1 DEF BudgetInv, BudgetOf, Charged
    <2> QED BY <1>2, <1>3, <2>1, <2>2 DEF Charged
  <1>6. status'[e] = "dead_letter" => faults' >= Threshold
    BY <1>3 DEF BudgetInv, BudgetOf
  <1> QED BY <1>4, <1>5, <1>6 DEF BudgetOf

\* mark_outbox_failed reads the row: what it read is charged like the row.
LEMMA BudgetRead ==
    ASSUME OutboxTypeOK, OutboxTypeOK', BudgetInv, NEW e \in Events \ Undecodable,
           NEW w \in Workers, MarkFailedRead(w)
    PROVE  BudgetOf(e)'
  <1>1. CASE Fault /\ Done(w) /\ UNCHANGED seen
    <2>1. /\ Failing(e)' \subseteq Failing(e) /\ faults' >= faults
          /\ \A v \in Failing(e)' : pc'[v] = "failing" => pc[v] = "failing"
      BY <1>1 DEF Failing, Fault, Done, Goto, OutboxTypeOK
    <2> QED BY <1>1, <2>1, BudgetIdle DEF MarkFailedRead, rowVars
  <1>2. CASE /\ \E a \in cur[w] : seen' =
                 [seen EXCEPT ![w] = [status |-> status[a], attempts |-> attempts[a]]]
             /\ Goto(w, "failing") /\ NoFault /\ UNCHANGED cur
    <2>1. UNCHANGED <<attempts, status, faults, cur>> /\ Failing(e)' = Failing(e)
      BY <1>2 DEF MarkFailedRead, rowVars, NoFault, Goto, Failing, OutboxTypeOK
    <2>2. ASSUME NEW v \in Failing(e)', pc'[v] = "failing"
          PROVE  Charged(e, seen[v].attempts)'
      <3>1. CASE v = w
        <4>1. e \in cur[w] /\ \A a \in cur[w] : a = e
          BY <2>1, <3>1 DEF Failing, BudgetInv, BudgetOf
        <4>2. seen'[w].attempts = attempts[e]
          BY <1>2, <4>1 DEF OutboxTypeOK
        <4> QED BY <2>1, <3>1, <4>2 DEF BudgetInv, BudgetOf, Charged
      <3>2. CASE v # w
        <4>1. v \in Workers /\ v \in Failing(e)
          BY <2>1 DEF Failing
        <4>2. pc[v] = "failing" /\ seen'[v] = seen[v]
          BY <1>2, <2>2, <3>2, <4>1 DEF Goto, OutboxTypeOK
        <4> QED BY <2>1, <4>1, <4>2 DEF BudgetInv, BudgetOf, Charged
      <3> QED BY <3>1, <3>2
    <2> QED BY <2>1, <2>2 DEF BudgetInv, BudgetOf, Charged
  <1> QED BY <1>1, <1>2 DEF MarkFailedRead

\* It writes the row back: w leaves Failing and its fault is counted instead.
LEMMA BudgetWrite ==
    ASSUME OutboxTypeOK, OutboxTypeOK', BudgetInv, NEW e \in Events \ Undecodable,
           NEW w \in Workers, MarkFailedWrite(w)
    PROVE  BudgetOf(e)'
  <1>1. /\ pc[w] = "failing" /\ pc' = [pc EXCEPT ![w] = "publish"]
        /\ cur' = [cur EXCEPT ![w] = {}] /\ seen' = [seen EXCEPT ![w] = Unseen]
        /\ faults' \in Nat /\ faults \in Nat /\ faults' >= faults
    BY DEF MarkFailedWrite, Done, Goto, Fault, NoFault, OutboxTypeOK
  <1>2. Failing(e)' = Failing(e) \ {w}
    BY <1>1 DEF Failing, OutboxTypeOK
  <1>3. \A v \in Failing(e)' : v # w /\ (pc'[v] = "failing" =>
                                          pc[v] = "failing" /\ seen'[v] = seen[v])
    BY <1>1 DEF Failing, OutboxTypeOK
  <1>4. CASE attempts'[e] = attempts[e] /\ status'[e] = status[e]
    BY <1>1, <1>2, <1>3, <1>4, BudgetIdle
  <1>5. CASE /\ e \in cur[w] /\ attempts'[e] = seen[w].attempts + 1
             /\ status'[e] = "dead_letter" =>
                    \/ status[e] = "dead_letter"
                    \/ seen[w].attempts + 1 >= Threshold
    <2>1. /\ w \in Failing(e) /\ seen[w].attempts \in Nat /\ Threshold \in Nat
          /\ Cardinality(Failing(e)) \in Nat /\ Cardinality(Failing(e)') \in Nat
      <3>1. w \in Failing(e) /\ seen[w].attempts \in Nat /\ Threshold \in Nat
        BY <1>1, <1>5 DEF Failing, OutboxTypeOK
      <3>2. Cardinality(Failing(e)) \in Nat /\ Cardinality(Failing(e)') \in Nat
        BY FailingFinite, FailingFiniteNext
      <3> QED BY <3>1, <3>2
    <2>2. Cardinality(Failing(e)') = Cardinality(Failing(e)) - 1
      <3>1. Cardinality(Failing(e) \ {w}) = Cardinality(Failing(e)) - 1
        BY <2>1, FailingFinite, FS_RemoveElement
      <3> QED BY <1>2, <3>1
    <2>3. seen[w].attempts + Cardinality(Failing(e)) <= faults
      BY <1>1, <2>1 DEF BudgetInv, BudgetOf, Charged
    <2>4. Charged(e, attempts[e])'
      BY <1>1, <1>5, <2>1, <2>2, <2>3 DEF Charged
    <2>5. status'[e] = "dead_letter" => faults' >= Threshold
      BY <1>1, <1>5, <2>1, <2>2, <2>3 DEF BudgetInv, BudgetOf
    <2>6. ASSUME NEW v \in Failing(e)', pc'[v] = "failing"
          PROVE  Charged(e, seen[v].attempts)'
      <3>1. /\ v \in Failing(e) /\ pc[v] = "failing" /\ seen'[v] = seen[v]
            /\ seen[v].attempts \in Nat
        BY <1>2, <1>3, <2>6 DEF Failing, OutboxTypeOK
      <3>2. seen[v].attempts + Cardinality(Failing(e)) <= faults
        BY <3>1 DEF BudgetInv, BudgetOf, Charged
      <3> QED BY <1>1, <2>1, <2>2, <3>1, <3>2 DEF Charged
    <2> QED BY <2>4, <2>5, <2>6 DEF BudgetOf
  <1>6. \/ attempts'[e] = attempts[e] /\ status'[e] = status[e]
        \/ /\ e \in cur[w] /\ attempts'[e] = seen[w].attempts + 1
           /\ status'[e] = "dead_letter" =>
                    \/ status[e] = "dead_letter"
                    \/ seen[w].attempts + 1 >= Threshold
    BY DEF MarkFailedWrite, Exhausted, OutboxTypeOK
  <1> QED BY <1>4, <1>5, <1>6

LEMMA BudgetStep ==
    /\ OutboxTypeOK /\ OutboxTypeOK' /\ BudgetInv /\ [OutboxNext]_outboxVars
    => BudgetInv'
  <1> SUFFICES ASSUME OutboxTypeOK, OutboxTypeOK', BudgetInv, [OutboxNext]_outboxVars
               PROVE  BudgetInv'
    OBVIOUS
  <1>1. ASSUME NEW w \in Workers PROVE (\A a, b \in cur[w] : a = b)'
    <2>1. ASSUME NEW v \in Workers, NextRow(v) PROVE \A a, b \in cur'[w] : a = b
      BY <2>1 DEF NextRow, BudgetInv, OutboxTypeOK
    <2>2. CASE cur' = cur
      BY <2>2 DEF BudgetInv
    <2>3. ASSUME NEW v \in Workers, cur' = [cur EXCEPT ![v] = {}]
          PROVE  \A a, b \in cur'[w] : a = b
      BY <2>3 DEF BudgetInv, OutboxTypeOK
    <2>4. \/ cur' = cur
          \/ \E v \in Workers : NextRow(v) \/ cur' = [cur EXCEPT ![v] = {}]
      BY DEF OutboxNext, outboxVars, workerVars, Drain, Passing, Enqueue, BackoffEnds,
             ClaimAges, Release, Claim, Insert, MarkPublished, MarkDuplicate,
             MarkFailedRead, MarkFailedWrite, Crash, Done
    <2> QED BY <2>1, <2>2, <2>3, <2>4
  <1>2. ASSUME NEW e \in Events \ Undecodable PROVE BudgetOf(e)'
    <2> USE DEF Failing, Goto, Fault, NoFault, Done, OutboxTypeOK, rowVars, workerVars
    <2> DEFINE Idles == /\ Failing(e)' \subseteq Failing(e) /\ faults' >= faults
                        /\ attempts'[e] = attempts[e]
                        /\ status'[e] = "dead_letter" => status[e] = "dead_letter"
                        /\ \A w \in Failing(e)' : pc'[w] = "failing" =>
                              pc[w] = "failing" /\ seen'[w] = seen[w]
               Raises(w) == /\ pc' = [pc EXCEPT ![w] = "fail"]
                            /\ cur' = cur /\ seen' = seen
                            /\ faults' = faults + 1 /\ attempts' = attempts
                            /\ status'[e] = "dead_letter" => status[e] = "dead_letter"
    <2>0. ASSUME Idles PROVE BudgetOf(e)'
      BY <2>0, BudgetIdle
    <2>1. ASSUME NEW d \in Events, Enqueue(d) \/ Passing(d) PROVE Idles
      BY <2>1 DEF Enqueue, Passing, BackoffEnds, ClaimAges
    <2>2. ASSUME NEW w \in Workers, Release(w) PROVE Idles
      BY <2>2 DEF Release, AttemptsAfterRelease
    <2>3. ASSUME NEW w \in Workers, Claim(w) PROVE Idles
      BY <2>3 DEF Claim
    <2>4. ASSUME NEW w \in Workers, NextRow(w) PROVE Idles
      BY <2>4 DEF NextRow
    <2>5. ASSUME NEW w \in Workers, MarkDuplicate(w) PROVE Idles
      BY <2>5 DEF MarkDuplicate, Published
    <2>6. ASSUME NEW w \in Workers, Crash(w) PROVE Idles
      BY <2>6 DEF Crash
    <2>7. ASSUME NEW w \in Workers, Insert(w) PROVE Idles \/ Raises(w)
      BY <2>7 DEF Insert, OnInsertError
    <2>8. ASSUME NEW w \in Workers, MarkPublished(w) PROVE Idles \/ Raises(w)
      BY <2>8 DEF MarkPublished, Published
    <2>9. ASSUME NEW w \in Workers, Raises(w) PROVE BudgetOf(e)'
      BY <2>9, BudgetFault
    <2>10. CASE UNCHANGED outboxVars
      <3>1. Idles
        BY <2>10 DEF outboxVars
      <3> QED BY <2>0, <3>1
    <2> HIDE DEF Idles, Raises
    <2> QED BY <2>0, <2>1, <2>2, <2>3, <2>4, <2>5, <2>6, <2>7, <2>8, <2>9, <2>10,
               BudgetRead, BudgetWrite DEF OutboxNext, Drain
  <1> QED BY <1>1, <1>2 DEF BudgetInv

\* A decodable event is dead-lettered only after Threshold transactions
\* raised, for any number of workers that read, write back and release the
\* same row: crashes and releases are never charged to it.
THEOREM DeadLettersAreEarned == OutboxSpec => []DeadLetterIsEarned
  <1>1. OutboxInit => BudgetInv
    <2> SUFFICES ASSUME OutboxInit PROVE BudgetInv
      OBVIOUS
    <2>1. ASSUME NEW e PROVE Failing(e) = {} /\ Cardinality(Failing(e)) = 0
      BY FS_EmptySet DEF OutboxInit, Failing
    <2> QED BY <2>1 DEF OutboxInit, BudgetInv, BudgetOf, Charged
  <1>2. BudgetInv => DeadLetterIsEarned
    BY DEF BudgetInv, BudgetOf, DeadLetterIsEarned
  <1> QED BY <1>1, <1>2, BudgetStep, OutboxTypes, PTL DEF OutboxSpec
=============================================================================
