---------------------------- MODULE AuditOutbox ----------------------------
(***************************************************************************)
(* The transactional audit outbox and its publisher: control-plane writes  *)
(* leave rows in audit_outbox, every gateway replica runs a worker that    *)
(* claims them and appends the events to audit_events.  Each database      *)
(* transaction is a step.  A transaction may raise, before or after its    *)
(* commit landed, and a replica may crash anywhere in a pass.              *)
(***************************************************************************)
EXTENDS Integers, FiniteSets

CONSTANTS
    Events,
    Undecodable,  \* events whose stored payload no longer parses
    Workers,      \* one publisher loop per gateway replica
    BatchSize,    \* CLAIM_BATCH_SIZE
    Threshold,    \* DEAD_LETTER_THRESHOLD
    MaxFaults,    \* bound: transactions that raise
    MaxCrashes    \* bound: replicas that crash in mid-pass

ASSUME OutboxAssumption ==
    /\ Undecodable \subseteq Events
    /\ IsFiniteSet(Workers)
    /\ BatchSize \in Nat \ {0} /\ Threshold \in Nat \ {0}
    /\ MaxFaults \in Nat /\ MaxCrashes \in Nat

VARIABLES
    status,    \* per event: the status of its outbox row, "none" without one
    attempts,  \* per event: attempts of its row
    ready,     \* per event: available_at has come
    aged,      \* per event: updated_at is older than the stale window
    ledger,    \* the event ids in audit_events
    pc,        \* per worker: its place in drain_audit_outbox
    held,      \* per worker: claimed rows of the pass not handled yet
    cur,       \* per worker: {the row in hand}, or {}
    seen,      \* per worker: the row as mark_outbox_failed read it
    faults,    \* transactions that raised
    crashes    \* replicas that crashed

rowVars == <<status, attempts, ready, aged, ledger>>
workerVars == <<pc, held, cur, seen>>
outboxVars == <<status, attempts, ready, aged, ledger,
                pc, held, cur, seen, faults, crashes>>

Statuses == {"none", "pending", "processing", "published", "dead_letter"}
Unseen == [status |-> "none", attempts |-> 0]

\* The transaction raises; the caller cannot tell whether it was committed.
Fault == faults < MaxFaults /\ faults' = faults + 1
NoFault == UNCHANGED faults

OutboxInit ==
    /\ status = [e \in Events |-> "none"]
    /\ attempts = [e \in Events |-> 0]
    /\ ready = [e \in Events |-> FALSE]
    /\ aged = [e \in Events |-> FALSE]
    /\ ledger = {}
    /\ pc = [w \in Workers |-> "idle"]
    /\ held = [w \in Workers |-> {}]
    /\ cur = [w \in Workers |-> {}]
    /\ seen = [w \in Workers |-> Unseen]
    /\ faults = 0 /\ crashes = 0

-----------------------------------------------------------------------------
(* Emitting.                                                               *)

\* A row is added, by the transaction of the business write (Class A) or by
\* OutboxAuditSink.emit.  A replay collides on event_id and changes nothing.
\* An enqueue that raises adds nothing: the business write rolls back, or
\* emit logs and drops the event.
Enqueue(e) ==
    /\ status[e] = "none"
    /\ status' = [status EXCEPT ![e] = "pending"]
    /\ ready' = [ready EXCEPT ![e] = TRUE]
    /\ UNCHANGED <<attempts, aged, ledger, workerVars, faults, crashes>>

-----------------------------------------------------------------------------
(* Time.                                                                   *)

\* The backoff of a retried row ends.
BackoffEnds(e) ==
    /\ status[e] = "pending" /\ ~ready[e]
    /\ ready' = [ready EXCEPT ![e] = TRUE]
    /\ UNCHANGED <<status, attempts, aged, ledger, workerVars, faults, crashes>>

\* STALE_PROCESSING_SECONDS pass; the worker that holds the row may be alive.
ClaimAges(e) ==
    /\ status[e] = "processing" /\ ~aged[e]
    /\ aged' = [aged EXCEPT ![e] = TRUE]
    /\ UNCHANGED <<status, attempts, ready, ledger, workerVars, faults, crashes>>

-----------------------------------------------------------------------------
(* One pass of a worker.                                                   *)

Goto(w, l) == pc' = [pc EXCEPT ![w] = l]

\* (mutant) nothing is ever taken for orphaned.
NeverOrphaned == {}

Orphaned == {e \in Events : status[e] = "processing" /\ aged[e]}

\* (mutant) the reconciler charges the retry budget.
AttemptsCharged(rows) ==
    [e \in Events |-> IF e \in rows THEN attempts[e] + 1 ELSE attempts[e]]

AttemptsAfterRelease(rows) == attempts

\* release_stale_processing; a failure is logged and the pass goes on.
Release(w) ==
    /\ pc[w] = "idle"
    /\ Goto(w, "claim")
    /\ \/ /\ status' = [e \in Events |->
                            IF e \in Orphaned THEN "pending" ELSE status[e]]
          /\ attempts' = AttemptsAfterRelease(Orphaned)
          /\ NoFault
       \/ Fault /\ UNCHANGED <<status, attempts>>
    /\ UNCHANGED <<ready, aged, ledger, held, cur, seen, crashes>>

Claimable == {e \in Events : status[e] = "pending" /\ ready[e]}

\* claim_audit_outbox: the oldest BatchSize claimable rows; available_at is
\* left out, so any BatchSize of them.
Claim(w) ==
    /\ pc[w] = "claim"
    /\ \/ /\ \E batch \in SUBSET Claimable :
                /\ Cardinality(batch) <= BatchSize
                /\ batch # Claimable => Cardinality(batch) = BatchSize
                /\ held' = [held EXCEPT ![w] = batch]
                /\ status' = [e \in Events |->
                                IF e \in batch THEN "processing" ELSE status[e]]
                /\ aged' = [e \in Events |-> aged[e] /\ e \notin batch]
          /\ Goto(w, "publish")
          /\ NoFault
       \/ Fault /\ Goto(w, "idle") /\ UNCHANGED <<held, status, aged>>
    /\ UNCHANGED <<attempts, ready, ledger, cur, seen, crashes>>

\* The next claimed row, or the end of the pass.
NextRow(w) ==
    /\ pc[w] = "publish"
    /\ \/ /\ held[w] = {}
          /\ Goto(w, "idle")
          /\ UNCHANGED <<held, cur>>
       \/ \E e \in held[w] :
            /\ held' = [held EXCEPT ![w] = @ \ {e}]
            /\ cur' = [cur EXCEPT ![w] = {e}]
            /\ Goto(w, IF e \in Undecodable THEN "fail" ELSE "insert")
    /\ UNCHANGED <<rowVars, seen, faults, crashes>>

\* (mutant) the row stays in hand.
DoneKeepsRow(w) == Goto(w, "publish") /\ UNCHANGED cur

Done(w) == Goto(w, "publish") /\ cur' = [cur EXCEPT ![w] = {}]

\* (mutant) every exception is taken for a duplicate.
OnInsertErrorDone == "duplicate"

OnInsertError == "fail"

\* insert_audit_event: the primary key tells a prior delivery apart.
Insert(w) ==
    /\ pc[w] = "insert"
    /\ \/ /\ cur[w] \cap ledger = {}
          /\ ledger' = ledger \cup cur[w]
          /\ Goto(w, "mark")
          /\ NoFault
       \/ /\ cur[w] \subseteq ledger
          /\ Goto(w, "duplicate")
          /\ UNCHANGED ledger
          /\ NoFault
       \/ /\ Fault
          /\ ledger' \in {ledger, ledger \cup cur[w]}
          /\ Goto(w, OnInsertError)
    /\ UNCHANGED <<status, attempts, ready, aged, held, cur, seen, crashes>>

Published(w) ==
    [e \in Events |-> IF e \in cur[w] THEN "published" ELSE status[e]]

\* mark_outbox_published, by row id alone: the row may be another's by now.
MarkPublished(w) ==
    /\ pc[w] = "mark"
    /\ \/ /\ status' = Published(w)
          /\ Done(w)
          /\ NoFault
       \/ /\ Fault
          /\ status' \in {status, Published(w)}
          /\ Goto(w, "fail")
          /\ UNCHANGED cur
    /\ UNCHANGED <<attempts, ready, aged, ledger, held, seen, crashes>>

\* The same inside the IntegrityError handler, where an exception leaves the
\* pass: the rows still held stay processing until they are stale.
MarkDuplicate(w) ==
    /\ pc[w] = "duplicate"
    /\ \/ /\ status' = Published(w)
          /\ Done(w)
          /\ NoFault
          /\ UNCHANGED held
       \/ /\ Fault
          /\ status' \in {status, Published(w)}
          /\ Goto(w, "idle")
          /\ cur' = [cur EXCEPT ![w] = {}]
          /\ held' = [held EXCEPT ![w] = {}]
    /\ UNCHANGED <<attempts, ready, aged, ledger, seen, crashes>>

\* _safe_mark_failed: mark_outbox_failed reads the row ...
MarkFailedRead(w) ==
    /\ pc[w] = "fail"
    /\ \/ /\ \E e \in cur[w] : seen' =
                [seen EXCEPT ![w] = [status |-> status[e], attempts |-> attempts[e]]]
          /\ Goto(w, "failing")
          /\ NoFault
          /\ UNCHANGED cur
       \/ Fault /\ Done(w) /\ UNCHANGED seen
    /\ UNCHANGED <<rowVars, held, crashes>>

Exhausted(n) == n >= Threshold

\* ... and writes it back: the flush sets only the columns whose value
\* differs from the one it read, whatever the row holds by then.
MarkFailedWrite(w) ==
    LET tries == seen[w].attempts + 1
        new == IF Exhausted(tries) THEN "dead_letter" ELSE "pending"
        Landed == \E e \in cur[w] :
            /\ status' = IF new = seen[w].status THEN status
                         ELSE [status EXCEPT ![e] = new]
            /\ attempts' = [attempts EXCEPT ![e] = tries]
            /\ ready' = [ready EXCEPT ![e] = @ /\ new = "dead_letter"]
    IN  /\ pc[w] = "failing"
        /\ \/ Landed /\ NoFault
           \/ Landed /\ Fault
           \/ Fault /\ UNCHANGED <<status, attempts, ready>>
        /\ Done(w)
        /\ seen' = [seen EXCEPT ![w] = Unseen]
        /\ UNCHANGED <<aged, ledger, held, crashes>>

-----------------------------------------------------------------------------

\* The replica dies, or is stopped, in mid-pass; a new one starts its loop.
Crash(w) ==
    /\ pc[w] # "idle" /\ crashes < MaxCrashes
    /\ crashes' = crashes + 1
    /\ Goto(w, "idle")
    /\ held' = [held EXCEPT ![w] = {}]
    /\ cur' = [cur EXCEPT ![w] = {}]
    /\ seen' = [seen EXCEPT ![w] = Unseen]
    /\ UNCHANGED <<rowVars, faults>>

Drain(w) ==
    \/ Release(w) \/ Claim(w) \/ NextRow(w) \/ Insert(w)
    \/ MarkPublished(w) \/ MarkDuplicate(w)
    \/ MarkFailedRead(w) \/ MarkFailedWrite(w)

Passing(e) == BackoffEnds(e) \/ ClaimAges(e)

OutboxNext ==
    \/ \E e \in Events : Enqueue(e) \/ Passing(e)
    \/ \E w \in Workers : Drain(w) \/ Crash(w)

OutboxSpec == OutboxInit /\ [][OutboxNext]_outboxVars

\* run_audit_worker loops for ever, and time passes.
OutboxFairness ==
    /\ \A w \in Workers : WF_outboxVars(Drain(w))
    /\ \A e \in Events : WF_outboxVars(Passing(e))

FairOutboxSpec == OutboxSpec /\ OutboxFairness

-----------------------------------------------------------------------------

\* Types: rows only through the four statuses of ck_audit_outbox_status, and
\* a row in hand exactly between NextRow and the end of its handling.
OutboxTypeOK ==
    /\ status \in [Events -> Statuses]
    /\ attempts \in [Events -> Nat]
    /\ ready \in [Events -> BOOLEAN]
    /\ aged \in [Events -> BOOLEAN]
    /\ ledger \subseteq Events
    /\ pc \in [Workers -> {"idle", "claim", "publish", "insert", "mark",
                           "duplicate", "fail", "failing"}]
    /\ held \in [Workers -> SUBSET Events]
    /\ cur \in [Workers -> SUBSET Events]
    /\ seen \in [Workers -> [status : Statuses, attempts : Nat]]
    /\ faults \in 0 .. MaxFaults /\ crashes \in 0 .. MaxCrashes
    /\ \A w \in Workers : cur[w] = {} <=> pc[w] \in {"idle", "claim", "publish"}

\* A row is published only once its event is in audit_events, whichever
\* worker, stale or not, marked it and whatever failed or crashed before.
PublishedIsRecorded ==
    \A e \in Events : status[e] = "published" => e \in ledger

\* A crash and the release of its rows consume no retry budget: a decodable
\* event is dead-lettered only after Threshold publishing transactions raised.
DeadLetterIsEarned ==
    \A e \in Events \ Undecodable :
        status[e] = "dead_letter" => faults >= Threshold

\* Every enqueued row ends published or dead-lettered for good, and a
\* decodable event is not left in between by crashes, aborted passes or
\* workers that act on rows they no longer own.
EventuallySettled ==
    \A e \in Events :
        status[e] # "none" ~> [](status[e] \in {"published", "dead_letter"})

=============================================================================
