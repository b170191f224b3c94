---------------------------- MODULE RunLifecycle ----------------------------
(***************************************************************************)
(* The life of the runs of one thread in a gateway of several replicas:    *)
(* RunManager (one per replica, in memory), the shared run table with its  *)
(* row_version compare-and-set, the Redis ownership lease, the run_agent   *)
(* task with its heartbeat, the cancel paths, the reconciler, and process  *)
(* shutdown, crash and restart.                                            *)
(*                                                                         *)
(* Every await at which other tasks can interleave is a step boundary.  A  *)
(* manager operation is therefore two steps: the part under the asyncio    *)
(* lock, which changes the in-memory record, and the store write, which    *)
(* lands later (a *_w worker state or a pending cw entry).                 *)
(***************************************************************************)
EXTENDS RunTransitions, Naturals, FiniteSets

CONSTANTS
    Replicas,       \* gateway processes
    Runs,           \* run ids of the thread
    NoReplica,      \* "this run has not been created"
    NoRun,          \* "the reconciler is at no row"
    Strategies,     \* multitask strategies the clients use
    CancelActions,  \* actions of explicit cancel requests
    Disconnects,    \* TRUE: clients with on_disconnect=cancel may disconnect
    LeaseEnabled,   \* TRUE: RedisLeaseStore, FALSE: NullLeaseStore
    FaultKinds,     \* which faults the environment may inject
    MaxFaults       \* how many of them in one behaviour

AllStrategies == {"reject", "interrupt", "rollback"}
AbortActions  == {"interrupt", "rollback"}
AllFaults     == {"crash", "drain", "dispatch", "claim", "renew", "stall",
                  "release", "lookup", "store"}

ASSUME LifecycleAssumption ==
    /\ NoReplica \notin Replicas
    /\ NoRun \notin Runs
    /\ Strategies \subseteq AllStrategies
    /\ CancelActions \subseteq AbortActions
    /\ Disconnects \in BOOLEAN
    /\ LeaseEnabled \in BOOLEAN
    /\ FaultKinds \subseteq AllFaults
    /\ MaxFaults \in Nat

VARIABLES
    up,      \* per replica: serving, draining on shutdown, or down
    home,    \* per run: the replica whose RunManager created it
    row,     \* per run: the row of the runs table
    mem,     \* per run: the RunRecord in its home's memory
    lease,   \* per run: does the ownership key exist in Redis?
    wpc,     \* per run: where the run_agent task is
    ww,      \* per run: the task's store write in flight
    esc,     \* per run: is a CancelledError leaving the task?
    hb,      \* per run: the lease heartbeat task
    cw,      \* per run: the store write of a cancel, an interrupting create
             \*          or a shutdown, in flight
    ended,   \* per run: has publish_end run?
    rec,     \* per replica: the reconcile sweep
    drained, \* per replica: the runs its shutdown cancelled
    budget   \* faults the environment may still inject

vars == <<up, home, row, mem, lease, wpc, ww, esc, hb, cw, ended, rec,
          drained, budget>>

-----------------------------------------------------------------------------
(* Types.                                                                  *)

\* none: record.task is None.  lost: the process that held the record is gone.
\* dead: the task ended without reaching publish_end.
WorkerPCs == {"none", "scheduled", "claiming", "owned", "running_w",
              "streaming", "final_w", "cancelled", "failed", "handler_w",
              "fin_stop", "fin_release", "fin_complete", "fin_end",
              "done", "dead", "lost"}

\* The states in which the task awaits a status write.
Writing == {"running_w", "final_w", "handler_w", "fin_complete"}

TaskOver == {"none", "done", "dead", "lost"}

Row    == [st : Statuses, rv : Nat, intent : AbortActions \cup {"none"}]
Record == [st : Statuses, rv : Nat, abort : BOOLEAN, action : AbortActions]
Write  == [st : Statuses, exp : Nat]
Late   == [phase : {"none", "write", "signal"}, exp : Nat]
Sweep  == [phase : {"idle", "scan"}, cur : {NoRun}, ver : [Runs -> Nat]]
            \cup [phase : {"local", "write"}, cur : Runs, ver : [Runs -> Nat]]

NewRow    == [st |-> "pending", rv |-> 1, intent |-> "none"]
NewRecord == [st |-> "pending", rv |-> 1, abort |-> FALSE,
              action |-> "interrupt"]
NoWrite   == [st |-> "pending", exp |-> 0]
NoLate    == [phase |-> "none", exp |-> 0]
NoSweep   == [phase |-> "idle", cur |-> NoRun, ver |-> [r \in Runs |-> 0]]

\* row, mem and the rest of a run are meaningful once home[r] is a replica;
\* until then they hold the values a run is created with.
Init ==
    /\ up = [p \in Replicas |-> "up"]
    /\ home = [r \in Runs |-> NoReplica]
    /\ row = [r \in Runs |-> NewRow]
    /\ mem = [r \in Runs |-> NewRecord]
    /\ lease = [r \in Runs |-> FALSE]
    /\ wpc = [r \in Runs |-> "none"]
    /\ ww = [r \in Runs |-> NoWrite]
    /\ esc = [r \in Runs |-> FALSE]
    /\ hb = [r \in Runs |-> "off"]
    /\ cw = [r \in Runs |-> NoLate]
    /\ ended = [r \in Runs |-> FALSE]
    /\ rec = [p \in Replicas |-> NoSweep]
    /\ drained = [p \in Replicas |-> {}]
    /\ budget = MaxFaults

-----------------------------------------------------------------------------
(* Helpers.                                                                *)

Fault(kind) == kind \in FaultKinds /\ budget > 0 /\ budget' = budget - 1

Exists(r) == home[r] # NoReplica

\* The RunRecord is in its home's RunManager._runs.
Present(r) == Exists(r) /\ wpc[r] # "lost"

\* (mutants) pending runs forgotten; finished runs not filtered out.
RunningAt(p) == {r \in Runs : /\ home[r] = p
                              /\ Present(r)
                              /\ mem[r].st = "running"}
RecordsAt(p) == {r \in Runs : home[r] = p /\ Present(r)}

\* _thread_records_locked filtered to pending/running.
ActiveAt(p) == {r \in Runs : /\ home[r] = p
                             /\ Present(r)
                             /\ mem[r].st \in InflightStatuses}

\* (mutants) the version is not compared; the version is not advanced.
LandUnchecked(rw, st, exp) ==
    IF exp = 0 THEN [rw EXCEPT !.st = st]
    ELSE [st |-> st, rv |-> rw.rv + 1, intent |-> rw.intent]
LandSameVersion(rw, st, exp) ==
    IF exp = 0 \/ rw.rv = exp THEN [rw EXCEPT !.st = st] ELSE rw

\* RunRepository.update_status / update_run_completion.  exp = 0 is a call
\* without expected_row_version: unconditional, and row_version stays.
Land(rw, st, exp) ==
    IF exp = 0 THEN [rw EXCEPT !.st = st]
    ELSE IF rw.rv = exp THEN [st |-> st, rv |-> exp + 1, intent |-> rw.intent]
    ELSE rw

\* abort_action, abort_event.set() and the status that goes with them.
Abort(m, st, action) ==
    [st |-> st, rv |-> m.rv, abort |-> TRUE, action |-> action]

\* (mutant) the mirror ignores the row count of the update.
MirrorAlways(m, rw, exp) ==
    IF exp # 0 THEN [m EXCEPT !.rv = exp + 1] ELSE m

\* _persist_status mirrors a successful compare-and-set in the record.
Mirror(m, rw, exp) ==
    IF exp # 0 /\ rw.rv = exp THEN [m EXCEPT !.rv = exp + 1] ELSE m

\* RunRepository.request_cancel.
RequestCancel(rw, action) ==
    IF rw.st \in InflightStatuses /\ rw.intent = "none"
    THEN [rw EXCEPT !.intent = action] ELSE rw

\* RunManager.set_status under the lock: an illegal edge raises, a legal one
\* changes the record and issues the write with the version seen now.
SetStatus(r, s, pcLegal, pcIllegal) ==
    IF LegalTransition(mem[r].st, s)
    THEN /\ mem' = [mem EXCEPT ![r].st = s]
         /\ ww' = [ww EXCEPT ![r] = [st |-> s, exp |-> mem[r].rv]]
         /\ wpc' = [wpc EXCEPT ![r] = pcLegal]
    ELSE /\ wpc' = [wpc EXCEPT ![r] = pcIllegal]
         /\ UNCHANGED <<mem, ww>>

\* Where CancelledError takes a run_agent task: a task not yet started, or
\* still awaiting its claim, just ends; inside the try it enters the
\* handler; inside a handler it goes on to finally; inside finally it skips
\* the rest of it.
AfterCancel(pc) ==
    CASE pc \in {"scheduled", "claiming", "fin_stop", "fin_release",
                 "fin_complete", "fin_end"}                    -> "dead"
      [] pc \in {"owned", "running_w", "streaming", "final_w"} -> "cancelled"
      [] pc \in {"cancelled", "failed", "handler_w"}           -> "fin_stop"
      [] OTHER                                                 -> pc

\* task.cancel() on the tasks of the runs in Q.  A request a task was
\* awaiting (a status write, the lease claim or release, publish_end) has
\* taken effect for the runs in land and has not for the others; either way
\* its answer is lost.  For the runs in keep nothing happens now: the agent
\* swallows the CancelledError, or a previous one is still undelivered.
StopTasks(Q, land, keep) ==
    LET kept(r) == r \in keep /\ wpc[r] \in {"streaming", "cancelled"}
        hit(r)  == r \in Q /\ ~kept(r)
    IN  /\ wpc' = [r \in Runs |-> IF hit(r) THEN AfterCancel(wpc[r])
                                            ELSE wpc[r]]
        /\ esc' = [r \in Runs |->
                     esc[r] \/ ( /\ hit(r)
                                 /\ AfterCancel(wpc[r]) # wpc[r]
                                 /\ AfterCancel(wpc[r]) # "cancelled" )]
        /\ row' = [r \in Runs |->
                     IF hit(r) /\ r \in land /\ wpc[r] \in Writing
                     THEN Land(row[r], ww[r].st, ww[r].exp) ELSE row[r]]
        /\ lease' = [r \in Runs |->
                     IF hit(r) /\ r \in land
                     THEN (wpc[r] = "claiming")
                          \/ (lease[r] /\ wpc[r] # "fin_release")
                     ELSE lease[r]]
        /\ ended' = [r \in Runs |->
                     ended[r] \/ (hit(r) /\ r \in land /\ wpc[r] = "fin_end")]

\* Cancelling a task that awaits its heartbeat cancels the heartbeat too.
HbAfterStop(Q) ==
    [r \in Runs |-> IF r \in Q /\ wpc[r] = "fin_stop" THEN "off" ELSE hb[r]]

-----------------------------------------------------------------------------
(* Requests: start_run, cancel, client disconnect.                         *)

\* RunManager.create_or_reject: the check, the insert, the row and the
\* cancellation of the active runs are one critical section; the interrupted
\* status of each of those is persisted afterwards, without a version.
Create(p, r, s) ==
    /\ up[p] = "up"
    /\ ~Exists(r)
    /\ s \in Strategies
    /\ s = "reject" => ActiveAt(p) = {}
    /\ home' = [home EXCEPT ![r] = p]
    /\ LET active == ActiveAt(p) IN
       /\ \E land \in SUBSET active, keep \in SUBSET active :
           StopTasks(active, land, keep)
       /\ hb' = HbAfterStop(active)
       /\ mem' = [q \in Runs |->
                    IF q \in active
                    THEN Abort(mem[q], "interrupted", s) ELSE mem[q]]
       /\ cw' = [q \in Runs |->
                    IF q \in active THEN [phase |-> "write", exp |-> 0]
                                    ELSE cw[q]]
    /\ UNCHANGED <<up, ww, rec, drained, budget>>

\* start_run after create_or_reject: the dispatcher schedules run_agent and
\* record.task is set; an error before that leaves the record without a task.
Dispatch(r) ==
    /\ Exists(r) /\ wpc[r] = "none" /\ up[home[r]] = "up"
    /\ \/ wpc' = [wpc EXCEPT ![r] = "scheduled"] /\ UNCHANGED budget
       \/ Fault("dispatch") /\ wpc' = [wpc EXCEPT ![r] = "dead"]
    /\ UNCHANGED <<up, home, row, mem, lease, ww, esc, hb, cw, ended, rec,
                   drained>>

\* (mutant) cancel persists without expected_row_version.
NoVersion(r) == 0

\* The expected_row_version cancel passes to _persist_status.
CancelVersion(r) == mem[r].rv

\* RunManager.cancel for a run of this process: stop the task, mark the
\* record, then write interrupted with the version the record had.
CancelLocal(p, r, action) ==
    /\ up[p] = "up"
    /\ r \in ActiveAt(p)
    /\ \E land \in SUBSET {r}, keep \in SUBSET {r} :
        StopTasks({r}, land, keep)
    /\ hb' = HbAfterStop({r})
    /\ mem' = [mem EXCEPT ![r] = Abort(mem[r], "interrupted", action)]
    /\ cw' = [cw EXCEPT ![r] = [phase |-> "write", exp |-> CancelVersion(r)]]
    /\ UNCHANGED <<up, home, ww, rec, drained, budget>>

\* RunManager.cancel for a run that is not in this process: the durable
\* intent in the row is all it leaves.
CancelElsewhere(p, r, action) ==
    /\ up[p] = "up"
    /\ Exists(r) /\ ~(home[r] = p /\ Present(r))
    /\ row' = [row EXCEPT ![r] = RequestCancel(row[r], action)]
    /\ row' # row
    /\ UNCHANGED <<up, home, mem, lease, wpc, ww, esc, hb, cw, ended, rec,
                   drained, budget>>

Cancel(p, r) ==
    \E action \in CancelActions :
        CancelLocal(p, r, action) \/ CancelElsewhere(p, r, action)

\* The finally of sse_consumer and wait_for_run_completion.  A run of another
\* replica is subscribed to through a record hydrated from its row, whose
\* on_disconnect is always "cancel".
Disconnect(p, r) ==
    /\ Disconnects
    /\ CancelLocal(p, r, "interrupt") \/ CancelElsewhere(p, r, "interrupt")

\* The deferred writes: _persist_status(interrupted), then for cancel() the
\* durable intent (request_cancel), which is best effort.  A write that fails
\* (after the retries) was applied or was not; its answer is lost.
LateWrite(r) ==
    /\ cw[r].phase = "write"
    /\ LET landed == [row EXCEPT ![r] = Land(row[r], "interrupted", cw[r].exp)]
       IN  \/ /\ row' = landed
              /\ mem' = [mem EXCEPT ![r] = Mirror(mem[r], row[r], cw[r].exp)]
              /\ UNCHANGED budget
           \/ Fault("store") /\ row' \in {row, landed} /\ UNCHANGED mem
    /\ cw' = [cw EXCEPT ![r] = IF cw[r].exp = 0 THEN NoLate
                               ELSE [phase |-> "signal", exp |-> 0]]
    /\ UNCHANGED <<up, home, lease, wpc, ww, esc, hb, ended, rec, drained>>

LateSignal(r) ==
    /\ cw[r].phase = "signal"
    /\ row' = [row EXCEPT ![r] = RequestCancel(row[r], mem[r].action)]
    /\ cw' = [cw EXCEPT ![r] = NoLate]
    /\ UNCHANGED <<up, home, mem, lease, wpc, ww, esc, hb, ended, rec,
                   drained, budget>>

-----------------------------------------------------------------------------
(* The run_agent task.                                                     *)

Start(r) ==
    /\ wpc[r] = "scheduled"
    /\ wpc' = [wpc EXCEPT ![r] = IF LeaseEnabled THEN "claiming" ELSE "owned"]
    /\ UNCHANGED <<up, home, row, mem, lease, ww, esc, hb, cw, ended, rec,
                   drained, budget>>

\* lease_store.claim, outside the try.  A run is dispatched once, so the key
\* is free; an error of the lease store leaves the task at once.
Claim(r) ==
    /\ wpc[r] = "claiming"
    /\ \/ /\ lease' = [lease EXCEPT ![r] = TRUE]
          /\ wpc' = [wpc EXCEPT ![r] = "owned"]
          /\ hb' = [hb EXCEPT ![r] = "wait"]
          /\ UNCHANGED budget
       \/ /\ Fault("claim")
          /\ wpc' = [wpc EXCEPT ![r] = "dead"]
          /\ UNCHANGED <<lease, hb>>
    /\ UNCHANGED <<up, home, row, mem, ww, esc, cw, ended, rec, drained>>

SetRunning(r) ==
    /\ wpc[r] = "owned"
    /\ SetStatus(r, "running", "running_w", "failed")
    /\ UNCHANGED <<up, home, row, lease, esc, hb, cw, ended, rec, drained,
                   budget>>

\* The awaited status write lands and its answer is mirrored.  The
\* completion write of finally is not mirrored.
WorkerWrite(r) ==
    /\ wpc[r] \in Writing
    /\ LET landed == [row EXCEPT ![r] = Land(row[r], ww[r].st, ww[r].exp)]
       IN  \/ /\ row' = landed
              /\ mem' = IF wpc[r] = "fin_complete" THEN mem
                        ELSE [mem EXCEPT ![r] = Mirror(mem[r], row[r], ww[r].exp)]
              /\ UNCHANGED budget
           \/ Fault("store") /\ row' \in {row, landed} /\ UNCHANGED mem
    /\ wpc' = [wpc EXCEPT ![r] = CASE wpc[r] = "running_w"    -> "streaming"
                                   [] wpc[r] = "fin_complete" -> "fin_end"
                                   [] OTHER                   -> "fin_stop"]
    /\ UNCHANGED <<up, home, lease, ww, esc, hb, cw, ended, rec, drained>>

AbortStatus(r) ==
    IF mem[r].action = "rollback" THEN "error" ELSE "interrupted"

\* The agent's stream ends, or the loop breaks at a chunk because the abort
\* event is set.  "error" without abort is an LLM fallback.
StreamEnd(r, s) ==
    /\ wpc[r] = "streaming"
    /\ s \in IF mem[r].abort THEN {AbortStatus(r)} ELSE {"success", "error"}
    /\ SetStatus(r, s, "final_w", "failed")
    /\ UNCHANGED <<up, home, row, lease, esc, hb, cw, ended, rec, drained,
                   budget>>

\* Building or streaming the agent raises.
StreamFail(r) ==
    /\ wpc[r] = "streaming"
    /\ wpc' = [wpc EXCEPT ![r] = "failed"]
    /\ UNCHANGED <<up, home, row, mem, lease, ww, esc, hb, cw, ended, rec,
                   drained, budget>>

\* except asyncio.CancelledError
OnCancelled(r) ==
    /\ wpc[r] = "cancelled"
    /\ SetStatus(r, AbortStatus(r), "handler_w", "fin_stop")
    /\ UNCHANGED <<up, home, row, lease, esc, hb, cw, ended, rec, drained,
                   budget>>

\* (mutant) the branch reports the error without setting the status.
OnFailedSilent(r) ==
    /\ wpc[r] = "failed"
    /\ wpc' = [wpc EXCEPT ![r] = "fin_stop"]
    /\ UNCHANGED <<up, home, row, mem, lease, ww, esc, hb, cw, ended, rec,
                   drained, budget>>

\* except Exception
OnFailed(r) ==
    /\ wpc[r] = "failed"
    /\ SetStatus(r, "error", "handler_w", "fin_stop")
    /\ UNCHANGED <<up, home, row, lease, esc, hb, cw, ended, rec, drained,
                   budget>>

\* finally: stop the heartbeat, release the lease, write the completion data
\* with the record's status and version, publish the end of the stream.
FinStop(r) ==
    /\ wpc[r] = "fin_stop"
    /\ hb' = [hb EXCEPT ![r] = "off"]
    /\ wpc' = [wpc EXCEPT ![r] = "fin_release"]
    /\ UNCHANGED <<up, home, row, mem, lease, ww, esc, cw, ended, rec,
                   drained, budget>>

FinRelease(r) ==
    /\ wpc[r] = "fin_release"
    /\ \/ lease' = [lease EXCEPT ![r] = FALSE] /\ UNCHANGED budget
       \/ LeaseEnabled /\ Fault("release") /\ UNCHANGED lease
    /\ ww' = [ww EXCEPT ![r] = [st |-> mem[r].st, exp |-> mem[r].rv]]
    /\ wpc' = [wpc EXCEPT ![r] = "fin_complete"]
    /\ UNCHANGED <<up, home, row, mem, esc, hb, cw, ended, rec, drained>>

FinEnd(r) ==
    /\ wpc[r] = "fin_end"
    /\ ended' = [ended EXCEPT ![r] = TRUE]
    /\ wpc' = [wpc EXCEPT ![r] = "done"]
    /\ UNCHANGED <<up, home, row, mem, lease, ww, esc, hb, cw, rec, drained,
                   budget>>

-----------------------------------------------------------------------------
(* The lease and its heartbeat.                                            *)

\* One tick of _run_lease_heartbeat: renew; a refused or failed renewal ends
\* the heartbeat while the run goes on; otherwise poll unless already aborted.
HbRenew(r) ==
    /\ hb[r] = "wait"
    /\ \/ /\ lease[r] /\ ~mem[r].abort
          /\ hb' = [hb EXCEPT ![r] = "polling"]
          /\ UNCHANGED budget
       \/ /\ ~lease[r]
          /\ hb' = [hb EXCEPT ![r] = "off"]
          /\ UNCHANGED budget
       \/ Fault("renew") /\ hb' = [hb EXCEPT ![r] = "off"]
    /\ UNCHANGED <<up, home, row, mem, lease, wpc, ww, esc, cw, ended, rec,
                   drained>>

\* (mutants) the poll does not look at the answer; it only knows rollback.
IntentUnread(r) == TRUE
IntentRollbackOnly(r) == row[r].intent = "rollback"

\* get_cancel_intent found an intent.
IntentSeen(r) == row[r].intent # "none"

\* get_cancel_intent answers, or fails and counts as no intent; an intent
\* aborts the run and cancels its task.
HbPoll(r) ==
    /\ hb[r] = "polling"
    /\ \/ /\ IF IntentSeen(r) THEN Fault("store") ELSE UNCHANGED budget
          /\ hb' = [hb EXCEPT ![r] = "wait"]
          /\ UNCHANGED <<row, mem, lease, wpc, esc, ended>>
       \/ /\ IntentSeen(r)
          /\ \E land \in SUBSET {r}, keep \in SUBSET {r} :
              StopTasks({r}, land, keep)
          /\ hb' = [hb EXCEPT ![r] = "off"]
          /\ mem' = [mem EXCEPT ![r] = Abort(mem[r], mem[r].st, row[r].intent)]
          /\ UNCHANGED budget
    /\ UNCHANGED <<up, home, ww, cw, rec, drained>>

\* (mutant) the key is claimed without a TTL.
LeaseKept(r) ==
    /\ FALSE
    /\ lease' = [lease EXCEPT ![r] = FALSE]
    /\ UNCHANGED <<up, home, row, mem, wpc, ww, esc, hb, cw, ended, rec,
                   drained, budget>>

\* The key outlives its last renewal by LEASE_TTL_SECONDS.  While heartbeats
\* come, it expires only if the process stalls for longer than that.
LeaseExpire(r) ==
    /\ lease[r]
    /\ \/ hb[r] = "off" /\ UNCHANGED budget
       \/ hb[r] # "off" /\ Fault("stall")
    /\ lease' = [lease EXCEPT ![r] = FALSE]
    /\ UNCHANGED <<up, home, row, mem, wpc, ww, esc, hb, cw, ended, rec,
                   drained>>

-----------------------------------------------------------------------------
(* reconcile_orphaned_inflight_runs: at startup and every minute.          *)

\* Leave row r of the sweep.
RowDone(p, r) ==
    LET left == [rec[p].ver EXCEPT ![r] = 0] IN
    rec' = [rec EXCEPT ![p] =
              IF \E q \in Runs : left[q] # 0
              THEN [phase |-> "scan", cur |-> NoRun, ver |-> left]
              ELSE NoSweep]

\* list_inflight: the rows in flight, with their versions.
RecList(p) ==
    /\ up[p] = "up" /\ rec[p].phase = "idle"
    /\ \E r \in Runs : Exists(r) /\ row[r].st \in InflightStatuses
    /\ rec' = [rec EXCEPT ![p] =
                 [phase |-> "scan", cur |-> NoRun,
                  ver |-> [r \in Runs |->
                             IF Exists(r) /\ row[r].st \in InflightStatuses
                             THEN row[r].rv ELSE 0]]]
    /\ UNCHANGED <<up, home, row, mem, lease, wpc, ww, esc, hb, cw, ended,
                   drained, budget>>

\* get_holder: a live holder keeps the row; no holder, or a lease store that
\* fails, lets the sweep go on.
RecLease(p, r) ==
    /\ up[p] = "up" /\ rec[p].phase = "scan" /\ rec[p].ver[r] # 0
    /\ \/ lease[r] /\ RowDone(p, r) /\ UNCHANGED budget
       \/ /\ IF lease[r] THEN Fault("lookup") ELSE UNCHANGED budget
          /\ rec' = [rec EXCEPT ![p] =
                       [phase |-> "local", cur |-> r, ver |-> rec[p].ver]]
    /\ UNCHANGED <<up, home, row, mem, lease, wpc, ww, esc, hb, cw, ended,
                   drained>>

\* The local-process check, under the lock.
RecLocal(p) ==
    /\ up[p] = "up" /\ rec[p].phase = "local"
    /\ LET r == rec[p].cur IN
       IF r \in ActiveAt(p) THEN RowDone(p, r)
       ELSE rec' = [rec EXCEPT ![p] =
                      [phase |-> "write", cur |-> r, ver |-> rec[p].ver]]
    /\ UNCHANGED <<up, home, row, mem, lease, wpc, ww, esc, hb, cw, ended,
                   drained, budget>>

\* (mutant) the sweep compares with the version it finds, not the one it listed.
SweepVersionNow(p, r) == row[r].rv

\* row_version as list_inflight returned it.
SweepVersion(p, r) == rec[p].ver[r]

\* The compare-and-set to error with the listed version.
RecWrite(p) ==
    /\ up[p] = "up" /\ rec[p].phase = "write"
    /\ LET r == rec[p].cur IN
       /\ \/ /\ row' = [row EXCEPT ![r] = Land(row[r], "error", SweepVersion(p, r))]
             /\ UNCHANGED budget
          \/ Fault("store") /\ UNCHANGED row
       /\ RowDone(p, r)
    /\ UNCHANGED <<up, home, mem, lease, wpc, ww, esc, hb, cw, ended, drained>>

-----------------------------------------------------------------------------
(* Shutdown, crash, restart.                                               *)

\* RunManager.shutdown, first half: abort and cancel the tasks in flight.
DrainBegin(p) ==
    /\ up[p] = "up" /\ Fault("drain")
    /\ LET D == {r \in ActiveAt(p) : wpc[r] \notin TaskOver} IN
       /\ \E land \in SUBSET D, keep \in SUBSET D :
           StopTasks(D, land, keep)
       /\ hb' = HbAfterStop(D)
       /\ mem' = [r \in Runs |->
                    IF r \in D
                    THEN Abort(mem[r], mem[r].st, "interrupt") ELSE mem[r]]
       /\ drained' = [drained EXCEPT ![p] = D]
    /\ up' = [up EXCEPT ![p] = "draining"]
    /\ UNCHANGED <<home, ww, cw, rec>>

\* The runs whose task still runs, or ended with CancelledError.
Unsettled(p) == {r \in drained[p] : wpc[r] \notin TaskOver \/ esc[r]}

\* Second half, when the tasks settled or the timeout passed: the runs whose
\* task still runs or ended cancelled are interrupted, without a version.
DrainSettle(p) ==
    /\ up[p] = "draining"
    /\ LET U == Unsettled(p) IN
       /\ mem' = [r \in Runs |->
                    IF r \in U /\ mem[r].st \in InflightStatuses
                    THEN [mem[r] EXCEPT !.st = "interrupted"] ELSE mem[r]]
       /\ cw' = [r \in Runs |->
                    IF r \in U THEN [phase |-> "write", exp |-> 0] ELSE cw[r]]
    /\ up' = [up EXCEPT ![p] = "settled"]
    /\ UNCHANGED <<home, row, lease, wpc, ww, esc, hb, ended, rec, drained,
                   budget>>

\* The process is gone, after a drain or by a crash: its records, tasks and
\* unsent writes with it.
GoDown(p) ==
    /\ \/ up[p] \in {"draining", "settled"} /\ UNCHANGED budget
       \/ up[p] = "up" /\ Fault("crash")
    /\ up' = [up EXCEPT ![p] = "down"]
    /\ mem' = [r \in Runs |-> IF home[r] = p THEN NewRecord ELSE mem[r]]
    /\ wpc' = [r \in Runs |-> IF home[r] = p THEN "lost" ELSE wpc[r]]
    /\ ww' = [r \in Runs |-> IF home[r] = p THEN NoWrite ELSE ww[r]]
    /\ esc' = [r \in Runs |-> IF home[r] = p THEN FALSE ELSE esc[r]]
    /\ hb' = [r \in Runs |-> IF home[r] = p THEN "off" ELSE hb[r]]
    /\ cw' = [r \in Runs |-> IF home[r] = p THEN NoLate ELSE cw[r]]
    /\ rec' = [rec EXCEPT ![p] = NoSweep]
    /\ drained' = [drained EXCEPT ![p] = {}]
    /\ UNCHANGED <<home, row, lease, ended>>

Restart(p) ==
    /\ up[p] = "down"
    /\ up' = [up EXCEPT ![p] = "up"]
    /\ UNCHANGED <<home, row, mem, lease, wpc, ww, esc, hb, cw, ended, rec,
                   drained, budget>>

-----------------------------------------------------------------------------
Request(p, r) ==
    \/ \E s \in AllStrategies : Create(p, r, s)
    \/ Cancel(p, r)
    \/ Disconnect(p, r)

WorkerStep(r) ==
    \/ Dispatch(r) \/ Start(r) \/ Claim(r) \/ SetRunning(r) \/ WorkerWrite(r)
    \/ \E s \in Statuses : StreamEnd(r, s)
    \/ OnCancelled(r) \/ OnFailed(r)
    \/ FinStop(r) \/ FinRelease(r) \/ FinEnd(r)

RunStep(r) ==
    \/ WorkerStep(r) \/ StreamFail(r)
    \/ LateWrite(r) \/ LateSignal(r)
    \/ HbRenew(r) \/ HbPoll(r) \/ LeaseExpire(r)

SweepStep(p) ==
    \/ RecList(p) \/ RecLocal(p) \/ RecWrite(p)
    \/ \E r \in Runs : RecLease(p, r)

ReplicaStep(p) ==
    \/ SweepStep(p)
    \/ DrainBegin(p) \/ DrainSettle(p) \/ GoDown(p) \/ Restart(p)

Next ==
    \/ \E p \in Replicas, r \in Runs : Request(p, r)
    \/ \E r \in Runs : RunStep(r)
    \/ \E p \in Replicas : ReplicaStep(p)

Spec == Init /\ [][Next]_vars

\* Fairness.  A replica that is up runs its tasks (asyncio), its heartbeats
\* (a timer) and its sweep (a timer); Redis expires keys; the orchestrator
\* restarts a process that went down.  An agent whose abort event is set
\* yields another chunk, or ends.  Requests and faults are not fair.
StreamsEnd == \A r \in Runs : WF_vars(\E s \in Statuses : StreamEnd(r, s))

Scheduling ==
    /\ \A r \in Runs :
        /\ WF_vars(Dispatch(r)) /\ WF_vars(Start(r)) /\ WF_vars(Claim(r))
        /\ WF_vars(SetRunning(r)) /\ WF_vars(WorkerWrite(r))
        /\ WF_vars(mem[r].abort /\ \E s \in Statuses : StreamEnd(r, s))
        /\ WF_vars(OnCancelled(r)) /\ WF_vars(OnFailed(r))
        /\ WF_vars(FinStop(r)) /\ WF_vars(FinRelease(r)) /\ WF_vars(FinEnd(r))
        /\ WF_vars(LateWrite(r)) /\ WF_vars(LateSignal(r))
        /\ WF_vars(HbRenew(r)) /\ WF_vars(HbPoll(r))
        /\ WF_vars(hb[r] = "off" /\ LeaseExpire(r))
    /\ \A p \in Replicas :
        /\ WF_vars(SweepStep(p))
        /\ WF_vars(DrainSettle(p)) /\ WF_vars(Restart(p))
        /\ WF_vars(up[p] \in {"draining", "settled"} /\ GoDown(p))

FairSpec == Spec /\ Scheduling /\ StreamsEnd

\* As FairSpec, but an agent may stream for as long as it likes.
OpenEndedSpec == Spec /\ Scheduling

-----------------------------------------------------------------------------
(* Properties.                                                             *)

\* The shape of the state: every status a known one, every intent one of the
\* actions of cancel, every version a natural number.
TypeOK ==
    /\ up \in [Replicas -> {"up", "draining", "settled", "down"}]
    /\ home \in [Runs -> Replicas \cup {NoReplica}]
    /\ row \in [Runs -> Row]
    /\ mem \in [Runs -> Record]
    /\ lease \in [Runs -> BOOLEAN]
    /\ wpc \in [Runs -> WorkerPCs]
    /\ ww \in [Runs -> Write]
    /\ esc \in [Runs -> BOOLEAN]
    /\ hb \in [Runs -> {"off", "wait", "polling"}]
    /\ cw \in [Runs -> Late]
    /\ ended \in [Runs -> BOOLEAN]
    /\ rec \in [Replicas -> Sweep]
    /\ drained \in [Replicas -> SUBSET Runs]
    /\ budget \in Nat

\* Whatever anybody holds (the record, a write in flight, a deferred cancel,
\* a sweep's listing) is a version the row has had: no compare-and-set can
\* succeed by accident later (update_status, _persist_status).
VersionsBehind ==
    /\ \A r \in Runs :
        /\ mem[r].rv <= row[r].rv
        /\ wpc[r] \in Writing => ww[r].exp # 0 /\ ww[r].exp <= row[r].rv
        /\ cw[r].exp <= row[r].rv
    /\ \A p \in Replicas, r \in Runs : rec[p].ver[r] <= row[r].rv

\* The fence behind "a terminal run may never return to running": when the
\* row was ended by somebody else while the record is still in flight, the
\* record and the task's write in flight carry a version the row has left
\* behind (set_status, cancel, create_or_reject and the sweep together).
StaleWritesFenced ==
    \A r \in Runs :
        /\ Present(r) /\ is_terminal_run_status(row[r].st)
           /\ mem[r].st \in InflightStatuses
           => /\ mem[r].rv < row[r].rv
              /\ wpc[r] \in Writing => ww[r].exp < row[r].rv
        /\ wpc[r] \in Writing => ww[r].st = mem[r].st
        /\ cw[r].phase = "write" => mem[r].st \in {"interrupted", "error"}

\* No step of anyone takes a row from a terminal status back to pending or
\* running (transitions.py, ADR-0006 section 5.3).
NeverRevived ==
    [][\A r \in Runs : is_terminal_run_status(row[r].st)
                       => is_terminal_run_status(row'[r].st)]_vars

\* A terminal status is final, except that interrupted may become error.
TerminalImmutable ==
    [][\A r \in Runs : is_terminal_run_status(row[r].st)
                       => \/ row'[r].st = row[r].st
                          \/ row[r].st = "interrupted" /\ row'[r].st = "error"]_vars

\* A run recorded as success is never relabelled, not even by the
\* unconditional writes of an interrupting create or of a shutdown.
SuccessIsFinal ==
    [][\A r \in Runs : row[r].st = "success" => row'[r].st = "success"]_vars

\* The reconciler changes only rows that are still in flight when its write
\* lands, however old its listing is (PG terminal first, TM-029).
ReconcileOnlyInflight ==
    [][\A p \in Replicas : RecWrite(p) /\ row' # row
                           => row[rec[p].cur].st \in InflightStatuses]_vars

\* A replica never holds two pending or running runs of one thread.
AtMostOneInflight ==
    \A q, r \in Runs : /\ Present(q) /\ Present(r) /\ home[q] = home[r]
                       /\ mem[q].st \in InflightStatuses
                       /\ mem[r].st \in InflightStatuses
                       => q = r

\* Subscribers see the end of the stream of a run in a terminal state, and a
\* task that got into its try block publishes that end, unless the run was
\* aborted (the handlers and the finally of run_agent).
EndsUnlessAborted ==
    \A r \in Runs :
        Present(r) /\ ~mem[r].abort =>
            /\ ended[r] => is_terminal_run_status(mem[r].st)
            /\ wpc[r] = "dead" /\ ww[r] # NoWrite => ended[r]

\* A run converges: created, its row becomes terminal for good, through
\* shutdowns, crashes, lost leases, failed claims and lost writes.
EventuallyTerminal ==
    \A r \in Runs : Exists(r) ~> []is_terminal_run_status(row[r].st)

\* A durable cancel intent stops the agent while heartbeats work.
IntentStopsRun ==
    \A r \in Runs : row[r].intent # "none" ~> wpc[r] # "streaming"

=============================================================================
