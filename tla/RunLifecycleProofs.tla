------------------------- MODULE RunLifecycleProofs -------------------------
(***************************************************************************)
(* What the run lifecycle guarantees for any number of replicas and runs,  *)
(* any mix of cancels and disconnects, and any bound on faults. The types, *)
(* the versions, the finality of success, admission and the end of the     *)
(* stream hold under all faults and multitask strategies. The rest of the  *)
(* row_version fence needs that no process is shut down gracefully, and a  *)
(* terminal row is immutable, and safe from the sweep, if no client        *)
(* displaces a run either: both write a status without a version.          *)
(***************************************************************************)
EXTENDS RunLifecycle, TLAPS

-----------------------------------------------------------------------------
(* The helpers.                                                            *)

\* A status write keeps a row a row.
LEMMA LandType ==
    ASSUME NEW rw \in Row, NEW st \in Statuses, NEW exp \in Nat
    PROVE  Land(rw, st, exp) \in Row
  <1>1. CASE exp = 0
    BY <1>1 DEF Land, Row
  <1>2. CASE exp # 0 /\ rw.rv = exp
    <2>1. [st |-> st, rv |-> exp + 1, intent |-> rw.intent] \in Row
      BY DEF Row
    <2> QED BY <1>2, <2>1 DEF Land
  <1>3. CASE exp # 0 /\ rw.rv # exp
    BY <1>3 DEF Land
  <1> QED BY <1>1, <1>2, <1>3

\* Types of the helpers: the abort event of a record.
LEMMA AbortType ==
    ASSUME NEW m \in Record, NEW st \in Statuses, NEW action \in AbortActions
    PROVE  Abort(m, st, action) \in Record
  BY DEF Abort, Record

\* The version a successful write leaves in the record.
LEMMA MirrorType ==
    ASSUME NEW m \in Record, NEW rw \in Row, NEW exp \in Nat
    PROVE  Mirror(m, rw, exp) \in Record
  BY DEF Mirror, Record, Row

\* The durable cancel intent.
LEMMA RequestCancelType ==
    ASSUME NEW rw \in Row, NEW action \in AbortActions
    PROVE  RequestCancel(rw, action) \in Row
  BY DEF RequestCancel, Row

\* Where a cancelled task goes on.
LEMMA AfterCancelType ==
    ASSUME NEW pc \in WorkerPCs
    PROVE  AfterCancel(pc) \in WorkerPCs
  BY DEF AfterCancel, WorkerPCs

\* Cancelling tasks keeps the types of all it changes.
LEMMA StopTasksType ==
    ASSUME TypeOK, NEW Q, NEW land, NEW keep, StopTasks(Q, land, keep)
    PROVE  /\ wpc' \in [Runs -> WorkerPCs]
           /\ esc' \in [Runs -> BOOLEAN]
           /\ row' \in [Runs -> Row]
           /\ lease' \in [Runs -> BOOLEAN]
           /\ ended' \in [Runs -> BOOLEAN]
  <1>1. wpc' \in [Runs -> WorkerPCs]
    BY AfterCancelType DEF TypeOK, StopTasks
  <1>2. row' \in [Runs -> Row]
    <2>1. \A r \in Runs : Land(row[r], ww[r].st, ww[r].exp) \in Row
      BY LandType DEF TypeOK, Write
    <2> QED BY <2>1 DEF TypeOK, StopTasks
  <1> QED BY <1>1, <1>2 DEF TypeOK, StopTasks

\* The heartbeat of a cancelled task.
LEMMA HbAfterStopType ==
    ASSUME TypeOK, NEW Q
    PROVE  HbAfterStop(Q) \in [Runs -> {"off", "wait", "polling"}]
  BY DEF TypeOK, HbAfterStop

\* set_status, legal or not.
LEMMA SetStatusType ==
    ASSUME TypeOK, NEW r \in Runs, NEW s \in Statuses,
           NEW a \in WorkerPCs, NEW b \in WorkerPCs, SetStatus(r, s, a, b)
    PROVE  /\ mem' \in [Runs -> Record]
           /\ ww' \in [Runs -> Write]
           /\ wpc' \in [Runs -> WorkerPCs]
  <1>1. CASE LegalTransition(mem[r].st, s)
    <2>1. mem' \in [Runs -> Record]
      <3>1. [mem[r] EXCEPT !.st = s] \in Record
        BY DEF TypeOK, Record
      <3> QED BY <1>1, <3>1 DEF TypeOK, SetStatus
    <2>2. ww' \in [Runs -> Write]
      <3>1. mem[r].rv \in Nat
        BY DEF TypeOK, Record
      <3>2. [st |-> s, exp |-> mem[r].rv] \in Write
        BY <3>1 DEF Write
      <3> QED BY <1>1, <3>2 DEF TypeOK, SetStatus
    <2> QED BY <1>1, <2>1, <2>2 DEF TypeOK, SetStatus
  <1>2. CASE ~LegalTransition(mem[r].st, s)
    BY <1>2 DEF TypeOK, SetStatus
  <1> QED BY <1>1, <1>2

\* The sweep moves to its next row.
LEMMA RowDoneType ==
    ASSUME TypeOK, NEW p \in Replicas, NEW r \in Runs, RowDone(p, r)
    PROVE  rec' \in [Replicas -> Sweep]
  BY DEF TypeOK, RowDone, Sweep, NoSweep

\* A fault is taken from the budget.
LEMMA FaultType ==
    ASSUME TypeOK, NEW k, Fault(k)
    PROVE  budget' \in Nat
  BY DEF TypeOK, Fault

-----------------------------------------------------------------------------
(* Type correctness, one step per action.                                  *)

\* create_or_reject.
LEMMA CreateType ==
    ASSUME TypeOK, NEW p \in Replicas, NEW r \in Runs, NEW s, Create(p, r, s)
    PROVE  TypeOK'
  <1> DEFINE active == ActiveAt(p)
  <1>1. s \in AbortActions \/ active = {}
    BY LifecycleAssumption DEF Create, AllStrategies, AbortActions
  <1>2. PICK land \in SUBSET active, keep \in SUBSET active :
            StopTasks(active, land, keep)
    BY DEF Create
  <1>3. mem' \in [Runs -> Record]
    <2>1. ASSUME NEW q \in active
          PROVE  Abort(mem[q], "interrupted", s) \in Record
      BY <1>1, AbortType DEF TypeOK, ActiveAt, Statuses, TERMINAL_RUN_STATUSES
    <2> QED BY <2>1 DEF Create, TypeOK
  <1>4. cw' \in [Runs -> Late]
    <2>1. [phase |-> "write", exp |-> 0] \in Late
      BY DEF Late
    <2> QED BY <2>1 DEF Create, TypeOK
  <1>5. hb' \in [Runs -> {"off", "wait", "polling"}]
    BY HbAfterStopType DEF Create
  <1>6. home' \in [Runs -> Replicas \cup {NoReplica}]
    BY DEF Create, TypeOK
  <1>7. UNCHANGED <<up, ww, rec, drained, budget>>
    BY DEF Create
  <1> QED BY <1>2, <1>3, <1>4, <1>5, <1>6, <1>7, StopTasksType DEF TypeOK

\* cancel, in the home process and elsewhere.
LEMMA CancelType ==
    ASSUME TypeOK, NEW p \in Replicas, NEW r \in Runs,
           NEW action \in AbortActions,
           CancelLocal(p, r, action) \/ CancelElsewhere(p, r, action)
    PROVE  TypeOK'
  <1>1. CASE CancelLocal(p, r, action)
    <2>1. PICK land \in SUBSET {r}, keep \in SUBSET {r} :
              StopTasks({r}, land, keep)
      BY <1>1 DEF CancelLocal
    <2>2. mem' \in [Runs -> Record]
      <3>1. Abort(mem[r], "interrupted", action) \in Record
        BY AbortType DEF TypeOK, Statuses, TERMINAL_RUN_STATUSES
      <3> QED BY <1>1, <3>1 DEF CancelLocal, TypeOK
    <2>3. cw' \in [Runs -> Late]
      <3>1. mem[r].rv \in Nat
        BY DEF TypeOK, Record
      <3>2. [phase |-> "write", exp |-> CancelVersion(r)] \in Late
        BY <3>1 DEF Late, CancelVersion
      <3> QED BY <1>1, <3>2 DEF CancelLocal, TypeOK
    <2>4. hb' \in [Runs -> {"off", "wait", "polling"}]
      BY <1>1, HbAfterStopType DEF CancelLocal
    <2>5. UNCHANGED <<up, home, ww, rec, drained, budget>>
      BY <1>1 DEF CancelLocal
    <2> QED BY <2>1, <2>2, <2>3, <2>4, <2>5, StopTasksType DEF TypeOK
  <1>2. CASE CancelElsewhere(p, r, action)
    BY <1>2, RequestCancelType DEF CancelElsewhere, TypeOK
  <1> QED BY <1>1, <1>2

\* The requests: create, dispatch, cancel, disconnect.
LEMMA RequestType ==
    ASSUME TypeOK, NEW p \in Replicas, NEW r \in Runs, Request(p, r)
    PROVE  TypeOK'
  <1>1. ASSUME NEW s \in AllStrategies, Create(p, r, s)
        PROVE  TypeOK'
    BY <1>1, CreateType
  <1>2. CASE Cancel(p, r)
    BY <1>2, CancelType, LifecycleAssumption DEF Cancel
  <1>3. CASE Disconnect(p, r)
    BY <1>3, CancelType DEF Disconnect, AbortActions
  <1> QED BY <1>1, <1>2, <1>3 DEF Request

\* The landing of a write the task awaits.
LEMMA WorkerWriteType ==
    ASSUME TypeOK, NEW r \in Runs, WorkerWrite(r)
    PROVE  TypeOK'
  <1> DEFINE rw == Land(row[r], ww[r].st, ww[r].exp)
  <1>1. rw \in Row
    BY LandType DEF TypeOK, Write
  <1>2. row' \in [Runs -> Row]
    BY <1>1 DEF WorkerWrite, TypeOK
  <1>3. mem' \in [Runs -> Record]
    <2>1. Mirror(mem[r], row[r], ww[r].exp) \in Record
      BY MirrorType DEF TypeOK, Write
    <2> QED BY <2>1 DEF WorkerWrite, TypeOK
  <1>4. wpc' \in [Runs -> WorkerPCs]
    BY DEF WorkerWrite, TypeOK, WorkerPCs
  <1>5. budget' \in Nat
    BY FaultType DEF WorkerWrite, TypeOK
  <1> QED BY <1>2, <1>3, <1>4, <1>5 DEF WorkerWrite, TypeOK

\* The steps of run_agent that call set_status.
LEMMA StatusStepType ==
    ASSUME TypeOK, NEW r \in Runs, NEW s \in Statuses,
           SetRunning(r) \/ StreamEnd(r, s) \/ OnCancelled(r) \/ OnFailed(r)
    PROVE  TypeOK'
  <1>1. PICK t \in Statuses, a \in WorkerPCs, b \in WorkerPCs :
            SetStatus(r, t, a, b)
    <2>1. /\ {"running", "error", AbortStatus(r)} \subseteq Statuses
          /\ {"running_w", "final_w", "handler_w", "failed", "fin_stop"}
               \subseteq WorkerPCs
      BY DEF AbortStatus, Statuses, InflightStatuses, TERMINAL_RUN_STATUSES,
             WorkerPCs
    <2>2. CASE SetRunning(r)
      BY <2>1, <2>2 DEF SetRunning
    <2>3. CASE StreamEnd(r, s)
      BY <2>1, <2>3 DEF StreamEnd
    <2>4. CASE OnCancelled(r)
      BY <2>1, <2>4 DEF OnCancelled
    <2>5. CASE OnFailed(r)
      BY <2>1, <2>5 DEF OnFailed
    <2> QED BY <2>2, <2>3, <2>4, <2>5
  <1>2. UNCHANGED <<up, home, row, lease, esc, hb, cw, ended, rec, drained,
                    budget>>
    BY DEF SetRunning, StreamEnd, OnCancelled, OnFailed
  <1> QED BY <1>1, <1>2, SetStatusType DEF TypeOK

\* All steps of run_agent.
LEMMA WorkerType ==
    ASSUME TypeOK, NEW r \in Runs, WorkerStep(r) \/ StreamFail(r)
    PROVE  TypeOK'
  <1>1. CASE Dispatch(r)
    BY <1>1, FaultType DEF Dispatch, TypeOK, WorkerPCs
  <1>2. CASE Start(r)
    BY <1>2 DEF Start, TypeOK, WorkerPCs
  <1>3. CASE Claim(r)
    <2>1. budget' \in Nat
      BY <1>3, FaultType DEF Claim, TypeOK
    <2>2. wpc' \in [Runs -> WorkerPCs]
      BY <1>3 DEF Claim, TypeOK, WorkerPCs
    <2>3. hb' \in [Runs -> {"off", "wait", "polling"}]
      BY <1>3 DEF Claim, TypeOK
    <2>4. lease' \in [Runs -> BOOLEAN]
      <3>1. [lease EXCEPT ![r] = TRUE] \in [Runs -> BOOLEAN]
        BY DEF TypeOK
      <3> QED BY <1>3, <3>1, Zenon DEF Claim, TypeOK
    <2> QED BY <1>3, <2>1, <2>2, <2>3, <2>4 DEF Claim, TypeOK
  <1>4. CASE WorkerWrite(r)
    BY <1>4, WorkerWriteType
  <1>5. ASSUME NEW s \in Statuses,
               SetRunning(r) \/ StreamEnd(r, s) \/ OnCancelled(r) \/ OnFailed(r)
        PROVE  TypeOK'
    BY <1>5, StatusStepType
  <1>6. CASE StreamFail(r)
    BY <1>6 DEF StreamFail, TypeOK, WorkerPCs
  <1>7. CASE FinStop(r)
    BY <1>7 DEF FinStop, TypeOK, WorkerPCs
  <1>8. CASE FinRelease(r)
    <2>1. [st |-> mem[r].st, exp |-> mem[r].rv] \in Write
      BY DEF TypeOK, Record, Write
    <2>2. ww' \in [Runs -> Write] /\ wpc' \in [Runs -> WorkerPCs]
      BY <1>8, <2>1 DEF FinRelease, TypeOK, WorkerPCs
    <2>3. lease' \in [Runs -> BOOLEAN] /\ budget' \in Nat
      BY <1>8, FaultType DEF FinRelease, TypeOK
    <2> QED BY <1>8, <2>2, <2>3 DEF FinRelease, TypeOK
  <1>9. CASE FinEnd(r)
    BY <1>9 DEF FinEnd, TypeOK, WorkerPCs
  <1>10. "running" \in Statuses
    BY DEF Statuses, InflightStatuses
  <1> QED BY <1>1, <1>2, <1>3, <1>4, <1>5, <1>6, <1>7, <1>8, <1>9, <1>10
          DEF WorkerStep

\* The deferred writes and signals of cancellers.
LEMMA LateType ==
    ASSUME TypeOK, NEW r \in Runs, LateWrite(r) \/ LateSignal(r)
    PROVE  TypeOK'
  <1>1. CASE LateWrite(r)
    <2> DEFINE rw == Land(row[r], "interrupted", cw[r].exp)
    <2>1. rw \in Row
      BY LandType DEF TypeOK, Late, Statuses, TERMINAL_RUN_STATUSES
    <2>2. row' \in [Runs -> Row]
      BY <1>1, <2>1 DEF LateWrite, TypeOK
    <2>3. mem' \in [Runs -> Record]
      <3>1. Mirror(mem[r], row[r], cw[r].exp) \in Record
        BY MirrorType DEF TypeOK, Late
      <3> QED BY <1>1, <3>1 DEF LateWrite, TypeOK
    <2>4. cw' \in [Runs -> Late]
      BY <1>1 DEF LateWrite, TypeOK, Late, NoLate
    <2>5. budget' \in Nat
      BY <1>1, FaultType DEF LateWrite, TypeOK
    <2> QED BY <1>1, <2>2, <2>3, <2>4, <2>5 DEF LateWrite, TypeOK
  <1>2. CASE LateSignal(r)
    <2>1. RequestCancel(row[r], mem[r].action) \in Row
      BY RequestCancelType DEF TypeOK, Record
    <2>2. cw' \in [Runs -> Late]
      BY <1>2 DEF LateSignal, TypeOK, Late, NoLate
    <2> QED BY <1>2, <2>1, <2>2 DEF LateSignal, TypeOK
  <1> QED BY <1>1, <1>2

\* The heartbeat and the expiry of the lease.
LEMMA HeartbeatType ==
    ASSUME TypeOK, NEW r \in Runs, HbRenew(r) \/ HbPoll(r) \/ LeaseExpire(r)
    PROVE  TypeOK'
  <1>1. CASE HbRenew(r)
    BY <1>1, FaultType DEF HbRenew, TypeOK
  <1>2. CASE HbPoll(r)
    <2>1. CASE UNCHANGED <<row, mem, lease, wpc, esc, ended>>
      <3>1. budget' \in Nat
        BY <1>2, FaultType DEF HbPoll, TypeOK
      <3> QED BY <1>2, <2>1, <3>1 DEF HbPoll, TypeOK
    <2>2. CASE /\ IntentSeen(r) /\ UNCHANGED budget
               /\ \E land \in SUBSET {r}, keep \in SUBSET {r} :
                     StopTasks({r}, land, keep)
               /\ mem' = [mem EXCEPT ![r] = Abort(mem[r], mem[r].st,
                                                 row[r].intent)]
      <3>1. Abort(mem[r], mem[r].st, row[r].intent) \in Record
        <4>1. /\ row[r].intent \in AbortActions
              /\ mem[r] \in Record /\ mem[r].st \in Statuses
          BY <2>2 DEF TypeOK, Row, Record, IntentSeen
        <4> QED BY <4>1, AbortType
      <3>2. mem' \in [Runs -> Record]
        BY <2>2, <3>1 DEF TypeOK
      <3>3. /\ wpc' \in [Runs -> WorkerPCs]
            /\ esc' \in [Runs -> BOOLEAN]
            /\ row' \in [Runs -> Row]
            /\ lease' \in [Runs -> BOOLEAN]
            /\ ended' \in [Runs -> BOOLEAN]
        BY <2>2, StopTasksType
      <3>4. /\ hb' \in [Runs -> {"off", "wait", "polling"}]
            /\ UNCHANGED <<up, home, ww, cw, rec, drained>>
        BY <1>2 DEF HbPoll, TypeOK
      <3> QED BY <2>2, <3>2, <3>3, <3>4 DEF TypeOK
    <2> QED BY <1>2, <2>1, <2>2 DEF HbPoll
  <1>3. CASE LeaseExpire(r)
    BY <1>3, FaultType DEF LeaseExpire, TypeOK
  <1> QED BY <1>1, <1>2, <1>3

\* The steps of a sweep.
LEMMA SweepType ==
    ASSUME TypeOK, NEW p \in Replicas, SweepStep(p)
    PROVE  TypeOK'
  <1>1. CASE RecList(p)
    <2> DEFINE ver == [r \in Runs |->
                         IF Exists(r) /\ row[r].st \in InflightStatuses
                         THEN row[r].rv ELSE 0]
    <2>1. ver \in [Runs -> Nat]
      BY DEF TypeOK, Row
    <2>2. [phase |-> "scan", cur |-> NoRun, ver |-> ver] \in Sweep
      BY <2>1 DEF Sweep
    <2> QED BY <1>1, <2>2 DEF RecList, TypeOK
  <1>2. ASSUME NEW r \in Runs, RecLease(p, r)
        PROVE  TypeOK'
    <2>1. [phase |-> "local", cur |-> r, ver |-> rec[p].ver] \in Sweep
      BY DEF TypeOK, Sweep
    <2>2. rec' \in [Replicas -> Sweep]
      BY <1>2, <2>1, RowDoneType DEF RecLease, TypeOK
    <2>3. budget' \in Nat
      BY <1>2, FaultType DEF RecLease, TypeOK
    <2> QED BY <1>2, <2>2, <2>3 DEF RecLease, TypeOK
  <1>3. CASE RecLocal(p)
    <2> DEFINE r == rec[p].cur
    <2>1. rec[p].phase = "local"
      BY <1>3 DEF RecLocal
    <2>2. r \in Runs /\ rec[p].ver \in [Runs -> Nat]
      BY <2>1 DEF TypeOK, Sweep
    <2>3. [phase |-> "write", cur |-> r, ver |-> rec[p].ver] \in Sweep
      BY <2>2 DEF Sweep
    <2>4. rec' \in [Replicas -> Sweep]
      BY <1>3, <2>2, <2>3, RowDoneType DEF RecLocal, TypeOK
    <2> QED BY <1>3, <2>4 DEF RecLocal, TypeOK
  <1>4. CASE RecWrite(p)
    <2> DEFINE r == rec[p].cur
    <2>1. rec[p].phase = "write"
      BY <1>4 DEF RecWrite
    <2>2. r \in Runs /\ rec[p].ver \in [Runs -> Nat]
      BY <2>1 DEF TypeOK, Sweep
    <2>3. rec' \in [Replicas -> Sweep]
      BY <1>4, <2>2, RowDoneType DEF RecWrite
    <2>4. Land(row[r], "error", SweepVersion(p, r)) \in Row
      <3>1. row[r] \in Row /\ SweepVersion(p, r) \in Nat /\ "error" \in Statuses
        BY <2>2 DEF TypeOK, SweepVersion, Statuses, TERMINAL_RUN_STATUSES
      <3> QED BY <3>1, LandType
    <2>5. row' \in [Runs -> Row]
      BY <1>4, <2>2, <2>4 DEF RecWrite, TypeOK
    <2>6. budget' \in Nat
      BY <1>4, FaultType DEF RecWrite, TypeOK
    <2> QED BY <1>4, <2>3, <2>5, <2>6 DEF RecWrite, TypeOK
  <1> QED BY <1>1, <1>2, <1>3, <1>4 DEF SweepStep

\* Sweeps, shutdown, crash and restart.
LEMMA ReplicaType ==
    ASSUME TypeOK, NEW p \in Replicas,
           DrainBegin(p) \/ DrainSettle(p) \/ GoDown(p) \/ Restart(p)
    PROVE  TypeOK'
  <1>1. CASE DrainBegin(p)
    <2> DEFINE D == {r \in ActiveAt(p) : wpc[r] \notin TaskOver}
    <2>1. PICK land \in SUBSET D, keep \in SUBSET D : StopTasks(D, land, keep)
      BY <1>1 DEF DrainBegin
    <2>2. \A r \in Runs : Abort(mem[r], mem[r].st, "interrupt") \in Record
      <3>1. \A r \in Runs : mem[r] \in Record /\ mem[r].st \in Statuses
        BY DEF TypeOK, Record
      <3> QED BY <3>1, AbortType DEF AbortActions
    <2>3. mem' \in [Runs -> Record]
      BY <1>1, <2>2 DEF DrainBegin, TypeOK
    <2>4. D \in SUBSET Runs
      BY DEF ActiveAt
    <2>5. drained' \in [Replicas -> SUBSET Runs]
      BY <1>1, <2>4 DEF DrainBegin, TypeOK
    <2>6. hb' \in [Runs -> {"off", "wait", "polling"}]
      BY <1>1, HbAfterStopType DEF DrainBegin
    <2>7. budget' \in Nat
      BY <1>1, FaultType DEF DrainBegin
    <2>8. /\ up' \in [Replicas -> {"up", "draining", "settled", "down"}]
          /\ UNCHANGED <<home, ww, cw, rec>>
      BY <1>1 DEF DrainBegin, TypeOK
    <2> QED BY <2>1, <2>3, <2>5, <2>6, <2>7, <2>8, StopTasksType DEF TypeOK
  <1>2. CASE DrainSettle(p)
    <2>1. \A r \in Runs : [mem[r] EXCEPT !.st = "interrupted"] \in Record
      BY DEF TypeOK, Record, Statuses, TERMINAL_RUN_STATUSES
    <2>2. mem' \in [Runs -> Record]
      BY <1>2, <2>1 DEF DrainSettle, TypeOK
    <2>3. [phase |-> "write", exp |-> 0] \in Late
      BY DEF Late
    <2>4. cw' \in [Runs -> Late]
      BY <1>2, <2>3 DEF DrainSettle, TypeOK
    <2>5. up' \in [Replicas -> {"up", "draining", "settled", "down"}]
      BY <1>2 DEF DrainSettle, TypeOK
    <2> QED BY <1>2, <2>2, <2>4, <2>5 DEF DrainSettle, TypeOK
  <1>3. CASE GoDown(p)
    <2>1. /\ NewRecord \in Record /\ NoWrite \in Write /\ NoLate \in Late
          /\ NoSweep \in Sweep /\ "lost" \in WorkerPCs
      BY DEF NewRecord, Record, NoWrite, Write, NoLate, Late, NoSweep, Sweep,
             WorkerPCs, Statuses, InflightStatuses, AbortActions
    <2>2. mem' \in [Runs -> Record] /\ wpc' \in [Runs -> WorkerPCs]
      BY <1>3, <2>1 DEF GoDown, TypeOK
    <2>3. ww' \in [Runs -> Write] /\ cw' \in [Runs -> Late]
      BY <1>3, <2>1 DEF GoDown, TypeOK
    <2>4. /\ esc' \in [Runs -> BOOLEAN]
          /\ hb' \in [Runs -> {"off", "wait", "polling"}]
      BY <1>3 DEF GoDown, TypeOK
    <2>5. rec' \in [Replicas -> Sweep]
      BY <1>3, <2>1 DEF GoDown, TypeOK
    <2>6. /\ drained' \in [Replicas -> SUBSET Runs]
          /\ up' \in [Replicas -> {"up", "draining", "settled", "down"}]
      BY <1>3 DEF GoDown, TypeOK
    <2>7. budget' \in Nat
      BY <1>3, FaultType DEF GoDown, TypeOK
    <2> QED BY <1>3, <2>2, <2>3, <2>4, <2>5, <2>6, <2>7 DEF GoDown, TypeOK
  <1>4. CASE Restart(p)
    BY <1>4 DEF Restart, TypeOK
  <1> QED BY <1>1, <1>2, <1>3, <1>4

\* The initial state is well typed.
LEMMA InitType == Init => TypeOK
  <1> SUFFICES ASSUME Init PROVE TypeOK
    OBVIOUS
  <1>1. /\ NewRow \in Row /\ NewRecord \in Record /\ NoWrite \in Write
        /\ NoLate \in Late /\ NoSweep \in Sweep /\ "none" \in WorkerPCs
    BY DEF NewRow, Row, NewRecord, Record, NoWrite, Write, NoLate, Late, NoSweep,
           Sweep, WorkerPCs, Statuses, InflightStatuses, AbortActions
  <1> QED BY <1>1, LifecycleAssumption DEF Init, TypeOK

\* Every step keeps the types.
LEMMA NextType == TypeOK /\ [Next]_vars => TypeOK'
  <1> SUFFICES ASSUME TypeOK, [Next]_vars PROVE TypeOK'
    OBVIOUS
  <1>1. CASE UNCHANGED vars
    BY <1>1 DEF vars, TypeOK
  <1>2. ASSUME NEW p \in Replicas, NEW r \in Runs, Request(p, r)
        PROVE  TypeOK'
    BY <1>2, RequestType
  <1>3. ASSUME NEW r \in Runs, RunStep(r)
        PROVE  TypeOK'
    BY <1>3, WorkerType, LateType, HeartbeatType DEF RunStep
  <1>4. ASSUME NEW p \in Replicas, ReplicaStep(p)
        PROVE  TypeOK'
    BY <1>4, SweepType, ReplicaType DEF ReplicaStep
  <1> QED BY <1>1, <1>2, <1>3, <1>4 DEF Next

\* Every state has the shape TypeOK gives, whatever the sets of replicas and
\* runs, the clients' strategies and the faults.
THEOREM TypeCorrect == Spec => []TypeOK
  BY InitType, NextType, PTL DEF Spec

-----------------------------------------------------------------------------
(* The row_version fence.                                                   *)

\* Deployments that are not shut down gracefully, and those whose clients
\* displace no run either: every status write then carries a version.
Calm == "drain" \notin FaultKinds
Exact == Calm /\ Strategies \subseteq {"reject"}

\* What links a row, the record, the task's write in flight and a deferred
\* cancel, whatever the faults.
BaseInv(r) ==
    /\ ~Exists(r) => /\ row[r].st = "pending" /\ wpc[r] = "none"
                     /\ cw[r].phase = "none"
    /\ mem[r].rv >= 1 /\ mem[r].rv <= row[r].rv
    /\ cw[r].exp <= row[r].rv
    /\ wpc[r] \in Writing => /\ ww[r].exp >= 1 /\ ww[r].exp <= row[r].rv
                             /\ ww[r].st = "success" <=> mem[r].st = "success"
    /\ cw[r].phase = "write" => /\ Present(r)
                                /\ mem[r].st \in {"interrupted", "error"}
    /\ Present(r) /\ row[r].st = "success" => mem[r].st = "success"

\* The fence proper: StaleWritesFenced, strengthened so that every step
\* preserves it.
CalmInv(r) ==
    /\ wpc[r] \in Writing => ww[r].st = mem[r].st
    /\ /\ Present(r)
       /\ is_terminal_run_status(row[r].st) /\ mem[r].st \in InflightStatuses
       => /\ mem[r].rv < row[r].rv
          /\ wpc[r] \in Writing => ww[r].exp < row[r].rv

\* Whoever holds the version of a terminal row knows its status; a cancel
\* holds an older one.
ExactInv(r) ==
    /\ cw[r].phase = "write" =>
          /\ cw[r].exp # 0
          /\ is_terminal_run_status(row[r].st) => cw[r].exp < row[r].rv
    /\ wpc[r] \in Writing => ww[r].exp <= mem[r].rv
    /\ Present(r) /\ is_terminal_run_status(row[r].st) /\ mem[r].rv = row[r].rv
       => LegalTransition(row[r].st, mem[r].st)

RunInv(r) == BaseInv(r) /\ (Calm => CalmInv(r)) /\ (Exact => ExactInv(r))

\* What a sweep remembers of a row is its version, or an older one; the row
\* has left it behind, unless an unversioned write relabelled it.
SweepInv(p, r) ==
    rec[p].ver[r] # 0 =>
        /\ Exists(r)
        /\ rec[p].ver[r] <= row[r].rv
        /\ rec[p].ver[r] = row[r].rv /\ is_terminal_run_status(row[r].st)
           => row[r].st = "interrupted" /\ ~Exact

\* The row a sweep is at is one it listed.
CursorInv(p) ==
    rec[p].phase \in {"local", "write"} => rec[p].ver[rec[p].cur] # 0

NoShutdown == \A p \in Replicas : up[p] \notin {"draining", "settled"}

\* A run that a shutdown aborted does not succeed any more.
Aborted(r) == mem[r].abort /\ mem[r].st \notin {"success", "timeout"}
DrainInv(p) == \A r \in drained[p] : home[r] = p /\ Present(r) /\ Aborted(r)

FenceInv ==
    /\ TypeOK
    /\ Calm => NoShutdown
    /\ \A r \in Runs : RunInv(r)
    /\ \A p \in Replicas : CursorInv(p) /\ DrainInv(p)
    /\ \A p \in Replicas, r \in Runs : SweepInv(p, r)

\* What one step may do to the row of r.
Final(r) ==
    is_terminal_run_status(row[r].st) =>
        \/ row'[r].st = row[r].st
        \/ row[r].st = "interrupted" /\ row'[r].st = "error"

RunSafe(r) ==
    /\ row[r].st = "success" => row'[r].st = "success"
    /\ Calm => (is_terminal_run_status(row[r].st) => is_terminal_run_status(row'[r].st))
    /\ Exact => Final(r)

RowMoves(r) ==
    \/ row'[r].st = row[r].st /\ row'[r].rv = row[r].rv
    \/ row'[r].rv > row[r].rv
    \/ row'[r].rv = row[r].rv /\ row'[r].st = "interrupted" /\ ~Exact

RunKept(r) == RunInv(r)' /\ RunSafe(r) /\ RowMoves(r)

-----------------------------------------------------------------------------
(* Steps that leave r's status, versions and writes alone.                 *)

\* A run nothing of which changed keeps its invariant.
LEMMA Frame ==
    ASSUME TypeOK, TypeOK', NEW r \in Runs, RunInv(r),
           home'[r] = home[r],
           row'[r].st = row[r].st, row'[r].rv = row[r].rv,
           mem'[r].st = mem[r].st, mem'[r].rv = mem[r].rv,
           ww'[r] = ww[r],
           cw'[r] = cw[r] \/ (cw'[r].phase # "write" /\ cw'[r].exp = 0),
           ~Exists(r) => cw'[r].phase = "none",
           \/ wpc'[r] = wpc[r]
           \/ /\ Exists(r) /\ wpc[r] # "lost" /\ wpc'[r] # "lost"
              /\ wpc'[r] \notin Writing
    PROVE  RunKept(r)
  <1>1. /\ row[r] \in Row /\ row'[r] \in Row
        /\ mem[r] \in Record /\ mem'[r] \in Record
        /\ cw[r] \in Late /\ cw'[r] \in Late
    BY DEF TypeOK
  <1>2. /\ row[r].rv \in Nat /\ mem[r].rv \in Nat /\ cw[r].exp \in Nat
    BY <1>1 DEF Row, Record, Late
  <1>3. RunSafe(r) /\ RowMoves(r)
    BY DEF RunSafe, RowMoves, Final
  <1>4. BaseInv(r)'
    BY <1>2 DEF RunInv, BaseInv, Exists, Present
  <1>5. Calm => CalmInv(r)'
    BY <1>2 DEF RunInv, CalmInv, Exists, Present
  <1>6. Exact => ExactInv(r)'
    BY <1>2 DEF RunInv, ExactInv, Exists, Present
  <1> QED BY <1>3, <1>4, <1>5, <1>6 DEF RunKept, RunInv

-----------------------------------------------------------------------------
(* The state machine.                                                      *)

\* What the state machine lets a status become.
LEMMA LegalEffect ==
    ASSUME NEW c \in Statuses, NEW t \in Statuses, LegalTransition(c, t)
    PROVE  /\ t \in InflightStatuses => c \in InflightStatuses
           /\ c = "success" => t = "success"
           /\ t = "success" => c \in InflightStatuses \cup {"success"}
           /\ c \in {"interrupted", "error"} => t \in {"interrupted", "error"}
  BY DEF LegalTransition, LEGAL_RUN_TRANSITIONS, Statuses, InflightStatuses,
         TERMINAL_RUN_STATUSES

\* A terminal status keeps, or interrupted turns to error, in any number of
\* legal transitions.
LEMMA LegalFinal ==
    ASSUME NEW a \in TERMINAL_RUN_STATUSES, NEW c \in Statuses
    PROVE  /\ LegalTransition(a, c) <=> (c = a \/ (a = "interrupted" /\ c = "error"))
           /\ \A t \in Statuses : LegalTransition(a, c) /\ LegalTransition(c, t)
                                  => LegalTransition(a, t)
  BY DEF LegalTransition, LEGAL_RUN_TRANSITIONS, Statuses, InflightStatuses,
         TERMINAL_RUN_STATUSES

-----------------------------------------------------------------------------
(* Landing a write.                                                        *)

\* The number fields are numbers.
LEMMA Numbers ==
    ASSUME TypeOK, NEW r \in Runs
    PROVE  /\ row[r].rv \in Nat /\ mem[r].rv \in Nat
           /\ ww[r].exp \in Nat /\ cw[r].exp \in Nat
           /\ row[r].st \in Statuses /\ mem[r].st \in Statuses
           /\ ww[r].st \in Statuses
           /\ wpc[r] \in WorkerPCs
  BY DEF TypeOK, Row, Record, Write, Late

\* A write with a version changes the row only by advancing it.
LEMMA LandVersioned ==
    ASSUME NEW rw \in Row, NEW st \in Statuses, NEW exp \in Nat, exp # 0
    PROVE  \/ /\ Land(rw, st, exp) = rw /\ rw.rv # exp
           \/ /\ rw.rv = exp
              /\ Land(rw, st, exp).st = st /\ Land(rw, st, exp).rv = exp + 1
  BY DEF Land, Row

\* An update_status without an expected version leaves row_version alone.
LEMMA LandUnversioned ==
    ASSUME NEW rw \in Row, NEW st \in Statuses
    PROVE  /\ Land(rw, st, 0).st = st
           /\ Land(rw, st, 0).rv = rw.rv
  BY DEF Land, Row

\* The record after a write was answered.
LEMMA MirrorEffect ==
    ASSUME NEW m \in Record, NEW rw \in Row, NEW exp \in Nat
    PROVE  /\ Mirror(m, rw, exp).st = m.st
           /\ \/ Mirror(m, rw, exp).rv = m.rv
              \/ exp # 0 /\ rw.rv = exp /\ Mirror(m, rw, exp).rv = exp + 1
  BY DEF Mirror, Record

\* A write of the task that lands does to the row what it may.
LEMMA LandedSafe ==
    ASSUME TypeOK, NEW r \in Runs, RunInv(r), Present(r), wpc[r] \in Writing,
           row[r].rv = ww[r].exp, row'[r].st = ww[r].st
    PROVE  RunSafe(r)
  <1>1. row[r].st = "success" => row'[r].st = "success"
    BY DEF RunInv, BaseInv
  <1>2. Calm => (is_terminal_run_status(row[r].st) => is_terminal_run_status(row'[r].st))
    BY Numbers DEF RunInv, CalmInv, is_terminal_run_status, Statuses
  <1>3. ASSUME Exact, is_terminal_run_status(row[r].st) PROVE Final(r)
    <2>1. mem[r].rv = row[r].rv /\ ww[r].st = mem[r].st
      BY <1>3, Numbers DEF Exact, RunInv, BaseInv, CalmInv, ExactInv
    <2>2. LegalTransition(row[r].st, mem[r].st)
      BY <1>3, <2>1 DEF RunInv, ExactInv
    <2> QED BY <1>3, <2>1, <2>2, Numbers, LegalFinal DEF Final, is_terminal_run_status
  <1> QED BY <1>1, <1>2, <1>3 DEF RunSafe, Final

\* The landing of a write the task awaits: _persist_status, completion.
LEMMA WorkerWriteKept ==
    ASSUME TypeOK, TypeOK', NEW r \in Runs, RunInv(r), WorkerWrite(r)
    PROVE  RunKept(r)
  <1> DEFINE landed == Land(row[r], ww[r].st, ww[r].exp)
  <1>1. /\ row[r] \in Row /\ mem[r] \in Record /\ Present(r) /\ Exists(r)
        /\ wpc[r] \in Writing /\ ww[r].exp # 0
    BY Numbers DEF WorkerWrite, TypeOK, RunInv, BaseInv, Present, Writing
  <1>2. \/ landed = row[r] /\ row[r].rv # ww[r].exp
        \/ /\ row[r].rv = ww[r].exp
           /\ landed.st = ww[r].st /\ landed.rv = ww[r].exp + 1
    BY <1>1, Numbers, LandVersioned
  <1>3. row'[r] \in {row[r], landed}
    BY DEF WorkerWrite, TypeOK
  <1>4. /\ mem'[r].st = mem[r].st
        /\ \/ mem'[r].rv = mem[r].rv
           \/ /\ row'[r] = landed /\ row[r].rv = ww[r].exp
              /\ mem'[r].rv = ww[r].exp + 1
    <2>1. /\ Mirror(mem[r], row[r], ww[r].exp).st = mem[r].st
          /\ \/ Mirror(mem[r], row[r], ww[r].exp).rv = mem[r].rv
             \/ /\ row[r].rv = ww[r].exp
                /\ Mirror(mem[r], row[r], ww[r].exp).rv = ww[r].exp + 1
      BY <1>1, Numbers, MirrorEffect
    <2> QED BY <2>1 DEF WorkerWrite, TypeOK
  <1>5. /\ wpc'[r] \notin Writing /\ wpc'[r] # "lost" /\ wpc'[r] # "none"
        /\ home'[r] = home[r] /\ cw'[r] = cw[r]
    BY DEF WorkerWrite, TypeOK, Writing
  <1>6. \/ /\ row'[r].st = row[r].st /\ row'[r].rv = row[r].rv
           /\ mem'[r].rv = mem[r].rv
        \/ /\ row'[r].st = ww[r].st /\ row'[r].rv = row[r].rv + 1
           /\ row[r].rv = ww[r].exp
           /\ mem'[r].rv \in {mem[r].rv, row[r].rv + 1}
    BY <1>1, <1>2, <1>3, <1>4
  <1> HIDE DEF landed
  <1>7. RunSafe(r)
    BY <1>1, <1>6, LandedSafe DEF RunSafe, Final
  <1>8. RowMoves(r)
    BY <1>6, Numbers DEF RowMoves
  <1>9. BaseInv(r)'
    BY <1>1, <1>4, <1>5, <1>6, Numbers DEF RunInv, BaseInv, Present, Exists
  <1>10. Calm => CalmInv(r)'
    BY <1>1, <1>4, <1>5, <1>6, Numbers
       DEF RunInv, BaseInv, CalmInv, Present, Exists, is_terminal_run_status,
           InflightStatuses, TERMINAL_RUN_STATUSES
  <1>11. Exact => ExactInv(r)'
    BY <1>1, <1>4, <1>5, <1>6, Numbers
       DEF RunInv, BaseInv, CalmInv, ExactInv, Exact, Present, Exists, LegalTransition
  <1> QED BY <1>7, <1>8, <1>9, <1>10, <1>11 DEF RunKept, RunInv

\* The deferred write of a canceller or of create_or_reject.
LEMMA LateWriteKept ==
    ASSUME TypeOK, TypeOK', NEW r \in Runs, RunInv(r), LateWrite(r)
    PROVE  RunKept(r)
  <1> DEFINE landed == Land(row[r], "interrupted", cw[r].exp)
  <1>1. /\ row[r] \in Row /\ mem[r] \in Record /\ Present(r) /\ Exists(r)
        /\ mem[r].st \in {"interrupted", "error"}
    BY DEF LateWrite, TypeOK, RunInv, BaseInv, Present
  <1>2. \/ landed = row[r] /\ row[r].rv # cw[r].exp
        \/ /\ cw[r].exp # 0 /\ row[r].rv = cw[r].exp
           /\ landed.st = "interrupted" /\ landed.rv = cw[r].exp + 1
        \/ /\ cw[r].exp = 0
           /\ landed.st = "interrupted" /\ landed.rv = row[r].rv
    BY <1>1, Numbers, LandVersioned, LandUnversioned
       DEF Statuses, TERMINAL_RUN_STATUSES
  <1>3. row'[r] \in {row[r], landed}
    BY DEF LateWrite, TypeOK
  <1>4. /\ mem'[r].st = mem[r].st
        /\ \/ mem'[r].rv = mem[r].rv
           \/ /\ row'[r] = landed /\ row[r].rv = cw[r].exp /\ cw[r].exp # 0
              /\ mem'[r].rv = cw[r].exp + 1
    <2>1. /\ Mirror(mem[r], row[r], cw[r].exp).st = mem[r].st
          /\ \/ Mirror(mem[r], row[r], cw[r].exp).rv = mem[r].rv
             \/ /\ row[r].rv = cw[r].exp /\ cw[r].exp # 0
                /\ Mirror(mem[r], row[r], cw[r].exp).rv = cw[r].exp + 1
      BY <1>1, Numbers, MirrorEffect
    <2> QED BY <2>1 DEF LateWrite, TypeOK
  <1>5. /\ wpc'[r] = wpc[r] /\ ww'[r] = ww[r] /\ home'[r] = home[r]
        /\ cw'[r].phase # "write" /\ cw'[r].exp = 0
    BY DEF LateWrite, TypeOK, NoLate
  <1>6. \/ /\ row'[r].st = row[r].st /\ row'[r].rv = row[r].rv
           /\ mem'[r].rv = mem[r].rv
        \/ /\ row'[r].st = "interrupted" /\ row'[r].rv = row[r].rv
           /\ mem'[r].rv = mem[r].rv /\ cw[r].exp = 0
        \/ /\ row'[r].st = "interrupted" /\ row'[r].rv = row[r].rv + 1
           /\ mem'[r].rv \in {mem[r].rv, row[r].rv + 1} /\ cw[r].exp = row[r].rv
    BY <1>1, <1>2, <1>3, <1>4, Numbers
  <1> HIDE DEF landed
  <1>7. Exact => cw[r].exp # 0 /\ (is_terminal_run_status(row[r].st) => cw[r].exp < row[r].rv)
    BY DEF LateWrite, RunInv, ExactInv
  <1>8. RunSafe(r) /\ RowMoves(r)
    BY <1>1, <1>6, <1>7, Numbers
       DEF RunInv, BaseInv, RunSafe, Final, RowMoves, is_terminal_run_status,
           TERMINAL_RUN_STATUSES
  <1>9. BaseInv(r)'
    BY <1>1, <1>4, <1>5, <1>6, Numbers DEF RunInv, BaseInv, Present, Exists
  <1>10. Calm => CalmInv(r)'
    BY <1>1, <1>4, <1>5, <1>6, Numbers
       DEF RunInv, CalmInv, Present, Exists, is_terminal_run_status, InflightStatuses
  <1>11. Exact => ExactInv(r)'
    <2>1. \A st \in {"interrupted", "error"} : LegalTransition("interrupted", st)
      BY DEF LegalTransition, LEGAL_RUN_TRANSITIONS, Statuses, InflightStatuses,
             TERMINAL_RUN_STATUSES
    <2> QED BY <1>1, <1>4, <1>5, <1>6, <1>7, <2>1, Numbers
            DEF RunInv, BaseInv, ExactInv, Present, Exists
  <1> QED BY <1>8, <1>9, <1>10, <1>11 DEF RunKept, RunInv

-----------------------------------------------------------------------------
(* Changing the record and issuing a write.                                *)

\* set_status by the task, with the write it puts in flight.
LEMMA StatusStepKept ==
    ASSUME TypeOK, TypeOK', NEW r \in Runs, RunInv(r), Exists(r),
           NEW t \in Statuses, NEW a, NEW b,
           a # "lost", b # "lost", b \notin Writing, wpc[r] # "lost",
           SetStatus(r, t, a, b), UNCHANGED <<row, cw, home>>
    PROVE  RunKept(r)
  <1>1. CASE LegalTransition(mem[r].st, t)
    <2>1. /\ mem'[r].st = t /\ mem'[r].rv = mem[r].rv
          /\ ww'[r].st = t /\ ww'[r].exp = mem[r].rv
          /\ wpc'[r] # "lost"
      BY <1>1 DEF SetStatus, TypeOK, Record
    <2>2. /\ t \in InflightStatuses => mem[r].st \in InflightStatuses
          /\ mem[r].st = "success" => t = "success"
          /\ mem[r].st \in {"interrupted", "error"}
               => t \in {"interrupted", "error"}
      BY <1>1, LegalEffect, Numbers
    <2>3. BaseInv(r)'
      BY <2>1, <2>2, Numbers DEF RunInv, BaseInv, Present, Exists
    <2>4. Calm => CalmInv(r)'
      BY <2>1, <2>2, Numbers DEF RunInv, CalmInv, Present, Exists
    <2>5. Exact => ExactInv(r)'
      <3>1. is_terminal_run_status(row[r].st) /\ LegalTransition(row[r].st, mem[r].st)
            => LegalTransition(row[r].st, t)
        BY <1>1, Numbers, LegalFinal DEF is_terminal_run_status
      <3> QED BY <2>1, <3>1, Numbers DEF RunInv, ExactInv, Present, Exists
    <2> QED BY <2>3, <2>4, <2>5 DEF RunKept, RunInv, RunSafe, Final, RowMoves
  <1>2. CASE ~LegalTransition(mem[r].st, t)
    <2>1. wpc'[r] = b /\ mem' = mem /\ ww' = ww
      BY <1>2 DEF SetStatus, TypeOK
    <2> QED BY <2>1, Frame
  <1> QED BY <1>1, <1>2

\* The steps of run_agent that call set_status.
LEMMA StatusKept ==
    ASSUME TypeOK, TypeOK', NEW r \in Runs, RunInv(r), NEW s \in Statuses,
           SetRunning(r) \/ StreamEnd(r, s) \/ OnCancelled(r) \/ OnFailed(r)
    PROVE  RunKept(r)
  <1>1. Exists(r) /\ wpc[r] # "lost"
    BY DEF RunInv, BaseInv, SetRunning, StreamEnd, OnCancelled, OnFailed
  <1>2. {"running", "error", AbortStatus(r)} \subseteq Statuses
    BY DEF AbortStatus, Statuses, InflightStatuses, TERMINAL_RUN_STATUSES
  <1>3. "failed" \notin Writing /\ "fin_stop" \notin Writing
    BY DEF Writing
  <1>4. UNCHANGED <<row, cw, home>>
    BY DEF SetRunning, StreamEnd, OnCancelled, OnFailed
  <1>5. CASE SetRunning(r)
    <2>1. SetStatus(r, "running", "running_w", "failed")
      BY <1>5 DEF SetRunning
    <2> QED BY <1>1, <1>2, <1>3, <1>4, <2>1, StatusStepKept
  <1>6. CASE StreamEnd(r, s)
    <2>1. SetStatus(r, s, "final_w", "failed")
      BY <1>6 DEF StreamEnd
    <2> QED BY <1>1, <1>3, <1>4, <2>1, StatusStepKept
  <1>7. CASE OnCancelled(r)
    <2>1. SetStatus(r, AbortStatus(r), "handler_w", "fin_stop")
      BY <1>7 DEF OnCancelled
    <2> QED BY <1>1, <1>2, <1>3, <1>4, <2>1, StatusStepKept
  <1>8. CASE OnFailed(r)
    <2>1. SetStatus(r, "error", "handler_w", "fin_stop")
      BY <1>8 DEF OnFailed
    <2> QED BY <1>1, <1>2, <1>3, <1>4, <2>1, StatusStepKept
  <1> QED BY <1>5, <1>6, <1>7, <1>8

\* The release of the lease and the completion write of finally.
LEMMA FinReleaseKept ==
    ASSUME TypeOK, TypeOK', NEW r \in Runs, RunInv(r), FinRelease(r)
    PROVE  RunKept(r)
  <1>1. /\ wpc'[r] = "fin_complete" /\ wpc[r] = "fin_release"
        /\ ww'[r].st = mem[r].st /\ ww'[r].exp = mem[r].rv
        /\ UNCHANGED <<row, mem, cw, home>>
    BY DEF FinRelease, TypeOK
  <1>2. RunInv(r)'
    BY <1>1, Numbers DEF RunInv, BaseInv, CalmInv, ExactInv, Present, Exists
  <1> QED BY <1>1, <1>2 DEF RunKept, RunSafe, Final, RowMoves

-----------------------------------------------------------------------------
(* Cancelling a task.                                                      *)

\* A task that is cancelled has no write in flight any more; if the write it
\* awaited took effect, the row moved as if the task had seen the answer.
LEMMA StopEffect ==
    ASSUME TypeOK, NEW r \in Runs, RunInv(r),
           NEW Q, NEW land, NEW keep, StopTasks(Q, land, keep)
    PROVE  /\ r \in Q => wpc'[r] \notin Writing
           /\ r \notin Q => wpc'[r] = wpc[r]
           /\ wpc'[r] = "lost" <=> wpc[r] = "lost"
           /\ wpc'[r] \in Writing => wpc'[r] = wpc[r]
           /\ ~Exists(r) => wpc'[r] = "none"
           /\ \/ row'[r] = row[r]
              \/ /\ r \in Q /\ wpc[r] \in Writing /\ ww[r].exp = row[r].rv
                 /\ row'[r].st = ww[r].st /\ row'[r].rv = row[r].rv + 1
  <1>1. \A pc \in WorkerPCs : /\ AfterCancel(pc) \notin Writing
                              /\ AfterCancel(pc) = "lost" <=> pc = "lost"
    BY DEF AfterCancel, WorkerPCs, Writing
  <1>2. wpc'[r] \in {wpc[r], AfterCancel(wpc[r])}
    BY DEF StopTasks, TypeOK
  <1>3. AfterCancel("none") = "none"
    BY DEF AfterCancel
  <1>4. r \in Q => wpc'[r] \notin Writing
    BY <1>1, <1>2, Numbers DEF StopTasks, TypeOK, Writing
  <1>5. \/ row'[r] = row[r]
        \/ /\ r \in Q /\ wpc[r] \in Writing
           /\ row'[r] = Land(row[r], ww[r].st, ww[r].exp)
    BY DEF StopTasks, TypeOK
  <1>6. wpc[r] \in Writing => ww[r].exp # 0
    BY Numbers DEF RunInv, BaseInv
  <1>7. row[r] \in Row
    BY DEF TypeOK
  <1>8. wpc[r] \in Writing =>
            \/ Land(row[r], ww[r].st, ww[r].exp) = row[r]
            \/ /\ ww[r].exp = row[r].rv
               /\ Land(row[r], ww[r].st, ww[r].exp).st = ww[r].st
               /\ Land(row[r], ww[r].st, ww[r].exp).rv = row[r].rv + 1
    BY <1>6, <1>7, Numbers, LandVersioned
  <1>9. r \notin Q => wpc'[r] = wpc[r]
    BY DEF StopTasks, TypeOK
  <1> QED BY <1>1, <1>2, <1>3, <1>4, <1>5, <1>8, <1>9, Numbers DEF RunInv, BaseInv

\* An active run that is interrupted, by a cancel or by another create.
LEMMA InterruptKept ==
    ASSUME TypeOK, TypeOK', NEW r \in Runs, RunInv(r), Present(r),
           mem[r].st \in InflightStatuses,
           NEW Q, NEW land, NEW keep, StopTasks(Q, land, keep), r \in Q,
           mem'[r].st = "interrupted", mem'[r].rv = mem[r].rv,
           cw'[r].phase = "write", cw'[r].exp \in {0, mem[r].rv},
           Exact => cw'[r].exp = mem[r].rv,
           home'[r] = home[r], ww'[r] = ww[r]
    PROVE  RunKept(r)
  <1>1. /\ wpc'[r] \notin Writing /\ wpc'[r] # "lost"
        /\ \/ row'[r] = row[r]
           \/ /\ wpc[r] \in Writing /\ ww[r].exp = row[r].rv
              /\ row'[r].st = ww[r].st /\ row'[r].rv = row[r].rv + 1
    BY StopEffect DEF Present
  <1>2. row[r].st # "success" /\ row'[r].st # "success"
    BY <1>1 DEF RunInv, BaseInv, InflightStatuses
  <1>3. Calm /\ is_terminal_run_status(row[r].st) => row'[r] = row[r] /\ mem[r].rv < row[r].rv
    BY <1>1, Numbers DEF RunInv, CalmInv
  <1>4. Calm => row'[r] = row[r] \/ ~is_terminal_run_status(row'[r].st)
    BY <1>1 DEF RunInv, CalmInv, is_terminal_run_status, InflightStatuses, TERMINAL_RUN_STATUSES
  <1>5. RunSafe(r) /\ RowMoves(r)
    BY <1>1, <1>2, <1>3, Numbers DEF Exact, RunSafe, Final, RowMoves
  <1>6. BaseInv(r)'
    BY <1>1, <1>2, Numbers DEF RunInv, BaseInv, Present, Exists
  <1>7. Calm => CalmInv(r)'
    BY <1>1 DEF CalmInv, InflightStatuses
  <1>8. Exact => ExactInv(r)'
    BY <1>1, <1>3, <1>4, Numbers DEF RunInv, BaseInv, ExactInv, Exact, Present, Exists
  <1> QED BY <1>5, <1>6, <1>7, <1>8 DEF RunKept, RunInv

\* create_or_reject, for the new run and for the runs it displaces.
LEMMA CreateKept ==
    ASSUME TypeOK, TypeOK', NEW p \in Replicas, NEW r \in Runs, NEW s,
           Create(p, r, s), NEW q \in Runs, RunInv(q)
    PROVE  RunKept(q)
  <1> DEFINE active == ActiveAt(p)
  <1>1. PICK land \in SUBSET active, keep \in SUBSET active :
            StopTasks(active, land, keep)
    BY DEF Create
  <1>2. /\ ww' = ww
        /\ home' = [home EXCEPT ![r] = p]
        /\ ~Exists(r)
        /\ q \notin active => mem'[q] = mem[q] /\ cw'[q] = cw[q]
        /\ q \in active => /\ mem'[q] = Abort(mem[q], "interrupted", s)
                           /\ cw'[q] = [phase |-> "write", exp |-> 0]
    BY DEF Create, TypeOK
  <1>3. CASE q \in active
    <2>1. /\ Present(q) /\ mem[q].st \in InflightStatuses /\ q # r
      BY <1>2, <1>3 DEF ActiveAt, Present
    <2>2. /\ mem'[q].st = "interrupted" /\ mem'[q].rv = mem[q].rv
          /\ cw'[q].phase = "write" /\ cw'[q].exp = 0
          /\ home'[q] = home[q] /\ ww'[q] = ww[q]
      BY <1>2, <1>3, <2>1 DEF Abort, TypeOK
    <2>3. ~Exact
      BY <1>3 DEF Create, Exact
    <2> QED BY <1>1, <1>3, <2>1, <2>2, <2>3, InterruptKept
  <1>4. CASE q \notin active
    <2>1. /\ wpc'[q] = wpc[q]
          /\ row'[q] = row[q]
      BY <1>1, <1>4, StopEffect
    <2>2. CASE q # r
      <3>1. home'[q] = home[q]
        BY <1>2, <2>2 DEF TypeOK
      <3> QED BY <1>2, <1>4, <2>1, <3>1, Frame DEF RunInv, BaseInv
    <2>3. CASE q = r
      <3>1. /\ row[q].st = "pending" /\ wpc[q] = "none" /\ cw[q].phase = "none"
        BY <1>2, <2>3 DEF RunInv, BaseInv
      <3>2. home'[q] = p /\ p # NoReplica
        BY <1>2, <2>3, LifecycleAssumption DEF TypeOK
      <3>3. RunInv(q)'
        BY <1>2, <1>4, <2>1, <3>1, <3>2, Numbers
           DEF RunInv, BaseInv, CalmInv, ExactInv, Present, Exists, Writing,
               is_terminal_run_status, TERMINAL_RUN_STATUSES
      <3> QED BY <2>1, <3>3 DEF RunKept, RunSafe, Final, RowMoves
    <2> QED BY <2>2, <2>3
  <1> QED BY <1>3, <1>4

\* cancel of a run of this process and of another one.
LEMMA CancelKept ==
    ASSUME TypeOK, TypeOK', NEW p \in Replicas, NEW r \in Runs,
           NEW action \in AbortActions,
           CancelLocal(p, r, action) \/ CancelElsewhere(p, r, action),
           NEW q \in Runs, RunInv(q)
    PROVE  RunKept(q)
  <1>1. CASE CancelLocal(p, r, action)
    <2>1. PICK land \in SUBSET {r}, keep \in SUBSET {r} :
              StopTasks({r}, land, keep)
      BY <1>1 DEF CancelLocal
    <2>2. /\ ww' = ww /\ home' = home
          /\ mem' = [mem EXCEPT ![r] = Abort(mem[r], "interrupted", action)]
          /\ cw' = [cw EXCEPT ![r] = [phase |-> "write", exp |-> mem[r].rv]]
          /\ Present(r) /\ mem[r].st \in InflightStatuses
      BY <1>1 DEF CancelLocal, CancelVersion, ActiveAt
    <2>3. CASE q = r
      <3>1. /\ mem'[q].st = "interrupted" /\ mem'[q].rv = mem[q].rv
            /\ cw'[q].phase = "write" /\ cw'[q].exp = mem[q].rv
        BY <2>2, <2>3 DEF Abort, TypeOK
      <3> QED BY <2>1, <2>2, <2>3, <3>1, InterruptKept
    <2>4. CASE q # r
      <3>1. wpc'[q] = wpc[q] /\ row'[q] = row[q]
        BY <2>1, <2>4, StopEffect
      <3>2. mem'[q] = mem[q] /\ cw'[q] = cw[q]
        BY <2>2, <2>4 DEF TypeOK
      <3> QED BY <2>2, <3>1, <3>2, Frame DEF RunInv, BaseInv
    <2> QED BY <2>3, <2>4
  <1>2. CASE CancelElsewhere(p, r, action)
    <2>1. row'[q].st = row[q].st /\ row'[q].rv = row[q].rv
      BY <1>2 DEF CancelElsewhere, RequestCancel, TypeOK, Row
    <2> QED BY <1>2, <2>1, Frame DEF CancelElsewhere, RunInv, BaseInv
  <1> QED BY <1>1, <1>2

\* The heartbeat that finds an intent aborts its own task only.
LEMMA HbPollKept ==
    ASSUME TypeOK, TypeOK', NEW r \in Runs, RunInv(r), HbPoll(r)
    PROVE  RunKept(r)
  <1>1. UNCHANGED <<home, ww, cw>>
    BY DEF HbPoll
  <1>2. CASE UNCHANGED <<row, mem, lease, wpc, esc, ended>>
    BY <1>1, <1>2, Frame DEF RunInv, BaseInv
  <1>3. CASE /\ \E land \in SUBSET {r}, keep \in SUBSET {r} :
                   StopTasks({r}, land, keep)
             /\ mem' = [mem EXCEPT ![r] = Abort(mem[r], mem[r].st,
                                               row[r].intent)]
    <2>1. mem'[r].st = mem[r].st /\ mem'[r].rv = mem[r].rv
      BY <1>3 DEF Abort, TypeOK
    <2>2. /\ wpc'[r] \notin Writing
          /\ wpc'[r] = "lost" <=> wpc[r] = "lost"
          /\ ~Exists(r) => wpc'[r] = "none"
          /\ \/ row'[r] = row[r]
             \/ /\ wpc[r] \in Writing /\ ww[r].exp = row[r].rv
                /\ row'[r].st = ww[r].st /\ row'[r].rv = row[r].rv + 1
      BY <1>3, StopEffect
    <2>3. wpc[r] \in Writing => Present(r)
      BY DEF RunInv, BaseInv, Present, Writing
    <2>4. RunSafe(r)
      BY <2>2, <2>3, LandedSafe DEF RunSafe, Final
    <2>5. RowMoves(r)
      BY <2>2, Numbers DEF RowMoves
    <2>6. BaseInv(r)'
      BY <1>1, <2>1, <2>2, <2>3, Numbers DEF RunInv, BaseInv, Present, Exists
    <2>7. Calm => CalmInv(r)'
      BY <1>1, <2>1, <2>2, <2>3, Numbers DEF RunInv, BaseInv, CalmInv, Present, Exists
    <2>8. Exact => ExactInv(r)'
      BY <1>1, <2>1, <2>2, <2>3, Numbers DEF RunInv, BaseInv, ExactInv, Present, Exists
    <2> QED BY <2>4, <2>5, <2>6, <2>7, <2>8 DEF RunKept, RunInv
  <1> QED BY <1>2, <1>3 DEF HbPoll

-----------------------------------------------------------------------------
(* All steps.                                                              *)

\* The steps of one run leave the others alone.
LEMMA OthersKept ==
    ASSUME TypeOK, TypeOK', NEW r \in Runs, RunStep(r),
           NEW q \in Runs, q # r, RunInv(q)
    PROVE  RunKept(q)
  <1>1. CASE HbPoll(r)
    <2>1. UNCHANGED <<home, ww, cw>>
      BY <1>1 DEF HbPoll
    <2>2. mem'[q] = mem[q]
      BY <1>1 DEF HbPoll, TypeOK
    <2>3. wpc'[q] = wpc[q] /\ row'[q] = row[q]
      <3>1. CASE UNCHANGED <<row, wpc>>
        BY <3>1
      <3>2. ASSUME NEW land \in SUBSET {r}, NEW keep \in SUBSET {r},
                   StopTasks({r}, land, keep)
            PROVE  wpc'[q] = wpc[q] /\ row'[q] = row[q]
        BY <3>2, StopEffect
      <3> QED BY <1>1, <3>1, <3>2 DEF HbPoll
    <2> QED BY <2>1, <2>2, <2>3, Frame DEF RunInv, BaseInv
  <1>2. CASE LateWrite(r) \/ LateSignal(r) \/ HbRenew(r) \/ LeaseExpire(r)
    <2>1. /\ row'[q] = row[q] /\ mem'[q] = mem[q] /\ wpc'[q] = wpc[q]
          /\ ww'[q] = ww[q] /\ cw'[q] = cw[q] /\ home'[q] = home[q]
      BY <1>2 DEF LateWrite, LateSignal, HbRenew, LeaseExpire, TypeOK
    <2> QED BY <2>1, Frame DEF RunInv, BaseInv
  <1>3. CASE WorkerStep(r) \/ StreamFail(r)
    <2>1. /\ row'[q] = row[q] /\ mem'[q] = mem[q] /\ wpc'[q] = wpc[q]
          /\ ww'[q] = ww[q] /\ cw'[q] = cw[q] /\ home'[q] = home[q]
      <3>1. CASE Dispatch(r) \/ Start(r) \/ Claim(r) \/ StreamFail(r)
        BY <3>1 DEF Dispatch, Start, Claim, StreamFail, TypeOK
      <3>2. CASE SetRunning(r) \/ OnCancelled(r) \/ OnFailed(r)
        BY <3>2 DEF SetRunning, OnCancelled, OnFailed, SetStatus, TypeOK
      <3>3. ASSUME NEW s \in Statuses, StreamEnd(r, s)
            PROVE  /\ row'[q] = row[q] /\ mem'[q] = mem[q] /\ wpc'[q] = wpc[q]
                   /\ ww'[q] = ww[q] /\ cw'[q] = cw[q] /\ home'[q] = home[q]
        BY <3>3 DEF StreamEnd, SetStatus, TypeOK
      <3>4. CASE WorkerWrite(r)
        BY <3>4 DEF WorkerWrite, TypeOK
      <3>5. CASE FinStop(r) \/ FinRelease(r) \/ FinEnd(r)
        BY <3>5 DEF FinStop, FinRelease, FinEnd, TypeOK
      <3> QED BY <1>3, <3>1, <3>2, <3>3, <3>4, <3>5 DEF WorkerStep
    <2> QED BY <2>1, Frame DEF RunInv, BaseInv
  <1> QED BY <1>1, <1>2, <1>3 DEF RunStep

\* Every step of one run keeps the invariant of every run.
LEMMA RunStepKept ==
    ASSUME TypeOK, TypeOK', NEW r \in Runs, RunStep(r),
           NEW q \in Runs, RunInv(q)
    PROVE  RunKept(q)
  <1>1. CASE q # r
    BY <1>1, OthersKept
  <1>2. CASE q = r
    <2>1. CASE Dispatch(r) \/ Start(r) \/ Claim(r) \/ StreamFail(r)
      <3>1. /\ UNCHANGED <<home, row, mem, ww, cw>>
            /\ Exists(r) /\ wpc[r] # "lost"
            /\ wpc'[r] # "lost" /\ wpc'[r] \notin Writing
        BY <1>2, <2>1
           DEF Dispatch, Start, Claim, StreamFail, TypeOK, Writing, RunInv, BaseInv
      <3> QED BY <1>2, <3>1, Frame
    <2>2. CASE FinStop(r) \/ FinEnd(r)
      <3>1. /\ UNCHANGED <<home, row, mem, ww, cw>>
            /\ Exists(r) /\ wpc[r] # "lost"
            /\ wpc'[r] # "lost" /\ wpc'[r] \notin Writing
        BY <1>2, <2>2 DEF FinStop, FinEnd, TypeOK, Writing, RunInv, BaseInv
      <3> QED BY <1>2, <3>1, Frame
    <2>3. CASE HbRenew(r) \/ LeaseExpire(r)
      <3>1. UNCHANGED <<home, row, mem, wpc, ww, cw>>
        BY <2>3 DEF HbRenew, LeaseExpire
      <3> QED BY <1>2, <3>1, Frame DEF RunInv, BaseInv
    <2>4. CASE LateSignal(r)
      <3>1. row'[r].st = row[r].st /\ row'[r].rv = row[r].rv
        BY <2>4 DEF LateSignal, RequestCancel, TypeOK, Row
      <3>2. cw'[r].phase = "none" /\ cw'[r].exp = 0
        BY <2>4 DEF LateSignal, NoLate, TypeOK
      <3> QED BY <1>2, <2>4, <3>1, <3>2, Frame DEF LateSignal
    <2>5. CASE LateWrite(r)
      BY <1>2, <2>5, LateWriteKept
    <2>6. CASE WorkerWrite(r)
      BY <1>2, <2>6, WorkerWriteKept
    <2>7. CASE FinRelease(r)
      BY <1>2, <2>7, FinReleaseKept
    <2>8. CASE HbPoll(r)
      BY <1>2, <2>8, HbPollKept
    <2>9. ASSUME NEW s \in Statuses,
                 SetRunning(r) \/ StreamEnd(r, s) \/ OnCancelled(r) \/ OnFailed(r)
          PROVE  RunKept(q)
      BY <1>2, <2>9, StatusKept
    <2>10. "running" \in Statuses
      BY DEF Statuses, InflightStatuses
    <2> QED BY <2>1, <2>2, <2>3, <2>4, <2>5, <2>6, <2>7, <2>8, <2>9, <2>10
            DEF RunStep, WorkerStep
  <1> QED BY <1>1, <1>2

\* A run that its process's shutdown aborts and cancels.
LEMMA DrainBeginKept ==
    ASSUME TypeOK, TypeOK', NEW p \in Replicas, DrainBegin(p),
           NEW q \in Runs, RunInv(q)
    PROVE  RunKept(q)
  <1> DEFINE D == {r \in ActiveAt(p) : wpc[r] \notin TaskOver}
  <1>1. PICK land \in SUBSET D, keep \in SUBSET D : StopTasks(D, land, keep)
    BY DEF DrainBegin
  <1>2. /\ UNCHANGED <<home, ww, cw>> /\ ~Calm /\ ~Exact
        /\ q \in D => mem'[q] = Abort(mem[q], mem[q].st, "interrupt")
        /\ q \notin D => mem'[q] = mem[q]
    BY DEF DrainBegin, Fault, Calm, Exact
  <1>3. mem'[q].st = mem[q].st /\ mem'[q].rv = mem[q].rv
    BY <1>2 DEF Abort
  <1>4. CASE q \in D
    <2>1. Present(q) /\ mem[q].st \in InflightStatuses
      BY <1>4 DEF ActiveAt
    <2>2. /\ wpc'[q] \notin Writing /\ wpc'[q] # "lost"
          /\ \/ row'[q] = row[q]
             \/ /\ wpc[q] \in Writing /\ ww[q].exp = row[q].rv
                /\ row'[q].st = ww[q].st /\ row'[q].rv = row[q].rv + 1
      BY <1>1, <1>4, <2>1, StopEffect DEF Present
    <2>3. row[q].st # "success" /\ row'[q].st # "success"
      BY <2>1, <2>2 DEF RunInv, BaseInv, InflightStatuses
    <2>4. RunSafe(q) /\ RowMoves(q)
      BY <1>2, <2>2, <2>3, Numbers DEF RunSafe, RowMoves
    <2>5. BaseInv(q)'
      BY <1>2, <1>3, <2>1, <2>2, <2>3, Numbers
         DEF RunInv, BaseInv, Present, Exists, InflightStatuses
    <2> QED BY <1>2, <2>4, <2>5 DEF RunKept, RunInv
  <1>5. CASE q \notin D
    <2>1. row'[q] = row[q] /\ wpc'[q] = wpc[q]
      BY <1>1, <1>5, StopEffect
    <2> QED BY <1>2, <1>3, <2>1, Frame DEF RunInv, BaseInv
  <1> QED BY <1>4, <1>5

\* A run that its process's shutdown settles.
LEMMA DrainSettleKept ==
    ASSUME TypeOK, TypeOK', Calm => NoShutdown, NEW p \in Replicas,
           DrainSettle(p), DrainInv(p), NEW q \in Runs, RunInv(q)
    PROVE  RunKept(q)
  <1>1. /\ UNCHANGED <<home, row, wpc, ww>> /\ ~Calm /\ ~Exact
    BY DEF DrainSettle, NoShutdown, Exact
  <1>2. CASE q \in Unsettled(p)
    <2>1. /\ Present(q) /\ mem[q].st \notin {"success", "timeout"}
      BY <1>2 DEF Unsettled, DrainInv, Aborted
    <2>2. /\ mem'[q] = IF mem[q].st \in InflightStatuses
                       THEN [mem[q] EXCEPT !.st = "interrupted"] ELSE mem[q]
          /\ cw'[q] = [phase |-> "write", exp |-> 0]
      BY <1>2 DEF DrainSettle
    <2>3. /\ mem'[q].st \in {"interrupted", "error"} /\ mem'[q].rv = mem[q].rv
      BY <2>1, <2>2, Numbers
         DEF TypeOK, Record, Statuses, InflightStatuses, TERMINAL_RUN_STATUSES
    <2>4. row[q].st # "success"
      BY <2>1 DEF RunInv, BaseInv
    <2>5. BaseInv(q)'
      BY <1>1, <2>1, <2>2, <2>3, <2>4, Numbers DEF RunInv, BaseInv, Present, Exists
    <2> QED BY <1>1, <2>5 DEF RunKept, RunInv, RunSafe, RowMoves
  <1>3. CASE q \notin Unsettled(p)
    <2>1. mem'[q] = mem[q] /\ cw'[q] = cw[q]
      BY <1>3 DEF DrainSettle
    <2> QED BY <1>1, <2>1, Frame DEF RunInv, BaseInv
  <1> QED BY <1>2, <1>3

\* The process of a run is gone, or that of another run.
LEMMA GoDownKept ==
    ASSUME TypeOK, TypeOK', NEW p \in Replicas, GoDown(p),
           NEW q \in Runs, RunInv(q)
    PROVE  RunKept(q)
  <1>1. UNCHANGED <<home, row>>
    BY DEF GoDown
  <1>2. CASE home[q] = p
    <2>1. /\ mem'[q] = NewRecord /\ wpc'[q] = "lost" /\ cw'[q] = NoLate
      BY <1>2 DEF GoDown
    <2>2. Exists(q)
      BY <1>2, LifecycleAssumption DEF Exists
    <2>3. row[q].rv >= 1
      BY Numbers DEF RunInv, BaseInv
    <2>4. BaseInv(q)'
      BY <1>1, <2>1, <2>2, <2>3, Numbers
         DEF BaseInv, Present, Exists, Writing, NewRecord, NoLate
    <2>5. CalmInv(q)' /\ ExactInv(q)'
      BY <2>1 DEF CalmInv, ExactInv, Present, Writing, NoLate
    <2> QED BY <1>1, <2>4, <2>5 DEF RunKept, RunInv, RunSafe, RowMoves, Final
  <1>3. CASE home[q] # p
    <2>1. /\ mem'[q] = mem[q] /\ wpc'[q] = wpc[q] /\ cw'[q] = cw[q]
          /\ ww'[q] = ww[q]
      BY <1>3 DEF GoDown
    <2> QED BY <1>1, <2>1, Frame DEF RunInv, BaseInv
  <1> QED BY <1>2, <1>3

\* The write of a sweep: the row it ends was in flight, or interrupted by an
\* unversioned write since the sweep listed it.
LEMMA RecWriteKept ==
    ASSUME TypeOK, TypeOK', NEW p \in Replicas, RecWrite(p), CursorInv(p),
           NEW q \in Runs, RunInv(q), SweepInv(p, q)
    PROVE  /\ RunKept(q)
           /\ Exact /\ row'[q] # row[q] => row[q].st \in InflightStatuses
           /\ row'[q] # row[q] => q = rec[p].cur
  <1> DEFINE r == rec[p].cur
  <1>1. rec[p].phase = "write"
    BY DEF RecWrite
  <1>2. r \in Runs /\ rec[p].ver \in [Runs -> Nat]
    BY <1>1 DEF TypeOK, Sweep
  <1>3. UNCHANGED <<home, mem, wpc, ww, cw>>
    BY DEF RecWrite
  <1>4. CASE row'[q] = row[q]
    BY <1>3, <1>4, Frame DEF RunInv, BaseInv
  <1>5. CASE row'[q] # row[q]
    <2>1. /\ q = r
          /\ row'[q] = Land(row[q], "error", rec[p].ver[q])
      BY <1>2, <1>5 DEF RecWrite, SweepVersion, TypeOK
    <2>2. rec[p].ver[q] # 0
      BY <1>1, <2>1 DEF CursorInv
    <2>3. /\ row[q] \in Row /\ rec[p].ver[q] \in Nat /\ "error" \in Statuses
      BY <1>2 DEF TypeOK, Statuses, TERMINAL_RUN_STATUSES
    <2>4. /\ row[q].rv = rec[p].ver[q]
          /\ row'[q].st = "error" /\ row'[q].rv = row[q].rv + 1
      BY <1>5, <2>1, <2>2, <2>3, LandVersioned
    <2>5. /\ Exists(q) /\ row[q].st # "success"
          /\ Exact => ~is_terminal_run_status(row[q].st)
      BY <2>2, <2>4 DEF SweepInv, is_terminal_run_status, TERMINAL_RUN_STATUSES
    <2>6. RunSafe(q) /\ RowMoves(q)
      BY <2>4, <2>5, Numbers
         DEF RunSafe, RowMoves, Final, is_terminal_run_status, TERMINAL_RUN_STATUSES
    <2>7. BaseInv(q)'
      BY <1>3, <2>4, <2>5, Numbers DEF RunInv, BaseInv, Present, Exists
    <2>8. Calm => CalmInv(q)'
      BY <1>3, <2>4, Numbers DEF RunInv, BaseInv, CalmInv, Present, Exists
    <2>9. Exact => ExactInv(q)'
      BY <1>3, <2>4, Numbers DEF RunInv, BaseInv, ExactInv, Present, Exists
    <2>10. Exact => row[q].st \in InflightStatuses
      BY <2>5, Numbers DEF is_terminal_run_status, Statuses
    <2> QED BY <2>1, <2>6, <2>7, <2>8, <2>9, <2>10 DEF RunKept, RunInv
  <1> QED BY <1>4, <1>5

\* Every step of one replica keeps the invariant of every run.
LEMMA ReplicaStepKept ==
    ASSUME TypeOK, TypeOK', Calm => NoShutdown,
           NEW p \in Replicas, ReplicaStep(p), CursorInv(p), DrainInv(p),
           NEW q \in Runs, RunInv(q), SweepInv(p, q)
    PROVE  RunKept(q)
  <1>1. CASE RecList(p) \/ RecLocal(p) \/ (\E r \in Runs : RecLease(p, r))
             \/ Restart(p)
    <2>1. UNCHANGED <<home, row, mem, wpc, ww, cw>>
      BY <1>1 DEF RecList, RecLocal, RecLease, Restart
    <2> QED BY <2>1, Frame DEF RunInv, BaseInv
  <1> QED BY <1>1, RecWriteKept, GoDownKept, DrainBeginKept, DrainSettleKept
          DEF ReplicaStep, SweepStep

-----------------------------------------------------------------------------
(* Aborted runs.                                                           *)

\* Cancelling tasks brings no process back.
LEMMA StopKeepsLost ==
    ASSUME TypeOK, NEW r \in Runs, NEW Q, NEW land, NEW keep,
           StopTasks(Q, land, keep)
    PROVE  wpc'[r] = "lost" <=> wpc[r] = "lost"
  BY DEF StopTasks, AfterCancel, TypeOK, WorkerPCs


\* What every step but the end of its process does to an aborted run.
StaysAborted(r) == home'[r] = home[r] /\ Present(r)' /\ Aborted(r)'

\* set_status on an aborted run, never to success or timeout.
LEMMA SetStatusAborted ==
    ASSUME TypeOK, NEW r \in Runs, NEW t, NEW a, NEW b, t \notin {"success", "timeout"},
           a # "lost", b # "lost", SetStatus(r, t, a, b), home' = home,
           NEW q \in Runs, Present(q), Aborted(q)
    PROVE  StaysAborted(q)
  <1>1. wpc'[q] # "lost"
    BY DEF SetStatus, Present, TypeOK
  <1>2. mem[r] \in Record
    BY DEF TypeOK
  <1>3. [mem[r] EXCEPT !.st = t].st = t /\ [mem[r] EXCEPT !.st = t].abort = mem[r].abort
    BY <1>2 DEF Record
  <1>4. mem'[q] = mem[q] \/ (q = r /\ mem'[q] = [mem[r] EXCEPT !.st = t])
    BY DEF SetStatus, TypeOK
  <1>5. Aborted(q)'
    BY <1>3, <1>4 DEF Aborted
  <1> QED BY <1>1, <1>5 DEF StaysAborted, Present, Exists

\* The answer to a status write changes only the version of a record.
LEMMA MirroredSame ==
    ASSUME TypeOK, NEW r \in Runs, WorkerWrite(r) \/ LateWrite(r), NEW q \in Runs
    PROVE  mem'[q].st = mem[q].st /\ mem'[q].abort = mem[q].abort
  <1>1. mem[r] \in Record
    BY DEF TypeOK
  <1>2. ASSUME NEW e
        PROVE  /\ Mirror(mem[r], row[r], e).st = mem[r].st
               /\ Mirror(mem[r], row[r], e).abort = mem[r].abort
    BY <1>1 DEF Mirror, Record
  <1>3. \/ mem'[q] = mem[q]
        \/ q = r /\ \E e : mem'[q] = Mirror(mem[r], row[r], e)
    BY DEF WorkerWrite, LateWrite, TypeOK
  <1> QED BY <1>2, <1>3

\* Tasks, heartbeats and deferred writes leave an aborted run aborted.
LEMMA RunStepAborted ==
    ASSUME TypeOK, NEW r \in Runs, RunStep(r),
           NEW q \in Runs, Present(q), Aborted(q)
    PROVE  StaysAborted(q)
  <1>1. home' = home
    BY DEF RunStep, WorkerStep, Dispatch, Start, Claim, SetRunning,
           WorkerWrite, StreamEnd, StreamFail, OnCancelled, OnFailed,
           FinStop, FinRelease, FinEnd, LateWrite, LateSignal, HbRenew,
           HbPoll, LeaseExpire
  <1>2. CASE Dispatch(r) \/ Start(r) \/ Claim(r) \/ StreamFail(r)
             \/ FinStop(r) \/ FinRelease(r) \/ FinEnd(r)
             \/ LateSignal(r) \/ HbRenew(r) \/ LeaseExpire(r)
    <2>1. mem' = mem
      BY <1>2 DEF Dispatch, Start, Claim, StreamFail, FinStop, FinRelease,
                  FinEnd, LateSignal, HbRenew, LeaseExpire
    <2>2. wpc'[q] # "lost"
      BY <1>2 DEF Dispatch, Start, Claim, StreamFail, FinStop, FinRelease,
                  FinEnd, LateSignal, HbRenew, LeaseExpire, TypeOK, Present
    <2> QED BY <1>1, <2>1, <2>2 DEF StaysAborted, Present, Exists, Aborted
  <1>3. CASE SetRunning(r) \/ OnCancelled(r) \/ OnFailed(r)
    BY <1>1, <1>3, SetStatusAborted
       DEF SetRunning, OnCancelled, OnFailed, AbortStatus
  <1>4. ASSUME NEW s \in Statuses, StreamEnd(r, s)
        PROVE  StaysAborted(q)
    <2>1. CASE q = r
      <3>1. s = AbortStatus(r)
        BY <1>4, <2>1 DEF StreamEnd, Aborted
      <3>2. s \notin {"success", "timeout"}
        BY <3>1 DEF AbortStatus
      <3> QED BY <1>1, <1>4, <3>2, SetStatusAborted DEF StreamEnd
    <2>2. CASE q # r
      <3>1. mem'[q] = mem[q] /\ wpc'[q] = wpc[q]
        BY <1>4, <2>2 DEF StreamEnd, SetStatus, TypeOK
      <3> QED BY <1>1, <3>1 DEF StaysAborted, Present, Exists, Aborted
    <2> QED BY <2>1, <2>2
  <1>5. CASE WorkerWrite(r) \/ LateWrite(r)
    <2>1. mem'[q].st = mem[q].st /\ mem'[q].abort = mem[q].abort
      BY <1>5, MirroredSame
    <2>2. wpc'[q] # "lost"
      BY <1>5 DEF WorkerWrite, LateWrite, TypeOK, Present
    <2> QED BY <1>1, <2>1, <2>2 DEF StaysAborted, Present, Exists, Aborted
  <1>6. CASE HbPoll(r)
    <2>1. mem'[q].st = mem[q].st /\ mem'[q].abort
      BY <1>6 DEF HbPoll, Abort, TypeOK, Aborted
    <2>2. wpc'[q] # "lost"
      BY <1>6, StopKeepsLost DEF HbPoll, Present
    <2> QED BY <1>1, <2>1, <2>2 DEF StaysAborted, Present, Exists, Aborted
  <1> QED BY <1>2, <1>3, <1>4, <1>5, <1>6 DEF RunStep, WorkerStep

\* So do creates and cancels.
LEMMA RequestAborted ==
    ASSUME TypeOK, NEW p \in Replicas, NEW r \in Runs, Request(p, r),
           NEW q \in Runs, Present(q), Aborted(q)
    PROVE  StaysAborted(q)
  <1>1. ASSUME NEW s \in AllStrategies, Create(p, r, s)
        PROVE  StaysAborted(q)
    <2>1. home'[q] = home[q]
      BY <1>1 DEF Create, Present, TypeOK
    <2>2. wpc'[q] # "lost"
      BY <1>1, StopKeepsLost DEF Create, Present
    <2>3. Aborted(q)'
      BY <1>1 DEF Create, Abort, Aborted, TypeOK
    <2> QED BY <2>1, <2>2, <2>3 DEF StaysAborted, Present, Exists
  <1>2. ASSUME NEW act, CancelLocal(p, r, act)
        PROVE  StaysAborted(q)
    <2>1. home' = home /\ wpc'[q] # "lost"
      BY <1>2, StopKeepsLost DEF CancelLocal, Present
    <2>2. Aborted(q)'
      BY <1>2 DEF CancelLocal, Abort, Aborted, TypeOK
    <2> QED BY <2>1, <2>2 DEF StaysAborted, Present, Exists
  <1>3. ASSUME NEW act, CancelElsewhere(p, r, act)
        PROVE  StaysAborted(q)
    BY <1>3 DEF CancelElsewhere, StaysAborted, Present, Exists, Aborted
  <1> QED BY <1>1, <1>2, <1>3 DEF Request, Cancel, Disconnect

\* So do the steps of a replica, but for the end of the run's own process.
LEMMA ReplicaStepAborted ==
    ASSUME TypeOK, NEW p \in Replicas, ReplicaStep(p),
           NEW q \in Runs, Present(q), Aborted(q), GoDown(p) => home[q] # p
    PROVE  StaysAborted(q)
  <1>1. CASE SweepStep(p) \/ Restart(p)
    BY <1>1 DEF SweepStep, RecList, RecLease, RecLocal, RecWrite, Restart,
                StaysAborted, Present, Exists, Aborted
  <1>2. CASE DrainBegin(p)
    <2>1. home' = home /\ wpc'[q] # "lost"
      BY <1>2, StopKeepsLost DEF DrainBegin, Present
    <2>2. Aborted(q)'
      BY <1>2 DEF DrainBegin, Abort, Aborted
    <2> QED BY <2>1, <2>2 DEF StaysAborted, Present, Exists
  <1>3. CASE DrainSettle(p)
    <2>1. mem'[q].abort /\ mem'[q].st \notin {"success", "timeout"}
      BY <1>3 DEF DrainSettle, Aborted, TypeOK, Record
    <2> QED BY <1>3, <2>1 DEF DrainSettle, StaysAborted, Present, Exists, Aborted
  <1>4. CASE GoDown(p)
    BY <1>4 DEF GoDown, StaysAborted, Present, Exists, Aborted
  <1> QED BY <1>1, <1>2, <1>3, <1>4 DEF ReplicaStep

\* The runs a shutdown cancelled stay in memory, aborted, until it is over.
LEMMA DrainKept ==
    ASSUME TypeOK, TypeOK', Next, NEW o \in Replicas, DrainInv(o)
    PROVE  DrainInv(o)'
  <1>1. ASSUME NEW q \in drained[o]
        PROVE  q \in Runs /\ Present(q) /\ Aborted(q) /\ home[q] = o
    BY <1>1 DEF TypeOK, DrainInv
  <1>2. CASE drained'[o] = drained[o] /\ \A q \in drained[o] : StaysAborted(q)
    BY <1>1, <1>2 DEF DrainInv, StaysAborted
  <1>3. ASSUME NEW p \in Replicas, NEW r \in Runs, Request(p, r)
        PROVE  DrainInv(o)'
    <2>1. drained' = drained
      BY <1>3 DEF Request, Create, Cancel, Disconnect, CancelLocal, CancelElsewhere
    <2> QED BY <1>1, <1>2, <1>3, <2>1, RequestAborted
  <1>4. ASSUME NEW r \in Runs, RunStep(r)
        PROVE  DrainInv(o)'
    <2>1. drained' = drained
      BY <1>4 DEF RunStep, WorkerStep, Dispatch, Start, Claim, SetRunning,
           WorkerWrite, StreamEnd, StreamFail, OnCancelled, OnFailed,
           FinStop, FinRelease, FinEnd, LateWrite, LateSignal, HbRenew,
           HbPoll, LeaseExpire
    <2> QED BY <1>1, <1>2, <1>4, <2>1, RunStepAborted
  <1>5. ASSUME NEW p \in Replicas, ReplicaStep(p)
        PROVE  DrainInv(o)'
    <2>1. CASE GoDown(p) /\ o = p
      <3>1. drained'[o] = {}
        BY <2>1 DEF GoDown, TypeOK
      <3> QED BY <3>1 DEF DrainInv
    <2>2. CASE DrainBegin(p) /\ o = p
      <3>1. /\ home' = home
            /\ drained'[o] = {r \in ActiveAt(o) : wpc[r] \notin TaskOver}
        BY <2>2 DEF DrainBegin, TypeOK
      <3>2. ASSUME NEW q \in drained'[o]
            PROVE  home'[q] = o /\ Present(q)' /\ Aborted(q)'
        <4>1. q \in Runs /\ q \in ActiveAt(o) /\ wpc[q] \notin TaskOver
          BY <3>1, <3>2 DEF ActiveAt
        <4>2. wpc'[q] # "lost"
          BY <2>2, <4>1, StopKeepsLost DEF DrainBegin, TaskOver
        <4>3. mem'[q] = Abort(mem[q], mem[q].st, "interrupt")
          BY <2>2, <4>1 DEF DrainBegin
        <4>4. Aborted(q)'
          BY <4>1, <4>3 DEF Abort, Aborted, ActiveAt, InflightStatuses
        <4> QED BY <3>1, <4>1, <4>2, <4>4 DEF ActiveAt, Present, Exists
      <3> QED BY <3>2 DEF DrainInv
    <2>3. CASE ~((GoDown(p) \/ DrainBegin(p)) /\ o = p)
      <3>1. drained'[o] = drained[o]
        <4>1. CASE SweepStep(p) \/ DrainSettle(p) \/ Restart(p)
          BY <4>1 DEF SweepStep, RecList, RecLease, RecLocal, RecWrite,
                      DrainSettle, Restart
        <4>2. CASE GoDown(p) \/ DrainBegin(p)
          <5>1. o # p /\ \E D : drained' = [drained EXCEPT ![p] = D]
            BY <2>3, <4>2 DEF GoDown, DrainBegin
          <5> QED BY <5>1 DEF TypeOK
        <4> QED BY <1>5, <4>1, <4>2 DEF ReplicaStep
      <3>2. \A q \in drained[o] : StaysAborted(q)
        BY <1>1, <1>5, <2>3, ReplicaStepAborted
      <3> QED BY <1>2, <3>1, <3>2
    <2> QED BY <2>1, <2>2, <2>3
  <1> QED BY <1>3, <1>4, <1>5 DEF Next

-----------------------------------------------------------------------------
(* The sweeps.                                                             *)

\* A sweep whose listing is unchanged keeps up with any move of the rows.
LEMMA SweepFrame ==
    ASSUME TypeOK, TypeOK', NEW p \in Replicas, NEW q \in Runs,
           SweepInv(p, q), RowMoves(q), Exists(q) => Exists(q)',
           rec'[p].ver[q] \in {rec[p].ver[q], 0}
    PROVE  SweepInv(p, q)'
  <1>1. row[q] \in Row /\ row'[q] \in Row /\ rec[p] \in Sweep
    BY DEF TypeOK
  <1>2. row[q].rv \in Nat /\ row'[q].rv \in Nat
    BY <1>1 DEF Row
  <1>3. rec[p].ver \in [Runs -> Nat]
    BY <1>1 DEF Sweep
  <1>4. rec[p].ver[q] \in Nat
    BY <1>3
  <1> QED BY <1>2, <1>4
     DEF SweepInv, RowMoves, is_terminal_run_status, TERMINAL_RUN_STATUSES

\* Leaving a row, or going on to the next check of it.
LEMMA RowDoneEffect ==
    ASSUME TypeOK, NEW p \in Replicas, NEW r \in Runs, RowDone(p, r)
    PROVE  /\ \A o \in Replicas : o # p => rec'[o] = rec[o]
           /\ \A q \in Runs : rec'[p].ver[q] \in {rec[p].ver[q], 0}
           /\ rec'[p].phase \in {"idle", "scan"}
  <1>1. rec[p].ver \in [Runs -> Nat]
    BY DEF TypeOK, Sweep
  <1> QED BY <1>1 DEF RowDone, NoSweep, TypeOK

\* What a sweep listed stays a version the row has had.
LEMMA SweepKept ==
    ASSUME TypeOK, TypeOK', NEW p \in Replicas, SweepStep(p),
           NEW o \in Replicas, NEW q \in Runs,
           CursorInv(o), SweepInv(o, q), RowMoves(q)
    PROVE  CursorInv(o)' /\ SweepInv(o, q)'
  <1>1. home' = home
    BY DEF SweepStep, RecList, RecLease, RecLocal, RecWrite
  <1>2. Exists(q) => Exists(q)'
    BY <1>1 DEF Exists
  <1>3. ASSUME NEW r \in Runs, RowDone(p, r)
        PROVE  CursorInv(o)' /\ SweepInv(o, q)'
    <2>1. CASE o = p
      BY <1>2, <1>3, <2>1, RowDoneEffect, SweepFrame DEF CursorInv
    <2>2. CASE o # p
      BY <1>2, <1>3, <2>2, RowDoneEffect, SweepFrame DEF CursorInv
    <2> QED BY <2>1, <2>2
  <1>4. CASE RecList(p)
    <2>1. CASE o = p
      <3>1. /\ rec'[o].phase = "scan"
            /\ rec'[o].ver[q] = IF Exists(q) /\ row[q].st \in InflightStatuses
                                THEN row[q].rv ELSE 0
            /\ row' = row
        BY <1>4, <2>1 DEF RecList, TypeOK
      <3>2. SweepInv(o, q)'
        BY <1>1, <3>1, Numbers
           DEF SweepInv, Exists, is_terminal_run_status, TERMINAL_RUN_STATUSES,
               InflightStatuses
      <3> QED BY <3>1, <3>2 DEF CursorInv
    <2>2. CASE o # p
      <3>1. rec'[o] = rec[o]
        BY <1>4, <2>2 DEF RecList, TypeOK
      <3> QED BY <1>2, <3>1, SweepFrame DEF CursorInv
    <2> QED BY <2>1, <2>2
  <1>5. ASSUME NEW r \in Runs, RecLease(p, r)
        PROVE  CursorInv(o)' /\ SweepInv(o, q)'
    <2>1. CASE rec' = [rec EXCEPT ![p] = [phase |-> "local", cur |-> r,
                                          ver |-> rec[p].ver]]
      <3>1. /\ rec'[o].ver = rec[o].ver
            /\ o # p => rec'[o] = rec[o]
            /\ o = p => rec'[o].cur = r
        BY <2>1 DEF TypeOK
      <3>2. rec[p].ver[r] # 0
        BY <1>5 DEF RecLease
      <3>3. CursorInv(o)'
        BY <3>1, <3>2 DEF CursorInv
      <3> QED BY <1>2, <3>1, <3>3, SweepFrame
    <2> QED BY <1>3, <1>5, <2>1 DEF RecLease
  <1>6. CASE RecLocal(p)
    <2>1. rec[p].cur \in Runs /\ rec[p].phase = "local"
      BY <1>6 DEF RecLocal, TypeOK, Sweep
    <2>2. CASE rec' = [rec EXCEPT ![p] = [phase |-> "write", cur |-> rec[p].cur,
                                          ver |-> rec[p].ver]]
      <3>1. /\ rec'[o].ver = rec[o].ver
            /\ o # p => rec'[o] = rec[o]
            /\ o = p => rec'[o].cur = rec[o].cur
        BY <2>2 DEF TypeOK
      <3>2. CursorInv(o)'
        BY <2>1, <3>1 DEF CursorInv
      <3> QED BY <1>2, <3>1, <3>2, SweepFrame
    <2> QED BY <1>3, <1>6, <2>1, <2>2 DEF RecLocal
  <1>7. CASE RecWrite(p)
    <2>1. rec[p].cur \in Runs
      BY <1>7 DEF RecWrite, TypeOK, Sweep
    <2> QED BY <1>3, <1>7, <2>1 DEF RecWrite
  <1> QED BY <1>4, <1>5, <1>6, <1>7 DEF SweepStep

\* No run exists initially.
LEMMA FenceInit == Init => FenceInv
  <1> SUFFICES ASSUME Init PROVE FenceInv
    OBVIOUS
  <1>1. TypeOK
    BY InitType
  <1>2. NoShutdown
    BY DEF Init, NoShutdown
  <1>3. \A r \in Runs : RunInv(r)
    BY DEF Init, RunInv, BaseInv, CalmInv, ExactInv, Exists, Present, NewRow,
           NewRecord, NoLate, NoWrite, Writing, is_terminal_run_status,
           TERMINAL_RUN_STATUSES
  <1>4. \A p \in Replicas : CursorInv(p) /\ DrainInv(p)
    BY DEF Init, CursorInv, NoSweep, DrainInv
  <1>5. \A p \in Replicas, r \in Runs : SweepInv(p, r)
    BY DEF Init, SweepInv, NoSweep
  <1> QED BY <1>1, <1>2, <1>3, <1>4, <1>5 DEF FenceInv

\* Every step keeps the fence and moves the rows as RunSafe allows.
LEMMA FenceStep ==
    ASSUME FenceInv, [Next]_vars
    PROVE  FenceInv' /\ \A q \in Runs : RunSafe(q)
  <1>1. TypeOK /\ TypeOK'
    BY NextType DEF FenceInv
  <1>2. CASE UNCHANGED vars
    <2>1. FenceInv'
      BY <1>1, <1>2 DEF vars, FenceInv, NoShutdown, RunInv, BaseInv, CalmInv,
             ExactInv, CursorInv, DrainInv, Aborted, SweepInv, Exists, Present
    <2> QED BY <1>2, <2>1 DEF vars, RunSafe, Final
  <1>3. CASE Next
    <2>1. ASSUME NEW q \in Runs
          PROVE  RunKept(q)
      <3>1. ASSUME NEW p \in Replicas, NEW r \in Runs, Request(p, r)
            PROVE  RunKept(q)
        <4>1. ASSUME NEW s \in AllStrategies, Create(p, r, s)
              PROVE  RunKept(q)
          BY <1>1, <4>1, CreateKept DEF FenceInv
        <4>2. CASE Cancel(p, r)
          BY <1>1, <4>2, CancelKept, LifecycleAssumption DEF FenceInv, Cancel
        <4>3. CASE Disconnect(p, r)
          BY <1>1, <4>3, CancelKept DEF FenceInv, Disconnect, AbortActions
        <4> QED BY <3>1, <4>1, <4>2, <4>3 DEF Request
      <3>2. ASSUME NEW r \in Runs, RunStep(r)
            PROVE  RunKept(q)
        BY <1>1, <3>2, RunStepKept DEF FenceInv
      <3>3. ASSUME NEW p \in Replicas, ReplicaStep(p)
            PROVE  RunKept(q)
        BY <1>1, <3>3, ReplicaStepKept DEF FenceInv
      <3> QED BY <1>3, <3>1, <3>2, <3>3 DEF Next
    <2>2. ASSUME Calm PROVE NoShutdown'
      <3>1. ASSUME NEW p \in Replicas, ReplicaStep(p)
            PROVE  NoShutdown'
        <4>1. CASE SweepStep(p)
          BY <2>2, <4>1 DEF FenceInv, NoShutdown, SweepStep, RecList, RecLease,
                            RecLocal, RecWrite
        <4>2. CASE GoDown(p) \/ Restart(p)
          <5>1. \E s \in {"up", "down"} : up' = [up EXCEPT ![p] = s]
            BY <4>2 DEF GoDown, Restart
          <5> QED BY <1>1, <2>2, <5>1 DEF FenceInv, NoShutdown, TypeOK
        <4>3. ~DrainBegin(p) /\ ~DrainSettle(p)
          BY <2>2 DEF FenceInv, Calm, NoShutdown, DrainBegin, DrainSettle, Fault
        <4> QED BY <3>1, <4>1, <4>2, <4>3 DEF ReplicaStep
      <3>2. ASSUME NEW p \in Replicas, NEW r \in Runs, Request(p, r)
            PROVE  up' = up
        BY <3>2 DEF Request, Create, Cancel, Disconnect, CancelLocal,
                    CancelElsewhere
      <3>3. ASSUME NEW r \in Runs, RunStep(r)
            PROVE  up' = up
        BY <3>3 DEF RunStep, WorkerStep, Dispatch, Start, Claim, SetRunning,
                    WorkerWrite, StreamEnd, StreamFail, OnCancelled, OnFailed,
                    FinStop, FinRelease, FinEnd, LateWrite, LateSignal, HbRenew,
                    HbPoll, LeaseExpire
      <3> QED BY <1>3, <2>2, <3>1, <3>2, <3>3 DEF Next, FenceInv, NoShutdown
    <2>3. ASSUME NEW o \in Replicas, NEW q \in Runs
          PROVE  CursorInv(o)' /\ SweepInv(o, q)'
      <3>1. RowMoves(q)
        BY <2>1 DEF RunKept
      <3>2. CursorInv(o) /\ SweepInv(o, q)
        BY DEF FenceInv
      <3>3. ASSUME NEW p \in Replicas, SweepStep(p)
            PROVE  CursorInv(o)' /\ SweepInv(o, q)'
        BY <1>1, <3>1, <3>2, <3>3, SweepKept
      <3>4. CASE /\ Exists(q) => Exists(q)'
                 /\ rec'[o] = rec[o] \/ rec'[o] = NoSweep
        <4>1. rec'[o].ver[q] \in {rec[o].ver[q], 0}
          BY <3>4 DEF NoSweep
        <4>2. SweepInv(o, q)'
          BY <1>1, <3>1, <3>2, <3>4, <4>1, SweepFrame
        <4>3. CursorInv(o)'
          BY <3>2, <3>4 DEF CursorInv, NoSweep
        <4> QED BY <4>2, <4>3
      <3>5. ASSUME NEW p \in Replicas, NEW r \in Runs, Request(p, r)
            PROVE  rec' = rec /\ (Exists(q) => Exists(q)')
        BY <1>1, <3>5, LifecycleAssumption
           DEF Request, Create, Cancel, Disconnect, CancelLocal,
               CancelElsewhere, Exists, TypeOK
      <3>6. ASSUME NEW r \in Runs, RunStep(r)
            PROVE  rec' = rec /\ home' = home
        BY <3>6 DEF RunStep, WorkerStep, Dispatch, Start, Claim, SetRunning,
                    WorkerWrite, StreamEnd, StreamFail, OnCancelled, OnFailed,
                    FinStop, FinRelease, FinEnd, LateWrite, LateSignal, HbRenew,
                    HbPoll, LeaseExpire
      <3>7. ASSUME NEW p \in Replicas,
                   DrainBegin(p) \/ DrainSettle(p) \/ GoDown(p) \/ Restart(p)
            PROVE  home' = home /\ (rec'[o] = rec[o] \/ rec'[o] = NoSweep)
        BY <1>1, <3>7 DEF DrainBegin, DrainSettle, GoDown, Restart, TypeOK
      <3> QED BY <1>3, <3>3, <3>4, <3>5, <3>6, <3>7 DEF Next, ReplicaStep, Exists
    <2>4. \A o \in Replicas, q \in Runs : CursorInv(o)' /\ SweepInv(o, q)'
      BY <2>3
    <2>5. \A o \in Replicas : CursorInv(o)'
      <3>1. SUFFICES ASSUME NEW o \in Replicas PROVE CursorInv(o)'
        OBVIOUS
      <3>2. CASE Runs = {}
        BY <1>1, <3>2 DEF CursorInv, TypeOK, Sweep
      <3>3. CASE Runs # {}
        BY <2>4, <3>3
      <3> QED BY <3>2, <3>3
    <2>6. \A o \in Replicas : DrainInv(o)'
      BY <1>1, <1>3, DrainKept DEF FenceInv
    <2>7. FenceInv'
      BY <1>1, <2>1, <2>2, <2>4, <2>5, <2>6 DEF FenceInv, RunKept
    <2> QED BY <2>1, <2>7 DEF RunKept
  <1> QED BY <1>2, <1>3

-----------------------------------------------------------------------------
(* The theorems.                                                           *)

\* The fence holds in every reachable state, each part under its own
\* hypothesis (RunManager, update_status and the reconciler together).
THEOREM FenceHolds == Spec => []FenceInv
  <1>1. FenceInv /\ [Next]_vars => FenceInv'
    BY FenceStep
  <1> QED BY FenceInit, <1>1, PTL DEF Spec

\* Nobody ever holds a version the row has not had: the record, the task's
\* write in flight, a deferred cancel write, a sweep's listing,
\* through crashes and shutdowns too.
THEOREM VersionsNeverAhead == Spec => []VersionsBehind
  <1>1. FenceInv => VersionsBehind
    <2> SUFFICES ASSUME FenceInv PROVE VersionsBehind
      OBVIOUS
    <2>1. TypeOK
      BY DEF FenceInv
    <2>2. ASSUME NEW r \in Runs
          PROVE  /\ mem[r].rv <= row[r].rv
                 /\ wpc[r] \in Writing => ww[r].exp # 0 /\ ww[r].exp <= row[r].rv
                 /\ cw[r].exp <= row[r].rv
      BY <2>1, Numbers DEF FenceInv, RunInv, BaseInv
    <2>3. ASSUME NEW p \in Replicas, NEW r \in Runs
          PROVE  rec[p].ver[r] <= row[r].rv
      <3>1. SweepInv(p, r) /\ row[r].rv \in Nat
        BY <2>1, Numbers DEF FenceInv
      <3> QED BY <3>1 DEF SweepInv
    <2> QED BY <2>2, <2>3 DEF VersionsBehind
  <1> QED BY FenceHolds, <1>1, PTL

\* Once somebody else ended the row of a run still in flight, every write the
\* run's own process may still send carries a version the row has left.
THEOREM StaleWritesAreFenced ==
    ASSUME "drain" \notin FaultKinds
    PROVE  Spec => []StaleWritesFenced
  <1>1. Calm
    BY DEF Calm
  <1>2. FenceInv => StaleWritesFenced
    BY <1>1 DEF FenceInv, RunInv, BaseInv, CalmInv, StaleWritesFenced
  <1> QED BY FenceHolds, <1>2, PTL

\* No step takes a row from a terminal status back to pending or running.
THEOREM TerminalNeverRevived ==
    ASSUME "drain" \notin FaultKinds
    PROVE  Spec => NeverRevived
  <1>1. Calm
    BY DEF Calm
  <1>2. /\ FenceInv /\ [Next]_vars
        => [\A r \in Runs : is_terminal_run_status(row[r].st)
                             => is_terminal_run_status(row'[r].st)]_vars
    BY <1>1, FenceStep DEF RunSafe
  <1> QED BY FenceHolds, <1>2, PTL DEF Spec, NeverRevived

\* No step relabels a row recorded as success, not even the unversioned
\* writes of an interrupting create and of a shutdown.
THEOREM SuccessNeverRelabelled == Spec => SuccessIsFinal
  <1>1. /\ FenceInv /\ [Next]_vars
        => [\A r \in Runs : row[r].st = "success"
                             => row'[r].st = "success"]_vars
    BY FenceStep DEF RunSafe
  <1> QED BY FenceHolds, <1>1, PTL DEF Spec, SuccessIsFinal

\* When every status write carries a version (no client displaces a run, no
\* graceful shutdown), a terminal row is final but for interrupted to error.
THEOREM TerminalIsImmutable ==
    ASSUME "drain" \notin FaultKinds, Strategies \subseteq {"reject"}
    PROVE  Spec => TerminalImmutable
  <1>1. Exact
    BY DEF Exact, Calm
  <1>2. /\ FenceInv /\ [Next]_vars
        => [\A r \in Runs : is_terminal_run_status(row[r].st)
               => \/ row'[r].st = row[r].st
                  \/ row[r].st = "interrupted" /\ row'[r].st = "error"]_vars
    BY <1>1, FenceStep DEF RunSafe, Final
  <1> QED BY FenceHolds, <1>2, PTL DEF Spec, TerminalImmutable

\* Then a sweep changes only a row that is in flight when its write lands,
\* however old its listing is (reconcile_orphaned_inflight_runs).
THEOREM SweepsOnlyInflight ==
    ASSUME "drain" \notin FaultKinds, Strategies \subseteq {"reject"}
    PROVE  Spec => ReconcileOnlyInflight
  <1>1. Exact
    BY DEF Exact, Calm
  <1>2. /\ FenceInv /\ [Next]_vars
        => [\A p \in Replicas : RecWrite(p) /\ row' # row
                => row[rec[p].cur].st \in InflightStatuses]_vars
    <2> SUFFICES ASSUME FenceInv, [Next]_vars, NEW p \in Replicas,
                        RecWrite(p), row' # row
                 PROVE  row[rec[p].cur].st \in InflightStatuses
      OBVIOUS
    <2>1. TypeOK /\ TypeOK'
      BY NextType DEF FenceInv
    <2>2. PICK q \in Runs : row'[q] # row[q]
      BY <2>1 DEF TypeOK
    <2> QED BY <1>1, <2>1, <2>2, RecWriteKept DEF FenceInv
  <1> QED BY FenceHolds, <1>2, PTL DEF Spec, ReconcileOnlyInflight

-----------------------------------------------------------------------------
(* Admission.                                                              *)

\* r is in its process's memory, pending or running.
Held(r) == Present(r) /\ mem[r].st \in InflightStatuses

\* What every step but an admission does to r: it takes nothing into flight.
NotTaken(r) == home'[r] = home[r] /\ (Held(r)' => Held(r))

-----------------------------------------------------------------------------

\* A step that keeps the status of r and does not bring its process back.
LEMMA StatusSame ==
    ASSUME NEW r \in Runs, home'[r] = home[r], mem'[r].st = mem[r].st,
           wpc[r] = "lost" => wpc'[r] = "lost"
    PROVE  NotTaken(r)
  BY DEF NotTaken, Held, Present, Exists

\* set_status never makes a finished record active again.
LEMMA SetStatusNotTaken ==
    ASSUME TypeOK, NEW r \in Runs, NEW q \in Runs, NEW t \in Statuses,
           NEW a, NEW b, wpc[r] # "lost",
           SetStatus(r, t, a, b), home' = home
    PROVE  NotTaken(q)
  <1>1. CASE LegalTransition(mem[r].st, t) /\ q = r
    <2>1. mem'[r].st = t
      BY <1>1 DEF SetStatus, TypeOK, Record
    <2>2. t \in InflightStatuses => mem[r].st \in InflightStatuses
      BY <1>1, LegalEffect, Numbers
    <2> QED BY <1>1, <2>1, <2>2 DEF NotTaken, Held, Present, Exists
  <1>2. CASE LegalTransition(mem[r].st, t) /\ q # r
    BY <1>2, StatusSame DEF SetStatus, TypeOK
  <1>3. CASE ~LegalTransition(mem[r].st, t)
    BY <1>3, StatusSame DEF SetStatus, TypeOK
  <1> QED BY <1>1, <1>2, <1>3

\* No step of a task, a heartbeat or a deferred write adds an active record.
LEMMA RunStepNotTaken ==
    ASSUME TypeOK, NEW r \in Runs, RunStep(r), NEW q \in Runs
    PROVE  NotTaken(q)
  <1>1. home' = home
    BY DEF RunStep, WorkerStep, Dispatch, Start, Claim, SetRunning,
           WorkerWrite, StreamEnd, StreamFail, OnCancelled, OnFailed,
           FinStop, FinRelease, FinEnd, LateWrite, LateSignal, HbRenew,
           HbPoll, LeaseExpire
  <1>2. CASE Dispatch(r) \/ Start(r) \/ Claim(r) \/ StreamFail(r)
             \/ FinStop(r) \/ FinRelease(r) \/ FinEnd(r)
    <2>1. mem' = mem
      BY <1>2 DEF Dispatch, Start, Claim, StreamFail, FinStop, FinRelease, FinEnd
    <2>2. wpc[q] = "lost" => wpc'[q] = "lost"
      BY <1>2 DEF Dispatch, Start, Claim, StreamFail, FinStop, FinRelease,
                  FinEnd, TypeOK
    <2> QED BY <1>1, <2>1, <2>2, StatusSame
  <1>3. CASE SetRunning(r) \/ (\E s \in Statuses : StreamEnd(r, s))
             \/ OnCancelled(r) \/ OnFailed(r)
    <2>1. {"running", "error", AbortStatus(r)} \subseteq Statuses
      BY DEF AbortStatus, Statuses, InflightStatuses, TERMINAL_RUN_STATUSES
    <2>2. wpc[r] # "lost"
      BY <1>3 DEF SetRunning, StreamEnd, OnCancelled, OnFailed
    <2>3. PICK t \in Statuses : \E a, b : SetStatus(r, t, a, b)
      BY <1>3, <2>1 DEF SetRunning, StreamEnd, OnCancelled, OnFailed
    <2>4. PICK a, b : SetStatus(r, t, a, b)
      BY <2>3
    <2> QED BY <1>1, <2>2, <2>4, SetStatusNotTaken
  <1>4. CASE WorkerWrite(r) \/ LateWrite(r)
    <2>1. mem'[q].st = mem[q].st
      BY <1>4, MirroredSame
    <2>2. wpc[q] = "lost" => wpc'[q] = "lost"
      BY <1>4 DEF WorkerWrite, LateWrite, TypeOK, Writing
    <2> QED BY <1>1, <2>1, <2>2, StatusSame
  <1>5. CASE LateSignal(r) \/ HbRenew(r) \/ LeaseExpire(r)
    BY <1>1, <1>5, StatusSame DEF LateSignal, HbRenew, LeaseExpire
  <1>6. CASE HbPoll(r)
    <2>1. CASE UNCHANGED <<row, mem, lease, wpc, esc, ended>>
      BY <1>1, <2>1, StatusSame
    <2>2. CASE /\ \E land \in SUBSET {r}, keep \in SUBSET {r} :
                     StopTasks({r}, land, keep)
               /\ mem' = [mem EXCEPT ![r] =
                            Abort(mem[r], mem[r].st, row[r].intent)]
      <3>1. mem'[q].st = mem[q].st
        BY <2>2 DEF Abort, TypeOK
      <3>2. wpc[q] = "lost" => wpc'[q] = "lost"
        BY <2>2, StopKeepsLost
      <3> QED BY <1>1, <3>1, <3>2, StatusSame
    <2> QED BY <1>6, <2>1, <2>2 DEF HbPoll
  <1> QED BY <1>2, <1>3, <1>4, <1>5, <1>6 DEF RunStep, WorkerStep

\* cancel adds no active record.
LEMMA CancelNotTaken ==
    ASSUME TypeOK, NEW p \in Replicas, NEW r \in Runs, NEW action,
           CancelLocal(p, r, action) \/ CancelElsewhere(p, r, action),
           NEW q \in Runs
    PROVE  NotTaken(q)
  <1>1. CASE CancelLocal(p, r, action)
    <2>1. PICK land \in SUBSET {r}, keep \in SUBSET {r} :
              StopTasks({r}, land, keep)
      BY <1>1 DEF CancelLocal
    <2>2. home' = home /\ (wpc[q] = "lost" => wpc'[q] = "lost")
      BY <1>1, <2>1, StopKeepsLost DEF CancelLocal
    <2>3. mem'[q].st = mem[q].st \/ mem'[q].st = "interrupted"
      BY <1>1 DEF CancelLocal, Abort, TypeOK
    <2> QED BY <2>2, <2>3
       DEF NotTaken, Held, Present, Exists, InflightStatuses
  <1>2. CASE CancelElsewhere(p, r, action)
    BY <1>2, StatusSame DEF CancelElsewhere
  <1> QED BY <1>1, <1>2

\* Sweeps, shutdown, crash and restart add no active record.
LEMMA ReplicaStepNotTaken ==
    ASSUME TypeOK, NEW p \in Replicas, ReplicaStep(p), NEW q \in Runs
    PROVE  NotTaken(q)
  <1>1. CASE SweepStep(p) \/ Restart(p)
    BY <1>1, StatusSame
       DEF SweepStep, RecList, RecLease, RecLocal, RecWrite, Restart
  <1>2. CASE DrainBegin(p)
    <2> DEFINE D == {r \in ActiveAt(p) : wpc[r] \notin TaskOver}
    <2>1. PICK land \in SUBSET D, keep \in SUBSET D : StopTasks(D, land, keep)
      BY <1>2 DEF DrainBegin
    <2>2. home' = home /\ mem'[q].st = mem[q].st
      BY <1>2 DEF DrainBegin, Abort
    <2>3. wpc[q] = "lost" => wpc'[q] = "lost"
      BY <2>1, StopKeepsLost
    <2> QED BY <2>2, <2>3, StatusSame
  <1>3. CASE DrainSettle(p)
    <2>1. UNCHANGED <<home, wpc>>
      BY <1>3 DEF DrainSettle
    <2>2. mem'[q].st = mem[q].st \/ mem'[q].st = "interrupted"
      BY <1>3 DEF DrainSettle, TypeOK, Record
    <2> QED BY <2>1, <2>2
       DEF NotTaken, Held, Present, Exists, InflightStatuses
  <1>4. CASE GoDown(p)
    <2>1. /\ home' = home
          /\ \/ wpc'[q] = "lost"
             \/ wpc'[q] = wpc[q] /\ mem'[q] = mem[q]
      BY <1>4 DEF GoDown
    <2> QED BY <2>1 DEF NotTaken, Held, Present, Exists
  <1> QED BY <1>1, <1>2, <1>3, <1>4 DEF ReplicaStep

\* An admission: the only run of the replica still in flight is the new one.
LEMMA CreateAdmitsOne ==
    ASSUME TypeOK, NEW p \in Replicas, NEW r \in Runs, NEW s, Create(p, r, s),
           NEW q \in Runs, q # r
    PROVE  NotTaken(q) /\ (Held(q)' => home'[q] # p)
  <1> DEFINE active == ActiveAt(p)
  <1>1. PICK land \in SUBSET active, keep \in SUBSET active :
            StopTasks(active, land, keep)
    BY DEF Create
  <1>2. home'[q] = home[q] /\ (wpc'[q] = "lost" <=> wpc[q] = "lost")
    BY <1>1, StopKeepsLost DEF Create, TypeOK
  <1>3. CASE q \in active
    <2>1. mem'[q].st = "interrupted"
      BY <1>3 DEF Create, Abort
    <2> QED BY <1>2, <2>1 DEF NotTaken, Held, InflightStatuses
  <1>4. CASE q \notin active
    <2>1. mem'[q] = mem[q]
      BY <1>4 DEF Create
    <2> QED BY <1>2, <1>4, <2>1 DEF NotTaken, Held, ActiveAt, Present, Exists
  <1> QED BY <1>3, <1>4

\* A replica never holds two pending or running runs of one thread, whatever
\* strategies, cancels, shutdowns and crashes there are (create_or_reject).
THEOREM OneInflightPerReplica == Spec => []AtMostOneInflight
  <1> DEFINE One == \A q, r \in Runs :
                       Held(q) /\ Held(r) /\ home[q] = home[r] => q = r
             Inv == TypeOK /\ One
  <1>1. Init => Inv
    BY InitType DEF Init, Held, Present, Exists
  <1>2. Inv /\ [Next]_vars => Inv'
    <2> SUFFICES ASSUME TypeOK, One, [Next]_vars PROVE Inv'
      OBVIOUS
    <2>1. TypeOK'
      BY NextType
    <2>2. ASSUME \A q \in Runs : NotTaken(q)
          PROVE  One'
      BY <2>2 DEF NotTaken
    <2>3. CASE UNCHANGED vars
      <3>1. \A q \in Runs : NotTaken(q)
        BY <2>3, StatusSame DEF vars
      <3> QED BY <2>1, <2>2, <3>1
    <2>4. ASSUME NEW p \in Replicas, NEW r \in Runs, NEW s \in AllStrategies,
                 Create(p, r, s)
          PROVE  One'
      <3>1. home'[r] = p
        BY <2>4 DEF Create, TypeOK
      <3>2. \A q \in Runs : q # r => NotTaken(q) /\ (Held(q)' => home'[q] # p)
        BY <2>4, CreateAdmitsOne
      <3> QED BY <3>1, <3>2 DEF NotTaken
    <2>5. ASSUME NEW p \in Replicas, NEW r \in Runs,
                 Cancel(p, r) \/ Disconnect(p, r)
          PROVE  One'
      <3>1. PICK action : CancelLocal(p, r, action) \/ CancelElsewhere(p, r, action)
        BY <2>5 DEF Cancel, Disconnect
      <3> QED BY <2>2, <3>1, CancelNotTaken
    <2>6. ASSUME NEW r \in Runs, RunStep(r)
          PROVE  One'
      BY <2>2, <2>6, RunStepNotTaken
    <2>7. ASSUME NEW p \in Replicas, ReplicaStep(p)
          PROVE  One'
      BY <2>2, <2>7, ReplicaStepNotTaken
    <2>8. One'
      BY <2>3, <2>4, <2>5, <2>6, <2>7 DEF Next, Request
    <2> QED BY <2>1, <2>8
  <1>3. Inv => AtMostOneInflight
    BY DEF Held, AtMostOneInflight
  <1> QED BY <1>1, <1>2, <1>3, PTL DEF Spec
-----------------------------------------------------------------------------
(* The end of the stream.                                                   *)

\* The states of a task that set a final status, or found one.
Ending == {"final_w", "handler_w", "fin_stop", "fin_release", "fin_complete",
           "fin_end", "done"}

\* A task nobody aborted is never cancelled, reaches its finally with a
\* terminal status, ends early only before its first write, and has
\* published the end only when it is done.
EndInv(r) ==
    ~mem[r].abort /\ wpc[r] # "lost" =>
        /\ wpc[r] # "cancelled"
        /\ wpc[r] \in {"none", "scheduled", "claiming", "dead"} => ww[r] = NoWrite
        /\ wpc[r] \in Ending => is_terminal_run_status(mem[r].st)
        /\ ended[r] => wpc[r] = "done"

\* A step that leaves the task where it is, and the run aborted if it was.
LEMMA EndFrame ==
    ASSUME NEW r \in Runs, EndInv(r),
           mem'[r].abort \/ mem'[r].abort = mem[r].abort,
           mem'[r].st = mem[r].st \/ is_terminal_run_status(mem'[r].st),
           wpc'[r] = wpc[r], ww'[r] = ww[r], ended'[r] = ended[r]
    PROVE  EndInv(r)'
  BY DEF EndInv

\* Cancelling tasks leaves the other tasks alone.
LEMMA StopOthers ==
    ASSUME TypeOK, NEW Q, NEW land, NEW keep, StopTasks(Q, land, keep),
           NEW r \in Runs, r \notin Q
    PROVE  wpc'[r] = wpc[r] /\ ended'[r] = ended[r]
  BY DEF StopTasks, TypeOK

\* Every task that is cancelled belongs to a run that is aborted.
LEMMA StopEnd ==
    ASSUME TypeOK, NEW Q, NEW land, NEW keep, StopTasks(Q, land, keep),
           NEW r \in Runs, EndInv(r), r \in Q => mem'[r].abort,
           r \notin Q => mem'[r] = mem[r], ww'[r] = ww[r]
    PROVE  EndInv(r)'
  <1>1. CASE r \in Q
    BY <1>1 DEF EndInv
  <1>2. CASE r \notin Q
    BY <1>2, StopOthers, EndFrame
  <1> QED BY <1>1, <1>2

\* set_status of the task: what it may be followed by.
LEMMA SetStatusEnd ==
    ASSUME TypeOK, NEW r \in Runs, EndInv(r), NEW t \in Statuses, NEW a, NEW b,
           SetStatus(r, t, a, b), ended' = ended,
           wpc[r] \in {"owned", "streaming", "failed"},
           a \in {"running_w", "final_w", "handler_w"}, b \in {"failed", "fin_stop"},
           a # "running_w" => is_terminal_run_status(t),
           b = "fin_stop" => t = "error"
    PROVE  EndInv(r)'
  <1>1. CASE LegalTransition(mem[r].st, t)
    <2>1. mem[r] \in Record
      BY DEF TypeOK
    <2>2. mem'[r] = [mem[r] EXCEPT !.st = t] /\ wpc'[r] = a
      BY <1>1 DEF SetStatus, TypeOK
    <2>3. mem'[r].st = t /\ mem'[r].abort = mem[r].abort
      BY <2>1, <2>2 DEF Record
    <2> QED BY <2>2, <2>3 DEF EndInv, Ending
  <1>2. CASE ~LegalTransition(mem[r].st, t)
    <2>1. mem' = mem /\ ww' = ww /\ wpc'[r] = b
      BY <1>2 DEF SetStatus, TypeOK
    <2>2. b = "fin_stop" => is_terminal_run_status(mem[r].st)
      BY <1>2, Numbers DEF LegalTransition, LEGAL_RUN_TRANSITIONS, Statuses,
         InflightStatuses, TERMINAL_RUN_STATUSES, is_terminal_run_status
    <2> QED BY <2>1, <2>2 DEF EndInv, Ending
  <1> QED BY <1>1, <1>2

\* The steps of the task itself.
LEMMA RunStepEnd ==
    ASSUME TypeOK, NEW r \in Runs, RunStep(r), EndInv(r)
    PROVE  EndInv(r)'
  <1>1. CASE Dispatch(r) \/ Start(r) \/ Claim(r) \/ StreamFail(r) \/ FinStop(r)
    <2>1. UNCHANGED <<mem, ww, ended>>
      BY <1>1 DEF Dispatch, Start, Claim, StreamFail, FinStop
    <2>2. /\ wpc[r] \in {"none", "scheduled", "claiming", "streaming", "fin_stop"}
          /\ wpc'[r] \in {"scheduled", "claiming", "owned", "dead", "failed",
                          "fin_release"}
          /\ wpc[r] = "streaming" => wpc'[r] = "failed"
          /\ wpc[r] = "fin_stop" <=> wpc'[r] = "fin_release"
      BY <1>1 DEF Dispatch, Start, Claim, StreamFail, FinStop, TypeOK
    <2> QED BY <2>1, <2>2 DEF EndInv, Ending
  <1>2. CASE FinRelease(r) \/ FinEnd(r)
    <2>1. /\ mem' = mem
          /\ \/ wpc[r] = "fin_release" /\ wpc'[r] = "fin_complete" /\ ended' = ended
             \/ wpc[r] = "fin_end" /\ wpc'[r] = "done"
      BY <1>2 DEF FinRelease, FinEnd, TypeOK
    <2> QED BY <2>1 DEF EndInv, Ending
  <1>3. CASE SetRunning(r)
    BY <1>3, SetStatusEnd DEF SetRunning, Statuses, InflightStatuses
  <1>4. ASSUME NEW s \in Statuses, StreamEnd(r, s)
        PROVE  EndInv(r)'
    <2>1. is_terminal_run_status(s)
      BY <1>4 DEF StreamEnd, AbortStatus, is_terminal_run_status,
                  TERMINAL_RUN_STATUSES
    <2> QED BY <1>4, <2>1, SetStatusEnd DEF StreamEnd
  <1>5. CASE OnFailed(r)
    BY <1>5, SetStatusEnd
       DEF OnFailed, Statuses, is_terminal_run_status, TERMINAL_RUN_STATUSES
  <1>6. CASE OnCancelled(r)
    <2>1. mem[r].abort
      BY <1>6 DEF OnCancelled, EndInv
    <2>2. mem[r] \in Record
      BY DEF TypeOK
    <2>3. [mem[r] EXCEPT !.st = AbortStatus(r)].abort = mem[r].abort
      BY <2>2 DEF Record
    <2>4. mem'[r] = mem[r] \/ mem'[r] = [mem[r] EXCEPT !.st = AbortStatus(r)]
      BY <1>6 DEF OnCancelled, SetStatus, TypeOK
    <2>5. mem'[r].abort
      BY <2>1, <2>3, <2>4
    <2> QED BY <2>5 DEF EndInv
  <1>7. CASE WorkerWrite(r) \/ LateWrite(r)
    <2>1. mem'[r].st = mem[r].st /\ mem'[r].abort = mem[r].abort
      BY <1>7, MirroredSame
    <2>2. CASE LateWrite(r)
      BY <2>1, <2>2, EndFrame DEF LateWrite
    <2>3. CASE WorkerWrite(r)
      <3>1. /\ UNCHANGED <<ww, ended>>
            /\ wpc[r] \in Writing
            /\ wpc'[r] \in {"streaming", "fin_end", "fin_stop"}
            /\ wpc[r] = "running_w" => wpc'[r] = "streaming"
        BY <2>3 DEF WorkerWrite, TypeOK
      <3> QED BY <2>1, <3>1 DEF EndInv, Ending, Writing
    <2> QED BY <1>7, <2>2, <2>3
  <1>8. CASE LateSignal(r) \/ HbRenew(r) \/ LeaseExpire(r)
    BY <1>8, EndFrame DEF LateSignal, HbRenew, LeaseExpire
  <1>9. CASE HbPoll(r)
    <2>1. CASE UNCHANGED <<row, mem, lease, wpc, esc, ended>>
      BY <1>9, <2>1, EndFrame DEF HbPoll
    <2>2. CASE /\ \E land \in SUBSET {r}, keep \in SUBSET {r} :
                     StopTasks({r}, land, keep)
               /\ mem' = [mem EXCEPT ![r] =
                            Abort(mem[r], mem[r].st, row[r].intent)]
      <3>1. mem'[r].abort
        BY <2>2 DEF Abort, TypeOK
      <3> QED BY <3>1 DEF EndInv
    <2> QED BY <1>9, <2>1, <2>2 DEF HbPoll
  <1> QED BY <1>1, <1>2, <1>3, <1>4, <1>5, <1>6, <1>7, <1>8, <1>9
          DEF RunStep, WorkerStep

\* The steps of another run.
LEMMA OtherStepEnd ==
    ASSUME TypeOK, NEW r \in Runs, RunStep(r), NEW q \in Runs, q # r, EndInv(q)
    PROVE  EndInv(q)'
  <1>1. CASE HbPoll(r)
    <2>1. mem'[q] = mem[q] /\ ww' = ww
      BY <1>1 DEF HbPoll, TypeOK
    <2>2. wpc'[q] = wpc[q] /\ ended'[q] = ended[q]
      BY <1>1, StopOthers DEF HbPoll
    <2> QED BY <2>1, <2>2, EndFrame
  <1>2. CASE ~HbPoll(r)
    <2>1. mem'[q] = mem[q] /\ ww'[q] = ww[q] /\ wpc'[q] = wpc[q]
          /\ ended'[q] = ended[q]
      BY <1>2 DEF RunStep, WorkerStep, Dispatch, Start, Claim, SetRunning,
           SetStatus, WorkerWrite, StreamEnd, StreamFail, OnCancelled, OnFailed,
           FinStop, FinRelease, FinEnd, LateWrite, LateSignal, HbRenew,
           LeaseExpire, TypeOK
    <2> QED BY <2>1, EndFrame
  <1> QED BY <1>1, <1>2

\* Creates and cancels.
LEMMA RequestEnd ==
    ASSUME TypeOK, NEW p \in Replicas, NEW r \in Runs, Request(p, r),
           NEW q \in Runs, EndInv(q)
    PROVE  EndInv(q)'
  <1>1. ASSUME NEW s \in AllStrategies, Create(p, r, s)
        PROVE  EndInv(q)'
    <2> DEFINE active == ActiveAt(p)
    <2>1. PICK land \in SUBSET active, keep \in SUBSET active :
              StopTasks(active, land, keep)
      BY <1>1 DEF Create
    <2>2. /\ q \in active => mem'[q] = Abort(mem[q], "interrupted", s)
          /\ q \notin active => mem'[q] = mem[q]
          /\ ww' = ww
      BY <1>1 DEF Create
    <2>3. q \in active => mem'[q].abort
      BY <2>2 DEF Abort
    <2> QED BY <2>1, <2>2, <2>3, StopEnd
  <1>2. ASSUME NEW act, CancelLocal(p, r, act)
        PROVE  EndInv(q)'
    <2>1. PICK land \in SUBSET {r}, keep \in SUBSET {r} :
              StopTasks({r}, land, keep)
      BY <1>2 DEF CancelLocal
    <2>2. /\ q = r => mem'[q] = Abort(mem[q], "interrupted", act)
          /\ q # r => mem'[q] = mem[q]
          /\ ww' = ww
      BY <1>2 DEF CancelLocal, TypeOK
    <2>3. q \in {r} => mem'[q].abort
      BY <2>2 DEF Abort
    <2> QED BY <2>1, <2>2, <2>3, StopEnd
  <1>3. ASSUME NEW act, CancelElsewhere(p, r, act)
        PROVE  EndInv(q)'
    BY <1>3, EndFrame DEF CancelElsewhere
  <1> QED BY <1>1, <1>2, <1>3 DEF Request, Cancel, Disconnect

\* Sweeps, shutdown, crash and restart.
LEMMA ReplicaStepEnd ==
    ASSUME TypeOK, NEW p \in Replicas, ReplicaStep(p), NEW q \in Runs, EndInv(q)
    PROVE  EndInv(q)'
  <1>1. CASE SweepStep(p) \/ Restart(p)
    BY <1>1, EndFrame
       DEF SweepStep, RecList, RecLease, RecLocal, RecWrite, Restart
  <1>2. CASE DrainBegin(p)
    <2> DEFINE D == {r \in ActiveAt(p) : wpc[r] \notin TaskOver}
    <2>1. PICK land \in SUBSET D, keep \in SUBSET D : StopTasks(D, land, keep)
      BY <1>2 DEF DrainBegin
    <2>2. /\ q \in D => mem'[q] = Abort(mem[q], mem[q].st, "interrupt")
          /\ q \notin D => mem'[q] = mem[q]
          /\ ww' = ww
      BY <1>2 DEF DrainBegin
    <2>3. q \in D => mem'[q].abort
      BY <2>2 DEF Abort
    <2> QED BY <2>1, <2>2, <2>3, StopEnd
  <1>3. CASE DrainSettle(p)
    <2>1. mem[q] \in Record
      BY DEF TypeOK
    <2>2. /\ [mem[q] EXCEPT !.st = "interrupted"].abort = mem[q].abort
          /\ [mem[q] EXCEPT !.st = "interrupted"].st = "interrupted"
      BY <2>1 DEF Record
    <2>3. /\ mem'[q] \in {mem[q], [mem[q] EXCEPT !.st = "interrupted"]}
          /\ UNCHANGED <<wpc, ww, ended>>
      BY <1>3 DEF DrainSettle
    <2>4. /\ mem'[q].abort = mem[q].abort
          /\ mem'[q].st \in {mem[q].st, "interrupted"}
      BY <2>2, <2>3
    <2> QED BY <2>3, <2>4, EndFrame
       DEF is_terminal_run_status, TERMINAL_RUN_STATUSES
  <1>4. CASE GoDown(p)
    <2>1. CASE home[q] = p
      <3>1. wpc'[q] = "lost"
        BY <1>4, <2>1 DEF GoDown
      <3> QED BY <3>1 DEF EndInv
    <2>2. CASE home[q] # p
      BY <1>4, <2>2, EndFrame DEF GoDown
    <2> QED BY <2>1, <2>2
  <1> QED BY <1>1, <1>2, <1>3, <1>4 DEF ReplicaStep

\* Whatever the faults, the stream of a run nobody aborted ends in a terminal
\* status, and a task that began to write publishes that end (run_agent).
THEOREM EndsArePublished == Spec => []EndsUnlessAborted
  <1> DEFINE Inv == TypeOK /\ \A r \in Runs : EndInv(r)
  <1>1. Init => Inv
    BY InitType DEF Init, EndInv, Ending
  <1>2. Inv /\ [Next]_vars => Inv'
    <2> SUFFICES ASSUME Inv, [Next]_vars, NEW q \in Runs PROVE EndInv(q)'
      BY NextType
    <2>1. CASE UNCHANGED vars
      BY <2>1, EndFrame DEF vars
    <2>2. ASSUME NEW r \in Runs, RunStep(r) PROVE EndInv(q)'
      BY <2>2, RunStepEnd, OtherStepEnd
    <2> QED BY <2>1, <2>2, RequestEnd, ReplicaStepEnd DEF Next
  <1>3. Inv => EndsUnlessAborted
    BY DEF EndInv, Ending, EndsUnlessAborted, Present
  <1> QED BY <1>1, <1>2, <1>3, PTL DEF Spec
=============================================================================
