--------------------------- MODULE SubagentProofs ---------------------------
(***************************************************************************)
(* The result holder of a subagent, for any number of tasks, pool threads  *)
(* and polls: one outcome, an entry that outlives its users, and usage     *)
(* that is handed to the recorder before the tool gives its answer.        *)
(***************************************************************************)
EXTENDS SubagentTasks, TLAPS

USE SubagentAssumption

-----------------------------------------------------------------------------
(* Types.                                                                  *)

JobStates == {"none", "queued", "waiting", "expiring", "expired", "done"}
ExecStates == {"none", "build", "stream", "done"}
ToolStates == {"none", "poll", "sleep", "await", "reported", "done"}
CleanerStates == {"none", "on", "done", "gave_up"}
Answers == Terminal \cup {"none", "disappeared", "gave_up", "cancelled_tool",
                         "left_early", "raised"}
JournalStates == {"none", "recorded", "refused"}

\* try_set_terminal keeps the holder a holder.
LEMMA HolderType ==
    ASSUME TypeOK, NEW t \in Tasks, NEW s \in Terminal, NEW usage \in BOOLEAN,
           TrySetTerminal(t, s, usage)
    PROVE  status' \in [Tasks -> Statuses] /\ records' \in [Tasks -> BOOLEAN]
  <1>1. s \in Statuses
    BY DEF Statuses
  <1> QED BY <1>1 DEF TrySetTerminal, TypeOK

\* _report_subagent_usage leaves a state of the journal.
LEMMA JournalType ==
    ASSUME TypeOK, NEW t \in Tasks
    PROVE  /\ Journal(t) \subseteq JournalStates
           /\ JournalOnCancel(t) \subseteq JournalStates
           /\ \A j \in JournalStates :
                [journal EXCEPT ![t] = j] \in [Tasks -> JournalStates]
  BY DEF TypeOK, Journal, JournalOnCancel, JournalStates

LEMMA JobTypes ==
    ASSUME TypeOK, NEW t \in Tasks, ExecuteAsync(t) \/ Job(t)
    PROVE  TypeOK'
  <1> USE DEF holderVars, runVars, toolVars
  <1>1. CASE ExecuteAsync(t)
    BY <1>1 DEF TypeOK, ExecuteAsync, Statuses
  <1>2. CASE RunTask(t)
    BY <1>2 DEF TypeOK, RunTask, Statuses, Terminal
  <1>3. CASE JobEnds(t) \/ TimeOut(t) \/ CancelFuture(t)
    <2>1. CASE JobEnds(t)
      BY <2>1 DEF TypeOK, JobEnds
    <2>2. CASE TimeOut(t)
      BY <2>2 DEF TypeOK, TimeOut
    <2>3. CASE CancelFuture(t)
      BY <2>3 DEF TypeOK, CancelFuture
    <2> QED BY <1>3, <2>1, <2>2, <2>3
  <1>4. CASE SetTimedOut(t)
    <2>1. "timed_out" \in Terminal
      BY DEF Terminal
    <2>2. status' \in [Tasks -> Statuses] /\ records' \in [Tasks -> BOOLEAN]
      BY <1>4, <2>1, HolderType DEF SetTimedOut
    <2> QED BY <1>4, <2>2 DEF TypeOK, SetTimedOut
  <1> QED BY <1>1, <1>2, <1>3, <1>4 DEF Job

LEMMA ExecTypes ==
    ASSUME TypeOK, NEW t \in Tasks, Exec(t)
    PROVE  TypeOK'
  <1> USE DEF holderVars, runVars, toolVars
  <1>1. {"cancelled", "failed", "completed"} \subseteq Terminal /\ spent[t] \in BOOLEAN
    BY DEF Terminal, TypeOK
  <1>2. status' \in [Tasks -> Statuses] /\ records' \in [Tasks -> BOOLEAN]
    <2>1. CASE UNCHANGED <<status, records>>
      BY <2>1 DEF TypeOK
    <2>2. CASE \E s \in Terminal, usage \in BOOLEAN : TrySetTerminal(t, s, usage)
      BY <2>2, HolderType
    <2> QED BY <1>1, <2>1, <2>2 DEF Exec, Build, Chunk, StreamEnds
  <1>3. /\ exec' \in [Tasks -> ExecStates] /\ spent' \in [Tasks -> BOOLEAN]
    BY DEF TypeOK, Exec, Build, Chunk, StreamEnds, ExecStates
  <1>4. UNCHANGED <<entry, cancel, job, toolVars>>
    BY DEF Exec, Build, Chunk, StreamEnds
  <1> QED BY <1>2, <1>3, <1>4 DEF TypeOK, ExecStates

LEMMA ToolTypes ==
    ASSUME TypeOK, NEW t \in Tasks,
           Tool(t) \/ ToolCancelled(t) \/ ToolRaises(t) \/ DeferredCleanup(t)
    PROVE  TypeOK'
  <1> USE DEF holderVars, runVars, toolVars
  <1>0. CleanedUp(t) \subseteq Tasks
    BY DEF TypeOK, CleanedUp
  <1>1. CASE Poll(t)
    <2>1. IsTerminal(t) => status[t] \in Answers
      BY DEF IsTerminal, Answers
    <2>2. journal' \in [Tasks -> JournalStates]
      BY <1>1, JournalType DEF Poll, TypeOK, JournalStates
    <2> QED BY <1>0, <1>1, <2>1, <2>2 DEF TypeOK, Poll, Answers, JournalStates
  <1>2. CASE Wake(t)
    <2>1. polls' \in [Tasks -> 0 .. MaxPolls]
      BY <1>2 DEF TypeOK, Wake, Exhausted
    <2>2. journal' \in [Tasks -> JournalStates]
      BY <1>2, JournalType DEF Wake, TypeOK, JournalStates
    <2>3. /\ cancel' \in [Tasks -> BOOLEAN]
          /\ tool' \in [Tasks -> ToolStates] /\ cleaner' \in [Tasks -> CleanerStates]
          /\ answer' \in [Tasks -> Answers]
      <3>1. cancel' \in [Tasks -> BOOLEAN] /\ tool' \in [Tasks -> ToolStates]
        BY <1>2 DEF TypeOK, Wake, ToolStates
      <3>2. cleaner' \in [Tasks -> CleanerStates] /\ answer' \in [Tasks -> Answers]
        BY <1>2 DEF TypeOK, Wake, CleanerStates, Answers
      <3> QED BY <3>1, <3>2
    <2> QED BY <1>2, <2>1, <2>2, <2>3
       DEF TypeOK, Wake, ToolStates, CleanerStates, Answers, JournalStates
  <1>3. CASE AwaitEnds(t)
    <2>1. journal' \in [Tasks -> JournalStates]
      BY <1>3, JournalType DEF AwaitEnds
    <2> QED BY <1>3, <2>1 DEF TypeOK, AwaitEnds, JournalStates
  <1>4. CASE CancelledToolLeaves(t)
    <2>1. CleanerAfterAwait(t) \in CleanerStates
      BY DEF CleanerAfterAwait, CleanerStates, TypeOK
    <2> QED BY <1>0, <1>4, <2>1 DEF TypeOK, CancelledToolLeaves, CleanerStates
  <1>5. CASE ToolCancelled(t)
    BY <1>5 DEF TypeOK, ToolCancelled
  <1>6. CASE ToolRaises(t)
    <2>1. journal[t] \in JournalStates
      BY DEF TypeOK, JournalStates
    <2>2. journal' \in [Tasks -> JournalStates]
      BY <1>6, <2>1, JournalType DEF ToolRaises
    <2> QED BY <1>6, <2>2 DEF TypeOK, ToolRaises, JournalStates
  <1>7. CASE DeferredCleanup(t)
    BY <1>0, <1>7 DEF TypeOK, DeferredCleanup, Exhausted
  <1> QED BY <1>1, <1>2, <1>3, <1>4, <1>5, <1>6, <1>7 DEF Tool

LEMMA TypesInit == Init => TypeOK
  BY DEF Init, TypeOK, Statuses

LEMMA TypesStep == TypeOK /\ [Next]_vars => TypeOK'
  <1> SUFFICES ASSUME TypeOK, [Next]_vars PROVE TypeOK'
    OBVIOUS
  <1>1. CASE UNCHANGED vars
    BY <1>1 DEF vars, holderVars, runVars, toolVars, TypeOK
  <1>2. ASSUME NEW t \in Tasks,
               \/ ExecuteAsync(t) \/ Job(t) \/ Exec(t) \/ Tool(t)
               \/ ToolCancelled(t) \/ ToolRaises(t) \/ DeferredCleanup(t)
        PROVE  TypeOK'
    BY <1>2, JobTypes, ExecTypes, ToolTypes
  <1> QED BY <1>1, <1>2 DEF Next

\* Every step of every thread keeps the shape of the state: no poller counts
\* beyond max_poll_count.
THEOREM SubagentTypes == Spec => []TypeOK
  BY TypesInit, TypesStep, PTL DEF Spec

-----------------------------------------------------------------------------
(* The holder of one task.                                                 *)

\* What the threads of a task know of each other: nothing runs before
\* execute_async; a queued job is pending, so that run_task overwrites no
\* outcome; the entry goes only with a terminal status, and while the tool
\* looks at it nobody else removes it.
TaskInv(t) ==
    /\ tool[t] = "none" =>
           /\ job[t] = "none" /\ exec[t] = "none" /\ answer[t] = "none"
    /\ job[t] = "none" => tool[t] = "none"
    /\ job[t] = "queued" => status[t] = "pending" /\ exec[t] = "none"
    /\ tool[t] # "none" /\ ~IsTerminal(t) => t \in entry
    /\ tool[t] \in {"poll", "sleep", "await", "reported"} =>
           t \in entry /\ cleaner[t] = "none"
    /\ cleaner[t] # "none" => tool[t] = "done"
    /\ answer[t] \in Terminal => answer[t] = status[t]
    /\ answer[t] # "disappeared"

\* How the usage of an execution gets to the journal: a collector has records
\* only once the stream began; an execution that goes on has no outcome, or
\* timed out; every other outcome came with the collector's records; and what
\* the holder had when the tool saw it end was handed over.
UsageInv(t) ==
    /\ exec[t] \in {"none", "build"} => ~spent[t]
    /\ exec[t] \in {"build", "stream"} /\ IsTerminal(t) => status[t] = "timed_out"
    /\ job[t] = "expired" => IsTerminal(t)
    /\ IsTerminal(t) /\ spent[t] => records[t] \/ status[t] = "timed_out"
    /\ answer[t] \in Terminal \cup {"cancelled_tool"} =>
           IsTerminal(t) /\ (records[t] => journal[t] # "none")

HolderInv == TypeOK /\ \A t \in Tasks : TaskInv(t)

TokenInv == HolderInv /\ \A t \in Tasks : UsageInv(t)

\* A step of the threads of t leaves every other task alone.
Apart(t) ==
    /\ t \in entry' <=> t \in entry
    /\ status'[t] = status[t] /\ records'[t] = records[t]
    /\ job'[t] = job[t] /\ exec'[t] = exec[t] /\ tool'[t] = tool[t]
    /\ cleaner'[t] = cleaner[t] /\ journal'[t] = journal[t] /\ answer'[t] = answer[t]

LEMMA ApartKeeps ==
    ASSUME NEW t \in Tasks, TaskInv(t), Apart(t)
    PROVE  TaskInv(t)'
  BY DEF TaskInv, Apart, IsTerminal

\* try_set_terminal on t: an outcome stays; otherwise there is one now.
LEMMA HolderEffect ==
    ASSUME TypeOK, NEW t \in Tasks, NEW s \in Terminal, NEW usage \in BOOLEAN,
           TrySetTerminal(t, s, usage)
    PROVE  /\ IsTerminal(t)'
           /\ IsTerminal(t) => status'[t] = status[t] /\ records'[t] = records[t]
           /\ \A u \in Tasks : u # t => status'[u] = status[u] /\ records'[u] = records[u]
  BY DEF TrySetTerminal, IsTerminal, TypeOK

LEMMA JobKeeps ==
    ASSUME HolderInv, NEW t \in Tasks, ExecuteAsync(t) \/ Job(t)
    PROVE  TaskInv(t)' /\ \A u \in Tasks \ {t} : Apart(u)
  <1> USE DEF holderVars, runVars, toolVars
  <1>0. TypeOK /\ TaskInv(t)
    BY DEF HolderInv
  <1>1. CASE ExecuteAsync(t)
    BY <1>0, <1>1 DEF TypeOK, ExecuteAsync, TaskInv, Apart, IsTerminal, Terminal
  <1>2. CASE RunTask(t)
    BY <1>0, <1>2 DEF TypeOK, RunTask, TaskInv, Apart, IsTerminal, Terminal
  <1>3. CASE JobEnds(t) \/ TimeOut(t) \/ CancelFuture(t)
    BY <1>0, <1>3 DEF TypeOK, JobEnds, TimeOut, CancelFuture, Deadline, TaskInv, Apart, IsTerminal
  <1>4. CASE SetTimedOut(t)
    <2>1. "timed_out" \in Terminal
      BY DEF Terminal
    <2>2. TrySetTerminal(t, "timed_out", FALSE)
      BY <1>4 DEF SetTimedOut
    <2>3. /\ IsTerminal(t)'
          /\ IsTerminal(t) => status'[t] = status[t] /\ records'[t] = records[t]
          /\ \A u \in Tasks : u # t => status'[u] = status[u] /\ records'[u] = records[u]
      BY <1>0, <2>1, <2>2, HolderEffect
    <2> QED BY <1>0, <1>4, <2>3 DEF TypeOK, SetTimedOut, TaskInv, Apart, IsTerminal
  <1> QED BY <1>1, <1>2, <1>3, <1>4 DEF Job

LEMMA ExecKeeps ==
    ASSUME HolderInv, NEW t \in Tasks, Exec(t)
    PROVE  TaskInv(t)' /\ \A u \in Tasks \ {t} : Apart(u)
  <1> USE DEF holderVars, runVars, toolVars
  <1>0. TypeOK /\ TaskInv(t)
    BY DEF HolderInv
  <1>1. {"cancelled", "failed", "completed"} \subseteq Terminal /\ spent[t] \in BOOLEAN
    BY <1>0 DEF Terminal, TypeOK
  <1>2. /\ exec[t] \in {"build", "stream"} /\ exec'[t] \in ExecStates \ {"none"}
        /\ \A u \in Tasks : u # t => exec'[u] = exec[u]
        /\ UNCHANGED <<entry, cancel, job, toolVars>>
    BY <1>0 DEF TypeOK, Exec, Build, Chunk, StreamEnds, ExecStates
  <1>3. /\ IsTerminal(t) => IsTerminal(t)' /\ status'[t] = status[t] /\ records'[t] = records[t]
        /\ \A u \in Tasks : u # t => status'[u] = status[u] /\ records'[u] = records[u]
        /\ ~IsTerminal(t)' => ~IsTerminal(t)
    <2>1. CASE UNCHANGED <<status, records>>
      BY <2>1 DEF IsTerminal
    <2>2. CASE \E s \in Terminal, usage \in BOOLEAN : TrySetTerminal(t, s, usage)
      BY <1>0, <2>2, HolderEffect
    <2> QED BY <1>1, <2>1, <2>2 DEF Exec, Build, Chunk, StreamEnds
  <1>4. \A u \in Tasks \ {t} : Apart(u)
    BY <1>2, <1>3 DEF Apart
  <1>5. job[t] \notin {"none", "queued"}
    BY <1>0, <1>2 DEF TaskInv
  <1>6. TaskInv(t)'
    BY <1>0, <1>2, <1>3, <1>5 DEF TaskInv, IsTerminal, Terminal
  <1> QED BY <1>4, <1>6

LEMMA ToolKeeps ==
    ASSUME HolderInv, NEW t \in Tasks,
           Tool(t) \/ ToolCancelled(t) \/ ToolRaises(t) \/ DeferredCleanup(t)
    PROVE  TaskInv(t)' /\ \A u \in Tasks \ {t} : Apart(u)
  <1> USE DEF holderVars, runVars, toolVars
  <1>0. TypeOK /\ TaskInv(t)
    BY DEF HolderInv
  <1>2. /\ IsTerminal(t) => CleanedUp(t) = entry \ {t}
        /\ ~IsTerminal(t) => CleanedUp(t) = entry
    BY DEF CleanedUp
  <1>3. CASE Poll(t)
    <2>1. t \in entry /\ cleaner[t] = "none"
      BY <1>0, <1>3 DEF Poll, TaskInv
    <2>2. CASE IsTerminal(t)
      BY <1>0, <1>2, <1>3, <2>1, <2>2 DEF Poll, TypeOK, TaskInv, Apart, IsTerminal, Terminal
    <2>3. CASE ~IsTerminal(t)
      BY <1>0, <1>3, <2>1, <2>3 DEF Poll, TypeOK, TaskInv, Apart, IsTerminal
    <2> QED BY <2>2, <2>3
  <1>4. CASE Wake(t)
    BY <1>0, <1>4 DEF Wake, TypeOK, TaskInv, Apart, IsTerminal, Terminal
  <1>5. CASE AwaitEnds(t)
    BY <1>0, <1>5 DEF AwaitEnds, TypeOK, TaskInv, Apart, IsTerminal, Terminal
  <1>9. CASE CancelledToolLeaves(t)
    <2>1. CASE IsTerminal(t)
      BY <1>0, <1>2, <1>9, <2>1
      DEF CancelledToolLeaves, CleanerAfterAwait, TypeOK, TaskInv, Apart, IsTerminal
    <2>2. CASE ~IsTerminal(t)
      BY <1>0, <1>2, <1>9, <2>2
      DEF CancelledToolLeaves, CleanerAfterAwait, TypeOK, TaskInv, Apart, IsTerminal
    <2> QED BY <2>1, <2>2
  <1>6. CASE ToolCancelled(t)
    BY <1>0, <1>6 DEF ToolCancelled, TypeOK, TaskInv, Apart, IsTerminal
  <1>7. CASE ToolRaises(t)
    BY <1>0, <1>7 DEF ToolRaises, TypeOK, TaskInv, Apart, IsTerminal, Terminal
  <1>8. CASE DeferredCleanup(t)
    <2>1. CASE IsTerminal(t)
      BY <1>0, <1>2, <1>8, <2>1 DEF DeferredCleanup, TypeOK, TaskInv, Apart, IsTerminal
    <2>2. CASE ~IsTerminal(t)
      BY <1>0, <1>2, <1>8, <2>2 DEF DeferredCleanup, TypeOK, TaskInv, Apart, IsTerminal
    <2> QED BY <2>1, <2>2
  <1> QED BY <1>3, <1>4, <1>5, <1>6, <1>7, <1>8, <1>9 DEF Tool

LEMMA HolderStep == HolderInv /\ [Next]_vars => HolderInv'
  <1> SUFFICES ASSUME HolderInv, [Next]_vars PROVE HolderInv'
    OBVIOUS
  <1>0. TypeOK'
    BY TypesStep DEF HolderInv
  <1>1. CASE UNCHANGED vars
    <2>1. \A t \in Tasks : Apart(t)
      BY <1>1 DEF vars, holderVars, runVars, toolVars, Apart
    <2> QED BY <1>0, <2>1, ApartKeeps DEF HolderInv
  <1>2. ASSUME NEW t \in Tasks,
               \/ ExecuteAsync(t) \/ Job(t) \/ Exec(t) \/ Tool(t)
               \/ ToolCancelled(t) \/ ToolRaises(t) \/ DeferredCleanup(t)
        PROVE  HolderInv'
    <2>1. TaskInv(t)' /\ \A u \in Tasks \ {t} : Apart(u)
      BY <1>2, JobKeeps, ExecKeeps, ToolKeeps
    <2> QED BY <1>0, <2>1, ApartKeeps DEF HolderInv
  <1> QED BY <1>1, <1>2 DEF Next

LEMMA HolderInvariant == Spec => []HolderInv
  <1>1. Init => HolderInv
    BY TypesInit DEF Init, HolderInv, TaskInv, Terminal
  <1> QED BY <1>1, HolderStep, PTL DEF Spec

\* A completion, a failure, a cancel and a timeout that race leave one outcome,
\* and what the tool answered stays it: neither try_set_terminal nor run_task,
\* which sets running unasked, replaces a status the tool has read.
THEOREM AnswersAreFinal == Spec => []AnswerIsFinal
  <1>1. HolderInv => AnswerIsFinal
    BY DEF HolderInv, TaskInv, AnswerIsFinal
  <1> QED BY <1>1, HolderInvariant, PTL

\* The entry of _background_tasks outlives the job and the poller, whichever of
\* the tool, the cancelled tool and the deferred cleanup removes it.
THEOREM EntriesOutliveUsers == Spec => []EntryOutlivesUsers
  <1>1. HolderInv => EntryOutlivesUsers
    BY DEF HolderInv, TaskInv, EntryOutlivesUsers
  <1> QED BY <1>1, HolderInvariant, PTL

-----------------------------------------------------------------------------
(* Token usage, from the collector to the journal.                         *)

\* try_set_terminal with the collector's records, or after its end: an outcome
\* other than a timeout comes with what was spent.
LEMMA UsageEffect ==
    ASSUME TypeOK, NEW t \in Tasks, NEW s \in Terminal, NEW usage \in BOOLEAN,
           TrySetTerminal(t, s, usage), ~IsTerminal(t)
    PROVE  status'[t] = s /\ (usage => records'[t])
  BY DEF TrySetTerminal, TypeOK

\* What the steps of the threads of t leave alone of another task.
UsageApart(t) ==
    /\ status'[t] = status[t] /\ records'[t] = records[t] /\ spent'[t] = spent[t]
    /\ job'[t] = job[t] /\ exec'[t] = exec[t]
    /\ journal'[t] = journal[t] /\ answer'[t] = answer[t]

LEMMA UsageApartKeeps ==
    ASSUME NEW t \in Tasks, UsageInv(t), UsageApart(t)
    PROVE  UsageInv(t)'
  BY DEF UsageInv, UsageApart, IsTerminal

LEMMA UsageAlone ==
    ASSUME HolderInv, NEW t \in Tasks,
           \/ ExecuteAsync(t) \/ Job(t) \/ Exec(t) \/ Tool(t)
           \/ ToolCancelled(t) \/ ToolRaises(t) \/ DeferredCleanup(t)
    PROVE  \A u \in Tasks \ {t} : UsageApart(u)
  <1>1. \A u \in Tasks \ {t} : Apart(u)
    BY JobKeeps, ExecKeeps, ToolKeeps
  <1>2. \A u \in Tasks \ {t} : spent'[u] = spent[u]
    BY DEF holderVars, runVars, toolVars, HolderInv, TypeOK, ExecuteAsync, Job, RunTask,
           JobEnds, TimeOut, SetTimedOut, CancelFuture, Exec, Build, Chunk, StreamEnds,
           Tool, Poll, Wake, AwaitEnds, CancelledToolLeaves, ToolCancelled, ToolRaises,
           DeferredCleanup
  <1> QED BY <1>1, <1>2 DEF Apart, UsageApart

LEMMA JobUsage ==
    ASSUME TokenInv, NEW t \in Tasks, ExecuteAsync(t) \/ Job(t)
    PROVE  UsageInv(t)'
  <1> USE DEF holderVars, runVars, toolVars
  <1>0. TypeOK /\ TaskInv(t) /\ UsageInv(t)
    BY DEF TokenInv, HolderInv
  <1>1. CASE ExecuteAsync(t)
    BY <1>0, <1>1 DEF TypeOK, ExecuteAsync, TaskInv, UsageInv, IsTerminal, Terminal
  <1>2. CASE RunTask(t)
    <2>1. /\ ~IsTerminal(t) /\ ~spent[t] /\ job'[t] # "expired"
          /\ exec'[t] \in {"none", "build"} /\ (exec'[t] = "build" => ~IsTerminal(t)')
          /\ UNCHANGED <<spent, answer>>
      BY <1>0, <1>2 DEF TypeOK, RunTask, TaskInv, UsageInv, IsTerminal, Terminal
    <2> QED BY <1>0, <2>1 DEF UsageInv
  <1>3. CASE JobEnds(t) \/ TimeOut(t) \/ CancelFuture(t)
    BY <1>0, <1>3 DEF TypeOK, JobEnds, TimeOut, CancelFuture, Deadline, UsageInv, IsTerminal
  <1>4. CASE SetTimedOut(t)
    <2>1. "timed_out" \in Terminal
      BY DEF Terminal
    <2>2. TrySetTerminal(t, "timed_out", FALSE)
      BY <1>4 DEF SetTimedOut
    <2>3. /\ IsTerminal(t)'
          /\ IsTerminal(t) => status'[t] = status[t] /\ records'[t] = records[t]
      BY <1>0, <2>1, <2>2, HolderEffect
    <2>4. ~IsTerminal(t) => status'[t] = "timed_out"
      BY <1>0, <2>1, <2>2, UsageEffect
    <2>5. UNCHANGED <<spent, exec, journal, answer>> /\ job'[t] = "expired"
      BY <1>0, <1>4 DEF SetTimedOut, TypeOK
    <2> QED BY <1>0, <2>3, <2>4, <2>5 DEF UsageInv
  <1> QED BY <1>1, <1>2, <1>3, <1>4 DEF Job

LEMMA ExecUsage ==
    ASSUME TokenInv, NEW t \in Tasks, Exec(t)
    PROVE  UsageInv(t)'
  <1> USE DEF holderVars, runVars, toolVars
  <1>0. TypeOK /\ TaskInv(t) /\ UsageInv(t)
    BY DEF TokenInv, HolderInv
  <1>1. /\ exec[t] \in {"build", "stream"} /\ UNCHANGED <<job, answer, journal>>
        /\ IsTerminal(t) => status[t] = "timed_out"
    BY <1>0 DEF Exec, Build, Chunk, StreamEnds, UsageInv
  <1>2. {"cancelled", "failed", "completed"} \subseteq Terminal /\ spent[t] \in BOOLEAN
    BY <1>0 DEF Terminal, TypeOK
  <1>3. /\ IsTerminal(t) => IsTerminal(t)' /\ status'[t] = status[t] /\ records'[t] = records[t]
    <2>1. CASE UNCHANGED <<status, records>>
      BY <2>1 DEF IsTerminal
    <2>2. CASE \E s \in Terminal, usage \in BOOLEAN : TrySetTerminal(t, s, usage)
      BY <1>0, <2>2, HolderEffect
    <2> QED BY <1>2, <2>1, <2>2 DEF Exec, Build, Chunk, StreamEnds
  <1>4. exec'[t] \in {"none", "build"} => ~spent'[t]
    BY <1>0 DEF Exec, Build, Chunk, StreamEnds, UsageInv, TypeOK
  <1>5. ~IsTerminal(t) /\ IsTerminal(t)' => exec'[t] = "done" /\ (spent'[t] => records'[t])
    <2>1. CASE Build(t)
      BY <1>0, <2>1 DEF Build, UsageInv, IsTerminal, TypeOK
    <2>2. CASE Chunk(t)
      <3>1. CASE cancel[t]
        <4>1. TrySetTerminal(t, "cancelled", TRUE) /\ exec'[t] = "done"
          BY <1>0, <2>2, <3>1 DEF Chunk, TypeOK
        <4> QED BY <1>0, <1>2, <4>1, UsageEffect
      <3>2. CASE ~cancel[t]
        BY <2>2, <3>2 DEF Chunk, IsTerminal
      <3> QED BY <3>1, <3>2
    <2>3. CASE StreamEnds(t)
      <3>1. /\ exec'[t] = "done" /\ spent' = spent
            /\ \/ TrySetTerminal(t, "completed", spent[t])
               \/ TrySetTerminal(t, "failed", spent[t])
        BY <1>0, <2>3 DEF StreamEnds, TypeOK
      <3> QED BY <1>0, <1>2, <3>1, UsageEffect
    <2> QED BY <2>1, <2>2, <2>3 DEF Exec
  <1>6. CASE IsTerminal(t)
    BY <1>0, <1>1, <1>3, <1>4, <1>6 DEF UsageInv
  <1>7. CASE ~IsTerminal(t)
    BY <1>0, <1>1, <1>4, <1>5, <1>7 DEF UsageInv
  <1> QED BY <1>6, <1>7

LEMMA ToolUsage ==
    ASSUME TokenInv, NEW t \in Tasks,
           Tool(t) \/ ToolCancelled(t) \/ ToolRaises(t) \/ DeferredCleanup(t)
    PROVE  UsageInv(t)'
  <1> USE DEF holderVars, runVars, toolVars
  <1>0. TypeOK /\ TaskInv(t) /\ UsageInv(t)
    BY DEF TokenInv, HolderInv
  <1>1. UNCHANGED <<status, records, spent, job, exec>> /\ (IsTerminal(t)' <=> IsTerminal(t))
    BY DEF Tool, Poll, Wake, AwaitEnds, CancelledToolLeaves, ToolCancelled, ToolRaises,
           DeferredCleanup, IsTerminal
  <1>2. ASSUME NEW j \in Journal(t) PROVE records[t] => j # "none"
    BY <1>2 DEF Journal
  <1>3. answer'[t] \in Terminal \cup {"cancelled_tool"} =>
           IsTerminal(t) /\ (records[t] => journal'[t] # "none")
    <2>1. CASE Poll(t)
      <3>1. t \in entry
        BY <1>0, <2>1 DEF Poll, TaskInv
      <3>2. CASE IsTerminal(t)
        <4>1. PICK j \in Journal(t) : journal' = [journal EXCEPT ![t] = j]
          BY <2>1, <3>1, <3>2 DEF Poll
        <4>2. journal'[t] = j
          BY <1>0, <4>1 DEF TypeOK
        <4> QED BY <1>2, <3>2, <4>2
      <3>3. CASE ~IsTerminal(t)
        BY <1>0, <2>1, <3>1, <3>3 DEF Poll, UsageInv
      <3> QED BY <3>2, <3>3
    <2>2. CASE AwaitEnds(t)
      <3>1. PICK j \in Journal(t) : journal' = [journal EXCEPT ![t] = j]
        BY <2>2 DEF AwaitEnds, JournalOnCancel
      <3>2. journal'[t] = j /\ (~IsTerminal(t) => answer'[t] = "left_early")
        BY <1>0, <2>2, <3>1 DEF AwaitEnds, TypeOK
      <3> QED BY <1>2, <3>2 DEF Terminal
    <2>3. CASE Wake(t)
      <3>1. UNCHANGED <<journal, answer>> \/ answer'[t] = "gave_up"
        BY <1>0, <2>3 DEF Wake, TypeOK
      <3> QED BY <1>0, <3>1 DEF UsageInv, Terminal
    <2>4. CASE ToolRaises(t)
      BY <1>0, <2>4 DEF ToolRaises, TypeOK, Terminal
    <2>5. CASE CancelledToolLeaves(t) \/ ToolCancelled(t) \/ DeferredCleanup(t)
      BY <1>0, <2>5 DEF CancelledToolLeaves, ToolCancelled, DeferredCleanup, UsageInv
    <2> QED BY <2>1, <2>2, <2>3, <2>4, <2>5 DEF Tool
  <1> QED BY <1>0, <1>1, <1>3 DEF UsageInv

LEMMA TokenStep == TokenInv /\ [Next]_vars => TokenInv'
  <1> SUFFICES ASSUME TokenInv, [Next]_vars PROVE TokenInv'
    OBVIOUS
  <1>0. HolderInv'
    BY HolderStep DEF TokenInv
  <1>1. CASE UNCHANGED vars
    <2>1. \A t \in Tasks : UsageApart(t)
      BY <1>1 DEF vars, holderVars, runVars, toolVars, UsageApart
    <2> QED BY <1>0, <2>1, UsageApartKeeps DEF TokenInv
  <1>2. ASSUME NEW t \in Tasks,
               \/ ExecuteAsync(t) \/ Job(t) \/ Exec(t) \/ Tool(t)
               \/ ToolCancelled(t) \/ ToolRaises(t) \/ DeferredCleanup(t)
        PROVE  TokenInv'
    <2>1. UsageInv(t)'
      BY <1>2, JobUsage, ExecUsage, ToolUsage
    <2>2. \A u \in Tasks \ {t} : UsageApart(u)
      BY <1>2, UsageAlone DEF TokenInv
    <2> QED BY <1>0, <2>1, <2>2, UsageApartKeeps DEF TokenInv
  <1> QED BY <1>1, <1>2 DEF Next

\* Whichever of the execution, its timeout, the tool and the parent's cancel is
\* first: when the tool saw the subagent end, what the model calls cost was
\* handed to the parent's recorder, unless the subagent timed out.
THEOREM UsageIsReported == Spec => []UsageReachesJournal
  <1>1. Init => TokenInv
    <2>1. Init => HolderInv
      BY TypesInit DEF Init, HolderInv, TaskInv, Terminal
    <2> QED BY <2>1 DEF Init, TokenInv, UsageInv, IsTerminal, Terminal
  <1>2. TokenInv => UsageReachesJournal
    BY DEF TokenInv, UsageInv, UsageReachesJournal
  <1> QED BY <1>1, <1>2, TokenStep, PTL DEF Spec
=============================================================================
