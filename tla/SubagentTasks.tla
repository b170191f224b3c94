--------------------------- MODULE SubagentTasks ---------------------------
(***************************************************************************)
(* Subagents: the task tool of a lead agent starts an execution in the     *)
(* background and polls it.  Four threads of control meet in one result    *)
(* holder: the tool (the parent's event loop), run_task (a thread of the   *)
(* scheduler pool), the execution (the isolated loop) and a deferred       *)
(* cleanup.  A task id is a tool_call_id, used once.                       *)
(***************************************************************************)
EXTENDS Integers, FiniteSets

CONSTANTS
    Tasks,
    Slots,     \* workers of _scheduler_pool (3)
    MaxPolls   \* polls before a poller gives up (max_poll_count)

ASSUME SubagentAssumption == Slots \in Nat \ {0} /\ MaxPolls \in Nat

VARIABLES
    entry,     \* tasks in _background_tasks
    status,    \* per task: the holder's status, "none" before it exists
    cancel,    \* per task: cancel_event
    records,   \* per task: the holder has token_usage_records
    spent,     \* per task: the execution's collector has records
    job,       \* per task: run_task
    exec,      \* per task: _aexecute
    tool,      \* per task: the task tool
    polls,     \* per task: polls of the loop the tool is in
    cleaner,   \* per task: _deferred_cleanup_subagent_task
    journal,   \* per task: its usage in the parent's journal: "none" handed over,
               \* "recorded", or "refused"
    answer     \* per task: how the tool ended

holderVars == <<status, cancel, records>>
runVars == <<spent, job, exec>>
toolVars == <<tool, polls, cleaner, journal, answer>>
vars == <<entry, holderVars, runVars, toolVars>>

Terminal == {"completed", "failed", "cancelled", "timed_out"}
Statuses == Terminal \cup {"none", "pending", "running"}

Init ==
    /\ entry = {}
    /\ status = [t \in Tasks |-> "none"]
    /\ cancel = [t \in Tasks |-> FALSE]
    /\ records = [t \in Tasks |-> FALSE]
    /\ spent = [t \in Tasks |-> FALSE]
    /\ job = [t \in Tasks |-> "none"]
    /\ exec = [t \in Tasks |-> "none"]
    /\ tool = [t \in Tasks |-> "none"]
    /\ polls = [t \in Tasks |-> 0]
    /\ cleaner = [t \in Tasks |-> "none"]
    /\ journal = [t \in Tasks |-> "none"]
    /\ answer = [t \in Tasks |-> "none"]

IsTerminal(t) == status[t] \in Terminal

\* (mutant) the late writer wins.
SetTerminalAlways(t, s, usage) ==
    /\ status' = [status EXCEPT ![t] = s]
    /\ records' = [records EXCEPT ![t] = @ \/ usage]

\* try_set_terminal: under the state lock the first terminal status wins.
TrySetTerminal(t, s, usage) ==
    IF IsTerminal(t) THEN UNCHANGED <<status, records>>
    ELSE /\ status' = [status EXCEPT ![t] = s]
         /\ records' = [records EXCEPT ![t] = @ \/ usage]

-----------------------------------------------------------------------------
(* run_task, on the scheduler pool.                                        *)

\* execute_async, called by the tool: the holder is stored before the job is
\* queued.
ExecuteAsync(t) ==
    /\ tool[t] = "none"
    /\ entry' = entry \cup {t}
    /\ status' = [status EXCEPT ![t] = "pending"]
    /\ job' = [job EXCEPT ![t] = "queued"]
    /\ tool' = [tool EXCEPT ![t] = "poll"]
    /\ UNCHANGED <<cancel, records, spent, exec, polls, cleaner, journal, answer>>

Busy == {t \in Tasks : job[t] \in {"waiting", "expiring", "expired"}}

\* A pool thread takes the job: the holder is running, with no look at its
\* status or its cancel_event, and the coroutine is submitted to the isolated
\* loop; a loop that does not start fails the task.
RunTask(t) ==
    /\ job[t] = "queued" /\ Cardinality(Busy) < Slots
    /\ \/ /\ status' = [status EXCEPT ![t] = "running"]
          /\ job' = [job EXCEPT ![t] = "waiting"]
          /\ exec' = [exec EXCEPT ![t] = "build"]
       \/ /\ status' = [status EXCEPT ![t] = "failed"]
          /\ job' = [job EXCEPT ![t] = "done"]
          /\ UNCHANGED exec
    /\ UNCHANGED <<entry, cancel, records, spent, toolVars>>

\* execution_future.result returns.
JobEnds(t) ==
    /\ job[t] = "waiting" /\ exec[t] = "done"
    /\ job' = [job EXCEPT ![t] = "done"]
    /\ UNCHANGED <<entry, holderVars, spent, exec, toolVars>>

\* (mutant) result() is called without a timeout.
NoDeadline(t) == FALSE

Deadline(t) == job[t] = "waiting"

\* It times out: first the cancel_event is set ...
TimeOut(t) ==
    /\ Deadline(t)
    /\ job' = [job EXCEPT ![t] = "expiring"]
    /\ cancel' = [cancel EXCEPT ![t] = TRUE]
    /\ UNCHANGED <<entry, status, records, spent, exec, toolVars>>

\* ... then the status, if the execution has not ended meanwhile ...
SetTimedOut(t) ==
    /\ job[t] = "expiring"
    /\ job' = [job EXCEPT ![t] = "expired"]
    /\ TrySetTerminal(t, "timed_out", FALSE)
    /\ UNCHANGED <<entry, cancel, spent, exec, toolVars>>

\* ... then the future is cancelled: a coroutine that is still suspended ends
\* with a CancelledError that _aexecute does not catch; one that is busy goes on.
CancelFuture(t) ==
    /\ job[t] = "expired"
    /\ job' = [job EXCEPT ![t] = "done"]
    /\ exec' \in {exec, [exec EXCEPT ![t] = "done"]}
    /\ UNCHANGED <<entry, holderVars, spent, toolVars>>

-----------------------------------------------------------------------------
(* _aexecute, on the isolated loop.                                        *)

\* The agent is built, or building raises; the cancel_event is looked at once
\* before the stream.
Build(t) ==
    /\ exec[t] = "build"
    /\ \/ /\ ~cancel[t]
          /\ exec' = [exec EXCEPT ![t] = "stream"]
          /\ UNCHANGED <<status, records>>
       \/ /\ cancel[t]
          /\ exec' = [exec EXCEPT ![t] = "done"]
          /\ TrySetTerminal(t, "cancelled", FALSE)
       \/ /\ exec' = [exec EXCEPT ![t] = "done"]
          /\ TrySetTerminal(t, "failed", FALSE)
    /\ UNCHANGED <<entry, cancel, spent, job, toolVars>>

\* The next chunk: calls of the model were paid for; a cancel seen at the
\* boundary ends the stream.
Chunk(t) ==
    /\ exec[t] = "stream"
    /\ spent' = [spent EXCEPT ![t] = TRUE]
    /\ \/ /\ cancel[t]
          /\ exec' = [exec EXCEPT ![t] = "done"]
          /\ TrySetTerminal(t, "cancelled", TRUE)
       \/ /\ ~cancel[t]
          /\ UNCHANGED <<exec, status, records>>
    /\ UNCHANGED <<entry, cancel, job, toolVars>>

\* The stream ends, or raises.
StreamEnds(t) ==
    /\ exec[t] = "stream"
    /\ exec' = [exec EXCEPT ![t] = "done"]
    /\ \/ TrySetTerminal(t, "completed", spent[t])
       \/ TrySetTerminal(t, "failed", spent[t])
    /\ UNCHANGED <<entry, cancel, spent, job, toolVars>>

-----------------------------------------------------------------------------
(* The task tool, on the loop of the parent run.                           *)

\* (mutant) a task still queued is removed too.
CleanedUpAny(t) == entry \ {t}

\* cleanup_background_task removes terminal entries only.
CleanedUp(t) == IF IsTerminal(t) THEN entry \ {t} ELSE entry

\* _report_subagent_usage: once, and only what the holder has by now; where no
\* callback is a recorder, or the recorder raises, the records are dropped.
Journal(t) == IF records[t] /\ journal[t] # "recorded" THEN {"recorded", "refused"}
              ELSE {journal[t]}

\* (mutant) the cancelled tool leaves without a report.
JournalOnCancelNone(t) == {journal[t]}

JournalOnCancel(t) == Journal(t)

\* A look at the holder: a terminal status is reported, cleaned up and
\* answered; a missing entry is an error; otherwise the tool sleeps.
Poll(t) ==
    /\ tool[t] = "poll"
    /\ \/ /\ t \notin entry
          /\ tool' = [tool EXCEPT ![t] = "done"]
          /\ answer' = [answer EXCEPT ![t] = "disappeared"]
          /\ UNCHANGED <<entry, journal>>
       \/ /\ t \in entry /\ IsTerminal(t)
          /\ tool' = [tool EXCEPT ![t] = "done"]
          /\ answer' = [answer EXCEPT ![t] = status[t]]
          /\ \E j \in Journal(t) : journal' = [journal EXCEPT ![t] = j]
          /\ entry' = CleanedUp(t)
       \/ /\ t \in entry /\ ~IsTerminal(t)
          /\ tool' = [tool EXCEPT ![t] = "sleep"]
          /\ UNCHANGED <<entry, journal, answer>>
    /\ UNCHANGED <<holderVars, runVars, polls, cleaner>>

\* (mutant) one poll too many.
ExhaustedLate(t) == polls[t] > MaxPolls

Exhausted(t) == polls[t] >= MaxPolls

\* The sleep ends.  After too many polls, however long of that the job was
\* queued, the tool asks for cancellation and leaves a deferred cleanup.
Wake(t) ==
    /\ tool[t] = "sleep"
    /\ \/ /\ ~Exhausted(t)
          /\ polls' = [polls EXCEPT ![t] = @ + 1]
          /\ tool' = [tool EXCEPT ![t] = "poll"]
          /\ UNCHANGED <<cancel, cleaner, journal, answer>>
       \/ /\ Exhausted(t)
          /\ polls' = [polls EXCEPT ![t] = 0]
          /\ tool' = [tool EXCEPT ![t] = "done"]
          /\ answer' = [answer EXCEPT ![t] = "gave_up"]
          /\ \E j \in Journal(t) : journal' = [journal EXCEPT ![t] = j]
          /\ cancel' = [cancel EXCEPT ![t] = TRUE]
          /\ cleaner' = [cleaner EXCEPT ![t] = "on"]
    /\ UNCHANGED <<entry, status, records, runVars>>

\* The parent run is cancelled while the tool sleeps: the tool asks for
\* cancellation and waits, shielded, for the subagent's last usage.
ToolCancelled(t) ==
    /\ tool[t] = "sleep"
    /\ tool' = [tool EXCEPT ![t] = "await"]
    /\ cancel' = [cancel EXCEPT ![t] = TRUE]
    /\ polls' = [polls EXCEPT ![t] = 0]
    /\ UNCHANGED <<entry, status, records, runVars, cleaner, journal, answer>>

\* It ends when the subagent is terminal, after too many polls, or when the
\* parent is cancelled a second time.  What the holder has by now is reported ...
AwaitEnds(t) ==
    /\ tool[t] = "await"
    /\ tool' = [tool EXCEPT ![t] = "reported"]
    /\ answer' = [answer EXCEPT ![t] = IF IsTerminal(t) THEN "cancelled_tool"
                                       ELSE "left_early"]
    /\ \E j \in JournalOnCancel(t) : journal' = [journal EXCEPT ![t] = j]
    /\ UNCHANGED <<entry, holderVars, runVars, polls, cleaner>>

\* (mutant) a task still running is forgotten.
CleanerAfterAwaitNone(t) == cleaner[t]

CleanerAfterAwait(t) == IF IsTerminal(t) THEN cleaner[t] ELSE "on"

\* ... then the status is looked at, which the execution may have set since:
\* the entry is removed, or left to a deferred cleanup.
CancelledToolLeaves(t) ==
    /\ tool[t] = "reported"
    /\ tool' = [tool EXCEPT ![t] = "done"]
    /\ entry' = CleanedUp(t)
    /\ cleaner' = [cleaner EXCEPT ![t] = CleanerAfterAwait(t)]
    /\ UNCHANGED <<holderVars, runVars, polls, journal, answer>>

\* Any other exception in the polling loop (a stream writer that raises, before
\* or after the report) leaves at once: no cancel request and no cleanup.
ToolRaises(t) ==
    /\ tool[t] = "poll" \/ (tool[t] = "sleep" /\ Exhausted(t))
    /\ tool' = [tool EXCEPT ![t] = "done"]
    /\ polls' = [polls EXCEPT ![t] = 0]
    /\ answer' = [answer EXCEPT ![t] = "raised"]
    /\ \E j \in Journal(t) \cup {journal[t]} : journal' = [journal EXCEPT ![t] = j]
    /\ UNCHANGED <<entry, holderVars, runVars, cleaner>>

\* The deferred cleanup polls until the task can be removed, or gives up.
DeferredCleanup(t) ==
    /\ cleaner[t] = "on"
    /\ \/ /\ t \notin entry \/ IsTerminal(t)
          /\ entry' = CleanedUp(t)
          /\ cleaner' = [cleaner EXCEPT ![t] = "done"]
          /\ UNCHANGED polls
       \/ /\ t \in entry /\ ~IsTerminal(t)
          /\ polls' = [polls EXCEPT ![t] = IF Exhausted(t) THEN 0 ELSE @ + 1]
          /\ cleaner' = [cleaner EXCEPT ![t] = IF Exhausted(t) THEN "gave_up" ELSE @]
          /\ UNCHANGED entry
    /\ UNCHANGED <<holderVars, runVars, tool, journal, answer>>

-----------------------------------------------------------------------------

Job(t) == RunTask(t) \/ JobEnds(t) \/ TimeOut(t) \/ SetTimedOut(t) \/ CancelFuture(t)
Exec(t) == Build(t) \/ Chunk(t) \/ StreamEnds(t)
Tool(t) == Poll(t) \/ Wake(t) \/ AwaitEnds(t) \/ CancelledToolLeaves(t)

Next ==
    \E t \in Tasks :
        \/ ExecuteAsync(t) \/ Job(t) \/ Exec(t) \/ Tool(t)
        \/ ToolCancelled(t) \/ ToolRaises(t) \/ DeferredCleanup(t)

Spec == Init /\ [][Next]_vars

\* The pool threads and the parent's loop run; an execution may hang for ever.
FairSpec ==
    /\ Spec
    /\ \A t \in Tasks :
        /\ WF_vars(Job(t)) /\ WF_vars(Tool(t)) /\ WF_vars(DeferredCleanup(t))

-----------------------------------------------------------------------------

\* The shape of the state; no poller goes beyond max_poll_count.
TypeOK ==
    /\ entry \subseteq Tasks
    /\ status \in [Tasks -> Statuses]
    /\ cancel \in [Tasks -> BOOLEAN]
    /\ records \in [Tasks -> BOOLEAN]
    /\ spent \in [Tasks -> BOOLEAN]
    /\ job \in [Tasks -> {"none", "queued", "waiting", "expiring", "expired", "done"}]
    /\ exec \in [Tasks -> {"none", "build", "stream", "done"}]
    /\ tool \in [Tasks -> {"none", "poll", "sleep", "await", "reported", "done"}]
    /\ polls \in [Tasks -> 0 .. MaxPolls]
    /\ cleaner \in [Tasks -> {"none", "on", "done", "gave_up"}]
    /\ journal \in [Tasks -> {"none", "recorded", "refused"}]
    /\ answer \in [Tasks -> Terminal \cup {"none", "disappeared", "gave_up",
                                           "cancelled_tool", "left_early", "raised"}]

\* What the tool told the lead agent stays the outcome of the task: a timeout,
\* a cancel and a completion that race leave one terminal status, and the tool
\* never reads one that a late writer replaces.
AnswerIsFinal ==
    \A t \in Tasks : answer[t] \in Terminal => answer[t] = status[t]

\* The entry is there as long as somebody will look it up: a queued or running
\* job (run_task would die of a KeyError and the task stay pending), and the
\* poller (which would report a task that disappeared).
EntryOutlivesUsers ==
    \A t \in Tasks :
        /\ job[t] # "none" /\ ~IsTerminal(t) => t \in entry
        /\ answer[t] # "disappeared"

\* What the subagent's model calls cost is handed to the parent's recorder when
\* the tool answers with the outcome, or was cancelled and saw the subagent end
\* before its report: from the collector of the execution, over the holder and
\* the tool, whoever of them is first.  Only a timeout loses it, whose status is
\* set without the collector's records.  A tool that leaves before the subagent
\* ends (left_early, gave_up, raised) promises nothing.
UsageReachesJournal ==
    \A t \in Tasks :
        answer[t] \in Terminal \cup {"cancelled_tool"} /\ spent[t] =>
            journal[t] # "none" \/ status[t] = "timed_out"

\* Every queued job ends and gives its thread back to the pool, so that the
\* jobs behind it run, even when the execution it waits for hangs for ever.
EveryJobEnds == \A t \in Tasks : job[t] = "queued" ~> job[t] = "done"

\* The entry of a task is removed in the end, unless the deferred cleanup ran
\* out of polls or the tool raised.
EntryReclaimed ==
    \A t \in Tasks :
        t \in entry ~> t \notin entry \/ cleaner[t] = "gave_up" \/ answer[t] = "raised"

=============================================================================
