---------------------------- MODULE SandboxPool ----------------------------
(***************************************************************************)
(* The container sandboxes of AioSandboxProvider with its local backend.   *)
(* Every process keeps its own maps (active sandboxes, warm pool) of the   *)
(* containers of one shared runtime; a container's name is its sandbox id, *)
(* which every process derives from the chat thread.  acquire runs under a *)
(* lock of the thread (in the process) and, to discover or create, under a *)
(* file lock of the sandbox (across processes); the maps' own lock covers  *)
(* single steps only, so health checks and stops run outside it.           *)
(***************************************************************************)
EXTENDS Integers, FiniteSets

CONSTANTS
    Procs,
    Sandboxes,     \* sandbox ids, one per chat thread
    NoInfo,        \* no entry
    Replicas,      \* the soft cap of config.sandbox.replicas
    MaxAcquires,   \* bound: acquire calls
    MaxExits       \* bound: crashes and shutdowns

ASSUME SandboxAssumption ==
    /\ {Replicas, MaxAcquires, MaxExits} \subseteq Nat
    /\ NoInfo \notin [sb: Sandboxes, gen: Nat, byId: BOOLEAN]

VARIABLES
    status,     \* per process: "up", "closing" (in shutdown) or "down"
    active,     \* _sandbox_infos (with _sandboxes and _thread_sandboxes)
    warm,       \* _warm_pool
    acq,        \* per process and sandbox: the acquire call under its lock
    condemned,  \* per process: ids that destroy() is about to be called with
    doomed,     \* per process: infos taken off the maps, not stopped yet
    running,    \* per sandbox: the number of the container that runs, or 0
    made,       \* the numbers given to containers so far
    missed,     \* containers a failed or cancelled step left behind
    stray,      \* creates under way that no call waits for any more
    orphans,    \* the numbers of the containers that such creates made
    acquires, exits

maps == <<active, warm>>
strays == <<stray, orphans>>
vars == <<status, maps, acq, condemned, doomed, running, made, missed, strays, acquires, exits>>

\* A SandboxInfo: create knows the container's id, discover and list_running
\* only its name.
Infos == [sb: Sandboxes, gen: 1..MaxAcquires, byId: BOOLEAN]
ById(s, n) == [sb |-> s, gen |-> n, byId |-> TRUE]
ByName(s) == [sb |-> s, gen |-> running[s], byId |-> FALSE]

Pcs == {"idle", "aliveA", "takeA", "dropA", "stopA", "warm", "aliveW", "takeW", "dropW",
        "stopW", "lock", "discover", "found", "evict", "pop", "evicting", "create", "wait",
        "unready"}
Idle == [pc |-> "idle", held |-> NoInfo, locked |-> FALSE, blind |-> FALSE]

Init ==
    /\ status = [p \in Procs |-> "up"]
    /\ active = [p \in Procs |-> [s \in Sandboxes |-> NoInfo]]
    /\ warm = [p \in Procs |-> [s \in Sandboxes |-> NoInfo]]
    /\ acq = [p \in Procs |-> [s \in Sandboxes |-> Idle]]
    /\ condemned = [p \in Procs |-> {}]
    /\ doomed = [p \in Procs |-> {}]
    /\ running = [s \in Sandboxes |-> 0]
    /\ made = 0
    /\ missed = {}
    /\ stray = {}
    /\ orphans = {}
    /\ acquires = 0
    /\ exits = 0

-----------------------------------------------------------------------------
(* The container runtime.                                                  *)

\* What docker stop is given: the id, or else the name.
Targets(info) == running[info.sb] # 0 /\ (info.byId => info.gen = running[info.sb])

\* _stop_container: a stop that fails is only logged.
Stop(info) ==
    \/ /\ Targets(info)
       /\ running' = [running EXCEPT ![info.sb] = 0]
       /\ missed' = missed \ {info.sb}
    \/ /\ Targets(info)
       /\ missed' = missed \cup {info.sb}
       /\ UNCHANGED running
    \/ ~Targets(info) /\ UNCHANGED <<running, missed>>

-----------------------------------------------------------------------------
(* acquire.                                                                *)

Goto(p, s, pc, info) == acq' = [acq EXCEPT ![p][s] = [@ EXCEPT !.pc = pc, !.held = info]]
Finish(p, s) == acq' = [acq EXCEPT ![p][s] = Idle]

\* The first look of _reuse_in_process_sandbox, under the maps' lock.
LookActive(p, s, locked) ==
    [pc     |-> IF active[p][s] # NoInfo THEN "aliveA" ELSE "warm",
     held   |-> active[p][s],
     locked |-> locked,
     blind  |-> FALSE]

Acquire(p, s) ==
    /\ status[p] # "down" /\ acq[p][s] = Idle /\ acquires < MaxAcquires
    /\ acq' = [acq EXCEPT ![p][s] = LookActive(p, s, FALSE)]
    /\ acquires' = acquires + 1
    /\ UNCHANGED <<status, maps, condemned, doomed, running, made, missed, strays, exits>>

\* The layer after the warm pool: under the file lock, discovery.
BeyondWarm(p, s) == IF acq[p][s].locked THEN "discover" ELSE "lock"

\* _reclaim_warm_pool_sandbox looks.
LookWarm(p, s) ==
    /\ acq[p][s].pc = "warm"
    /\ Goto(p, s, IF warm[p][s] # NoInfo THEN "aliveW" ELSE BeyondWarm(p, s), warm[p][s])
    /\ UNCHANGED <<status, maps, condemned, doomed, running, made, missed, strays, acquires, exits>>

\* _check_tracked_sandbox_alive, outside the lock and by the container's name;
\* a runtime that cannot answer counts as alive.
CheckAlive(p, s) ==
    /\ \/ /\ acq[p][s].pc = "aliveA"
          /\ \/ Goto(p, s, "takeA", acq[p][s].held)
             \/ running[s] = 0 /\ Goto(p, s, "dropA", acq[p][s].held)
       \/ /\ acq[p][s].pc = "aliveW"
          /\ \/ Goto(p, s, "takeW", acq[p][s].held)
             \/ running[s] = 0 /\ Goto(p, s, "dropW", acq[p][s].held)
    /\ UNCHANGED <<status, maps, condemned, doomed, running, made, missed, strays, acquires, exits>>

\* The second look of _reuse_in_process_sandbox: still there, reused.
TakeActive(p, s) ==
    /\ acq[p][s].pc = "takeA"
    /\ IF active[p][s] # NoInfo THEN Finish(p, s) ELSE Goto(p, s, "warm", NoInfo)
    /\ UNCHANGED <<status, maps, condemned, doomed, running, made, missed, strays, acquires, exits>>

\* (mutant) the warm entry stays.
PopWarmKept(p, s) == UNCHANGED warm

PopWarm(p, s) == warm' = [warm EXCEPT ![p][s] = NoInfo]

\* The pop of _reclaim_warm_pool_sandbox.
TakeWarm(p, s) ==
    /\ acq[p][s].pc = "takeW"
    /\ IF warm[p][s] # NoInfo
       THEN /\ active' = [active EXCEPT ![p][s] = warm[p][s]]
            /\ PopWarm(p, s)
            /\ Finish(p, s)
       ELSE Goto(p, s, BeyondWarm(p, s), NoInfo) /\ UNCHANGED maps
    /\ UNCHANGED <<status, condemned, doomed, running, made, missed, strays, acquires, exits>>

\* The info _remove_tracked_sandbox returns.
Tracked(p, s) == IF active[p][s] # NoInfo THEN active[p][s] ELSE warm[p][s]

\* _remove_tracked_sandbox, which every removal from both maps goes through.
Remove(p, s) ==
    /\ active' = [active EXCEPT ![p][s] = NoInfo]
    /\ warm' = [warm EXCEPT ![p][s] = NoInfo]

\* _drop_unhealthy_sandbox: unless the entry is no longer the one checked.  An
\* info that failed its check is never equal to one made later, so equality
\* of records is identity of objects here.
Drop(p, s) ==
    /\ acq[p][s].pc \in {"dropA", "dropW"}
    /\ LET inA == acq[p][s].pc = "dropA"
       IN  IF acq[p][s].held \in {active[p][s], warm[p][s]}
           THEN Remove(p, s) /\ Goto(p, s, IF inA THEN "stopA" ELSE "stopW", Tracked(p, s))
           ELSE UNCHANGED maps /\ Goto(p, s, IF inA THEN "warm" ELSE BeyondWarm(p, s), NoInfo)
    /\ UNCHANGED <<status, condemned, doomed, running, made, missed, strays, acquires, exits>>

StopDropped(p, s) ==
    /\ acq[p][s].pc \in {"stopA", "stopW"}
    /\ Stop(acq[p][s].held)
    /\ Goto(p, s, IF acq[p][s].pc = "stopA" THEN "warm" ELSE BeyondWarm(p, s), NoInfo)
    /\ UNCHANGED <<status, maps, condemned, doomed, made, strays, acquires, exits>>

\* (mutant) nobody holds the file lock.
LockFreeAlways(s) == TRUE

LockFree(s) == \A q \in Procs : ~acq[q][s].locked

\* The file lock, then both maps again (_recheck_cached_sandbox).
LockFile(p, s) ==
    /\ acq[p][s].pc = "lock" /\ LockFree(s)
    /\ acq' = [acq EXCEPT ![p][s] = LookActive(p, s, TRUE)]
    /\ UNCHANGED <<status, maps, condemned, doomed, running, made, missed, strays, acquires, exits>>

\* The backend's discover; blind when a container runs but does not pass.
Discover(p, s) ==
    /\ acq[p][s].pc = "discover"
    /\ \/ running[s] # 0 /\ Goto(p, s, "found", ByName(s))
       \/ acq' = [acq EXCEPT ![p][s] =
                    [@ EXCEPT !.pc = "evict", !.held = NoInfo, !.blind = running[s] # 0]]
    /\ UNCHANGED <<status, maps, condemned, doomed, running, made, missed, strays, acquires, exits>>

\* _register_discovered_sandbox, _register_created_sandbox.
Register(p, s) ==
    /\ active' = [active EXCEPT ![p][s] = acq[p][s].held]
    /\ Finish(p, s)

RegisterDiscovered(p, s) ==
    /\ acq[p][s].pc = "found"
    /\ Register(p, s)
    /\ UNCHANGED <<status, warm, condemned, doomed, running, made, missed, strays, acquires, exits>>

Count(map, p) == Cardinality({s \in Sandboxes : map[p][s] # NoInfo})

\* _replica_count.
CheckReplicas(p, s) ==
    /\ acq[p][s].pc = "evict"
    /\ Goto(p, s, IF Count(active, p) + Count(warm, p) >= Replicas THEN "pop" ELSE "create", NoInfo)
    /\ UNCHANGED <<status, maps, condemned, doomed, running, made, missed, strays, acquires, exits>>

\* _evict_oldest_warm: release times are left out, any warm sandbox may be the
\* oldest.
EvictWarm(p, s) ==
    /\ acq[p][s].pc = "pop"
    /\ \/ \E o \in Sandboxes :
              /\ warm[p][o] # NoInfo
              /\ PopWarm(p, o)
              /\ Goto(p, s, "evicting", warm[p][o])
       \/ Count(warm, p) = 0 /\ Goto(p, s, "create", NoInfo) /\ UNCHANGED warm
    /\ UNCHANGED <<status, active, condemned, doomed, running, made, missed, strays, acquires,
                   exits>>

StopEvicted(p, s) ==
    /\ acq[p][s].pc = "evicting"
    /\ Stop(acq[p][s].held)
    /\ Goto(p, s, "create", NoInfo)
    /\ UNCHANGED <<status, maps, condemned, doomed, made, strays, acquires, exits>>

\* The backend's create: a new container, or the one that has the name if
\* discovery accepts it now, or an error out of acquire.
Create(p, s) ==
    /\ acq[p][s].pc = "create"
    /\ \/ /\ running[s] = 0
          /\ made' = made + 1
          /\ running' = [running EXCEPT ![s] = made + 1]
          /\ Goto(p, s, "wait", ById(s, made + 1))
       \/ running[s] # 0 /\ Goto(p, s, "wait", ByName(s)) /\ UNCHANGED <<made, running>>
       \/ Finish(p, s) /\ UNCHANGED <<made, running>>
    /\ UNCHANGED <<status, maps, condemned, doomed, missed, strays, acquires, exits>>

\* wait_for_sandbox_ready: ready, or not in time.
Ready(p, s) ==
    /\ acq[p][s].pc = "wait"
    /\ Register(p, s)
    /\ UNCHANGED <<status, warm, condemned, doomed, running, made, missed, strays, acquires, exits>>

NotReady(p, s) ==
    /\ acq[p][s].pc = "wait"
    /\ Goto(p, s, "unready", acq[p][s].held)
    /\ UNCHANGED <<status, maps, condemned, doomed, running, made, missed, strays, acquires, exits>>

StopUnready(p, s) ==
    /\ acq[p][s].pc = "unready"
    /\ Stop(acq[p][s].held)
    /\ Finish(p, s)
    /\ UNCHANGED <<status, maps, condemned, doomed, made, strays, acquires, exits>>

\* docker run goes on for the sandboxes in S while the calls that started it
\* are gone: the number of the container it makes is given out here.
Abandon(S) ==
    /\ made' = IF S = {} THEN made ELSE made + 1
    /\ stray' = stray \cup [sb: S, gen: {made + 1}]
    /\ UNCHANGED orphans

\* acquire_async is cancelled at an await: its finally clauses release the file
\* lock and the thread lock at once, though the thread that a stop or a create
\* runs in goes on, and a container it was waiting for stays.  (A call
\* cancelled while its thread looks at the maps is not modelled.)
Cancel(p, s) ==
    /\ \/ /\ acq[p][s].pc \in {"lock", "discover", "found", "evict", "pop"}
          /\ UNCHANGED <<doomed, made, missed, strays>>
       \/ /\ acq[p][s].pc \in {"stopA", "stopW", "evicting", "unready"}
          /\ doomed' = [doomed EXCEPT ![p] = @ \cup {acq[p][s].held}]
          /\ UNCHANGED <<made, missed, strays>>
       \/ /\ acq[p][s].pc = "create"
          /\ Abandon({s})
          /\ UNCHANGED <<doomed, missed>>
       \/ /\ acq[p][s].pc = "wait"
          /\ missed' = missed \cup {s}
          /\ UNCHANGED <<doomed, made, strays>>
    /\ Finish(p, s)
    /\ UNCHANGED <<status, maps, condemned, running, acquires, exits>>

\* A create that nobody waits for makes its container; one that fails, or
\* meets its name in use, is one that never takes this step.
StrayCreate(c) ==
    /\ running[c.sb] = 0
    /\ running' = [running EXCEPT ![c.sb] = c.gen]
    /\ stray' = stray \ {c}
    /\ orphans' = orphans \cup {c.gen}
    /\ missed' = missed \cup {c.sb}
    /\ UNCHANGED <<status, maps, acq, condemned, doomed, made, acquires, exits>>

-----------------------------------------------------------------------------
(* release, the idle checker, shutdown and start.                          *)

Parked(p, s) == IF warm[p][s] = NoInfo THEN active[p][s] ELSE warm[p][s]

\* release, at the end of an agent call; uses are not counted.
Release(p, s) ==
    /\ status[p] # "down" /\ active[p][s] # NoInfo
    /\ active' = [active EXCEPT ![p][s] = NoInfo]
    /\ warm' = [warm EXCEPT ![p][s] = Parked(p, s)]
    /\ UNCHANGED <<status, acq, condemned, doomed, running, made, missed, strays, acquires, exits>>

\* _cleanup_idle_sandboxes pops a warm entry that expired ...
IdleWarm(p, s) ==
    /\ status[p] = "up" /\ warm[p][s] # NoInfo
    /\ PopWarm(p, s)
    /\ doomed' = [doomed EXCEPT ![p] = @ \cup {warm[p][s]}]
    /\ UNCHANGED <<status, active, acq, condemned, running, made, missed, strays, acquires, exits>>

\* ... and finds an active one idle, twice, before it calls destroy.
IdleActive(p, s) ==
    /\ status[p] = "up" /\ active[p][s] # NoInfo
    /\ condemned' = [condemned EXCEPT ![p] = @ \cup {s}]
    /\ UNCHANGED <<status, maps, acq, doomed, running, made, missed, strays, acquires, exits>>

\* (mutant) the info is not tested.
ToStopUntested(p, s) == {Tracked(p, s)}

\* The container destroy stops, if anything was tracked.
ToStop(p, s) == {Tracked(p, s)} \ {NoInfo}

\* destroy(sandbox_id), from the idle checker or shutdown: whatever is tracked
\* by then is taken off.
Destroy(p, s) ==
    /\ s \in condemned[p]
    /\ condemned' = [condemned EXCEPT ![p] = @ \ {s}]
    /\ Remove(p, s)
    /\ doomed' = [doomed EXCEPT ![p] = @ \cup ToStop(p, s)]
    /\ UNCHANGED <<status, acq, running, made, missed, strays, acquires, exits>>

StopDoomed(p, info) ==
    /\ info \in doomed[p]
    /\ doomed' = [doomed EXCEPT ![p] = @ \ {info}]
    /\ Stop(info)
    /\ UNCHANGED <<status, maps, acq, condemned, made, strays, acquires, exits>>

\* shutdown: one snapshot of both maps; calls in flight go on.
Shutdown(p) ==
    /\ status[p] = "up" /\ exits < MaxExits
    /\ status' = [status EXCEPT ![p] = "closing"]
    /\ condemned' = [condemned EXCEPT ![p] = @ \cup {s \in Sandboxes : active[p][s] # NoInfo}]
    /\ doomed' = [doomed EXCEPT ![p] = @ \cup ({warm[p][s] : s \in Sandboxes} \ {NoInfo})]
    /\ warm' = [warm EXCEPT ![p] = [s \in Sandboxes |-> NoInfo]]
    /\ exits' = exits + 1
    /\ UNCHANGED <<active, acq, running, made, missed, strays, acquires>>

\* The process is gone, with its maps, its calls and its locks; a docker run it
\* started may still end.
Forget(p) ==
    /\ status' = [status EXCEPT ![p] = "down"]
    /\ active' = [active EXCEPT ![p] = [s \in Sandboxes |-> NoInfo]]
    /\ warm' = [warm EXCEPT ![p] = [s \in Sandboxes |-> NoInfo]]
    /\ acq' = [acq EXCEPT ![p] = [s \in Sandboxes |-> Idle]]
    /\ condemned' = [condemned EXCEPT ![p] = {}]
    /\ doomed' = [doomed EXCEPT ![p] = {}]
    /\ Abandon({s \in Sandboxes : acq[p][s].pc = "create"})
    /\ UNCHANGED <<running, missed, acquires>>

Exit(p) ==
    /\ status[p] = "closing" /\ condemned[p] = {} /\ doomed[p] = {}
    /\ Forget(p)
    /\ UNCHANGED exits

Crash(p) ==
    /\ status[p] # "down" /\ exits < MaxExits
    /\ Forget(p)
    /\ exits' = exits + 1

\* (mutant) nothing is adopted.
AdoptedNone(p) == [s \in Sandboxes |-> NoInfo]

\* _reconcile_orphans: every container that runs goes to the warm pool.
Adopted(p) == [s \in Sandboxes |-> IF running[s] # 0 THEN ByName(s) ELSE NoInfo]

\* The provider starts; a list that fails adopts nothing.
Start(p) ==
    /\ status[p] = "down"
    /\ status' = [status EXCEPT ![p] = "up"]
    /\ \/ /\ warm' = [warm EXCEPT ![p] = Adopted(p)]
          /\ missed' = {}
       \/ /\ missed' = {s \in Sandboxes : running[s] # 0}
          /\ UNCHANGED warm
    /\ UNCHANGED <<active, acq, condemned, doomed, running, made, strays, acquires, exits>>

-----------------------------------------------------------------------------
\* One step of the acquire call of (p, s).
Step(p, s) ==
    \/ LookWarm(p, s) \/ CheckAlive(p, s) \/ TakeActive(p, s) \/ TakeWarm(p, s)
    \/ Drop(p, s) \/ StopDropped(p, s)
    \/ LockFile(p, s) \/ Discover(p, s) \/ RegisterDiscovered(p, s)
    \/ CheckReplicas(p, s) \/ EvictWarm(p, s) \/ StopEvicted(p, s) \/ Create(p, s)
    \/ Ready(p, s) \/ NotReady(p, s) \/ StopUnready(p, s) \/ Cancel(p, s)

Next ==
    \/ \E c \in stray : StrayCreate(c)
    \/ \E p \in Procs :
        \/ Shutdown(p) \/ Exit(p) \/ Crash(p) \/ Start(p)
        \/ \E i \in doomed[p] : StopDoomed(p, i)
        \/ \E s \in Sandboxes :
               \/ Acquire(p, s) \/ Step(p, s) \/ Release(p, s)
               \/ IdleWarm(p, s) \/ IdleActive(p, s) \/ Destroy(p, s)

Spec == Init /\ [][Next]_vars

-----------------------------------------------------------------------------
\* The types of the state.
TypeOK ==
    /\ status \in [Procs -> {"up", "closing", "down"}]
    /\ active \in [Procs -> [Sandboxes -> Infos \cup {NoInfo}]]
    /\ warm \in [Procs -> [Sandboxes -> Infos \cup {NoInfo}]]
    /\ acq \in [Procs -> [Sandboxes ->
                  [pc: Pcs, held: Infos \cup {NoInfo}, locked: BOOLEAN, blind: BOOLEAN]]]
    /\ condemned \in [Procs -> SUBSET Sandboxes]
    /\ doomed \in [Procs -> SUBSET Infos]
    /\ running \in [Sandboxes -> 0..MaxAcquires]
    /\ made \in 0..MaxAcquires
    /\ missed \subseteq Sandboxes
    /\ stray \subseteq [sb: Sandboxes, gen: 1..MaxAcquires]
    /\ orphans \subseteq 1..MaxAcquires

\* No process has a sandbox both active and warm, whichever of acquire,
\* release, eviction, the idle checker and shutdown move its entry in between
\* each other's steps: the eviction of such a warm entry would stop the
\* container of an active sandbox, and _replica_count would count it twice.
ActiveOrWarm ==
    \A p \in Procs, s \in Sandboxes : NoInfo \in {active[p][s], warm[p][s]}

\* Two calls that hold the file lock never race to create one sandbox: a
\* create meets its own name in use only if discovery of the same call saw a
\* container there and could not verify it (_discover_or_create_with_lock), or
\* if that container comes from a create whose own call was cancelled, which
\* releases the lock before docker run has ended, or whose process ended.
NoCreateRace ==
    \A p \in Procs, s \in Sandboxes :
        acq[p][s].pc = "create" /\ running[s] # 0 => acq[p][s].blind \/ running[s] \in orphans

\* What still leads to the container of s: an entry or a pending stop that
\* targets it, or a call about to register or stop it.
Reachable(s) ==
    running[s] # 0 /\
    \E p \in Procs :
        \E info \in {active[p][s], warm[p][s]} \cup doomed[p]
                    \cup {acq[p][t].held : t \in {u \in Sandboxes :
                              acq[p][u].pc \in {"stopA", "stopW", "found", "evicting",
                                                "wait", "unready"}}} :
            info # NoInfo /\ info.sb = s /\ Targets(info)

\* No interleaving leaks a container: one that runs is led to by an entry, a
\* pending stop or a call, unless a stop failed, an acquire was cancelled in
\* its create or its wait, a create ended after the process that started it or
\* a start could not list the containers; and what a crash or a shutdown leaves
\* behind is taken over by the next start of that process (_reconcile_orphans:
\* "closes the fundamental gap").
EveryContainerOwned ==
    \A s \in Sandboxes :
        running[s] # 0 => \/ Reachable(s)
                          \/ s \in missed
                          \/ \E p \in Procs : status[p] = "down"
=============================================================================
