--------------------------- MODULE SandboxProofs ---------------------------
(***************************************************************************)
(* The sandbox pool for any number of processes and sandboxes, any replica *)
(* limit and any number of acquires and crashes: the state keeps its       *)
(* types, no sandbox is active and warm at once, creates of one sandbox do *)
(* not race, and no container is leaked.                                   *)
(***************************************************************************)
EXTENDS SandboxPool, FiniteSetTheorems, TLAPS

USE SandboxAssumption

AnyInfo == [sb: Sandboxes, gen: Nat, byId: BOOLEAN] \cup {NoInfo}
Calls == [pc: Pcs, held: AnyInfo, locked: BOOLEAN, blind: BOOLEAN]

\* The shape of the maps and calls; generations are not bounded here.
Shape ==
    /\ status \in [Procs -> {"up", "closing", "down"}]
    /\ active \in [Procs -> [Sandboxes -> AnyInfo]]
    /\ warm \in [Procs -> [Sandboxes -> AnyInfo]]
    /\ acq \in [Procs -> [Sandboxes -> Calls]]
    /\ running \in [Sandboxes -> Nat]
    /\ made \in Nat

\* Numbers are given out in order, to containers and to creates that no call
\* waits for.
StrayInv == stray \subseteq [sb: Sandboxes, gen: 1 .. made] /\ orphans \subseteq 1 .. made

-----------------------------------------------------------------------------
(* Each step changes the call, and the entries, of few sandboxes.          *)

\* A call moves on: (p, s) is at l with info in hand, its locks unchanged.
LEMMA GotoIs ==
    ASSUME Shape, NEW p \in Procs, NEW s \in Sandboxes, NEW l \in Pcs, NEW info \in AnyInfo,
           Goto(p, s, l, info)
    PROVE  /\ acq' \in [Procs -> [Sandboxes -> Calls]]
           /\ acq'[p][s].pc = l /\ acq'[p][s].held = info
           /\ acq'[p][s].locked = acq[p][s].locked /\ acq'[p][s].blind = acq[p][s].blind
           /\ \A q \in Procs, u \in Sandboxes : q # p \/ u # s => acq'[q][u] = acq[q][u]
  <1>1. ASSUME NEW c \in Calls PROVE [c EXCEPT !.pc = l, !.held = info] \in Calls
    BY DEF Calls
  <1>2. acq[p][s] \in Calls
    BY DEF Shape
  <1>3. /\ acq' \in [Procs -> [Sandboxes -> Calls]]
        /\ acq'[p][s] = [acq[p][s] EXCEPT !.pc = l, !.held = info]
        /\ \A q \in Procs, u \in Sandboxes : q # p \/ u # s => acq'[q][u] = acq[q][u]
    BY <1>1 DEF Goto, Shape
  <1> QED BY <1>2, <1>3 DEF Calls

\* A call returns or raises, and gives its locks back.
LEMMA FinishIs ==
    ASSUME Shape, NEW p \in Procs, NEW s \in Sandboxes, Finish(p, s)
    PROVE  /\ acq' \in [Procs -> [Sandboxes -> Calls]]
           /\ acq'[p][s] = Idle
           /\ \A q \in Procs, u \in Sandboxes : q # p \/ u # s => acq'[q][u] = acq[q][u]
  <1>1. Idle \in Calls
    BY DEF Idle, Calls, Pcs, AnyInfo
  <1> QED BY <1>1 DEF Finish, Shape

\* The entry of (p, s) leaves the warm pool.
LEMMA PopWarmIs ==
    ASSUME Shape, NEW p \in Procs, NEW s \in Sandboxes, PopWarm(p, s)
    PROVE  /\ warm' \in [Procs -> [Sandboxes -> AnyInfo]]
           /\ warm'[p][s] = NoInfo
           /\ \A q \in Procs, u \in Sandboxes : q # p \/ u # s => warm'[q][u] = warm[q][u]
  BY DEF PopWarm, Shape, AnyInfo

\* The entry of (p, s) becomes info.
LEMMA ActivateIs ==
    ASSUME Shape, NEW p \in Procs, NEW s \in Sandboxes, NEW info \in AnyInfo,
           active' = [active EXCEPT ![p][s] = info]
    PROVE  /\ active' \in [Procs -> [Sandboxes -> AnyInfo]]
           /\ active'[p][s] = info
           /\ \A q \in Procs, u \in Sandboxes : q # p \/ u # s => active'[q][u] = active[q][u]
  BY DEF Shape

\* The entries of (p, s) leave both maps.
LEMMA RemoveIs ==
    ASSUME Shape, NEW p \in Procs, NEW s \in Sandboxes, Remove(p, s)
    PROVE  /\ active' \in [Procs -> [Sandboxes -> AnyInfo]]
           /\ warm' \in [Procs -> [Sandboxes -> AnyInfo]]
           /\ active'[p][s] = NoInfo /\ warm'[p][s] = NoInfo
           /\ \A q \in Procs, u \in Sandboxes : q # p \/ u # s =>
                 active'[q][u] = active[q][u] /\ warm'[q][u] = warm[q][u]
  <1>1. PopWarm(p, s)
    BY DEF Remove, PopWarm
  <1>2. /\ active' \in [Procs -> [Sandboxes -> AnyInfo]]
        /\ active'[p][s] = NoInfo
        /\ \A q \in Procs, u \in Sandboxes : q # p \/ u # s => active'[q][u] = active[q][u]
    BY DEF Remove, Shape, AnyInfo
  <1>3. /\ warm' \in [Procs -> [Sandboxes -> AnyInfo]]
        /\ warm'[p][s] = NoInfo
        /\ \A q \in Procs, u \in Sandboxes : q # p \/ u # s => warm'[q][u] = warm[q][u]
    BY <1>1, PopWarmIs
  <1> QED BY <1>2, <1>3

-----------------------------------------------------------------------------
(* Active or warm.                                                         *)

\* Where a call is past its look at the active map, and past both.
PastActive == {"warm", "aliveW", "takeW", "dropW", "stopA", "stopW", "lock"}
PastBoth == {"discover", "found", "evict", "pop", "evicting", "create", "wait", "unready"}

\* What a call may rely on: what it looked at is still there or was taken off,
\* and nobody puts an entry where it found none.
CallAt(p, s, l, info) ==
    /\ l \in {"aliveA", "takeA", "dropA"} => active[p][s] \in {info, NoInfo}
    /\ l \in PastActive => active[p][s] = NoInfo
    /\ l \in {"aliveW", "takeW", "dropW"} => warm[p][s] \in {info, NoInfo}
    /\ l = "stopW" => warm[p][s] = NoInfo
    /\ l \in PastBoth => active[p][s] = NoInfo /\ warm[p][s] = NoInfo
    /\ status[p] = "down" => active[p][s] = NoInfo /\ l = "idle"
    /\ NoInfo \in {active[p][s], warm[p][s]}

CallInv(p, s) == CallAt(p, s, acq[p][s].pc, acq[p][s].held)

PoolInv == Shape /\ \A p \in Procs, s \in Sandboxes : CallInv(p, s)

\* What other steps may do to the entries of a call: take them off, or park
\* the active one in the warm pool.
Shrinks(p, s) ==
    /\ acq'[p][s] = acq[p][s]
    /\ status'[p] = "down" => status[p] = "down"
    /\ \/ active'[p][s] = active[p][s] /\ warm'[p][s] \in {warm[p][s], NoInfo}
       \/ active'[p][s] = NoInfo /\ warm'[p][s] \in {warm[p][s], NoInfo}
       \/ active[p][s] # NoInfo /\ active'[p][s] = NoInfo

LEMMA ShrinkKeeps ==
    ASSUME Shape, NEW p \in Procs, NEW s \in Sandboxes, CallInv(p, s), Shrinks(p, s)
    PROVE  CallInv(p, s)'
  BY DEF CallInv, CallAt, Shrinks, PastActive, PastBoth

\* A step of the call of (p, s) that leaves the maps alone.
LEMMA CallMoves ==
    ASSUME PoolInv, NEW p \in Procs, NEW s \in Sandboxes, NEW l \in Pcs, NEW info \in AnyInfo,
           Goto(p, s, l, info), CallAt(p, s, l, info), UNCHANGED <<status, active, warm>>,
           running' \in [Sandboxes -> Nat], made' \in Nat
    PROVE  PoolInv'
  <1>1. /\ acq' \in [Procs -> [Sandboxes -> Calls]]
        /\ acq'[p][s].pc = l /\ acq'[p][s].held = info
        /\ \A q \in Procs, u \in Sandboxes : q # p \/ u # s => acq'[q][u] = acq[q][u]
    <2>1. Shape
      BY DEF PoolInv
    <2> QED BY <2>1, GotoIs
  <1>2. Shape'
    BY <1>1 DEF PoolInv, Shape
  <1>3. CallInv(p, s)'
    BY <1>1 DEF CallInv, CallAt
  <1>4. ASSUME NEW q \in Procs, NEW u \in Sandboxes, q # p \/ u # s PROVE CallInv(q, u)'
    <2>1. acq'[q][u] = acq[q][u]
      BY <1>1, <1>4
    <2> QED BY <2>1 DEF PoolInv, CallInv, CallAt
  <1> QED BY <1>2, <1>3, <1>4 DEF PoolInv

\* The call of (p, s) ends and leaves the maps alone, or activates info.
LEMMA CallEnds ==
    ASSUME PoolInv, NEW p \in Procs, NEW s \in Sandboxes, Finish(p, s),
           acq[p][s].pc # "idle", status' = status,
           warm' \in [Procs -> [Sandboxes -> AnyInfo]],
           active' \in [Procs -> [Sandboxes -> AnyInfo]],
           NoInfo \in {active'[p][s], warm'[p][s]},
           \A q \in Procs, u \in Sandboxes : q # p \/ u # s =>
                active'[q][u] = active[q][u] /\ warm'[q][u] = warm[q][u],
           running' \in [Sandboxes -> Nat], made' \in Nat
    PROVE  PoolInv'
  <1>1. Shape'
    BY FinishIs DEF PoolInv, Shape
  <1>2. acq'[p][s].pc = "idle" /\ status[p] # "down"
    BY FinishIs DEF PoolInv, Idle, CallInv, CallAt
  <1>3. CallInv(p, s)'
    BY <1>2 DEF CallInv, CallAt, PastActive, PastBoth
  <1>4. ASSUME NEW q \in Procs, NEW u \in Sandboxes, q # p \/ u # s PROVE CallInv(q, u)'
    <2>1. /\ acq'[q][u] = acq[q][u]
          /\ active'[q][u] = active[q][u] /\ warm'[q][u] = warm[q][u]
      BY <1>4, FinishIs DEF PoolInv
    <2> QED BY <2>1 DEF PoolInv, CallInv, CallAt
  <1> QED BY <1>1, <1>3, <1>4 DEF PoolInv

\* docker stop.
LEMMA StopIs ==
    ASSUME Shape, NEW info, Stop(info) PROVE running' \in [Sandboxes -> Nat]
  BY DEF Stop, Shape

\* The entries of the call in hand, as its steps use them.
LEMMA CallFacts ==
    ASSUME PoolInv, NEW p \in Procs, NEW s \in Sandboxes
    PROVE  /\ Shape /\ CallInv(p, s)
           /\ acq[p][s] \in Calls /\ acq[p][s].held \in AnyInfo
           /\ active[p][s] \in AnyInfo /\ warm[p][s] \in AnyInfo /\ NoInfo \in AnyInfo
           /\ running \in [Sandboxes -> Nat] /\ made \in Nat
           /\ BeyondWarm(p, s) \in {"discover", "lock"}
           /\ acq[p][s].pc # "idle" => status[p] # "down"
  <1>1. Shape /\ CallInv(p, s)
    BY DEF PoolInv
  <1>2. acq[p][s] \in Calls
    BY <1>1 DEF Shape
  <1> QED BY <1>1, <1>2 DEF Shape, CallInv, CallAt, Calls, AnyInfo, BeyondWarm

\* The steps of a call that only look, stop containers or move on.
LEMMA LooksKeep ==
    ASSUME PoolInv, NEW p \in Procs, NEW s \in Sandboxes,
           \/ LookWarm(p, s) \/ CheckAlive(p, s) \/ TakeActive(p, s) \/ StopDropped(p, s)
           \/ CheckReplicas(p, s) \/ StopEvicted(p, s) \/ NotReady(p, s)
    PROVE  PoolInv'
  <1> USE DEF maps
  <1>0. /\ Shape /\ CallInv(p, s)
        /\ acq[p][s] \in Calls /\ acq[p][s].held \in AnyInfo
        /\ active[p][s] \in AnyInfo /\ warm[p][s] \in AnyInfo /\ NoInfo \in AnyInfo
        /\ running \in [Sandboxes -> Nat] /\ made \in Nat
        /\ BeyondWarm(p, s) \in {"discover", "lock"}
        /\ acq[p][s].pc # "idle" => status[p] # "down"
    BY CallFacts
  <1>1. CASE LookWarm(p, s)
    <2>1. PICK l \in {"aliveW", "discover", "lock"} :
            /\ Goto(p, s, l, warm[p][s])
            /\ l # "aliveW" => warm[p][s] = NoInfo
      BY <1>0, <1>1 DEF LookWarm
    <2>2. l \in Pcs /\ CallAt(p, s, l, warm[p][s])
      BY <1>0, <1>1, <2>1 DEF LookWarm, CallInv, CallAt, Pcs, PastActive, PastBoth
    <2> QED BY <1>0, <1>1, <2>1, <2>2, CallMoves DEF LookWarm
  <1>2. CASE CheckAlive(p, s)
    <2>1. PICK l \in {"takeA", "dropA", "takeW", "dropW"} :
            /\ Goto(p, s, l, acq[p][s].held)
            /\ acq[p][s].pc = IF l \in {"takeA", "dropA"} THEN "aliveA" ELSE "aliveW"
      BY <1>2 DEF CheckAlive
    <2>2. l \in Pcs /\ CallAt(p, s, l, acq[p][s].held)
      BY <1>0, <2>1 DEF CallInv, CallAt, Pcs, PastActive, PastBoth
    <2> QED BY <1>0, <1>2, <2>1, <2>2, CallMoves DEF CheckAlive
  <1>3. CASE TakeActive(p, s)
    <2>1. CASE active[p][s] # NoInfo
      <3>1. NoInfo \in {active[p][s], warm[p][s]}
        BY <1>0 DEF CallInv, CallAt
      <3> QED BY <1>0, <1>3, <2>1, <3>1, CallEnds DEF TakeActive, Shape
    <2>2. CASE active[p][s] = NoInfo
      <3>1. "warm" \in Pcs /\ CallAt(p, s, "warm", NoInfo)
        BY <1>0, <1>3, <2>2 DEF TakeActive, CallInv, CallAt, Pcs, PastActive, PastBoth
      <3> QED BY <1>0, <1>3, <2>2, <3>1, CallMoves DEF TakeActive
    <2> QED BY <2>1, <2>2
  <1>4. CASE StopDropped(p, s)
    <2>1. PICK l \in {"warm", "discover", "lock"} :
            Goto(p, s, l, NoInfo) /\ (acq[p][s].pc = "stopA" => l = "warm")
      BY <1>0, <1>4 DEF StopDropped
    <2>2. l \in Pcs /\ CallAt(p, s, l, NoInfo)
      BY <1>0, <1>4, <2>1 DEF StopDropped, CallInv, CallAt, Pcs, PastActive, PastBoth
    <2>3. running' \in [Sandboxes -> Nat]
      BY <1>0, <1>4, StopIs DEF StopDropped
    <2> QED BY <1>0, <1>4, <2>1, <2>2, <2>3, CallMoves DEF StopDropped
  <1>5. CASE StopEvicted(p, s)
    <2>1. "create" \in Pcs /\ CallAt(p, s, "create", NoInfo)
      BY <1>0, <1>5 DEF StopEvicted, CallInv, CallAt, Pcs, PastActive, PastBoth
    <2>2. running' \in [Sandboxes -> Nat]
      BY <1>0, <1>5, StopIs DEF StopEvicted
    <2> QED BY <1>0, <1>5, <2>1, <2>2, CallMoves DEF StopEvicted
  <1>6. CASE NotReady(p, s)
    <2>1. "unready" \in Pcs /\ CallAt(p, s, "unready", acq[p][s].held)
      BY <1>0, <1>6 DEF NotReady, CallInv, CallAt, Pcs, PastActive, PastBoth
    <2> QED BY <1>0, <1>6, <2>1, CallMoves DEF NotReady
  <1>7. CASE CheckReplicas(p, s)
    <2>1. PICK l \in {"pop", "create"} : Goto(p, s, l, NoInfo)
      BY <1>7 DEF CheckReplicas
    <2>2. l \in Pcs /\ CallAt(p, s, l, NoInfo)
      BY <1>0, <1>7 DEF CheckReplicas, CallInv, CallAt, Pcs, PastActive, PastBoth
    <2> QED BY <1>0, <1>7, <2>1, <2>2, CallMoves DEF CheckReplicas
  <1> QED BY <1>1, <1>2, <1>3, <1>4, <1>5, <1>6, <1>7

\* A step of the call of (p, s) that changes entries: its own as it needs
\* them, and others only out of the warm pool.
LEMMA CallChanges ==
    ASSUME PoolInv, NEW p \in Procs, NEW s \in Sandboxes, NEW l \in Pcs, NEW info \in AnyInfo,
           Goto(p, s, l, info), CallAt(p, s, l, info)', status' = status,
           active' \in [Procs -> [Sandboxes -> AnyInfo]],
           warm' \in [Procs -> [Sandboxes -> AnyInfo]],
           \A q \in Procs, u \in Sandboxes : q # p \/ u # s =>
                active'[q][u] = active[q][u] /\ warm'[q][u] \in {warm[q][u], NoInfo},
           running' \in [Sandboxes -> Nat], made' \in Nat
    PROVE  PoolInv'
  <1>1. /\ acq' \in [Procs -> [Sandboxes -> Calls]]
        /\ acq'[p][s].pc = l /\ acq'[p][s].held = info
        /\ \A q \in Procs, u \in Sandboxes : q # p \/ u # s => acq'[q][u] = acq[q][u]
    <2>1. Shape
      BY DEF PoolInv
    <2> QED BY <2>1, GotoIs
  <1>2. Shape'
    BY <1>1 DEF PoolInv, Shape
  <1>3. CallInv(p, s)'
    BY <1>1 DEF CallInv, CallAt
  <1>4. ASSUME NEW q \in Procs, NEW u \in Sandboxes, q # p \/ u # s PROVE CallInv(q, u)'
    <2>1. Shrinks(q, u)
      BY <1>1, <1>4 DEF Shrinks
    <2> QED BY <2>1, ShrinkKeeps DEF PoolInv
  <1> QED BY <1>2, <1>3, <1>4 DEF PoolInv

\* The steps of a call that move entries.
LEMMA MovesKeep ==
    ASSUME PoolInv, NEW p \in Procs, NEW s \in Sandboxes,
           TakeWarm(p, s) \/ Drop(p, s) \/ EvictWarm(p, s)
    PROVE  PoolInv'
  <1> USE DEF maps
  <1>0. /\ Shape /\ CallInv(p, s)
        /\ acq[p][s] \in Calls /\ acq[p][s].held \in AnyInfo
        /\ active[p][s] \in AnyInfo /\ warm[p][s] \in AnyInfo /\ NoInfo \in AnyInfo
        /\ running \in [Sandboxes -> Nat] /\ made \in Nat
        /\ BeyondWarm(p, s) \in {"discover", "lock"}
        /\ acq[p][s].pc # "idle" => status[p] # "down"
    BY CallFacts
  <1>1. CASE TakeWarm(p, s)
    <2>1. CASE warm[p][s] # NoInfo
      <3>1. /\ warm' \in [Procs -> [Sandboxes -> AnyInfo]]
            /\ warm'[p][s] = NoInfo
            /\ \A q \in Procs, u \in Sandboxes : q # p \/ u # s => warm'[q][u] = warm[q][u]
        BY <1>0, <1>1, <2>1, PopWarmIs DEF TakeWarm
      <3>2. /\ active' \in [Procs -> [Sandboxes -> AnyInfo]]
            /\ \A q \in Procs, u \in Sandboxes : q # p \/ u # s => active'[q][u] = active[q][u]
        BY <1>0, <1>1, <2>1, ActivateIs DEF TakeWarm
      <3> QED BY <1>0, <1>1, <2>1, <3>1, <3>2, CallEnds DEF TakeWarm
    <2>2. CASE warm[p][s] = NoInfo
      <3>1. PICK l \in {"discover", "lock"} : Goto(p, s, l, NoInfo)
        BY <1>0, <1>1, <2>2 DEF TakeWarm
      <3>2. l \in Pcs /\ CallAt(p, s, l, NoInfo)
        BY <1>0, <1>1, <2>2 DEF TakeWarm, CallInv, CallAt, Pcs, PastActive, PastBoth
      <3> QED BY <1>0, <1>1, <2>2, <3>1, <3>2, CallMoves DEF TakeWarm
    <2> QED BY <2>1, <2>2
  <1>2. CASE Drop(p, s)
    <2>1. CASE acq[p][s].held \in {active[p][s], warm[p][s]}
      <3>1. PICK l \in {"stopA", "stopW"}, info \in AnyInfo : Goto(p, s, l, info)
        BY <1>0, <1>2, <2>1 DEF Drop, Tracked
      <3>2. /\ active' \in [Procs -> [Sandboxes -> AnyInfo]]
            /\ warm' \in [Procs -> [Sandboxes -> AnyInfo]]
            /\ active'[p][s] = NoInfo /\ warm'[p][s] = NoInfo
            /\ \A q \in Procs, u \in Sandboxes : q # p \/ u # s =>
                  active'[q][u] = active[q][u] /\ warm'[q][u] = warm[q][u]
        BY <1>0, <1>2, <2>1, RemoveIs DEF Drop
      <3>3. status' = status /\ acq[p][s].pc # "idle"
        BY <1>2 DEF Drop
      <3>4. l \in Pcs /\ CallAt(p, s, l, info)'
        BY <1>0, <3>2, <3>3 DEF CallAt, Pcs, PastActive, PastBoth
      <3> QED BY <1>0, <1>2, <3>1, <3>2, <3>3, <3>4, CallChanges DEF Drop
    <2>2. CASE acq[p][s].held \notin {active[p][s], warm[p][s]}
      <3>1. PICK l \in {"warm", "discover", "lock"} :
              Goto(p, s, l, NoInfo) /\ (acq[p][s].pc = "dropA" => l = "warm")
        BY <1>0, <1>2, <2>2 DEF Drop
      <3>2. l \in Pcs /\ CallAt(p, s, l, NoInfo)
        BY <1>0, <1>2, <2>2, <3>1 DEF Drop, CallInv, CallAt, Pcs, PastActive, PastBoth
      <3> QED BY <1>0, <1>2, <2>2, <3>1, <3>2, CallMoves DEF Drop
    <2> QED BY <2>1, <2>2
  <1>3. CASE EvictWarm(p, s)
    <2>0. /\ active[p][s] = NoInfo /\ warm[p][s] = NoInfo
          /\ status[p] # "down" /\ status' = status /\ active' = active
      BY <1>0, <1>3 DEF EvictWarm, CallInv, CallAt, PastBoth
    <2>1. CASE UNCHANGED warm /\ Goto(p, s, "create", NoInfo)
      <3>1. "create" \in Pcs /\ CallAt(p, s, "create", NoInfo)
        BY <2>0 DEF CallAt, Pcs, PastActive, PastBoth
      <3> QED BY <1>0, <1>3, <2>1, <3>1, CallMoves DEF EvictWarm
    <2>2. ASSUME NEW o \in Sandboxes, PopWarm(p, o), Goto(p, s, "evicting", warm[p][o])
          PROVE  PoolInv'
      <3>1. /\ warm' \in [Procs -> [Sandboxes -> AnyInfo]]
            /\ warm'[p][o] = NoInfo
            /\ \A q \in Procs, u \in Sandboxes : q # p \/ u # o => warm'[q][u] = warm[q][u]
        BY <1>0, <2>2, PopWarmIs
      <3>2. PICK info \in AnyInfo : Goto(p, s, "evicting", info)
        BY <1>0, <2>2 DEF Shape
      <3>3. warm'[p][s] = NoInfo
        BY <2>0, <3>1
      <3>4. "evicting" \in Pcs /\ CallAt(p, s, "evicting", info)'
        BY <2>0, <3>3 DEF CallAt, Pcs, PastActive, PastBoth
      <3>5. active' \in [Procs -> [Sandboxes -> AnyInfo]]
        BY <1>0, <2>0 DEF Shape
      <3>6. \A q \in Procs, u \in Sandboxes : q # p \/ u # s =>
                active'[q][u] = active[q][u] /\ warm'[q][u] \in {warm[q][u], NoInfo}
        BY <2>0, <3>1
      <3>7. running' \in [Sandboxes -> Nat] /\ made' \in Nat
        BY <1>0, <1>3 DEF EvictWarm
      <3> QED BY <2>0, <3>1, <3>2, <3>4, <3>5, <3>6, <3>7, CallChanges
    <2> QED BY <1>3, <2>1, <2>2 DEF EvictWarm
  <1> QED BY <1>1, <1>2, <1>3

\* A call looks at the active map, at its start or under the file lock.
LEMMA LookActiveKeeps ==
    ASSUME PoolInv, NEW p \in Procs, NEW s \in Sandboxes, NEW b \in BOOLEAN,
           acq' = [acq EXCEPT ![p][s] = LookActive(p, s, b)], status[p] # "down",
           UNCHANGED <<status, active, warm, running, made>>
    PROVE  PoolInv'
  <1>0. /\ Shape /\ CallInv(p, s) /\ active[p][s] \in AnyInfo
    BY CallFacts
  <1>1. LookActive(p, s, b) \in Calls
    BY <1>0 DEF LookActive, Calls, Pcs
  <1>2. /\ acq' \in [Procs -> [Sandboxes -> Calls]]
        /\ acq'[p][s] = LookActive(p, s, b)
        /\ \A q \in Procs, u \in Sandboxes : q # p \/ u # s => acq'[q][u] = acq[q][u]
    BY <1>0, <1>1 DEF Shape
  <1>3. Shape'
    BY <1>0, <1>2 DEF Shape
  <1>4. /\ acq'[p][s].held = active[p][s]
        /\ acq'[p][s].pc = IF active[p][s] # NoInfo THEN "aliveA" ELSE "warm"
    BY <1>2 DEF LookActive
  <1>5. CallInv(p, s)'
    BY <1>0, <1>4 DEF CallInv, CallAt, PastActive, PastBoth
  <1>6. ASSUME NEW q \in Procs, NEW u \in Sandboxes, q # p \/ u # s PROVE CallInv(q, u)'
    <2>1. acq'[q][u] = acq[q][u]
      BY <1>2, <1>6
    <2> QED BY <2>1 DEF PoolInv, CallInv, CallAt
  <1> QED BY <1>3, <1>5, <1>6 DEF PoolInv

\* The steps of a call under the file lock.
LEMMA LockedKeep ==
    ASSUME PoolInv, NEW p \in Procs, NEW s \in Sandboxes,
           \/ Acquire(p, s) \/ LockFile(p, s) \/ Discover(p, s) \/ RegisterDiscovered(p, s)
           \/ Create(p, s) \/ Ready(p, s) \/ Cancel(p, s) \/ StopUnready(p, s)
    PROVE  PoolInv'
  <1> USE DEF maps
  <1>0. /\ Shape /\ CallInv(p, s)
        /\ acq[p][s] \in Calls /\ acq[p][s].held \in AnyInfo
        /\ active[p][s] \in AnyInfo /\ warm[p][s] \in AnyInfo /\ NoInfo \in AnyInfo
        /\ running \in [Sandboxes -> Nat] /\ made \in Nat
        /\ BeyondWarm(p, s) \in {"discover", "lock"}
        /\ acq[p][s].pc # "idle" => status[p] # "down"
    BY CallFacts
  <1>a. active \in [Procs -> [Sandboxes -> AnyInfo]] /\ warm \in [Procs -> [Sandboxes -> AnyInfo]]
    BY <1>0 DEF Shape
  <1>b. ASSUME acq[p][s].pc \in PastBoth PROVE active[p][s] = NoInfo /\ warm[p][s] = NoInfo
    BY <1>0, <1>b DEF CallInv, CallAt
  <1>1. CASE Acquire(p, s)
    BY <1>1, LookActiveKeeps DEF Acquire
  <1>2. CASE LockFile(p, s)
    BY <1>0, <1>2, LookActiveKeeps DEF LockFile
  <1>3. CASE Discover(p, s)
    <2>0. /\ active[p][s] = NoInfo /\ warm[p][s] = NoInfo /\ status[p] # "down"
      BY <1>0, <1>b, <1>3 DEF Discover, PastBoth
    <2>1. CASE Goto(p, s, "found", ByName(s))
      <3>1. ByName(s) \in AnyInfo
        BY <1>0 DEF ByName, AnyInfo
      <3>2. "found" \in Pcs /\ CallAt(p, s, "found", ByName(s))
        BY <2>0 DEF CallAt, Pcs, PastActive, PastBoth
      <3> QED BY <1>0, <1>3, <2>1, <3>1, <3>2, CallMoves DEF Discover
    <2>2. CASE acq' = [acq EXCEPT ![p][s] =
                 [@ EXCEPT !.pc = "evict", !.held = NoInfo, !.blind = running[s] # 0]]
      <3>1. ASSUME NEW c \in Calls, NEW b \in BOOLEAN
            PROVE  [c EXCEPT !.pc = "evict", !.held = NoInfo, !.blind = b] \in Calls
        BY <1>0 DEF Calls, Pcs
      <3>2. (running[s] # 0) \in BOOLEAN
        OBVIOUS
      <3>3. /\ acq' \in [Procs -> [Sandboxes -> Calls]]
            /\ acq'[p][s] = [acq[p][s] EXCEPT !.pc = "evict", !.held = NoInfo,
                                              !.blind = running[s] # 0]
            /\ \A q \in Procs, u \in Sandboxes : q # p \/ u # s => acq'[q][u] = acq[q][u]
        BY <1>0, <2>2, <3>1, <3>2 DEF Shape
      <3>4. acq'[p][s].pc = "evict"
        BY <1>0, <3>3 DEF Calls
      <3>5. Shape'
        BY <1>0, <1>3, <3>3 DEF Shape, Discover
      <3>6. CallInv(p, s)'
        BY <1>3, <2>0, <3>4 DEF Discover, CallInv, CallAt, PastActive, PastBoth
      <3>7. ASSUME NEW q \in Procs, NEW u \in Sandboxes, q # p \/ u # s PROVE CallInv(q, u)'
        <4>1. acq'[q][u] = acq[q][u] /\ UNCHANGED <<status, active, warm>>
          BY <1>3, <3>3, <3>7 DEF Discover
        <4> QED BY <4>1 DEF PoolInv, CallInv, CallAt
      <3> QED BY <3>5, <3>6, <3>7 DEF PoolInv
    <2> QED BY <1>3, <2>1, <2>2 DEF Discover
  <1>4. ASSUME acq[p][s].pc \in {"found", "wait"}, Register(p, s),
               UNCHANGED <<status, warm, running, made>>
        PROVE  PoolInv'
    <2>1. warm[p][s] = NoInfo
      BY <1>b, <1>4 DEF PastBoth
    <2>2. /\ active' \in [Procs -> [Sandboxes -> AnyInfo]]
          /\ \A q \in Procs, u \in Sandboxes : q # p \/ u # s => active'[q][u] = active[q][u]
      <3>1. PICK info \in AnyInfo : active' = [active EXCEPT ![p][s] = info]
        BY <1>0, <1>4 DEF Register
      <3> QED BY <1>a, <3>1
    <2>3. Finish(p, s)
      BY <1>4 DEF Register
    <2> QED BY <1>0, <1>a, <1>4, <2>1, <2>2, <2>3, CallEnds
  <1>5. CASE RegisterDiscovered(p, s)
    BY <1>4, <1>5 DEF RegisterDiscovered
  <1>6. CASE Ready(p, s)
    BY <1>4, <1>6 DEF Ready
  <1>7. ASSUME acq[p][s].pc \in {"create", "wait", "unready"}, Finish(p, s),
               UNCHANGED <<status, active, warm, made>>, running' \in [Sandboxes -> Nat]
        PROVE  PoolInv'
    <2>1. active[p][s] = NoInfo
      BY <1>b, <1>7 DEF PastBoth
    <2> QED BY <1>0, <1>a, <1>7, <2>1, CallEnds
  <1>8. CASE Create(p, s)
    <2>0. /\ active[p][s] = NoInfo /\ warm[p][s] = NoInfo /\ status[p] # "down"
      BY <1>0, <1>b, <1>8 DEF Create, PastBoth
    <2>1. ASSUME NEW info \in AnyInfo, Goto(p, s, "wait", info),
                 running' \in [Sandboxes -> Nat], made' \in Nat
          PROVE  PoolInv'
      <3>1. "wait" \in Pcs /\ CallAt(p, s, "wait", info)
        BY <2>0 DEF CallAt, Pcs, PastActive, PastBoth
      <3> QED BY <1>8, <2>1, <3>1, CallMoves DEF Create
    <2>2. CASE /\ made' = made + 1
               /\ running' = [running EXCEPT ![s] = made + 1]
               /\ Goto(p, s, "wait", ById(s, made + 1))
      <3>1. ById(s, made + 1) \in AnyInfo
        BY <1>0 DEF ById, AnyInfo
      <3> QED BY <1>0, <2>1, <2>2, <3>1
    <2>3. CASE Goto(p, s, "wait", ByName(s)) /\ UNCHANGED <<made, running>>
      <3>1. ByName(s) \in AnyInfo
        BY <1>0 DEF ByName, AnyInfo
      <3> QED BY <1>0, <2>1, <2>3, <3>1
    <2>4. CASE Finish(p, s) /\ UNCHANGED <<made, running>>
      BY <1>0, <1>7, <1>8, <2>4 DEF Create
    <2> QED BY <1>8, <2>2, <2>3, <2>4 DEF Create
  <1>9. CASE Cancel(p, s)
    <2>1. Finish(p, s) /\ UNCHANGED <<status, active, warm, running>> /\ acq[p][s].pc # "idle"
      BY <1>9 DEF Cancel
    <2>2. made' \in Nat
      BY <1>0, <1>9 DEF Cancel, Abandon, strays
    <2>3. NoInfo \in {active[p][s], warm[p][s]}
      BY <1>0 DEF CallInv, CallAt
    <2> QED BY <1>0, <1>a, <2>1, <2>2, <2>3, CallEnds
  <1>10. CASE StopUnready(p, s)
    <2>1. running' \in [Sandboxes -> Nat]
      BY <1>0, <1>10, StopIs DEF StopUnready
    <2> QED BY <1>7, <1>10, <2>1 DEF StopUnready
  <1> QED BY <1>1, <1>2, <1>3, <1>5, <1>6, <1>8, <1>9, <1>10

\* A step in which every entry only shrinks.
LEMMA AllShrink ==
    ASSUME PoolInv, Shape', \A p \in Procs, s \in Sandboxes : Shrinks(p, s)
    PROVE  PoolInv'
  <1>1. ASSUME NEW p \in Procs, NEW s \in Sandboxes PROVE CallInv(p, s)'
    BY ShrinkKeeps DEF PoolInv
  <1> QED BY <1>1 DEF PoolInv

\* release, the idle checker and shutdown.
LEMMA CleanupKeeps ==
    ASSUME PoolInv, NEW p \in Procs, NEW s \in Sandboxes,
           \/ Release(p, s) \/ IdleWarm(p, s) \/ IdleActive(p, s) \/ Destroy(p, s)
    PROVE  PoolInv'
  <1> USE DEF maps
  <1>0. Shape /\ active[p][s] \in AnyInfo /\ warm[p][s] \in AnyInfo
    BY CallFacts
  <1>1. CASE Release(p, s)
    <2>1. PICK info \in AnyInfo : warm' = [warm EXCEPT ![p][s] = info]
      BY <1>0, <1>1 DEF Release, Parked
    <2>2. /\ warm' \in [Procs -> [Sandboxes -> AnyInfo]]
          /\ \A q \in Procs, u \in Sandboxes : q # p \/ u # s => warm'[q][u] = warm[q][u]
      BY <1>0, <2>1 DEF Shape
    <2>3. /\ active' \in [Procs -> [Sandboxes -> AnyInfo]]
          /\ active'[p][s] = NoInfo
          /\ \A q \in Procs, u \in Sandboxes : q # p \/ u # s => active'[q][u] = active[q][u]
      <3>1. NoInfo \in AnyInfo /\ active' = [active EXCEPT ![p][s] = NoInfo]
        BY <1>1 DEF Release, AnyInfo
      <3> QED BY <1>0, <3>1 DEF Shape
    <2>4. Shape'
      BY <1>0, <1>1, <2>2, <2>3 DEF Release, Shape
    <2>5. ASSUME NEW q \in Procs, NEW u \in Sandboxes PROVE Shrinks(q, u)
      BY <1>1, <2>2, <2>3 DEF Release, Shrinks
    <2> QED BY <2>4, <2>5, AllShrink
  <1>2. CASE IdleWarm(p, s)
    <2>1. /\ warm' \in [Procs -> [Sandboxes -> AnyInfo]]
          /\ warm'[p][s] = NoInfo
          /\ \A q \in Procs, u \in Sandboxes : q # p \/ u # s => warm'[q][u] = warm[q][u]
      BY <1>0, <1>2, PopWarmIs DEF IdleWarm
    <2>2. Shape'
      BY <1>0, <1>2, <2>1 DEF IdleWarm, Shape
    <2>3. ASSUME NEW q \in Procs, NEW u \in Sandboxes PROVE Shrinks(q, u)
      BY <1>2, <2>1 DEF IdleWarm, Shrinks
    <2> QED BY <2>2, <2>3, AllShrink
  <1>3. CASE IdleActive(p, s)
    <2>1. Shape'
      BY <1>0, <1>3 DEF IdleActive, Shape
    <2>2. ASSUME NEW q \in Procs, NEW u \in Sandboxes PROVE Shrinks(q, u)
      BY <1>3 DEF IdleActive, Shrinks
    <2> QED BY <2>1, <2>2, AllShrink
  <1>4. CASE Destroy(p, s)
    <2>1. /\ active' \in [Procs -> [Sandboxes -> AnyInfo]]
          /\ warm' \in [Procs -> [Sandboxes -> AnyInfo]]
          /\ active'[p][s] = NoInfo /\ warm'[p][s] = NoInfo
          /\ \A q \in Procs, u \in Sandboxes : q # p \/ u # s =>
                active'[q][u] = active[q][u] /\ warm'[q][u] = warm[q][u]
      BY <1>0, <1>4, RemoveIs DEF Destroy
    <2>2. Shape'
      BY <1>0, <1>4, <2>1 DEF Destroy, Shape
    <2>3. ASSUME NEW q \in Procs, NEW u \in Sandboxes PROVE Shrinks(q, u)
      BY <1>4, <2>1 DEF Destroy, Shrinks
    <2> QED BY <2>2, <2>3, AllShrink
  <1> QED BY <1>1, <1>2, <1>3, <1>4

\* Stops, shutdown, the end and the start of a process.
LEMMA ProcessKeeps ==
    ASSUME PoolInv, NEW p \in Procs,
           \/ Shutdown(p) \/ Exit(p) \/ Crash(p) \/ Start(p)
           \/ \E i \in doomed[p] : StopDoomed(p, i)
    PROVE  PoolInv'
  <1> USE DEF maps
  <1>0. Shape
    BY DEF PoolInv
  <1>a. NoInfo \in AnyInfo
    BY DEF AnyInfo
  <1>1. CASE Shutdown(p)
    <2>1. /\ warm' \in [Procs -> [Sandboxes -> AnyInfo]]
          /\ \A u \in Sandboxes : warm'[p][u] = NoInfo
          /\ \A q \in Procs : q # p => warm'[q] = warm[q]
      BY <1>0, <1>a, <1>1 DEF Shutdown, Shape
    <2>2. /\ status' \in [Procs -> {"up", "closing", "down"}]
          /\ \A q \in Procs : status'[q] = "down" => status[q] = "down"
      BY <1>0, <1>1 DEF Shutdown, Shape
    <2>3. Shape'
      BY <1>0, <1>1, <2>1, <2>2 DEF Shutdown, Shape
    <2>4. ASSUME NEW q \in Procs, NEW u \in Sandboxes PROVE Shrinks(q, u)
      BY <1>1, <2>1, <2>2 DEF Shutdown, Shrinks
    <2> QED BY <2>3, <2>4, AllShrink
  <1>2. CASE Forget(p)
    <2>1. Idle \in Calls
      BY DEF Idle, Calls, Pcs, AnyInfo
    <2>2. /\ status' \in [Procs -> {"up", "closing", "down"}]
          /\ \A q \in Procs : q # p => status'[q] = status[q]
      BY <1>0, <1>2 DEF Forget, Shape
    <2>3. /\ active' \in [Procs -> [Sandboxes -> AnyInfo]]
          /\ \A u \in Sandboxes : active'[p][u] = NoInfo
          /\ \A q \in Procs : q # p => active'[q] = active[q]
      BY <1>0, <1>a, <1>2 DEF Forget, Shape
    <2>4. /\ warm' \in [Procs -> [Sandboxes -> AnyInfo]]
          /\ \A u \in Sandboxes : warm'[p][u] = NoInfo
          /\ \A q \in Procs : q # p => warm'[q] = warm[q]
      BY <1>0, <1>a, <1>2 DEF Forget, Shape
    <2>5. /\ acq' \in [Procs -> [Sandboxes -> Calls]]
          /\ \A u \in Sandboxes : acq'[p][u] = Idle
          /\ \A q \in Procs : q # p => acq'[q] = acq[q]
      BY <1>0, <1>2, <2>1 DEF Forget, Shape
    <2>a. made' \in Nat /\ running' = running
      BY <1>0, <1>2 DEF Forget, Abandon, Shape
    <2>6. Shape'
      BY <1>0, <2>2, <2>3, <2>4, <2>5, <2>a DEF Shape
    <2>7. ASSUME NEW u \in Sandboxes PROVE CallInv(p, u)'
      <3>1. acq'[p][u].pc = "idle"
        BY <2>5 DEF Idle
      <3> QED BY <2>3, <2>4, <3>1 DEF CallInv, CallAt, PastActive, PastBoth
    <2>8. ASSUME NEW q \in Procs, NEW u \in Sandboxes, q # p PROVE CallInv(q, u)'
      <3>1. Shrinks(q, u)
        BY <2>2, <2>3, <2>4, <2>5, <2>8 DEF Shrinks
      <3> QED BY <1>0, <3>1, ShrinkKeeps DEF PoolInv
    <2> QED BY <2>6, <2>7, <2>8 DEF PoolInv
  <1>3. CASE Start(p)
    <2>1. /\ status' \in [Procs -> {"up", "closing", "down"}]
          /\ status'[p] = "up" /\ status[p] = "down"
          /\ \A q \in Procs : q # p => status'[q] = status[q]
      BY <1>0, <1>3 DEF Start, Shape
    <2>2. Adopted(p) \in [Sandboxes -> AnyInfo]
      BY <1>0 DEF Adopted, ByName, AnyInfo, Shape
    <2>3. /\ warm' \in [Procs -> [Sandboxes -> AnyInfo]]
          /\ \A q \in Procs : q # p => warm'[q] = warm[q]
      BY <1>0, <1>3, <2>2 DEF Start, Shape
    <2>4. Shape'
      BY <1>0, <1>3, <2>1, <2>3 DEF Start, Shape
    <2>5. ASSUME NEW u \in Sandboxes PROVE CallInv(p, u)'
      <3>1. active[p][u] = NoInfo /\ acq[p][u].pc = "idle"
        BY <2>1 DEF PoolInv, CallInv, CallAt
      <3> QED BY <1>3, <2>1, <3>1 DEF Start, CallInv, CallAt, PastActive, PastBoth
    <2>6. ASSUME NEW q \in Procs, NEW u \in Sandboxes, q # p PROVE CallInv(q, u)'
      <3>1. Shrinks(q, u)
        BY <1>3, <2>1, <2>3, <2>6 DEF Start, Shrinks
      <3> QED BY <1>0, <3>1, ShrinkKeeps DEF PoolInv
    <2> QED BY <2>4, <2>5, <2>6 DEF PoolInv
  <1>4. ASSUME NEW i \in doomed[p], StopDoomed(p, i) PROVE PoolInv'
    <2>1. running' \in [Sandboxes -> Nat]
      BY <1>0, <1>4, StopIs DEF StopDoomed
    <2>2. Shape'
      BY <1>0, <1>4, <2>1 DEF StopDoomed, Shape
    <2>3. ASSUME NEW q \in Procs, NEW u \in Sandboxes PROVE Shrinks(q, u)
      BY <1>4 DEF StopDoomed, Shrinks
    <2> QED BY <2>2, <2>3, AllShrink
  <1> QED BY <1>1, <1>2, <1>3, <1>4 DEF Exit, Crash

\* A create that nobody waits for makes its container.
LEMMA StrayKeeps ==
    ASSUME PoolInv, StrayInv, NEW c \in stray, StrayCreate(c) PROVE PoolInv'
  <1>0. Shape
    BY DEF PoolInv
  <1>1. c.sb \in Sandboxes /\ c.gen \in Nat
    BY <1>0 DEF StrayInv, Shape
  <1>2. running' \in [Sandboxes -> Nat] /\ UNCHANGED <<status, active, warm, acq, made>>
    BY <1>0, <1>1 DEF StrayCreate, Shape, maps
  <1>3. Shape'
    BY <1>0, <1>2 DEF Shape
  <1>4. ASSUME NEW p \in Procs, NEW s \in Sandboxes PROVE Shrinks(p, s)
    BY <1>2 DEF Shrinks
  <1> QED BY <1>3, <1>4, AllShrink

\* Only a call that is cancelled or whose process ends leaves a create behind,
\* and only such a create makes an orphan.
LEMMA StraysKept ==
    ASSUME PoolInv, StrayInv,
           \/ UNCHANGED stray /\ made' \in {made, made + 1}
           \/ \E S \in SUBSET Sandboxes : Abandon(S)
           \/ UNCHANGED made /\ \E c \in stray : stray' = stray \ {c},
           \/ UNCHANGED orphans
           \/ \E c \in stray : orphans' = orphans \cup {c.gen}
    PROVE  StrayInv'
  <1>0. made \in Nat /\ stray \subseteq [sb: Sandboxes, gen: 1 .. made] /\ orphans \subseteq 1 .. made
    BY DEF PoolInv, Shape, StrayInv
  <1>1. made' \in Nat /\ made <= made' /\ 1 .. made \subseteq 1 .. made'
    BY <1>0 DEF Abandon
  <1>2. orphans' \subseteq 1 .. made'
    <2>1. orphans' \subseteq 1 .. made
      BY <1>0
    <2> QED BY <1>1, <2>1
  <1>3. [sb: Sandboxes, gen: 1 .. made] \subseteq [sb: Sandboxes, gen: 1 .. made']
    BY <1>1
  <1>4. ASSUME NEW S \in SUBSET Sandboxes, Abandon(S)
        PROVE  stray' \subseteq [sb: Sandboxes, gen: 1 .. made']
    <2>1. CASE S = {}
      <3>1. [sb: S, gen: {made + 1}] = {}
        BY <2>1
      <3> QED BY <1>0, <1>3, <1>4, <3>1 DEF Abandon
    <2>2. CASE S # {}
      <3>1. made' = made + 1 /\ made + 1 \in 1 .. made'
        BY <1>0, <1>4, <2>2 DEF Abandon
      <3>2. [sb: S, gen: {made + 1}] \subseteq [sb: Sandboxes, gen: 1 .. made']
        BY <3>1
      <3> QED BY <1>0, <1>3, <1>4, <3>2 DEF Abandon
    <2> QED BY <2>1, <2>2
  <1> QED BY <1>0, <1>2, <1>3, <1>4 DEF StrayInv

LEMMA StrayStep == PoolInv /\ StrayInv /\ [Next]_vars => StrayInv'
  <1> SUFFICES ASSUME PoolInv, StrayInv, [Next]_vars PROVE StrayInv'
    OBVIOUS
  <1> USE DEF strays
  <1>0. ASSUME UNCHANGED <<strays, made>> PROVE StrayInv'
    BY <1>0 DEF StrayInv
  <1>1. CASE UNCHANGED vars
    BY <1>0, <1>1 DEF vars
  <1>2. ASSUME NEW c \in stray, StrayCreate(c) PROVE StrayInv'
    BY <1>2, StraysKept DEF StrayCreate
  <1>3. ASSUME NEW p \in Procs, NEW s \in Sandboxes, Create(p, s) PROVE StrayInv'
    BY <1>3, StraysKept DEF Create
  <1>4. ASSUME NEW p \in Procs, NEW s \in Sandboxes, Cancel(p, s) PROVE StrayInv'
    <2>1. \/ UNCHANGED <<strays, made>>
          \/ Abandon({s}) /\ {s} \in SUBSET Sandboxes /\ UNCHANGED orphans
      BY <1>4 DEF Cancel, Abandon
    <2> QED BY <1>0, <2>1, StraysKept
  <1>5. ASSUME NEW p \in Procs, Exit(p) \/ Crash(p) PROVE StrayInv'
    <2>1. PICK S \in SUBSET Sandboxes : Abandon(S)
      BY <1>5 DEF Exit, Crash, Forget
    <2> QED BY <2>1, StraysKept DEF Abandon
  <1>6. ASSUME NEW p \in Procs, NEW s \in Sandboxes,
               Step(p, s) \/ Acquire(p, s), ~Create(p, s), ~Cancel(p, s)
        PROVE  StrayInv'
    BY <1>0, <1>6 DEF Step, Acquire, LookWarm, CheckAlive, TakeActive, TakeWarm, Drop,
        StopDropped, LockFile, Discover, RegisterDiscovered, CheckReplicas, EvictWarm,
        StopEvicted, Ready, NotReady, StopUnready
  <1>7. ASSUME NEW p \in Procs,
               \/ Shutdown(p) \/ Start(p) \/ (\E i \in doomed[p] : StopDoomed(p, i))
               \/ \E s \in Sandboxes :
                      Release(p, s) \/ IdleWarm(p, s) \/ IdleActive(p, s) \/ Destroy(p, s)
        PROVE  StrayInv'
    BY <1>0, <1>7 DEF Shutdown, Start, StopDoomed, Release, IdleWarm, IdleActive, Destroy
  <1> QED BY <1>1, <1>2, <1>3, <1>4, <1>5, <1>6, <1>7 DEF Next

LEMMA PoolInit == Init => PoolInv /\ StrayInv
  <1> SUFFICES ASSUME Init PROVE PoolInv /\ StrayInv
    OBVIOUS
  <1>1. NoInfo \in AnyInfo /\ Idle \in Calls
    BY DEF Idle, Calls, Pcs, AnyInfo
  <1>2. Shape
    BY <1>1 DEF Init, Shape
  <1>3. ASSUME NEW p \in Procs, NEW s \in Sandboxes PROVE CallInv(p, s)
    BY DEF Init, Idle, CallInv, CallAt, PastActive, PastBoth
  <1>4. StrayInv
    BY DEF Init, StrayInv
  <1> QED BY <1>2, <1>3, <1>4 DEF PoolInv

LEMMA PoolStep == PoolInv /\ StrayInv /\ [Next]_vars => PoolInv'
  <1> SUFFICES ASSUME PoolInv, StrayInv, [Next]_vars PROVE PoolInv'
    OBVIOUS
  <1>1. CASE UNCHANGED vars
    BY <1>1 DEF vars, maps, PoolInv, Shape, CallInv, CallAt
  <1>2. ASSUME NEW p \in Procs, NEW s \in Sandboxes, Step(p, s) PROVE PoolInv'
    BY <1>2, LooksKeep, MovesKeep, LockedKeep DEF Step
  <1>3. ASSUME NEW p \in Procs, NEW s \in Sandboxes,
               \/ Acquire(p, s) \/ Release(p, s)
               \/ IdleWarm(p, s) \/ IdleActive(p, s) \/ Destroy(p, s)
        PROVE  PoolInv'
    BY <1>3, LockedKeep, CleanupKeeps
  <1>4. ASSUME NEW p \in Procs,
               \/ Shutdown(p) \/ Exit(p) \/ Crash(p) \/ Start(p)
               \/ \E i \in doomed[p] : StopDoomed(p, i)
        PROVE  PoolInv'
    BY <1>4, ProcessKeeps
  <1>5. ASSUME NEW c \in stray, StrayCreate(c) PROVE PoolInv'
    BY <1>5, StrayKeeps
  <1> QED BY <1>1, <1>2, <1>3, <1>4, <1>5 DEF Next

\* No process has a sandbox both active and warm, whatever acquire, release,
\* eviction, the idle checker, shutdown and restarts do between each other's
\* steps: a call past its look at a map relies on nobody else filling it.
THEOREM NeverActiveAndWarm == Spec => []ActiveOrWarm
  <1>1. PoolInv => ActiveOrWarm
    BY DEF PoolInv, CallInv, CallAt, ActiveOrWarm
  <1> QED BY <1>1, PoolInit, PoolStep, StrayStep, PTL DEF Spec

-----------------------------------------------------------------------------
(* Creates do not race.                                                    *)

\* Between its discovery and its create.
Creating == {"evict", "pop", "evicting", "create"}

\* A call beyond the maps holds the file lock, of which there is one per
\* sandbox, and knows of a container that runs there, unless it is an orphan.
LockHeld(p, s) == acq[p][s].pc \in PastBoth => acq[p][s].locked
Aware(p, s) ==
    acq[p][s].pc \in Creating /\ running[s] # 0 => acq[p][s].blind \/ running[s] \in orphans
OneLock(p, q, s) == acq[p][s].locked /\ acq[q][s].locked => p = q

LockInv ==
    /\ \A p \in Procs, s \in Sandboxes : LockHeld(p, s) /\ Aware(p, s)
    /\ \A p, q \in Procs, s \in Sandboxes : OneLock(p, q, s)

\* A step that gives no call a lock.
LEMMA NoLockTaken ==
    ASSUME LockInv,
           \A p \in Procs, s \in Sandboxes :
               /\ acq'[p][s].locked => acq[p][s].locked
               /\ LockHeld(p, s)' /\ Aware(p, s)'
    PROVE  LockInv'
  <1>1. ASSUME NEW p \in Procs, NEW q \in Procs, NEW s \in Sandboxes PROVE OneLock(p, q, s)'
    BY DEF LockInv, OneLock
  <1> QED BY <1>1 DEF LockInv

\* Containers only stop in this step, and orphans remain so.
OnlyStops ==
    orphans \subseteq orphans' /\ \A s \in Sandboxes : running'[s] \in {running[s], 0}

\* A call that does not move stays as it is while containers only stop.
LEMMA StillCall ==
    ASSUME LockInv, NEW p \in Procs, NEW s \in Sandboxes,
           acq'[p][s] = acq[p][s], orphans \subseteq orphans',
           running'[s] \in {running[s], 0} \/ running'[s] \in orphans'
    PROVE  LockHeld(p, s)' /\ Aware(p, s)'
  BY DEF LockInv, LockHeld, Aware

LEMMA StopOnly ==
    ASSUME Shape, NEW info, Stop(info), UNCHANGED orphans PROVE OnlyStops
  BY DEF Stop, Shape, OnlyStops

\* A call moves on, to a step that its lock and its knowledge allow.
LEMMA GotoLocks ==
    ASSUME Shape, LockInv, NEW p \in Procs, NEW s \in Sandboxes, NEW l \in Pcs,
           NEW info \in AnyInfo, Goto(p, s, l, info), OnlyStops,
           l \in PastBoth => acq[p][s].locked,
           l \in Creating => acq[p][s].pc \in Creating
    PROVE  LockInv'
  <1>1. /\ acq'[p][s].pc = l
        /\ acq'[p][s].locked = acq[p][s].locked /\ acq'[p][s].blind = acq[p][s].blind
        /\ \A q \in Procs, u \in Sandboxes : q # p \/ u # s => acq'[q][u] = acq[q][u]
    BY GotoIs
  <1>2. LockHeld(p, s)' /\ Aware(p, s)'
    BY <1>1 DEF LockInv, LockHeld, Aware, OnlyStops
  <1>3. ASSUME NEW q \in Procs, NEW u \in Sandboxes, q # p \/ u # s
        PROVE  acq'[q][u] = acq[q][u] /\ LockHeld(q, u)' /\ Aware(q, u)'
    BY <1>1, <1>3, StillCall DEF OnlyStops
  <1> QED BY <1>1, <1>2, <1>3, NoLockTaken

\* A call ends.
LEMMA FinishUnlocks ==
    ASSUME Shape, LockInv, NEW p \in Procs, NEW s \in Sandboxes, Finish(p, s), OnlyStops
    PROVE  LockInv'
  <1>1. /\ acq'[p][s] = Idle
        /\ \A q \in Procs, u \in Sandboxes : q # p \/ u # s => acq'[q][u] = acq[q][u]
    BY FinishIs
  <1>2. ~acq'[p][s].locked /\ LockHeld(p, s)' /\ Aware(p, s)'
    BY <1>1 DEF LockHeld, Aware, Idle, PastBoth, Creating
  <1>3. ASSUME NEW q \in Procs, NEW u \in Sandboxes, q # p \/ u # s
        PROVE  acq'[q][u] = acq[q][u] /\ LockHeld(q, u)' /\ Aware(q, u)'
    BY <1>1, <1>3, StillCall DEF OnlyStops
  <1> QED BY <1>2, <1>3, NoLockTaken

\* No call moves.
LEMMA NoCallMoves ==
    ASSUME LockInv, acq' = acq, OnlyStops PROVE LockInv'
  <1>1. ASSUME NEW p \in Procs, NEW s \in Sandboxes PROVE LockHeld(p, s)' /\ Aware(p, s)'
    BY StillCall DEF OnlyStops
  <1> QED BY <1>1, NoLockTaken

\* The steps of a call that only look, stop containers, move entries or end.
LEMMA LooksLock ==
    ASSUME PoolInv, LockInv, NEW p \in Procs, NEW s \in Sandboxes,
           \/ LookWarm(p, s) \/ CheckAlive(p, s) \/ TakeActive(p, s) \/ TakeWarm(p, s)
           \/ Drop(p, s) \/ StopDropped(p, s) \/ RegisterDiscovered(p, s)
           \/ CheckReplicas(p, s) \/ EvictWarm(p, s) \/ StopEvicted(p, s)
           \/ Ready(p, s) \/ NotReady(p, s) \/ Cancel(p, s) \/ StopUnready(p, s)
    PROVE  LockInv'
  <1>0. /\ Shape
        /\ acq[p][s] \in Calls /\ acq[p][s].held \in AnyInfo
        /\ active[p][s] \in AnyInfo /\ warm[p][s] \in AnyInfo /\ NoInfo \in AnyInfo
        /\ running \in [Sandboxes -> Nat]
    BY CallFacts
  <1>a. ASSUME UNCHANGED <<running, orphans>> PROVE OnlyStops
    BY <1>a DEF OnlyStops
  <1>b. OnlyStops
    <2>1. UNCHANGED orphans
      BY DEF LookWarm, CheckAlive, TakeActive, TakeWarm, Drop, StopDropped, RegisterDiscovered,
             CheckReplicas, EvictWarm, StopEvicted, Ready, NotReady, Cancel, Abandon,
             StopUnready, strays
    <2>2. UNCHANGED running \/ Stop(acq[p][s].held)
      BY DEF LookWarm, CheckAlive, TakeActive, TakeWarm, Drop, StopDropped, RegisterDiscovered,
             CheckReplicas, EvictWarm, StopEvicted, Ready, NotReady, Cancel, StopUnready
    <2> QED BY <1>0, <1>a, <2>1, <2>2, StopOnly
  <1>c. BeyondWarm(p, s) \in {"discover", "lock"} /\ (BeyondWarm(p, s) = "discover" => acq[p][s].locked)
    BY DEF BeyondWarm
  <1>d. acq[p][s].pc \in PastBoth => acq[p][s].locked
    BY DEF LockInv, LockHeld
  <1>1. CASE Finish(p, s)
    BY <1>0, <1>1, <1>b, FinishUnlocks
  <1>2. ASSUME NEW l \in Pcs, NEW info \in AnyInfo, Goto(p, s, l, info),
               l \in PastBoth => acq[p][s].locked,
               l \in Creating => acq[p][s].pc \in Creating
        PROVE  LockInv'
    BY <1>0, <1>2, <1>b, GotoLocks
  <1>3. CASE LookWarm(p, s)
    BY <1>0, <1>2, <1>3, <1>c DEF LookWarm, Pcs, PastBoth, Creating
  <1>4. CASE CheckAlive(p, s)
    BY <1>0, <1>2, <1>4 DEF CheckAlive, Pcs, PastBoth, Creating
  <1>5. CASE TakeActive(p, s)
    BY <1>0, <1>1, <1>2, <1>5 DEF TakeActive, Pcs, PastBoth, Creating
  <1>6. CASE TakeWarm(p, s)
    BY <1>0, <1>1, <1>2, <1>6, <1>c DEF TakeWarm, Pcs, PastBoth, Creating
  <1>7. CASE Drop(p, s)
    BY <1>0, <1>2, <1>7, <1>c DEF Drop, Tracked, Pcs, PastBoth, Creating
  <1>8. CASE StopDropped(p, s)
    BY <1>0, <1>2, <1>8, <1>c DEF StopDropped, Pcs, PastBoth, Creating
  <1>9. CASE EvictWarm(p, s)
    <2>1. ASSUME NEW o \in Sandboxes PROVE warm[p][o] \in AnyInfo
      BY <1>0 DEF Shape
    <2>2. PICK l \in {"evicting", "create"}, info \in AnyInfo : Goto(p, s, l, info)
      BY <1>0, <1>9, <2>1 DEF EvictWarm
    <2> QED BY <1>2, <1>9, <1>d, <2>2 DEF EvictWarm, Pcs, PastBoth, Creating
  <1>10. CASE StopEvicted(p, s)
    BY <1>0, <1>2, <1>10, <1>d DEF StopEvicted, Pcs, PastBoth, Creating
  <1>11. CASE NotReady(p, s)
    BY <1>0, <1>2, <1>11, <1>d DEF NotReady, Pcs, PastBoth, Creating
  <1>12. CASE RegisterDiscovered(p, s) \/ Ready(p, s) \/ Cancel(p, s) \/ StopUnready(p, s)
    BY <1>1, <1>12 DEF RegisterDiscovered, Ready, Cancel, StopUnready, Register
  <1>13. CASE CheckReplicas(p, s)
    <2>1. PICK l \in {"pop", "create"} : Goto(p, s, l, NoInfo)
      BY <1>13 DEF CheckReplicas
    <2> QED BY <1>0, <1>2, <1>13, <1>d, <2>1 DEF CheckReplicas, Pcs, PastBoth, Creating
  <1> QED BY <1>3, <1>4, <1>5, <1>6, <1>7, <1>8, <1>9, <1>10, <1>11, <1>12, <1>13

\* The steps that take the lock, discover and create.
LEMMA CreateLock ==
    ASSUME PoolInv, LockInv, NEW p \in Procs, NEW s \in Sandboxes,
           Acquire(p, s) \/ LockFile(p, s) \/ Discover(p, s) \/ Create(p, s)
    PROVE  LockInv'
  <1>0. /\ Shape
        /\ acq[p][s] \in Calls /\ NoInfo \in AnyInfo
        /\ running \in [Sandboxes -> Nat] /\ made \in Nat
    BY CallFacts
  <1>a. ASSUME UNCHANGED <<running, orphans>> PROVE OnlyStops
    BY <1>a DEF OnlyStops
  <1>d. acq[p][s].pc \in PastBoth => acq[p][s].locked
    BY DEF LockInv, LockHeld
  <1>e. UNCHANGED orphans
    BY DEF Acquire, LockFile, Discover, Create, strays
  <1>1. ASSUME NEW b \in BOOLEAN, acq' = [acq EXCEPT ![p][s] = LookActive(p, s, b)],
               UNCHANGED running
        PROVE  /\ acq'[p][s].locked = b /\ LockHeld(p, s)' /\ Aware(p, s)'
               /\ \A q \in Procs, u \in Sandboxes : q # p \/ u # s =>
                     acq'[q][u] = acq[q][u] /\ LockHeld(q, u)' /\ Aware(q, u)'
    <2>1. /\ acq'[p][s] = LookActive(p, s, b)
          /\ \A q \in Procs, u \in Sandboxes : q # p \/ u # s => acq'[q][u] = acq[q][u]
      BY <1>0, <1>1 DEF Shape
    <2>2. acq'[p][s].locked = b /\ acq'[p][s].pc \in {"aliveA", "warm"}
      BY <2>1 DEF LookActive
    <2>3. LockHeld(p, s)' /\ Aware(p, s)'
      BY <2>2 DEF LockHeld, Aware, PastBoth, Creating
    <2>4. ASSUME NEW q \in Procs, NEW u \in Sandboxes, q # p \/ u # s
          PROVE  LockHeld(q, u)' /\ Aware(q, u)'
      BY <1>1, <1>e, <2>1, <2>4, StillCall
    <2> QED BY <2>1, <2>2, <2>3, <2>4
  <1>2. CASE Acquire(p, s)
    <2>1. acq' = [acq EXCEPT ![p][s] = LookActive(p, s, FALSE)] /\ UNCHANGED running
      BY <1>2 DEF Acquire
    <2> QED BY <1>1, <2>1, NoLockTaken
  <1>3. CASE LockFile(p, s)
    <2>1. /\ acq' = [acq EXCEPT ![p][s] = LookActive(p, s, TRUE)] /\ UNCHANGED running
          /\ \A q \in Procs : ~acq[q][s].locked
      BY <1>3 DEF LockFile, LockFree
    <2>2. \A q \in Procs, u \in Sandboxes : q # p \/ u # s => acq'[q][u] = acq[q][u]
      BY <1>1, <2>1
    <2>3. ASSUME NEW q \in Procs, NEW r \in Procs, NEW u \in Sandboxes PROVE OneLock(q, r, u)'
      <3>1. CASE u = s
        <4>1. \A v \in Procs : v # p => ~acq'[v][s].locked
          <5>1. \A v \in Procs : ~acq[v][s].locked
            BY <2>1
          <5> QED BY <2>2, <5>1
        <4> QED BY <3>1, <4>1 DEF OneLock
      <3>2. CASE u # s
        <4>1. acq'[q][u] = acq[q][u] /\ acq'[r][u] = acq[r][u]
          BY <2>2, <3>2
        <4> QED BY <4>1 DEF LockInv, OneLock
      <3> QED BY <3>1, <3>2
    <2> QED BY <1>1, <2>1, <2>3 DEF LockInv
  <1>4. CASE Discover(p, s)
    <2>1. OnlyStops
      BY <1>4, <1>a, <1>e DEF Discover
    <2>2. acq[p][s].locked
      BY <1>4, <1>d DEF Discover, PastBoth
    <2>3. CASE Goto(p, s, "found", ByName(s))
      <3>1. ByName(s) \in AnyInfo
        BY <1>0 DEF ByName, AnyInfo
      <3>2. "found" \in Pcs /\ "found" \notin Creating
        BY DEF Pcs, Creating
      <3> QED BY <1>0, <2>1, <2>2, <2>3, <3>1, <3>2, GotoLocks
    <2>4. CASE acq' = [acq EXCEPT ![p][s] =
                 [@ EXCEPT !.pc = "evict", !.held = NoInfo, !.blind = running[s] # 0]]
      <3>1. /\ acq'[p][s] = [acq[p][s] EXCEPT !.pc = "evict", !.held = NoInfo,
                                              !.blind = running[s] # 0]
            /\ \A q \in Procs, u \in Sandboxes : q # p \/ u # s => acq'[q][u] = acq[q][u]
        BY <1>0, <2>4 DEF Shape
      <3>2. /\ acq'[p][s].locked = acq[p][s].locked
            /\ acq'[p][s].blind = (running[s] # 0)
        BY <1>0, <3>1 DEF Calls
      <3>3. LockHeld(p, s)' /\ Aware(p, s)'
        BY <2>1, <2>2, <3>2 DEF LockHeld, Aware, OnlyStops
      <3>4. ASSUME NEW q \in Procs, NEW u \in Sandboxes, q # p \/ u # s
            PROVE  acq'[q][u] = acq[q][u] /\ LockHeld(q, u)' /\ Aware(q, u)'
        BY <2>1, <3>1, <3>4, StillCall DEF OnlyStops
      <3> QED BY <3>2, <3>3, <3>4, NoLockTaken
    <2> QED BY <1>4, <2>3, <2>4 DEF Discover
  <1>5. CASE Create(p, s)
    <2>0. acq[p][s].pc = "create" /\ acq[p][s].locked
      BY <1>5, <1>d DEF Create, PastBoth
    <2>1. CASE /\ made' = made + 1
               /\ running' = [running EXCEPT ![s] = made + 1]
               /\ Goto(p, s, "wait", ById(s, made + 1))
      <3>1. ById(s, made + 1) \in AnyInfo /\ "wait" \in Pcs
        BY <1>0 DEF ById, AnyInfo, Pcs
      <3>2. /\ acq'[p][s].pc = "wait" /\ acq'[p][s].locked = acq[p][s].locked
            /\ \A q \in Procs, u \in Sandboxes : q # p \/ u # s => acq'[q][u] = acq[q][u]
        BY <1>0, <2>1, <3>1, GotoIs
      <3>3. LockHeld(p, s)' /\ Aware(p, s)'
        BY <2>0, <3>2 DEF LockHeld, Aware, Creating
      <3>4. ASSUME NEW q \in Procs, NEW u \in Sandboxes, q # p \/ u # s
            PROVE  acq'[q][u] = acq[q][u] /\ LockHeld(q, u)' /\ Aware(q, u)'
        <4>1. CASE u = s
          <5>1. ~acq[q][s].locked
            BY <2>0, <3>4, <4>1 DEF LockInv, OneLock
          <5>2. acq[q][s].pc \notin PastBoth
            BY <5>1 DEF LockInv, LockHeld
          <5> QED BY <3>2, <3>4, <4>1, <5>2 DEF LockHeld, Aware, PastBoth, Creating
        <4>2. CASE u # s
          <5>1. running'[u] = running[u]
            BY <1>0, <2>1, <4>2
          <5> QED BY <1>e, <3>2, <3>4, <5>1, StillCall
        <4> QED BY <4>1, <4>2
      <3> QED BY <3>2, <3>3, <3>4, NoLockTaken
    <2>2. CASE Goto(p, s, "wait", ByName(s)) /\ UNCHANGED <<made, running>>
      <3>1. ByName(s) \in AnyInfo
        BY <1>0 DEF ByName, AnyInfo
      <3>2. "wait" \in Pcs /\ "wait" \notin Creating
        BY DEF Pcs, Creating
      <3> QED BY <1>0, <1>a, <1>e, <2>0, <2>2, <3>1, <3>2, GotoLocks
    <2>3. CASE Finish(p, s) /\ UNCHANGED <<made, running>>
      BY <1>0, <1>a, <1>e, <2>3, FinishUnlocks
    <2> QED BY <1>5, <2>1, <2>2, <2>3 DEF Create
  <1> QED BY <1>2, <1>3, <1>4, <1>5

\* A process ends and its locks with it.
LEMMA ForgetUnlocks ==
    ASSUME PoolInv, LockInv, NEW p \in Procs, Forget(p) PROVE LockInv'
  <1>1. /\ \A u \in Sandboxes : acq'[p][u] = Idle
        /\ \A q \in Procs, u \in Sandboxes : q # p => acq'[q][u] = acq[q][u]
        /\ running' = running /\ orphans' = orphans
    BY DEF Forget, Abandon, PoolInv, Shape
  <1>2. ASSUME NEW u \in Sandboxes
        PROVE  ~acq'[p][u].locked /\ LockHeld(p, u)' /\ Aware(p, u)'
    BY <1>1 DEF LockHeld, Aware, Idle, PastBoth, Creating
  <1>3. ASSUME NEW q \in Procs, NEW u \in Sandboxes, q # p
        PROVE  acq'[q][u] = acq[q][u] /\ LockHeld(q, u)' /\ Aware(q, u)'
    BY <1>1, <1>3, StillCall
  <1> QED BY <1>2, <1>3, NoLockTaken

\* A create that nobody waits for makes an orphan.
LEMMA StrayLock ==
    ASSUME PoolInv, LockInv, NEW c \in stray, StrayCreate(c) PROVE LockInv'
  <1>1. /\ acq' = acq /\ orphans \subseteq orphans'
        /\ \A s \in Sandboxes : running'[s] = running[s] \/ running'[s] \in orphans'
    BY DEF StrayCreate, PoolInv, Shape
  <1>2. ASSUME NEW p \in Procs, NEW s \in Sandboxes PROVE LockHeld(p, s)' /\ Aware(p, s)'
    BY <1>1, StillCall
  <1> QED BY <1>1, <1>2, NoLockTaken

LEMMA LockStep == PoolInv /\ LockInv /\ [Next]_vars => LockInv'
  <1> SUFFICES ASSUME PoolInv, LockInv, [Next]_vars PROVE LockInv'
    OBVIOUS
  <1>0. Shape
    BY DEF PoolInv
  <1> USE DEF strays
  <1>a. ASSUME UNCHANGED <<acq, running, orphans>> PROVE LockInv'
    BY <1>a, NoCallMoves DEF OnlyStops
  <1>1. CASE UNCHANGED vars
    BY <1>1, <1>a DEF vars
  <1>2. ASSUME NEW p \in Procs, NEW s \in Sandboxes, Step(p, s) \/ Acquire(p, s) PROVE LockInv'
    BY <1>2, LooksLock, CreateLock DEF Step
  <1>3. ASSUME NEW p \in Procs, NEW s \in Sandboxes,
               Release(p, s) \/ IdleWarm(p, s) \/ IdleActive(p, s) \/ Destroy(p, s)
        PROVE  LockInv'
    BY <1>3, <1>a DEF Release, IdleWarm, IdleActive, Destroy
  <1>4. ASSUME NEW p \in Procs, Shutdown(p) \/ Start(p) PROVE LockInv'
    BY <1>4, <1>a DEF Shutdown, Start
  <1>5. ASSUME NEW p \in Procs, Exit(p) \/ Crash(p) PROVE LockInv'
    BY <1>5, ForgetUnlocks DEF Exit, Crash
  <1>6. ASSUME NEW p \in Procs, NEW i \in doomed[p], StopDoomed(p, i) PROVE LockInv'
    BY <1>0, <1>6, StopOnly, NoCallMoves DEF StopDoomed
  <1>7. ASSUME NEW c \in stray, StrayCreate(c) PROVE LockInv'
    BY <1>7, StrayLock
  <1> QED BY <1>1, <1>2, <1>3, <1>4, <1>5, <1>6, <1>7 DEF Next

\* Calls that hold the file lock never race to create one sandbox: the lock is
\* held from the second look to the end of the call, so the container that a
\* create meets is one its own discovery saw and could not verify, or one of a
\* create whose call was cancelled or whose process ended before docker run
\* did: those are the only creates that outlive their lock.
THEOREM CreatesNeverRace == Spec => []NoCreateRace
  <1>1. Init => LockInv
    BY DEF Init, Idle, LockInv, LockHeld, Aware, OneLock, PastBoth, Creating
  <1>2. LockInv => NoCreateRace
    BY DEF LockInv, Aware, Creating, NoCreateRace
  <1> QED BY <1>1, <1>2, PoolInit, PoolStep, StrayStep, LockStep, PTL DEF Spec

-----------------------------------------------------------------------------
(* What an entry says.                                                     *)

\* The infos of the containers made so far.
Known == [sb: Sandboxes, gen: 1 .. made, byId: BOOLEAN]

\* An entry for s, if any, is about s.
EntryAt(i, s) == i = NoInfo \/ (i \in Known /\ i.sb = s)

\* Where a call holds the info of a container it is going to register or stop,
\* and where it holds the entry it looked at.
Holding == {"stopA", "stopW", "found", "evicting", "wait", "unready"}
Looked == {"aliveA", "takeA", "dropA", "aliveW", "takeW", "dropW"}

\* What a call of s holds when it is at l: except in an eviction its own.
HeldFits(l, i, s) ==
    /\ i \in Known \cup {NoInfo}
    /\ l # "evicting" => EntryAt(i, s)
    /\ l \in Holding \cup Looked => i # NoInfo

InfoInv ==
    /\ running \in [Sandboxes -> 0 .. made]
    /\ missed \subseteq Sandboxes
    /\ condemned \in [Procs -> SUBSET Sandboxes]
    /\ doomed \in [Procs -> SUBSET Known]
    /\ \A p \in Procs, s \in Sandboxes :
           /\ EntryAt(active[p][s], s) /\ EntryAt(warm[p][s], s)
           /\ HeldFits(acq[p][s].pc, acq[p][s].held, s)

\* No info is not one.
LEMMA KnownIsInfo ==
    ASSUME made \in Nat PROVE \A i \in Known : i \in AnyInfo /\ i # NoInfo
  BY DEF Known, AnyInfo

\* Steps only make containers.
LEMMA KnownGrows ==
    ASSUME made \in Nat, made' \in Nat, made <= made'
    PROVE  /\ Known \subseteq Known'
           /\ \A i, s : EntryAt(i, s) => (i = NoInfo \/ (i \in Known' /\ i.sb = s))
  BY DEF Known, EntryAt

\* A step keeps InfoInv if whatever it changes fits.
LEMMA InfoKept ==
    ASSUME PoolInv, InfoInv, made' \in Nat, made <= made',
           running' \in [Sandboxes -> 0 .. made'], missed' \subseteq Sandboxes,
           condemned' \in [Procs -> SUBSET Sandboxes],
           doomed' = doomed \/ doomed' \in [Procs -> SUBSET Known'],
           \A q \in Procs, u \in Sandboxes :
               /\ active'[q][u] = active[q][u] \/ EntryAt(active[q][u], u)'
               /\ warm'[q][u] = warm[q][u] \/ EntryAt(warm[q][u], u)'
               /\ \/ acq'[q][u] = acq[q][u]
                  \/ HeldFits(acq[q][u].pc, acq[q][u].held, u)'
    PROVE  InfoInv'
  <1>1. made \in Nat
    BY DEF PoolInv, Shape
  <1>2. Known \subseteq Known'
    BY <1>1, KnownGrows
  <1>3. doomed' \in [Procs -> SUBSET Known']
    BY <1>2 DEF InfoInv
  <1>4. ASSUME NEW q \in Procs, NEW u \in Sandboxes
        PROVE  /\ EntryAt(active[q][u], u)' /\ EntryAt(warm[q][u], u)'
               /\ HeldFits(acq[q][u].pc, acq[q][u].held, u)'
    <2>1. /\ EntryAt(active[q][u], u) /\ EntryAt(warm[q][u], u)
          /\ HeldFits(acq[q][u].pc, acq[q][u].held, u)
      BY DEF InfoInv
    <2>2. EntryAt(active[q][u], u)'
      BY <1>2, <2>1 DEF EntryAt
    <2>3. EntryAt(warm[q][u], u)'
      BY <1>2, <2>1 DEF EntryAt
    <2>4. HeldFits(acq[q][u].pc, acq[q][u].held, u)'
      BY <1>2, <2>1 DEF HeldFits, EntryAt
    <2> QED BY <2>2, <2>3, <2>4
  <1> QED BY <1>3, <1>4 DEF InfoInv

\* docker stop of a container that is known.
LEMMA StopInfo ==
    ASSUME PoolInv, InfoInv, NEW i \in Known, Stop(i)
    PROVE  running' \in [Sandboxes -> 0 .. made] /\ missed' \subseteq Sandboxes
  <1>1. i.sb \in Sandboxes /\ 0 \in 0 .. made
    BY DEF Known, PoolInv, Shape
  <1>2. running \in [Sandboxes -> 0 .. made] /\ missed \subseteq Sandboxes
    BY DEF InfoInv
  <1> QED BY <1>1, <1>2 DEF Stop

\* A call moves on, the maps only shrink and nothing is made.
LEMMA CallInfo ==
    ASSUME PoolInv, InfoInv, NEW p \in Procs, NEW s \in Sandboxes, NEW l \in Pcs,
           NEW i \in AnyInfo, Goto(p, s, l, i), HeldFits(l, i, s), made' = made,
           running' \in [Sandboxes -> 0 .. made], missed' \subseteq Sandboxes,
           condemned' = condemned, doomed' = doomed,
           \A q \in Procs, u \in Sandboxes :
               /\ active'[q][u] \in {active[q][u], NoInfo}
               /\ warm'[q][u] \in {warm[q][u], NoInfo}
    PROVE  InfoInv'
  <1>0. Shape
    BY DEF PoolInv
  <1>1. /\ acq'[p][s].pc = l /\ acq'[p][s].held = i
        /\ \A q \in Procs, u \in Sandboxes : q # p \/ u # s => acq'[q][u] = acq[q][u]
    BY <1>0, GotoIs
  <1>2. made \in Nat /\ made <= made'
    BY <1>0 DEF Shape
  <1>3. HeldFits(acq[p][s].pc, acq[p][s].held, s)'
    BY <1>1 DEF HeldFits, EntryAt, Known
  <1>4. \A q \in Procs, u \in Sandboxes :
           /\ active'[q][u] = active[q][u] \/ EntryAt(active[q][u], u)'
           /\ warm'[q][u] = warm[q][u] \/ EntryAt(warm[q][u], u)'
    BY DEF EntryAt
  <1>5. condemned' \in [Procs -> SUBSET Sandboxes]
    BY DEF InfoInv
  <1> QED BY <1>1, <1>2, <1>3, <1>4, <1>5, InfoKept

\* A call ends, and entries that fit come or go.
LEMMA EndInfo ==
    ASSUME PoolInv, InfoInv, NEW p \in Procs, NEW s \in Sandboxes, Finish(p, s), made' = made,
           running' \in [Sandboxes -> 0 .. made], missed' \subseteq Sandboxes,
           condemned' = condemned, doomed' = doomed,
           \A q \in Procs, u \in Sandboxes :
               /\ active'[q][u] = active[q][u] \/ EntryAt(active'[q][u], u)
               /\ warm'[q][u] \in {warm[q][u], NoInfo}
    PROVE  InfoInv'
  <1>0. Shape
    BY DEF PoolInv
  <1>1. /\ acq'[p][s] = Idle
        /\ \A q \in Procs, u \in Sandboxes : q # p \/ u # s => acq'[q][u] = acq[q][u]
    BY <1>0, FinishIs
  <1>2. made \in Nat /\ made <= made'
    BY <1>0 DEF Shape
  <1>3. HeldFits(acq[p][s].pc, acq[p][s].held, s)'
    BY <1>1 DEF HeldFits, EntryAt, Idle, Holding, Looked
  <1>4. \A q \in Procs, u \in Sandboxes :
           /\ active'[q][u] = active[q][u] \/ EntryAt(active[q][u], u)'
           /\ warm'[q][u] = warm[q][u] \/ EntryAt(warm[q][u], u)'
    BY DEF EntryAt, Known
  <1>5. condemned' \in [Procs -> SUBSET Sandboxes]
    BY DEF InfoInv
  <1> QED BY <1>1, <1>2, <1>3, <1>4, <1>5, InfoKept

\* The facts a step of a call starts from.
LEMMA InfoFacts ==
    ASSUME PoolInv, InfoInv, NEW p \in Procs, NEW s \in Sandboxes
    PROVE  /\ Shape /\ CallInv(p, s)
           /\ EntryAt(active[p][s], s) /\ EntryAt(warm[p][s], s) /\ EntryAt(NoInfo, s)
           /\ HeldFits(acq[p][s].pc, acq[p][s].held, s)
           /\ active[p][s] \in AnyInfo /\ warm[p][s] \in AnyInfo /\ acq[p][s].held \in AnyInfo
           /\ NoInfo \in AnyInfo
           /\ BeyondWarm(p, s) \in {"discover", "lock"}
           /\ running \in [Sandboxes -> 0 .. made] /\ missed \subseteq Sandboxes /\ made \in Nat
           /\ running[s] # 0 => ByName(s) \in Known /\ ByName(s) \in AnyInfo /\ ByName(s).sb = s
  <1>1. /\ Shape /\ CallInv(p, s) /\ made \in Nat
        /\ active[p][s] \in AnyInfo /\ warm[p][s] \in AnyInfo /\ acq[p][s].held \in AnyInfo
        /\ NoInfo \in AnyInfo /\ BeyondWarm(p, s) \in {"discover", "lock"}
    BY CallFacts
  <1>2. /\ EntryAt(active[p][s], s) /\ EntryAt(warm[p][s], s) /\ EntryAt(NoInfo, s)
        /\ HeldFits(acq[p][s].pc, acq[p][s].held, s)
        /\ running \in [Sandboxes -> 0 .. made] /\ missed \subseteq Sandboxes
    BY DEF InfoInv, EntryAt
  <1>3. running[s] # 0 => ByName(s) \in Known /\ ByName(s) \in AnyInfo /\ ByName(s).sb = s
    BY <1>1, <1>2 DEF ByName, Known, AnyInfo
  <1> QED BY <1>1, <1>2, <1>3

LEMMA LooksInfo ==
    ASSUME PoolInv, InfoInv, NEW p \in Procs, NEW s \in Sandboxes,
           \/ LookWarm(p, s) \/ CheckAlive(p, s) \/ TakeActive(p, s) \/ StopDropped(p, s)
           \/ CheckReplicas(p, s) \/ StopEvicted(p, s) \/ NotReady(p, s) \/ StopUnready(p, s)
    PROVE  InfoInv'
  <1> USE DEF maps
  <1>0. /\ EntryAt(active[p][s], s) /\ EntryAt(warm[p][s], s) /\ EntryAt(NoInfo, s)
        /\ HeldFits(acq[p][s].pc, acq[p][s].held, s)
        /\ warm[p][s] \in AnyInfo /\ acq[p][s].held \in AnyInfo /\ NoInfo \in AnyInfo
        /\ BeyondWarm(p, s) \in {"discover", "lock"}
        /\ running \in [Sandboxes -> 0 .. made] /\ missed \subseteq Sandboxes
    BY InfoFacts
  <1>1. UNCHANGED <<active, warm, condemned, doomed, made>>
    BY DEF LookWarm, CheckAlive, TakeActive, StopDropped, CheckReplicas, StopEvicted, NotReady,
           StopUnready
  <1>2. running' \in [Sandboxes -> 0 .. made] /\ missed' \subseteq Sandboxes
    <2>1. CASE UNCHANGED <<running, missed>>
      BY <1>0, <2>1
    <2>3. CASE StopDropped(p, s) \/ StopEvicted(p, s) \/ StopUnready(p, s)
      <3>1. Stop(acq[p][s].held) /\ acq[p][s].pc \in Holding
        BY <2>3 DEF StopDropped, StopEvicted, StopUnready, Holding
      <3>2. acq[p][s].held \in Known
        BY <1>0, <3>1 DEF HeldFits
      <3> QED BY <3>1, <3>2, StopInfo
    <2> QED BY <2>1, <2>3 DEF LookWarm, CheckAlive, TakeActive, CheckReplicas, NotReady
  <1>3. CASE Finish(p, s)
    BY <1>1, <1>2, <1>3, EndInfo
  <1>4. ASSUME NEW l \in Pcs, NEW i \in AnyInfo, Goto(p, s, l, i), HeldFits(l, i, s)
        PROVE  InfoInv'
    BY <1>1, <1>2, <1>4, CallInfo
  <1>5. ASSUME NEW l \in {"warm", "discover", "lock", "pop", "create"}
        PROVE  l \in Pcs /\ HeldFits(l, NoInfo, s)
    BY <1>0 DEF HeldFits, Holding, Looked, Pcs
  <1>6. CASE LookWarm(p, s)
    <2>1. CASE warm[p][s] = NoInfo
      BY <1>0, <1>4, <1>5, <1>6, <2>1 DEF LookWarm
    <2>2. CASE warm[p][s] # NoInfo
      <3>1. "aliveW" \in Pcs /\ HeldFits("aliveW", warm[p][s], s)
        BY <1>0, <2>2 DEF HeldFits, EntryAt, Pcs
      <3> QED BY <1>0, <1>4, <1>6, <2>2, <3>1 DEF LookWarm
    <2> QED BY <2>1, <2>2
  <1>7. CASE CheckAlive(p, s)
    <2>1. PICK l \in {"takeA", "dropA", "takeW", "dropW"} : Goto(p, s, l, acq[p][s].held)
      BY <1>7 DEF CheckAlive
    <2>2. l \in Pcs /\ HeldFits(l, acq[p][s].held, s)
      BY <1>0, <1>7 DEF CheckAlive, HeldFits, Looked, Pcs
    <2> QED BY <1>0, <1>4, <2>1, <2>2
  <1>8. CASE TakeActive(p, s)
    BY <1>0, <1>3, <1>4, <1>5, <1>8 DEF TakeActive
  <1>9. CASE StopDropped(p, s)
    BY <1>0, <1>4, <1>5, <1>9 DEF StopDropped
  <1>10. CASE StopEvicted(p, s)
    BY <1>0, <1>4, <1>5, <1>10 DEF StopEvicted
  <1>11. CASE NotReady(p, s)
    <2>1. "unready" \in Pcs /\ HeldFits("unready", acq[p][s].held, s)
      BY <1>0, <1>11 DEF NotReady, HeldFits, Holding, Pcs
    <2> QED BY <1>0, <1>4, <1>11, <2>1 DEF NotReady
  <1>12. CASE StopUnready(p, s)
    BY <1>3, <1>12 DEF StopUnready
  <1>13. CASE CheckReplicas(p, s)
    BY <1>0, <1>4, <1>5, <1>13 DEF CheckReplicas
  <1> QED BY <1>6, <1>7, <1>8, <1>9, <1>10, <1>11, <1>12, <1>13

\* A call is cancelled: what it was going to stop is stopped all the same.
LEMMA CancelInfo ==
    ASSUME PoolInv, InfoInv, NEW p \in Procs, NEW s \in Sandboxes, Cancel(p, s)
    PROVE  InfoInv'
  <1>0. /\ Shape /\ made \in Nat
        /\ HeldFits(acq[p][s].pc, acq[p][s].held, s)
        /\ running \in [Sandboxes -> 0 .. made] /\ missed \subseteq Sandboxes
    BY InfoFacts
  <1>1. made' \in Nat /\ made <= made'
    BY <1>0 DEF Cancel, Abandon, strays
  <1>2. running' \in [Sandboxes -> 0 .. made'] /\ missed' \subseteq Sandboxes
    <2>1. running' = running /\ (missed' = missed \/ missed' = missed \cup {s})
      BY DEF Cancel
    <2>2. 0 .. made \subseteq 0 .. made'
      BY <1>0, <1>1
    <2> QED BY <1>0, <2>1, <2>2
  <1>3. condemned' \in [Procs -> SUBSET Sandboxes] /\ UNCHANGED <<active, warm>>
    BY DEF Cancel, maps, InfoInv
  <1>4. doomed' = doomed \/ doomed' \in [Procs -> SUBSET Known']
    <2>1. CASE doomed' = [doomed EXCEPT ![p] = @ \cup {acq[p][s].held}]
               /\ acq[p][s].pc \in {"stopA", "stopW", "evicting", "unready"}
      <3>1. acq[p][s].held \in Known
        BY <1>0, <2>1 DEF HeldFits, Holding
      <3>2. Known \subseteq Known'
        BY <1>0, <1>1, KnownGrows
      <3> QED BY <2>1, <3>1, <3>2 DEF InfoInv
    <2> QED BY <2>1 DEF Cancel
  <1>5. /\ acq'[p][s] = Idle
        /\ \A q \in Procs, u \in Sandboxes : q # p \/ u # s => acq'[q][u] = acq[q][u]
    BY <1>0, FinishIs DEF Cancel
  <1>6. HeldFits(acq[p][s].pc, acq[p][s].held, s)'
    BY <1>5 DEF HeldFits, EntryAt, Idle, Holding, Looked
  <1> QED BY <1>1, <1>2, <1>3, <1>4, <1>5, <1>6, InfoKept

LEMMA MovesInfo ==
    ASSUME PoolInv, InfoInv, NEW p \in Procs, NEW s \in Sandboxes,
           TakeWarm(p, s) \/ Drop(p, s) \/ EvictWarm(p, s)
    PROVE  InfoInv'
  <1> USE DEF maps
  <1>0. /\ Shape
        /\ EntryAt(active[p][s], s) /\ EntryAt(warm[p][s], s) /\ EntryAt(NoInfo, s)
        /\ HeldFits(acq[p][s].pc, acq[p][s].held, s)
        /\ active[p][s] \in AnyInfo /\ warm[p][s] \in AnyInfo /\ NoInfo \in AnyInfo
        /\ BeyondWarm(p, s) \in {"discover", "lock"}
        /\ running \in [Sandboxes -> 0 .. made] /\ missed \subseteq Sandboxes
    BY InfoFacts
  <1>1. UNCHANGED <<condemned, doomed, made, running, missed>>
    BY DEF TakeWarm, Drop, EvictWarm
  <1>2. ASSUME NEW l \in Pcs, NEW i \in AnyInfo, Goto(p, s, l, i), HeldFits(l, i, s),
               \A q \in Procs, u \in Sandboxes :
                   /\ active'[q][u] \in {active[q][u], NoInfo}
                   /\ warm'[q][u] \in {warm[q][u], NoInfo}
        PROVE  InfoInv'
    BY <1>0, <1>1, <1>2, CallInfo
  <1>3. ASSUME NEW l \in {"warm", "discover", "lock", "create"} PROVE l \in Pcs /\ HeldFits(l, NoInfo, s)
    BY <1>0 DEF HeldFits, Holding, Looked, Pcs
  <1>4. CASE TakeWarm(p, s)
    <2>1. CASE warm[p][s] # NoInfo
      <3>1. /\ warm'[p][s] = NoInfo
            /\ \A q \in Procs, u \in Sandboxes : q # p \/ u # s => warm'[q][u] = warm[q][u]
        BY <1>0, <1>4, <2>1, PopWarmIs DEF TakeWarm
      <3>2. /\ active'[p][s] = warm[p][s]
            /\ \A q \in Procs, u \in Sandboxes : q # p \/ u # s => active'[q][u] = active[q][u]
        BY <1>0, <1>4, <2>1, ActivateIs DEF TakeWarm
      <3>3. Finish(p, s)
        BY <1>4, <2>1 DEF TakeWarm
      <3> QED BY <1>0, <1>1, <3>1, <3>2, <3>3, EndInfo
    <2>2. CASE warm[p][s] = NoInfo
      BY <1>0, <1>2, <1>3, <1>4, <2>2 DEF TakeWarm
    <2> QED BY <2>1, <2>2
  <1>5. CASE Drop(p, s)
    <2>1. CASE acq[p][s].held \in {active[p][s], warm[p][s]}
      <3>1. acq[p][s].held # NoInfo
        BY <1>0, <1>5 DEF Drop, HeldFits, Looked
      <3>2. Tracked(p, s) \in AnyInfo /\ Tracked(p, s) # NoInfo /\ EntryAt(Tracked(p, s), s)
        BY <1>0, <2>1, <3>1 DEF Tracked
      <3>3. ASSUME NEW l \in {"stopA", "stopW"} PROVE l \in Pcs /\ HeldFits(l, Tracked(p, s), s)
        BY <3>2 DEF HeldFits, EntryAt, Pcs
      <3>4. PICK l \in {"stopA", "stopW"} : Goto(p, s, l, Tracked(p, s))
        BY <1>5, <2>1 DEF Drop
      <3>5. /\ active'[p][s] = NoInfo /\ warm'[p][s] = NoInfo
            /\ \A q \in Procs, u \in Sandboxes : q # p \/ u # s =>
                  active'[q][u] = active[q][u] /\ warm'[q][u] = warm[q][u]
        BY <1>0, <1>5, <2>1, RemoveIs DEF Drop
      <3> QED BY <1>2, <3>2, <3>3, <3>4, <3>5
    <2>2. CASE acq[p][s].held \notin {active[p][s], warm[p][s]}
      BY <1>0, <1>2, <1>3, <1>5, <2>2 DEF Drop
    <2> QED BY <2>1, <2>2
  <1>6. CASE EvictWarm(p, s)
    <2>1. CASE Goto(p, s, "create", NoInfo) /\ UNCHANGED warm
      BY <1>0, <1>2, <1>3, <1>6, <2>1 DEF EvictWarm
    <2>2. ASSUME NEW o \in Sandboxes, warm[p][o] # NoInfo, PopWarm(p, o),
                 Goto(p, s, "evicting", warm[p][o])
          PROVE  InfoInv'
      <3>1. /\ warm'[p][o] = NoInfo
            /\ \A q \in Procs, u \in Sandboxes : q # p \/ u # o => warm'[q][u] = warm[q][u]
        BY <1>0, <2>2, PopWarmIs
      <3>2. warm[p][o] \in AnyInfo /\ EntryAt(warm[p][o], o)
        BY <1>0 DEF InfoInv, Shape
      <3>3. "evicting" \in Pcs /\ HeldFits("evicting", warm[p][o], s)
        BY <2>2, <3>2 DEF HeldFits, EntryAt, Pcs
      <3>4. \A q \in Procs, u \in Sandboxes : warm'[q][u] \in {warm[q][u], NoInfo}
        BY <3>1
      <3>5. active' = active
        BY <1>6 DEF EvictWarm
      <3> QED BY <1>2, <2>2, <3>2, <3>3, <3>4, <3>5
    <2> QED BY <1>6, <2>1, <2>2 DEF EvictWarm
  <1> QED BY <1>4, <1>5, <1>6

\* The steps of a call under the file lock.
LEMMA LockedInfo ==
    ASSUME PoolInv, InfoInv, NEW p \in Procs, NEW s \in Sandboxes,
           \/ Acquire(p, s) \/ LockFile(p, s) \/ Discover(p, s) \/ RegisterDiscovered(p, s)
           \/ Create(p, s) \/ Ready(p, s)
    PROVE  InfoInv'
  <1> USE DEF maps
  <1>0. /\ Shape
        /\ EntryAt(active[p][s], s) /\ EntryAt(NoInfo, s)
        /\ HeldFits(acq[p][s].pc, acq[p][s].held, s)
        /\ active[p][s] \in AnyInfo /\ acq[p][s].held \in AnyInfo /\ NoInfo \in AnyInfo
        /\ running \in [Sandboxes -> 0 .. made] /\ missed \subseteq Sandboxes /\ made \in Nat
        /\ running[s] # 0 => ByName(s) \in Known /\ ByName(s) \in AnyInfo /\ ByName(s).sb = s
    BY InfoFacts
  <1>a. condemned \in [Procs -> SUBSET Sandboxes] /\ made <= made
    BY <1>0 DEF InfoInv
  <1>b. UNCHANGED <<condemned, doomed, missed>>
    BY DEF Acquire, LockFile, Discover, RegisterDiscovered, Create, Ready
  <1>1. ASSUME NEW c, acq' = [acq EXCEPT ![p][s] = c], HeldFits(c.pc, c.held, s),
               UNCHANGED <<active, warm, running, made>>
        PROVE  InfoInv'
    <2>1. /\ acq'[p][s] = c
          /\ \A q \in Procs, u \in Sandboxes : q # p \/ u # s => acq'[q][u] = acq[q][u]
      BY <1>0, <1>1 DEF Shape
    <2>2. HeldFits(acq[p][s].pc, acq[p][s].held, s)'
      BY <1>1, <2>1 DEF HeldFits, EntryAt, Known
    <2> QED BY <1>0, <1>a, <1>b, <1>1, <2>1, <2>2, InfoKept
  <1>2. ASSUME NEW b \in BOOLEAN
        PROVE  HeldFits(LookActive(p, s, b).pc, LookActive(p, s, b).held, s)
    <2>1. /\ LookActive(p, s, b).held = active[p][s]
          /\ LookActive(p, s, b).pc = IF active[p][s] # NoInfo THEN "aliveA" ELSE "warm"
      BY DEF LookActive
    <2> QED BY <1>0, <2>1 DEF HeldFits, EntryAt, Holding, Looked
  <1>3. CASE Acquire(p, s)
    BY <1>1, <1>2, <1>3 DEF Acquire
  <1>4. CASE LockFile(p, s)
    BY <1>1, <1>2, <1>4 DEF LockFile
  <1>5. CASE Discover(p, s)
    <2>1. CASE running[s] # 0 /\ Goto(p, s, "found", ByName(s))
      <3>1. "found" \in Pcs /\ HeldFits("found", ByName(s), s)
        BY <1>0, <2>1, KnownIsInfo DEF HeldFits, EntryAt, Pcs
      <3> QED BY <1>0, <1>b, <1>5, <2>1, <3>1, CallInfo DEF Discover
    <2>2. CASE acq' = [acq EXCEPT ![p][s] =
                 [@ EXCEPT !.pc = "evict", !.held = NoInfo, !.blind = running[s] # 0]]
      <3>1. acq[p][s] \in Calls
        BY <1>0 DEF Shape
      <3> DEFINE c == [acq[p][s] EXCEPT !.pc = "evict", !.held = NoInfo, !.blind = running[s] # 0]
      <3>2. c.pc = "evict" /\ c.held = NoInfo
        BY <3>1 DEF Calls
      <3>3. HeldFits(c.pc, c.held, s)
        BY <1>0, <3>2 DEF HeldFits, Holding, Looked
      <3>4. acq' = [acq EXCEPT ![p][s] = c]
        BY <1>0, <2>2 DEF Shape
      <3> HIDE DEF c
      <3> QED BY <1>1, <1>5, <3>3, <3>4 DEF Discover
    <2> QED BY <1>5, <2>1, <2>2 DEF Discover
  <1>6. CASE RegisterDiscovered(p, s) \/ Ready(p, s)
    <2>1. Finish(p, s) /\ active' = [active EXCEPT ![p][s] = acq[p][s].held] /\ UNCHANGED <<warm, running, made>>
      BY <1>6 DEF RegisterDiscovered, Ready, Register
    <2>2. EntryAt(acq[p][s].held, s)
      BY <1>0, <1>6 DEF RegisterDiscovered, Ready, HeldFits
    <2>3. /\ active'[p][s] = acq[p][s].held
          /\ \A q \in Procs, u \in Sandboxes : q # p \/ u # s => active'[q][u] = active[q][u]
      BY <1>0, <2>1 DEF Shape
    <2> QED BY <1>0, <1>b, <2>1, <2>2, <2>3, EndInfo
  <1>7. CASE Create(p, s)
    <2>0. UNCHANGED <<active, warm>>
      BY <1>7 DEF Create
    <2>1. CASE /\ made' = made + 1
               /\ running' = [running EXCEPT ![s] = made + 1]
               /\ Goto(p, s, "wait", ById(s, made + 1))
      <3>1. ById(s, made + 1) \in AnyInfo /\ "wait" \in Pcs
        BY <1>0 DEF ById, AnyInfo, Pcs
      <3>2. /\ acq'[p][s].pc = "wait" /\ acq'[p][s].held = ById(s, made + 1)
            /\ \A q \in Procs, u \in Sandboxes : q # p \/ u # s => acq'[q][u] = acq[q][u]
        BY <1>0, <2>1, <3>1, GotoIs
      <3>3. /\ ById(s, made + 1) \in Known' /\ ById(s, made + 1).sb = s
            /\ ById(s, made + 1) # NoInfo
        <4>1. made + 1 \in Nat /\ made + 1 \in 1 .. made'
          BY <1>0, <2>1
        <4>2. ById(s, made + 1) \in Known' /\ ById(s, made + 1).sb = s
          BY <4>1 DEF ById, Known
        <4>3. ById(s, made + 1) \in [sb: Sandboxes, gen: Nat, byId: BOOLEAN]
          BY <4>1 DEF ById
        <4> QED BY <4>2, <4>3
      <3>4. HeldFits(acq[p][s].pc, acq[p][s].held, s)'
        BY <3>2, <3>3 DEF HeldFits, EntryAt
      <3>5. running' \in [Sandboxes -> 0 .. made']
        <4>1. ASSUME NEW u \in Sandboxes PROVE running'[u] \in 0 .. made'
          <5>1. running[u] \in 0 .. made /\ running'[u] = IF u = s THEN made + 1 ELSE running[u]
            BY <1>0, <2>1
          <5> QED BY <1>0, <2>1, <5>1
        <4>2. running' = [u \in Sandboxes |-> running'[u]]
          BY <1>0, <2>1
        <4> QED BY <4>1, <4>2
      <3>6. made' \in Nat /\ made <= made'
        BY <1>0, <2>1
      <3>7. \A q \in Procs, u \in Sandboxes :
               /\ active'[q][u] = active[q][u] /\ warm'[q][u] = warm[q][u]
               /\ \/ acq'[q][u] = acq[q][u]
                  \/ HeldFits(acq[q][u].pc, acq[q][u].held, u)'
        BY <2>0, <3>2, <3>4
      <3> QED BY <1>0, <1>a, <1>b, <3>5, <3>6, <3>7, InfoKept
    <2>2. CASE running[s] # 0 /\ Goto(p, s, "wait", ByName(s)) /\ UNCHANGED <<made, running>>
      <3>1. "wait" \in Pcs /\ HeldFits("wait", ByName(s), s)
        BY <1>0, <2>2, KnownIsInfo DEF HeldFits, EntryAt, Pcs
      <3> QED BY <1>0, <1>b, <2>0, <2>2, <3>1, CallInfo
    <2>3. CASE Finish(p, s) /\ UNCHANGED <<made, running>>
      BY <1>0, <1>b, <2>0, <2>3, EndInfo
    <2> QED BY <1>7, <2>1, <2>2, <2>3 DEF Create
  <1> QED BY <1>3, <1>4, <1>5, <1>6, <1>7

\* release, the idle checker and destroy.
LEMMA CleanupInfo ==
    ASSUME PoolInv, InfoInv, NEW p \in Procs, NEW s \in Sandboxes,
           Release(p, s) \/ IdleWarm(p, s) \/ IdleActive(p, s) \/ Destroy(p, s)
    PROVE  InfoInv'
  <1> USE DEF maps
  <1>0. /\ Shape
        /\ EntryAt(active[p][s], s) /\ EntryAt(warm[p][s], s) /\ EntryAt(NoInfo, s)
        /\ running \in [Sandboxes -> 0 .. made] /\ missed \subseteq Sandboxes /\ made \in Nat
    BY InfoFacts
  <1>a. condemned \in [Procs -> SUBSET Sandboxes] /\ doomed \in [Procs -> SUBSET Known]
    BY DEF InfoInv
  <1>b. UNCHANGED <<acq, running, made, missed>> /\ made <= made' /\ Known' = Known
    <2>1. UNCHANGED <<acq, running, made, missed>>
      BY DEF Release, IdleWarm, IdleActive, Destroy
    <2> QED BY <1>0, <2>1 DEF Known
  <1>c. \A i, u : EntryAt(i, u) = EntryAt(i, u)'
    BY <1>b DEF EntryAt
  <1>d. ASSUME NEW i, EntryAt(i, s), doomed' = [doomed EXCEPT ![p] = @ \cup ({i} \ {NoInfo})]
        PROVE  doomed' \in [Procs -> SUBSET Known']
    <2>1. {i} \ {NoInfo} \subseteq Known
      BY <1>d DEF EntryAt
    <2> QED BY <1>a, <1>b, <1>d, <2>1
  <1>1. CASE Release(p, s)
    <2>1. /\ active'[p][s] = NoInfo /\ warm'[p][s] = Parked(p, s)
          /\ \A q \in Procs, u \in Sandboxes : q # p \/ u # s =>
                active'[q][u] = active[q][u] /\ warm'[q][u] = warm[q][u]
          /\ UNCHANGED <<condemned, doomed>>
      BY <1>0, <1>1 DEF Release, Shape
    <2>2. EntryAt(active'[p][s], s) /\ EntryAt(warm'[p][s], s)
      BY <1>0, <2>1 DEF Parked
    <2>3. \A q \in Procs, u \in Sandboxes :
             /\ active'[q][u] = active[q][u] \/ EntryAt(active[q][u], u)'
             /\ warm'[q][u] = warm[q][u] \/ EntryAt(warm[q][u], u)'
      BY <1>c, <2>1, <2>2
    <2> QED BY <1>0, <1>a, <1>b, <2>1, <2>3, InfoKept
  <1>2. CASE IdleWarm(p, s)
    <2>1. /\ warm'[p][s] = NoInfo
          /\ \A q \in Procs, u \in Sandboxes : q # p \/ u # s => warm'[q][u] = warm[q][u]
          /\ UNCHANGED <<active, condemned>>
      BY <1>0, <1>2, PopWarmIs DEF IdleWarm
    <2>2. doomed' \in [Procs -> SUBSET Known']
      <3>1. {warm[p][s]} \ {NoInfo} = {warm[p][s]}
        BY <1>2 DEF IdleWarm
      <3> QED BY <1>0, <1>2, <1>d, <3>1 DEF IdleWarm
    <2>3. \A q \in Procs, u \in Sandboxes : warm'[q][u] = warm[q][u] \/ EntryAt(warm[q][u], u)'
      BY <2>1 DEF EntryAt
    <2> QED BY <1>0, <1>a, <1>b, <2>1, <2>2, <2>3, InfoKept
  <1>3. CASE IdleActive(p, s)
    <2>1. condemned' \in [Procs -> SUBSET Sandboxes] /\ UNCHANGED <<active, warm, doomed>>
      BY <1>a, <1>3 DEF IdleActive
    <2> QED BY <1>0, <1>a, <1>b, <2>1, InfoKept
  <1>4. CASE Destroy(p, s)
    <2>1. /\ active'[p][s] = NoInfo /\ warm'[p][s] = NoInfo
          /\ \A q \in Procs, u \in Sandboxes : q # p \/ u # s =>
                active'[q][u] = active[q][u] /\ warm'[q][u] = warm[q][u]
      BY <1>0, <1>4, RemoveIs DEF Destroy
    <2>2. condemned' \in [Procs -> SUBSET Sandboxes]
      BY <1>a, <1>4 DEF Destroy
    <2>3. doomed' \in [Procs -> SUBSET Known']
      <3>1. EntryAt(Tracked(p, s), s)
        BY <1>0 DEF Tracked
      <3> QED BY <1>4, <1>d, <3>1 DEF Destroy, ToStop
    <2>4. \A q \in Procs, u \in Sandboxes :
             /\ active'[q][u] = active[q][u] \/ EntryAt(active[q][u], u)'
             /\ warm'[q][u] = warm[q][u] \/ EntryAt(warm[q][u], u)'
      BY <2>1 DEF EntryAt
    <2> QED BY <1>0, <1>a, <1>b, <2>2, <2>3, <2>4, InfoKept
  <1> QED BY <1>1, <1>2, <1>3, <1>4

\* Stops, shutdown, the end and the start of a process.
LEMMA ProcessInfo ==
    ASSUME PoolInv, InfoInv, NEW p \in Procs,
           \/ Shutdown(p) \/ Exit(p) \/ Crash(p) \/ Start(p)
           \/ \E i \in doomed[p] : StopDoomed(p, i)
    PROVE  InfoInv'
  <1> USE DEF maps
  <1>0. /\ Shape /\ made \in Nat
        /\ running \in [Sandboxes -> 0 .. made] /\ missed \subseteq Sandboxes
        /\ condemned \in [Procs -> SUBSET Sandboxes] /\ doomed \in [Procs -> SUBSET Known]
    BY DEF PoolInv, Shape, InfoInv
  <1>1. ASSUME made' = made PROVE made' \in Nat /\ made <= made' /\ Known' = Known
    BY <1>0, <1>1 DEF Known
  <1>2. CASE Shutdown(p)
    <2>0. made' = made /\ made' \in Nat /\ made <= made' /\ Known' = Known
      BY <1>1, <1>2 DEF Shutdown
    <2>1. /\ \A q \in Procs, u \in Sandboxes : warm'[q][u] \in {warm[q][u], NoInfo}
          /\ UNCHANGED <<active, acq, running, missed>>
      BY <1>0, <1>2 DEF Shutdown, Shape
    <2>2. {warm[p][u] : u \in Sandboxes} \ {NoInfo} \subseteq Known
      BY DEF InfoInv, EntryAt
    <2>3. doomed' \in [Procs -> SUBSET Known']
      BY <1>0, <1>2, <2>0, <2>2 DEF Shutdown
    <2>4. condemned' \in [Procs -> SUBSET Sandboxes]
      BY <1>0, <1>2 DEF Shutdown
    <2>5. \A q \in Procs, u \in Sandboxes : warm'[q][u] = warm[q][u] \/ EntryAt(warm[q][u], u)'
      BY <2>1 DEF EntryAt
    <2> QED BY <1>0, <2>0, <2>1, <2>3, <2>4, <2>5, InfoKept
  <1>3. CASE Forget(p)
    <2>0. made' \in Nat /\ made <= made'
      BY <1>0, <1>3 DEF Forget, Abandon
    <2>1. ASSUME NEW q \in Procs, NEW u \in Sandboxes
          PROVE  /\ active'[q][u] \in {active[q][u], NoInfo}
                 /\ warm'[q][u] \in {warm[q][u], NoInfo}
                 /\ acq'[q][u] \in {acq[q][u], Idle}
      BY <1>0, <1>3 DEF Forget, Shape
    <2>2. ASSUME NEW q \in Procs, NEW u \in Sandboxes
          PROVE  /\ active'[q][u] = active[q][u] \/ EntryAt(active[q][u], u)'
                 /\ warm'[q][u] = warm[q][u] \/ EntryAt(warm[q][u], u)'
                 /\ \/ acq'[q][u] = acq[q][u]
                    \/ HeldFits(acq[q][u].pc, acq[q][u].held, u)'
      BY <2>1 DEF EntryAt, HeldFits, Idle, Holding, Looked
    <2>3. doomed' \in [Procs -> SUBSET Known'] /\ condemned' \in [Procs -> SUBSET Sandboxes]
      BY <1>0, <1>3, <2>0, KnownGrows DEF Forget
    <2>4. running' \in [Sandboxes -> 0 .. made'] /\ UNCHANGED missed
      <3>1. 0 .. made \subseteq 0 .. made'
        BY <1>0, <2>0
      <3> QED BY <1>0, <1>3, <3>1 DEF Forget
    <2> QED BY <1>0, <2>0, <2>2, <2>3, <2>4, InfoKept
  <1>4. CASE Start(p)
    <2>0. made' = made /\ made' \in Nat /\ made <= made' /\ Known' = Known
      BY <1>1, <1>4 DEF Start
    <2>1. UNCHANGED <<active, acq, condemned, doomed, running>> /\ missed' \subseteq Sandboxes
      BY <1>4 DEF Start
    <2>2. ASSUME NEW u \in Sandboxes PROVE EntryAt(Adopted(p)[u], u)
      <3>1. running[u] \in 0 .. made
        BY <1>0
      <3> QED BY <1>0, <3>1 DEF Adopted, ByName, EntryAt, Known
    <2>3. \A q \in Procs, u \in Sandboxes :
             warm'[q][u] = warm[q][u] \/ (warm'[q][u] = Adopted(p)[u])
      BY <1>0, <1>4 DEF Start, Shape
    <2>4. \A q \in Procs, u \in Sandboxes : warm'[q][u] = warm[q][u] \/ EntryAt(warm[q][u], u)'
      BY <2>0, <2>2, <2>3 DEF EntryAt
    <2> QED BY <1>0, <2>0, <2>1, <2>4, InfoKept
  <1>5. ASSUME NEW i \in doomed[p], StopDoomed(p, i) PROVE InfoInv'
    <2>0. made' = made /\ made' \in Nat /\ made <= made' /\ Known' = Known
      BY <1>1, <1>5 DEF StopDoomed
    <2>1. i \in Known
      BY <1>0
    <2>2. running' \in [Sandboxes -> 0 .. made] /\ missed' \subseteq Sandboxes
      BY <1>5, <2>1, StopInfo DEF StopDoomed
    <2>3. doomed' \in [Procs -> SUBSET Known'] /\ UNCHANGED <<active, warm, acq, condemned>>
      BY <1>0, <1>5, <2>0 DEF StopDoomed
    <2> QED BY <1>0, <2>0, <2>2, <2>3, InfoKept
  <1> QED BY <1>2, <1>3, <1>4, <1>5 DEF Exit, Crash

\* A create that nobody waits for makes its container.
LEMMA StrayInfo ==
    ASSUME PoolInv, StrayInv, InfoInv, NEW c \in stray, StrayCreate(c) PROVE InfoInv'
  <1>0. made \in Nat /\ running \in [Sandboxes -> 0 .. made] /\ missed \subseteq Sandboxes
    BY DEF PoolInv, Shape, InfoInv
  <1>1. c.sb \in Sandboxes /\ c.gen \in 0 .. made
    <2>1. c.sb \in Sandboxes /\ c.gen \in 1 .. made
      BY DEF StrayInv
    <2> QED BY <1>0, <2>1
  <1>2. UNCHANGED <<active, warm, acq, condemned, doomed, made>> /\ made <= made'
    BY <1>0 DEF StrayCreate, maps
  <1>3. running' \in [Sandboxes -> 0 .. made'] /\ missed' \subseteq Sandboxes
    BY <1>0, <1>1, <1>2 DEF StrayCreate
  <1>4. condemned' \in [Procs -> SUBSET Sandboxes]
    BY <1>2 DEF InfoInv
  <1> QED BY <1>0, <1>2, <1>3, <1>4, InfoKept

LEMMA InfoInit == Init => InfoInv
  BY DEF Init, InfoInv, EntryAt, HeldFits, Idle, Holding, Looked

LEMMA InfoStep == PoolInv /\ StrayInv /\ InfoInv /\ [Next]_vars => InfoInv'
  <1> SUFFICES ASSUME PoolInv, StrayInv, InfoInv, [Next]_vars PROVE InfoInv'
    OBVIOUS
  <1>1. CASE UNCHANGED vars
    BY <1>1 DEF vars, maps, InfoInv, EntryAt, HeldFits, Known
  <1>2. ASSUME NEW p \in Procs, NEW s \in Sandboxes, Step(p, s) \/ Acquire(p, s) PROVE InfoInv'
    BY <1>2, LooksInfo, MovesInfo, LockedInfo, CancelInfo DEF Step
  <1>3. ASSUME NEW p \in Procs, NEW s \in Sandboxes,
               Release(p, s) \/ IdleWarm(p, s) \/ IdleActive(p, s) \/ Destroy(p, s)
        PROVE  InfoInv'
    BY <1>3, CleanupInfo
  <1>4. ASSUME NEW p \in Procs,
               \/ Shutdown(p) \/ Exit(p) \/ Crash(p) \/ Start(p)
               \/ \E i \in doomed[p] : StopDoomed(p, i)
        PROVE  InfoInv'
    BY <1>4, ProcessInfo
  <1>5. ASSUME NEW c \in stray, StrayCreate(c) PROVE InfoInv'
    BY <1>5, StrayInfo
  <1> QED BY <1>1, <1>2, <1>3, <1>4, <1>5 DEF Next

-----------------------------------------------------------------------------
(* The types: an acquire makes at most one container.                      *)

\* Where a call may still make a container, and the calls that are there.
Toward == Pcs \ {"idle", "wait", "unready"}
Pending == {x \in Procs \X Sandboxes : acq[x[1]][x[2]].pc \in Toward}

CountInv ==
    /\ acquires \in Nat /\ acquires <= MaxAcquires
    /\ IsFiniteSet(Pending)
    /\ made + Cardinality(Pending) <= acquires

\* A step of a call is the step of no other.
LEMMA StepIsLocal ==
    ASSUME Shape, NEW p \in Procs, NEW s \in Sandboxes, Acquire(p, s) \/ Step(p, s)
    PROVE  \A q \in Procs, u \in Sandboxes : q # p \/ u # s => acq'[q][u] = acq[q][u]
  <1>1. \E c : acq' = [acq EXCEPT ![p][s] = c]
    <2>1. CASE Acquire(p, s)
      BY <2>1 DEF Acquire
    <2>2. ASSUME NEW l, NEW i, Goto(p, s, l, i) PROVE \E c : acq' = [acq EXCEPT ![p][s] = c]
      BY <2>2 DEF Goto
    <2>3. CASE Finish(p, s)
      BY <2>3 DEF Finish
    <2>4. CASE LookWarm(p, s) \/ CheckAlive(p, s) \/ TakeActive(p, s) \/ TakeWarm(p, s)
      BY <2>2, <2>3, <2>4 DEF LookWarm, CheckAlive, TakeActive, TakeWarm
    <2>5. CASE \/ Drop(p, s) \/ StopDropped(p, s) \/ CheckReplicas(p, s) \/ EvictWarm(p, s)
               \/ StopEvicted(p, s)
      BY <2>2, <2>5 DEF Drop, StopDropped, CheckReplicas, EvictWarm, StopEvicted
    <2>6. CASE LockFile(p, s) \/ Discover(p, s)
      BY <2>2, <2>6 DEF LockFile, Discover
    <2>7. CASE \/ RegisterDiscovered(p, s) \/ Create(p, s) \/ Ready(p, s) \/ NotReady(p, s)
               \/ Cancel(p, s) \/ StopUnready(p, s)
      BY <2>2, <2>3, <2>7 DEF RegisterDiscovered, Create, Ready, NotReady, Cancel,
                              StopUnready, Register
    <2> QED BY <2>1, <2>4, <2>5, <2>6, <2>7 DEF Step
  <1>2. PICK c : acq' = [acq EXCEPT ![p][s] = c]
    BY <1>1
  <1> QED BY <1>2 DEF Shape

\* A call that has made its container makes no other.
LEMMA PendingStays ==
    ASSUME PoolInv, NEW p \in Procs, NEW s \in Sandboxes, Step(p, s), acq'[p][s].pc \in Toward
    PROVE  acq[p][s].pc \in Toward
  <1>0. Shape /\ acq[p][s].held \in AnyInfo
    BY CallFacts
  <1>1. CASE RegisterDiscovered(p, s) \/ Ready(p, s) \/ Cancel(p, s) \/ StopUnready(p, s)
    <2>1. acq'[p][s] = Idle
      BY <1>0, <1>1, FinishIs DEF RegisterDiscovered, Ready, Cancel, StopUnready, Register
    <2> QED BY <2>1 DEF Idle, Toward
  <1>2. CASE NotReady(p, s)
    <2>1. acq'[p][s].pc = "unready"
      BY <1>0, <1>2, GotoIs DEF NotReady, Pcs
    <2> QED BY <2>1 DEF Toward
  <1>3. CASE \/ LookWarm(p, s) \/ CheckAlive(p, s) \/ TakeActive(p, s) \/ TakeWarm(p, s)
             \/ Drop(p, s) \/ StopDropped(p, s) \/ LockFile(p, s) \/ Discover(p, s)
             \/ CheckReplicas(p, s) \/ EvictWarm(p, s) \/ StopEvicted(p, s) \/ Create(p, s)
    BY <1>3 DEF LookWarm, CheckAlive, TakeActive, TakeWarm, Drop, StopDropped, LockFile,
                Discover, CheckReplicas, EvictWarm, StopEvicted, Create, Toward, Pcs
  <1> QED BY <1>1, <1>2, <1>3 DEF Step

LEMMA CountStep == PoolInv /\ CountInv /\ [Next]_vars => CountInv'
  <1> SUFFICES ASSUME PoolInv, CountInv, [Next]_vars PROVE CountInv'
    OBVIOUS
  <1>0. Shape /\ made \in Nat
    BY DEF PoolInv, Shape
  <1>1. IsFiniteSet(Pending) /\ Cardinality(Pending) \in Nat
    BY FS_CardinalityType DEF CountInv
  <1>2. ASSUME Pending' \subseteq Pending, made' = made, acquires' = acquires PROVE CountInv'
    <2>1. IsFiniteSet(Pending') /\ Cardinality(Pending') <= Cardinality(Pending)
      BY <1>1, <1>2, FS_Subset
    <2>2. Cardinality(Pending') \in Nat
      BY <2>1, FS_CardinalityType
    <2> QED BY <1>0, <1>1, <1>2, <2>1, <2>2 DEF CountInv
  <1>a. ASSUME NEW x \in Pending, Pending' \subseteq Pending \ {x}, made' = made + 1,
               acquires' = acquires
        PROVE  CountInv'
    <2>1. /\ IsFiniteSet(Pending \ {x})
          /\ Cardinality(Pending \ {x}) = Cardinality(Pending) - 1
      BY <1>1, FS_RemoveElement
    <2>2. IsFiniteSet(Pending') /\ Cardinality(Pending') <= Cardinality(Pending \ {x})
      BY <1>a, <2>1, FS_Subset
    <2>3. Cardinality(Pending') \in Nat
      BY <2>2, FS_CardinalityType
    <2> QED BY <1>0, <1>1, <1>a, <2>1, <2>2, <2>3 DEF CountInv
  <1>3. CASE UNCHANGED vars
    <2>1. Pending' = Pending
      BY <1>3 DEF vars, Pending
    <2> QED BY <1>2, <1>3, <2>1 DEF vars
  <1>4. ASSUME NEW p \in Procs, NEW s \in Sandboxes, Acquire(p, s) PROVE CountInv'
    <2>1. Pending' \subseteq Pending \cup {<<p, s>>}
      <3>1. \A q \in Procs, u \in Sandboxes : q # p \/ u # s => acq'[q][u] = acq[q][u]
        BY <1>0, <1>4, StepIsLocal
      <3> QED BY <3>1 DEF Pending
    <2>2. /\ IsFiniteSet(Pending \cup {<<p, s>>})
          /\ Cardinality(Pending \cup {<<p, s>>}) <= Cardinality(Pending) + 1
          /\ Cardinality(Pending \cup {<<p, s>>}) \in Nat
      <3>1. /\ IsFiniteSet(Pending \cup {<<p, s>>})
            /\ \/ Cardinality(Pending \cup {<<p, s>>}) = Cardinality(Pending)
               \/ Cardinality(Pending \cup {<<p, s>>}) = Cardinality(Pending) + 1
        BY <1>1, FS_AddElement
      <3> QED BY <1>1, <3>1
    <2>3. IsFiniteSet(Pending') /\ Cardinality(Pending') <= Cardinality(Pending \cup {<<p, s>>})
      BY <2>1, <2>2, FS_Subset
    <2>4. Cardinality(Pending') \in Nat
      BY <2>3, FS_CardinalityType
    <2>5. made' = made /\ acquires' = acquires + 1 /\ acquires < MaxAcquires
      BY <1>4 DEF Acquire
    <2> QED BY <1>0, <1>1, <2>2, <2>3, <2>4, <2>5 DEF CountInv
  <1>5. ASSUME NEW p \in Procs, NEW s \in Sandboxes, Step(p, s) PROVE CountInv'
    <2>1. /\ \A q \in Procs, u \in Sandboxes : q # p \/ u # s => acq'[q][u] = acq[q][u]
          /\ acq'[p][s].pc \in Toward => acq[p][s].pc \in Toward
      BY <1>0, <1>5, StepIsLocal, PendingStays
    <2>2. Pending' \subseteq Pending
      BY <2>1 DEF Pending
    <2>3. CASE made' = made
      <3>1. acquires' = acquires
        BY <1>5 DEF Step, LookWarm, CheckAlive, TakeActive, TakeWarm, Drop, StopDropped,
                    LockFile, Discover, RegisterDiscovered, CheckReplicas, EvictWarm,
                    StopEvicted, Create, Ready, NotReady, Cancel, StopUnready
      <3> QED BY <1>2, <2>2, <2>3, <3>1
    <2>4. CASE made' # made
      <3>1. Create(p, s) \/ Cancel(p, s)
        BY <1>5, <2>4 DEF Step, LookWarm, CheckAlive, TakeActive, TakeWarm, Drop, StopDropped,
                          LockFile, Discover, RegisterDiscovered, CheckReplicas, EvictWarm,
                          StopEvicted, Ready, NotReady, StopUnready
      <3>2. /\ acq[p][s].pc = "create" /\ acquires' = acquires /\ made' = made + 1
            /\ Goto(p, s, "wait", ById(s, made + 1)) \/ Finish(p, s)
        BY <2>4, <3>1 DEF Create, Cancel, Abandon
      <3>3. acq'[p][s].pc \in {"wait", "idle"}
        <4>1. ById(s, made + 1) \in AnyInfo /\ "wait" \in Pcs
          BY <1>0 DEF ById, AnyInfo, Pcs
        <4>2. CASE Finish(p, s)
          BY <1>0, <4>2, FinishIs DEF Idle
        <4>3. CASE Goto(p, s, "wait", ById(s, made + 1))
          BY <1>0, <4>1, <4>3, GotoIs
        <4> QED BY <3>2, <4>2, <4>3
      <3>4. <<p, s>> \in Pending
        BY <3>2 DEF Pending, Toward, Pcs
      <3>5. Pending' \subseteq Pending \ {<<p, s>>}
        BY <2>2, <3>3 DEF Pending, Toward
      <3> QED BY <1>a, <3>2, <3>4, <3>5
    <2> QED BY <2>3, <2>4
  <1>6. ASSUME NEW p \in Procs,
               \/ Shutdown(p) \/ Start(p) \/ (\E i \in doomed[p] : StopDoomed(p, i))
               \/ \E s \in Sandboxes :
                      Release(p, s) \/ IdleWarm(p, s) \/ IdleActive(p, s) \/ Destroy(p, s)
        PROVE  CountInv'
    <2>1. UNCHANGED <<acq, made, acquires>>
      BY <1>6 DEF Shutdown, Start, StopDoomed, Release, IdleWarm, IdleActive, Destroy
    <2>2. Pending' = Pending
      BY <2>1 DEF Pending
    <2> QED BY <1>2, <2>1, <2>2
  <1>7. ASSUME NEW p \in Procs, Exit(p) \/ Crash(p) PROVE CountInv'
    <2>0. Forget(p)
      BY <1>7 DEF Exit, Crash
    <2>1. /\ \A q \in Procs, u \in Sandboxes : acq'[q][u] \in {acq[q][u], Idle}
          /\ \A u \in Sandboxes : acq'[p][u] = Idle
          /\ acquires' = acquires
      BY <1>0, <2>0 DEF Forget, Shape
    <2>2. Pending' \subseteq Pending
      BY <2>1 DEF Pending, Toward, Idle
    <2>3. CASE made' = made
      BY <1>2, <2>1, <2>2, <2>3
    <2>4. CASE made' # made
      <3>1. made' = made + 1 /\ \E u \in Sandboxes : acq[p][u].pc = "create"
        BY <2>0, <2>4 DEF Forget, Abandon
      <3>2. PICK u \in Sandboxes : acq[p][u].pc = "create"
        BY <3>1
      <3>3. <<p, u>> \in Pending
        BY <3>2 DEF Pending, Toward, Pcs
      <3>4. Pending' \subseteq Pending \ {<<p, u>>}
        BY <2>1, <2>2 DEF Pending, Toward, Idle
      <3> QED BY <1>a, <2>1, <3>1, <3>3, <3>4
    <2> QED BY <2>3, <2>4
  <1>8. ASSUME NEW c \in stray, StrayCreate(c) PROVE CountInv'
    <2>1. UNCHANGED <<acq, made, acquires>>
      BY <1>8 DEF StrayCreate
    <2>2. Pending' = Pending
      BY <2>1 DEF Pending
    <2> QED BY <1>2, <2>1, <2>2
  <1> QED BY <1>3, <1>4, <1>5, <1>6, <1>7, <1>8 DEF Next

\* The state keeps its types, and no more containers are made than acquires
\* were called: every call makes one at most, itself or by the create it leaves
\* behind, whatever discovery, eviction and stops do in between.
THEOREM SandboxTypes == Spec => []TypeOK
  <1>1. Init => CountInv
    <2> SUFFICES ASSUME Init PROVE CountInv
      OBVIOUS
    <2>1. Pending = {}
      BY DEF Init, Pending, Toward, Idle
    <2> QED BY <2>1, FS_EmptySet DEF Init, CountInv
  <1>2. PoolInv /\ StrayInv /\ InfoInv /\ CountInv => TypeOK
    <2> SUFFICES ASSUME PoolInv, StrayInv, InfoInv, CountInv PROVE TypeOK
      OBVIOUS
    <2>0. Shape /\ made \in Nat
      BY DEF PoolInv, Shape
    <2>1. made \in 0 .. MaxAcquires
      <3>1. Cardinality(Pending) \in Nat
        BY FS_CardinalityType DEF CountInv
      <3> QED BY <2>0, <3>1 DEF CountInv
    <2>2. Known \subseteq Infos
      BY <2>0, <2>1 DEF Known, Infos
    <2>3. ASSUME NEW p \in Procs, NEW s \in Sandboxes
          PROVE  /\ active[p][s] \in Infos \cup {NoInfo} /\ warm[p][s] \in Infos \cup {NoInfo}
                 /\ acq[p][s].held \in Infos \cup {NoInfo}
      BY <2>2 DEF InfoInv, EntryAt, HeldFits
    <2>4. active \in [Procs -> [Sandboxes -> Infos \cup {NoInfo}]]
      BY <2>0, <2>3 DEF Shape
    <2>5. warm \in [Procs -> [Sandboxes -> Infos \cup {NoInfo}]]
      BY <2>0, <2>3 DEF Shape
    <2>6. acq \in [Procs -> [Sandboxes ->
                    [pc: Pcs, held: Infos \cup {NoInfo}, locked: BOOLEAN, blind: BOOLEAN]]]
      <3>1. ASSUME NEW p \in Procs, NEW s \in Sandboxes
            PROVE  acq[p][s] \in [pc: Pcs, held: Infos \cup {NoInfo}, locked: BOOLEAN,
                                  blind: BOOLEAN]
        <4>1. acq[p][s] \in Calls
          BY <2>0 DEF Shape
        <4> QED BY <2>3, <4>1 DEF Calls
      <3> QED BY <2>0, <3>1 DEF Shape
    <2>7. /\ condemned \in [Procs -> SUBSET Sandboxes] /\ doomed \in [Procs -> SUBSET Infos]
          /\ missed \subseteq Sandboxes /\ running \in [Sandboxes -> 0 .. MaxAcquires]
      BY <2>0, <2>1, <2>2 DEF InfoInv
    <2>8. status \in [Procs -> {"up", "closing", "down"}]
      BY <2>0 DEF Shape
    <2>9. /\ stray \subseteq [sb: Sandboxes, gen: 1 .. MaxAcquires]
          /\ orphans \subseteq 1 .. MaxAcquires
      <3>1. 1 .. made \subseteq 1 .. MaxAcquires
        BY <2>0, <2>1
      <3> QED BY <3>1 DEF StrayInv
    <2> QED BY <2>1, <2>4, <2>5, <2>6, <2>7, <2>8, <2>9 DEF TypeOK
  <1> QED BY <1>1, <1>2, PoolInit, PoolStep, StrayStep, InfoInit, InfoStep, CountStep, PTL DEF Spec

-----------------------------------------------------------------------------
(* Every container is owned.                                               *)

\* Where a call is responsible for the container it holds.
Owning == {"stopA", "stopW", "evicting", "wait", "unready"}

\* What process q has that leads to the container of s.
HasHeld(q, i) == \E t \in Sandboxes : acq[q][t].pc \in Owning /\ i = acq[q][t].held
Leads(q, s, i) ==
    /\ i # NoInfo /\ i.sb = s
    /\ i = active[q][s] \/ i = warm[q][s] \/ i \in doomed[q] \/ HasHeld(q, i)

Led(s) == \E q \in Procs, i \in AnyInfo : Leads(q, s, i) /\ Targets(i)
SomeDown == \E q \in Procs : status[q] = "down"
OwnedAt(s) == running[s] # 0 => Led(s) \/ s \in missed \/ SomeDown

OwnedInv == \A s \in Sandboxes : OwnedAt(s)

LEMMA OwnedIsOwned == PoolInv /\ OwnedInv => EveryContainerOwned
  <1> SUFFICES ASSUME PoolInv, OwnedInv, NEW s \in Sandboxes, running[s] # 0
               PROVE  Reachable(s) \/ s \in missed \/ \E p \in Procs : status[p] = "down"
    BY DEF EveryContainerOwned
  <1>1. CASE Led(s)
    <2>1. PICK q \in Procs, i \in AnyInfo : Leads(q, s, i) /\ Targets(i)
      BY <1>1 DEF Led
    <2>2. i \in {active[q][s], warm[q][s]} \cup doomed[q]
                \cup {acq[q][t].held : t \in {u \in Sandboxes :
                          acq[q][u].pc \in {"stopA", "stopW", "found", "evicting",
                                            "wait", "unready"}}}
      BY <2>1 DEF Leads, HasHeld, Owning
    <2> QED BY <2>1, <2>2 DEF Leads, Reachable
  <1> QED BY <1>1 DEF OwnedInv, OwnedAt, SomeDown

\* A step keeps s owned if it keeps what leads to its container, unless the
\* container stops or a failure is known.
LEMMA OwnedKept ==
    ASSUME NEW s \in Sandboxes, OwnedAt(s),
           running'[s] \in {running[s], 0},
           s \in missed => s \in missed' \/ running'[s] = 0,
           \A q \in Procs : status[q] = "down" => status'[q] = "down",
           \A q \in Procs, i \in AnyInfo : Leads(q, s, i) /\ Targets(i) =>
               Leads(q, s, i)' \/ s \in missed' \/ running'[s] = 0
    PROVE  OwnedAt(s)'
  <1> SUFFICES ASSUME running'[s] # 0 PROVE Led(s)' \/ s \in missed' \/ SomeDown'
    BY DEF OwnedAt
  <1>1. running'[s] = running[s]
    OBVIOUS
  <1>2. CASE Led(s)
    <2>1. PICK q \in Procs, i \in AnyInfo : Leads(q, s, i) /\ Targets(i)
      BY <1>2 DEF Led
    <2>2. CASE Leads(q, s, i)'
      <3>1. i.sb = s /\ Targets(i)'
        BY <1>1, <2>1 DEF Leads, Targets
      <3>2. AnyInfo' = AnyInfo
        BY DEF AnyInfo
      <3> QED BY <2>2, <3>1, <3>2 DEF Led
    <2> QED BY <2>1, <2>2
  <1>3. CASE s \in missed \/ SomeDown
    BY <1>3 DEF SomeDown
  <1> QED BY <1>1, <1>2, <1>3 DEF OwnedAt

\* A step that stops nothing and keeps every lead.
LEMMA NothingLost ==
    ASSUME OwnedInv, UNCHANGED running, missed \subseteq missed',
           \A q \in Procs : status[q] = "down" => status'[q] = "down",
           \A q \in Procs, s \in Sandboxes, i \in AnyInfo :
               Leads(q, s, i) => Leads(q, s, i)' \/ s \in missed'
    PROVE  OwnedInv'
  <1>1. ASSUME NEW s \in Sandboxes PROVE OwnedAt(s)'
    BY OwnedKept DEF OwnedInv
  <1> QED BY <1>1 DEF OwnedInv

\* A docker stop of j: what j led to has stopped or is known to run on.
LEMMA StopOwned ==
    ASSUME PoolInv, OwnedInv, NEW j \in Known, Stop(j), status' = status,
           \A q \in Procs, s \in Sandboxes, i \in AnyInfo :
               Leads(q, s, i) => Leads(q, s, i)' \/ i = j
    PROVE  OwnedInv'
  <1>0. running \in [Sandboxes -> Nat]
    BY DEF PoolInv, Shape
  <1>1. ASSUME NEW s \in Sandboxes PROVE OwnedAt(s)'
    <2>1. /\ running'[s] \in {running[s], 0}
          /\ s \in missed => s \in missed' \/ running'[s] = 0
          /\ j.sb = s /\ Targets(j) => s \in missed' \/ running'[s] = 0
      BY <1>0 DEF Stop
    <2>2. \A q \in Procs, i \in AnyInfo : Leads(q, s, i) /\ Targets(i) =>
             Leads(q, s, i)' \/ s \in missed' \/ running'[s] = 0
      BY <2>1 DEF Leads
    <2> QED BY <2>1, <2>2, OwnedKept DEF OwnedInv
  <1> QED BY <1>1 DEF OwnedInv

\* A call of (p, s) moves on and no other: what it held is what it loses.
LEMMA HeldKept ==
    ASSUME NEW p \in Procs, NEW s \in Sandboxes,
           \A q \in Procs, u \in Sandboxes : q # p \/ u # s => acq'[q][u] = acq[q][u],
           NEW q \in Procs, NEW i, HasHeld(q, i),
           acq[p][s].pc \in Owning /\ i = acq[p][s].held =>
               acq'[p][s].pc \in Owning /\ acq'[p][s].held = i
    PROVE  HasHeld(q, i)'
  BY DEF HasHeld

\* The calls' steps that leave the maps alone.
LEMMA LooksOwned ==
    ASSUME PoolInv, InfoInv, OwnedInv, NEW p \in Procs, NEW s \in Sandboxes,
           \/ Acquire(p, s) \/ LookWarm(p, s) \/ CheckAlive(p, s) \/ TakeActive(p, s)
           \/ LockFile(p, s) \/ Discover(p, s) \/ StopDropped(p, s) \/ StopEvicted(p, s)
           \/ CheckReplicas(p, s) \/ NotReady(p, s) \/ StopUnready(p, s)
    PROVE  OwnedInv'
  <1> USE DEF maps
  <1>0. /\ Shape /\ HeldFits(acq[p][s].pc, acq[p][s].held, s) /\ acq[p][s].held \in AnyInfo
    BY InfoFacts
  <1>1. UNCHANGED <<status, active, warm, doomed>>
    BY DEF Acquire, LookWarm, CheckAlive, TakeActive, LockFile, Discover, StopDropped,
           CheckReplicas, StopEvicted, NotReady, StopUnready
  <1>2. \A q \in Procs, u \in Sandboxes : q # p \/ u # s => acq'[q][u] = acq[q][u]
    BY <1>0, StepIsLocal DEF Step
  <1>3. ASSUME NEW q \in Procs, NEW u \in Sandboxes, NEW i \in AnyInfo, Leads(q, u, i),
               acq[p][s].pc \in Owning /\ i = acq[p][s].held =>
                   acq'[p][s].pc \in Owning /\ acq'[p][s].held = i
        PROVE  Leads(q, u, i)'
    <2>1. HasHeld(q, i) => HasHeld(q, i)'
      BY <1>2, <1>3, HeldKept
    <2> QED BY <1>1, <1>3, <2>1 DEF Leads
  <1>4. CASE \/ Acquire(p, s) \/ LookWarm(p, s) \/ CheckAlive(p, s) \/ TakeActive(p, s)
             \/ LockFile(p, s) \/ Discover(p, s) \/ CheckReplicas(p, s)
    <2>1. acq[p][s].pc \notin Owning /\ UNCHANGED <<running, missed>>
      <3>1. Acquire(p, s) => acq[p][s].pc = "idle"
        BY DEF Acquire, Idle
      <3> QED BY <1>4, <3>1 DEF Acquire, LookWarm, CheckAlive, TakeActive, LockFile, Discover,
                                CheckReplicas, Owning
    <2> QED BY <1>1, <1>3, <2>1, NothingLost
  <1>5. CASE StopDropped(p, s) \/ StopEvicted(p, s) \/ StopUnready(p, s)
    <2>1. Stop(acq[p][s].held) /\ acq[p][s].pc \in Owning
      BY <1>5 DEF StopDropped, StopEvicted, StopUnready, Owning
    <2>2. acq[p][s].held \in Known
      BY <1>0, <2>1 DEF HeldFits, Holding, Owning
    <2> QED BY <1>1, <1>3, <2>1, <2>2, StopOwned
  <1>6. CASE NotReady(p, s)
    <2>1. acq'[p][s].pc = "unready" /\ acq'[p][s].held = acq[p][s].held
      BY <1>0, <1>6, GotoIs DEF NotReady, Pcs
    <2>2. UNCHANGED <<running, missed>>
      BY <1>6 DEF NotReady
    <2> QED BY <1>1, <1>3, <2>1, <2>2, NothingLost DEF Owning
  <1> QED BY <1>4, <1>5, <1>6

\* A call is cancelled: its stop goes on, and the container it waited for is
\* known to be left behind.
LEMMA CancelOwned ==
    ASSUME PoolInv, InfoInv, OwnedInv, NEW p \in Procs, NEW s \in Sandboxes, Cancel(p, s)
    PROVE  OwnedInv'
  <1>0. Shape /\ HeldFits(acq[p][s].pc, acq[p][s].held, s) /\ doomed \in [Procs -> SUBSET Known]
    BY InfoFacts DEF InfoInv
  <1>1. UNCHANGED <<status, active, warm, running>> /\ missed \subseteq missed'
    BY DEF Cancel, maps
  <1>2. \A q \in Procs, u \in Sandboxes : q # p \/ u # s => acq'[q][u] = acq[q][u]
    BY <1>0, StepIsLocal DEF Step
  <1>3. \A q \in Procs : doomed[q] \subseteq doomed'[q]
    BY <1>0 DEF Cancel
  <1>4. acq[p][s].pc \in Owning => acq[p][s].held \in doomed'[p] \/ s \in missed'
    BY <1>0 DEF Cancel, Owning
  <1>5. acq[p][s].pc \in Owning /\ acq[p][s].held \notin doomed'[p] => EntryAt(acq[p][s].held, s)
    BY <1>0 DEF Cancel, Owning, HeldFits
  <1>6. ASSUME NEW q \in Procs, NEW u \in Sandboxes, NEW i \in AnyInfo, Leads(q, u, i)
        PROVE  Leads(q, u, i)' \/ u \in missed'
    <2>1. CASE HasHeld(q, i)
      <3>1. PICK t \in Sandboxes : acq[q][t].pc \in Owning /\ i = acq[q][t].held
        BY <2>1 DEF HasHeld
      <3>2. CASE q = p /\ t = s
        BY <1>4, <1>5, <1>6, <3>1, <3>2 DEF Leads, EntryAt
      <3>3. CASE q # p \/ t # s
        <4>1. HasHeld(q, i)'
          BY <1>2, <3>1, <3>3 DEF HasHeld
        <4> QED BY <1>6, <4>1 DEF Leads
      <3> QED BY <3>2, <3>3
    <2>2. CASE ~HasHeld(q, i)
      BY <1>1, <1>3, <1>6, <2>2 DEF Leads
    <2> QED BY <2>1, <2>2
  <1> QED BY <1>1, <1>6, NothingLost

\* A create that nobody waits for makes a container that nobody knows of.
LEMMA StrayOwned ==
    ASSUME PoolInv, OwnedInv, NEW c \in stray, StrayCreate(c) PROVE OwnedInv'
  <1>1. /\ UNCHANGED <<status, active, warm, acq, doomed>> /\ missed' = missed \cup {c.sb}
        /\ \A s \in Sandboxes : s # c.sb => running'[s] = running[s]
    BY DEF StrayCreate, maps, PoolInv, Shape
  <1>2. ASSUME NEW s \in Sandboxes, s # c.sb PROVE OwnedAt(s)'
    <2>1. \A q \in Procs, i \in AnyInfo : Leads(q, s, i) => Leads(q, s, i)'
      BY <1>1 DEF Leads, HasHeld
    <2>2. OwnedAt(s) /\ running'[s] = running[s]
      BY <1>1, <1>2 DEF OwnedInv
    <2> QED BY <1>1, <2>1, <2>2, OwnedKept
  <1>3. ASSUME NEW s \in Sandboxes, s = c.sb PROVE OwnedAt(s)'
    BY <1>1, <1>3 DEF OwnedAt
  <1> QED BY <1>2, <1>3 DEF OwnedInv

\* The calls' steps that move entries or make a container.
LEMMA MovesOwned ==
    ASSUME PoolInv, InfoInv, OwnedInv, NEW p \in Procs, NEW s \in Sandboxes,
           \/ TakeWarm(p, s) \/ Drop(p, s) \/ EvictWarm(p, s) \/ RegisterDiscovered(p, s)
           \/ Ready(p, s) \/ Create(p, s)
    PROVE  OwnedInv'
  <1> USE DEF maps
  <1>0. /\ Shape /\ CallInv(p, s)
        /\ HeldFits(acq[p][s].pc, acq[p][s].held, s) /\ acq[p][s].held \in AnyInfo
        /\ active[p][s] \in AnyInfo /\ warm[p][s] \in AnyInfo /\ NoInfo \in AnyInfo
        /\ running \in [Sandboxes -> 0 .. made] /\ made \in Nat
    BY InfoFacts
  <1>1. UNCHANGED <<status, doomed, missed>>
    BY DEF TakeWarm, Drop, EvictWarm, RegisterDiscovered, Ready, Create
  <1>2. \A q \in Procs, u \in Sandboxes : q # p \/ u # s => acq'[q][u] = acq[q][u]
    BY <1>0, StepIsLocal DEF Step
  <1>3. ASSUME acq[p][s].pc \notin Owning, NEW q \in Procs, NEW i, HasHeld(q, i)
        PROVE  HasHeld(q, i)'
    BY <1>2, <1>3, HeldKept
  <1>5. CASE TakeWarm(p, s)
    <2>0. acq[p][s].pc \notin Owning /\ UNCHANGED running /\ active[p][s] = NoInfo
      BY <1>0, <1>5 DEF TakeWarm, Owning, CallInv, CallAt, PastActive
    <2>1. CASE warm[p][s] # NoInfo
      <3>1. /\ active'[p][s] = warm[p][s]
            /\ \A q \in Procs, u \in Sandboxes : q # p \/ u # s =>
                  active'[q][u] = active[q][u] /\ warm'[q][u] = warm[q][u]
        BY <1>0, <1>5, <2>1 DEF TakeWarm, PopWarm, Shape
      <3>2. ASSUME NEW q \in Procs, NEW u \in Sandboxes, NEW i \in AnyInfo, Leads(q, u, i)
            PROVE  Leads(q, u, i)'
        <4>1. HasHeld(q, i) => HasHeld(q, i)'
          BY <1>3, <2>0
        <4> QED BY <1>1, <2>0, <3>1, <3>2, <4>1 DEF Leads
      <3> QED BY <1>1, <2>0, <3>2, NothingLost
    <2>2. CASE warm[p][s] = NoInfo
      <3>1. UNCHANGED <<active, warm>>
        BY <1>5, <2>2 DEF TakeWarm
      <3>2. ASSUME NEW q \in Procs, NEW u \in Sandboxes, NEW i \in AnyInfo, Leads(q, u, i)
            PROVE  Leads(q, u, i)'
        <4>1. HasHeld(q, i) => HasHeld(q, i)'
          BY <1>3, <2>0
        <4> QED BY <1>1, <3>1, <3>2, <4>1 DEF Leads
      <3> QED BY <1>1, <2>0, <3>2, NothingLost
    <2> QED BY <2>1, <2>2
  <1>6. CASE Drop(p, s)
    <2>0. acq[p][s].pc \notin Owning /\ UNCHANGED running /\ NoInfo \in {active[p][s], warm[p][s]}
      BY <1>0, <1>6 DEF Drop, Owning, CallInv, CallAt
    <2>1. CASE acq[p][s].held \in {active[p][s], warm[p][s]}
      <3>1. \A q \in Procs, u \in Sandboxes : q # p \/ u # s =>
               active'[q][u] = active[q][u] /\ warm'[q][u] = warm[q][u]
        BY <1>0, <1>6, <2>1, RemoveIs DEF Drop
      <3>2. acq'[p][s].pc \in Owning /\ acq'[p][s].held = Tracked(p, s)
        <4>1. Tracked(p, s) \in AnyInfo
          BY <1>0 DEF Tracked
        <4>2. PICK l \in {"stopA", "stopW"} : Goto(p, s, l, Tracked(p, s))
          BY <1>6, <2>1 DEF Drop
        <4>3. l \in Pcs /\ l \in Owning
          BY DEF Pcs, Owning
        <4> QED BY <1>0, <4>1, <4>2, <4>3, GotoIs
      <3>3. ASSUME NEW q \in Procs, NEW u \in Sandboxes, NEW i \in AnyInfo, Leads(q, u, i)
            PROVE  Leads(q, u, i)'
        <4>1. HasHeld(q, i) => HasHeld(q, i)'
          BY <1>3, <2>0
        <4>2. q = p /\ u = s /\ i \in {active[p][s], warm[p][s]} => i = Tracked(p, s)
          BY <2>0, <3>3 DEF Leads, Tracked
        <4>3. i = acq'[p][s].held /\ q = p => HasHeld(q, i)'
          BY <3>2 DEF HasHeld
        <4> QED BY <1>1, <3>1, <3>2, <3>3, <4>1, <4>2, <4>3 DEF Leads
      <3> QED BY <1>1, <2>0, <3>3, NothingLost
    <2>2. CASE acq[p][s].held \notin {active[p][s], warm[p][s]}
      <3>1. UNCHANGED <<active, warm>>
        BY <1>6, <2>2 DEF Drop
      <3>2. ASSUME NEW q \in Procs, NEW u \in Sandboxes, NEW i \in AnyInfo, Leads(q, u, i)
            PROVE  Leads(q, u, i)'
        <4>1. HasHeld(q, i) => HasHeld(q, i)'
          BY <1>3, <2>0
        <4> QED BY <1>1, <3>1, <3>2, <4>1 DEF Leads
      <3> QED BY <1>1, <2>0, <3>2, NothingLost
    <2> QED BY <2>1, <2>2
  <1>7. CASE EvictWarm(p, s)
    <2>0. acq[p][s].pc \notin Owning /\ UNCHANGED <<active, running>>
      BY <1>7 DEF EvictWarm, Owning
    <2>1. ASSUME UNCHANGED warm PROVE OwnedInv'
      <3>1. ASSUME NEW q \in Procs, NEW u \in Sandboxes, NEW i \in AnyInfo, Leads(q, u, i)
            PROVE  Leads(q, u, i)'
        <4>1. HasHeld(q, i) => HasHeld(q, i)'
          BY <1>3, <2>0
        <4> QED BY <1>1, <2>0, <2>1, <3>1, <4>1 DEF Leads
      <3> QED BY <1>1, <2>0, <3>1, NothingLost
    <2>2. ASSUME NEW o \in Sandboxes, PopWarm(p, o), Goto(p, s, "evicting", warm[p][o])
          PROVE  OwnedInv'
      <3>1. \A q \in Procs, u \in Sandboxes : q # p \/ u # o => warm'[q][u] = warm[q][u]
        BY <1>0, <2>2, PopWarmIs
      <3>2. acq'[p][s].pc \in Owning /\ acq'[p][s].held = warm[p][o]
        <4>1. warm[p][o] \in AnyInfo /\ "evicting" \in Pcs /\ "evicting" \in Owning
          BY <1>0 DEF Shape, Pcs, Owning
        <4> QED BY <1>0, <2>2, <4>1, GotoIs
      <3>3. ASSUME NEW q \in Procs, NEW u \in Sandboxes, NEW i \in AnyInfo, Leads(q, u, i)
            PROVE  Leads(q, u, i)'
        <4>1. HasHeld(q, i) => HasHeld(q, i)'
          BY <1>3, <2>0
        <4>2. i = acq'[p][s].held /\ q = p => HasHeld(q, i)'
          BY <3>2 DEF HasHeld
        <4> QED BY <1>1, <2>0, <3>1, <3>2, <3>3, <4>1, <4>2 DEF Leads
      <3> QED BY <1>1, <2>0, <3>3, NothingLost
    <2> QED BY <1>7, <2>1, <2>2 DEF EvictWarm
  <1>8. CASE RegisterDiscovered(p, s) \/ Ready(p, s)
    <2>0. /\ active[p][s] = NoInfo /\ EntryAt(acq[p][s].held, s)
          /\ active' = [active EXCEPT ![p][s] = acq[p][s].held]
          /\ UNCHANGED <<warm, running>>
      BY <1>0, <1>8 DEF RegisterDiscovered, Ready, Register, HeldFits, CallInv, CallAt, PastBoth
    <2>1. /\ active'[p][s] = acq[p][s].held
          /\ \A q \in Procs, u \in Sandboxes : q # p \/ u # s => active'[q][u] = active[q][u]
      BY <1>0, <2>0 DEF Shape
    <2>2. ASSUME NEW q \in Procs, NEW u \in Sandboxes, NEW i \in AnyInfo, Leads(q, u, i)
          PROVE  Leads(q, u, i)'
      <3>1. CASE HasHeld(q, i)
        <4>1. PICK t \in Sandboxes : acq[q][t].pc \in Owning /\ i = acq[q][t].held
          BY <3>1 DEF HasHeld
        <4>2. CASE q = p /\ t = s
          BY <2>0, <2>1, <2>2, <4>1, <4>2 DEF Leads, EntryAt
        <4>3. CASE q # p \/ t # s
          <5>1. HasHeld(q, i)'
            BY <1>2, <4>1, <4>3 DEF HasHeld
          <5> QED BY <2>2, <5>1 DEF Leads
        <4> QED BY <4>2, <4>3
      <3>2. CASE ~HasHeld(q, i)
        BY <1>1, <2>0, <2>1, <2>2, <3>2 DEF Leads
      <3> QED BY <3>1, <3>2
    <2> QED BY <1>1, <2>0, <2>2, NothingLost
  <1>9. CASE Create(p, s)
    <2>0. acq[p][s].pc \notin Owning /\ UNCHANGED <<active, warm>>
      BY <1>9 DEF Create, Owning
    <2>1. ASSUME NEW q \in Procs, NEW u \in Sandboxes, NEW i \in AnyInfo, Leads(q, u, i)
          PROVE  Leads(q, u, i)'
      <3>1. HasHeld(q, i) => HasHeld(q, i)'
        BY <1>3, <2>0
      <3> QED BY <1>1, <2>0, <2>1, <3>1 DEF Leads
    <2>2. CASE UNCHANGED running
      BY <1>1, <2>1, <2>2, NothingLost
    <2>3. CASE /\ running' = [running EXCEPT ![s] = made + 1]
               /\ Goto(p, s, "wait", ById(s, made + 1))
      <3>0. PICK n \in Nat : n = made + 1
        BY <1>0
      <3>1. ById(s, n) \in [sb: Sandboxes, gen: Nat, byId: BOOLEAN] /\ "wait" \in Pcs
        BY DEF ById, Pcs
      <3>2. acq'[p][s].pc = "wait" /\ acq'[p][s].held = ById(s, n)
        BY <1>0, <2>3, <3>0, <3>1, GotoIs DEF AnyInfo
      <3>3. HasHeld(p, ById(s, n))'
        BY <3>2 DEF HasHeld, Owning, ById
      <3>4. Leads(p, s, ById(s, n))'
        BY <3>1, <3>3 DEF Leads, ById
      <3>5. Targets(ById(s, n))'
        BY <1>0, <2>3, <3>0 DEF Targets, ById
      <3>6. OwnedAt(s)'
        BY <3>1, <3>4, <3>5 DEF OwnedAt, Led, AnyInfo
      <3>7. ASSUME NEW u \in Sandboxes, u # s PROVE OwnedAt(u)'
        <4>1. running'[u] = running[u] /\ OwnedAt(u)
          BY <1>0, <2>3, <3>7 DEF OwnedInv
        <4> QED BY <1>1, <2>1, <4>1, OwnedKept
      <3> QED BY <3>6, <3>7 DEF OwnedInv
    <2> QED BY <1>9, <2>2, <2>3 DEF Create
  <1> QED BY <1>5, <1>6, <1>7, <1>8, <1>9

\* release, the idle checker, destroy and shutdown: what leaves a map is to be
\* stopped, or parked.
LEMMA CleanupOwned ==
    ASSUME PoolInv, InfoInv, OwnedInv, NEW p \in Procs,
           \/ Shutdown(p)
           \/ \E s \in Sandboxes :
                  Release(p, s) \/ IdleWarm(p, s) \/ IdleActive(p, s) \/ Destroy(p, s)
    PROVE  OwnedInv'
  <1> USE DEF maps
  <1>0. Shape /\ doomed \in [Procs -> SUBSET Known]
    BY DEF PoolInv, InfoInv
  <1>1. UNCHANGED <<acq, running, missed>>
    BY DEF Release, IdleWarm, IdleActive, Destroy, Shutdown
  <1>2. \A q \in Procs : status[q] = "down" => status'[q] = "down"
    BY <1>0 DEF Release, IdleWarm, IdleActive, Destroy, Shutdown, Shape
  <1>3. ASSUME NEW q \in Procs, NEW i PROVE HasHeld(q, i) => HasHeld(q, i)'
    BY <1>1 DEF HasHeld
  <1>4. ASSUME NEW q \in Procs, NEW u \in Sandboxes, NEW i \in AnyInfo, Leads(q, u, i)
        PROVE  Leads(q, u, i)'
    <2>0. HasHeld(q, i) => HasHeld(q, i)'
      BY <1>3
    <2>1. ASSUME NEW s \in Sandboxes, Release(p, s) PROVE Leads(q, u, i)'
      <3>1. warm[p][s] = NoInfo /\ active[p][s] # NoInfo
        BY <2>1 DEF Release, PoolInv, CallInv, CallAt
      <3>2. /\ warm'[p][s] = active[p][s]
            /\ \A r \in Procs, t \in Sandboxes : r # p \/ t # s =>
                  active'[r][t] = active[r][t] /\ warm'[r][t] = warm[r][t]
            /\ UNCHANGED doomed
        BY <1>0, <2>1, <3>1 DEF Release, Parked, Shape
      <3> QED BY <1>4, <2>0, <3>1, <3>2 DEF Leads
    <2>2. ASSUME NEW s \in Sandboxes, IdleWarm(p, s) PROVE Leads(q, u, i)'
      <3>1. /\ UNCHANGED active
            /\ \A r \in Procs, t \in Sandboxes : r # p \/ t # s => warm'[r][t] = warm[r][t]
        BY <1>0, <2>2, PopWarmIs DEF IdleWarm
      <3>2. warm[p][s] \in doomed'[p] /\ \A r \in Procs : doomed[r] \subseteq doomed'[r]
        BY <1>0, <2>2 DEF IdleWarm
      <3> QED BY <1>4, <2>0, <3>1, <3>2 DEF Leads
    <2>3. ASSUME NEW s \in Sandboxes, IdleActive(p, s) PROVE Leads(q, u, i)'
      BY <1>4, <2>0, <2>3 DEF Leads, IdleActive
    <2>4. ASSUME NEW s \in Sandboxes, Destroy(p, s) PROVE Leads(q, u, i)'
      <3>1. NoInfo \in {active[p][s], warm[p][s]}
        BY DEF PoolInv, CallInv, CallAt
      <3>2. \A r \in Procs, t \in Sandboxes : r # p \/ t # s =>
               active'[r][t] = active[r][t] /\ warm'[r][t] = warm[r][t]
        BY <1>0, <2>4, RemoveIs DEF Destroy
      <3>3. ToStop(p, s) \subseteq doomed'[p] /\ \A r \in Procs : doomed[r] \subseteq doomed'[r]
        BY <1>0, <2>4 DEF Destroy
      <3>4. q = p /\ u = s /\ i \in {active[p][s], warm[p][s]} => i \in ToStop(p, s)
        BY <1>4, <3>1 DEF Leads, ToStop, Tracked
      <3> QED BY <1>4, <2>0, <3>2, <3>3, <3>4 DEF Leads
    <2>5. CASE Shutdown(p)
      <3>1. UNCHANGED active /\ \A r \in Procs : r # p => warm'[r] = warm[r]
        BY <1>0, <2>5 DEF Shutdown, Shape
      <3>2. /\ {warm[p][s] : s \in Sandboxes} \ {NoInfo} \subseteq doomed'[p]
            /\ \A r \in Procs : doomed[r] \subseteq doomed'[r]
        BY <1>0, <2>5 DEF Shutdown
      <3>3. i = warm[p][u] => i \in doomed'[p]
        BY <1>4, <3>2 DEF Leads
      <3> QED BY <1>4, <2>0, <3>1, <3>2, <3>3 DEF Leads
    <2> QED BY <2>1, <2>2, <2>3, <2>4, <2>5
  <1> QED BY <1>1, <1>2, <1>4, NothingLost

\* A process starts: it adopts every container, or all of them are missed.
LEMMA StartOwned ==
    ASSUME PoolInv, OwnedInv, NEW p \in Procs, Start(p) PROVE OwnedInv'
  <1>1. running' = running /\ running \in [Sandboxes -> Nat] /\ warm \in [Procs -> [Sandboxes -> AnyInfo]]
    BY DEF Start, PoolInv, Shape
  <1>2. CASE missed' = {s \in Sandboxes : running[s] # 0}
    BY <1>1, <1>2 DEF OwnedInv, OwnedAt
  <1>3. CASE warm' = [warm EXCEPT ![p] = Adopted(p)]
    <2> SUFFICES ASSUME NEW s \in Sandboxes, running[s] # 0 PROVE Led(s)'
      BY <1>1 DEF OwnedInv, OwnedAt
    <2>1. PICK i : i = [sb |-> s, gen |-> running[s], byId |-> FALSE]
      OBVIOUS
    <2>2. i \in [sb: Sandboxes, gen: Nat, byId: BOOLEAN] /\ i.sb = s
      BY <1>1, <2>1
    <2>3. warm'[p][s] = i
      BY <1>1, <1>3, <2>1 DEF Adopted, ByName
    <2>4. Leads(p, s, i)'
      BY <2>2, <2>3 DEF Leads
    <2>5. Targets(i)'
      BY <1>1, <2>1 DEF Targets
    <2> QED BY <2>2, <2>4, <2>5 DEF Led, AnyInfo
  <1> QED BY <1>2, <1>3 DEF Start

LEMMA OwnedStep == PoolInv /\ InfoInv /\ OwnedInv /\ [Next]_vars => OwnedInv'
  <1> SUFFICES ASSUME PoolInv, InfoInv, OwnedInv, [Next]_vars PROVE OwnedInv'
    OBVIOUS
  <1>0. Shape /\ doomed \in [Procs -> SUBSET Known]
    BY DEF PoolInv, InfoInv
  <1>1. CASE UNCHANGED vars
    <2>1. ASSUME NEW q \in Procs, NEW s \in Sandboxes, NEW i \in AnyInfo, Leads(q, s, i)
          PROVE  Leads(q, s, i)'
      BY <1>1, <2>1 DEF vars, maps, Leads, HasHeld
    <2> QED BY <1>1, <2>1, NothingLost DEF vars
  <1>2. ASSUME NEW p \in Procs, NEW s \in Sandboxes, Acquire(p, s) \/ Step(p, s) PROVE OwnedInv'
    BY <1>2, LooksOwned, MovesOwned, CancelOwned DEF Step
  <1>3. ASSUME NEW p \in Procs,
               \/ Shutdown(p)
               \/ \E s \in Sandboxes :
                      Release(p, s) \/ IdleWarm(p, s) \/ IdleActive(p, s) \/ Destroy(p, s)
        PROVE  OwnedInv'
    BY <1>3, CleanupOwned
  <1>4. ASSUME NEW p \in Procs, NEW j \in doomed[p], StopDoomed(p, j) PROVE OwnedInv'
    <2>1. j \in Known /\ Stop(j) /\ UNCHANGED <<status, active, warm, acq>>
      BY <1>0, <1>4 DEF StopDoomed, maps
    <2>2. \A q \in Procs : doomed[q] \subseteq doomed'[q] \cup {j}
      BY <1>0, <1>4 DEF StopDoomed
    <2>3. ASSUME NEW q \in Procs, NEW s \in Sandboxes, NEW i \in AnyInfo, Leads(q, s, i)
          PROVE  Leads(q, s, i)' \/ i = j
      BY <2>1, <2>2, <2>3 DEF Leads, HasHeld
    <2> QED BY <2>1, <2>3, StopOwned
  <1>5. ASSUME NEW p \in Procs, Exit(p) \/ Crash(p) PROVE OwnedInv'
    <2>1. status'[p] = "down"
      BY <1>0, <1>5 DEF Exit, Crash, Forget, Shape
    <2> QED BY <2>1 DEF OwnedInv, OwnedAt, SomeDown
  <1>6. ASSUME NEW p \in Procs, Start(p) PROVE OwnedInv'
    BY <1>6, StartOwned
  <1>7. ASSUME NEW c \in stray, StrayCreate(c) PROVE OwnedInv'
    BY <1>7, StrayOwned
  <1> QED BY <1>1, <1>2, <1>3, <1>4, <1>5, <1>6, <1>7 DEF Next

\* No interleaving of acquires, releases, evictions, the idle checkers,
\* shutdowns, crashes and starts leaks a container: an entry or a call that
\* leads to it is handed on by every step until docker stop was called with it.
THEOREM ContainersAreOwned == Spec => []EveryContainerOwned
  <1>1. Init => OwnedInv
    BY DEF Init, OwnedInv, OwnedAt
  <1> QED BY <1>1, PoolInit, PoolStep, StrayStep, InfoInit, InfoStep, OwnedStep, OwnedIsOwned, PTL
          DEF Spec
=============================================================================
