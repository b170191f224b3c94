--------------------------- MODULE ReleaseProofs ---------------------------
(***************************************************************************)
(* The release channel for any number of versions, clients, reviewers and  *)
(* keys: type correctness, the history and the pointer agree, the history  *)
(* is a chain, a key moves the channel once, and, as long as the status of *)
(* versions is changed by one request at a time, prod serves nothing that  *)
(* was revoked.                                                            *)
(***************************************************************************)
EXTENDS ReleaseChannels, TLAPS

USE ReleaseAssumption

NullableVersions == Versions \cup {NoVersion}
Events == [from : NullableVersions, to : Versions, key : Keys \cup {NoKey}, ahead : BOOLEAN]
Requests == [key : Keys \cup {NoKey}, target : NullableVersions, expected : Nat, ahead : BOOLEAN]

\* TypeOK, by owner of the state.
ChannelOK ==
    /\ exists \in BOOLEAN /\ creator \subseteq Clients
    /\ current \in NullableVersions /\ rowVersion \in Nat \ {0}
    /\ events \in Seq(Events)
    /\ record \in [Keys -> 0 .. Len(events)] /\ pruned \subseteq Keys

ClientsOK ==
    /\ pc \in [Clients -> {"idle", "replay", "lookup", "insert", "gate", "move", "resolve"}]
    /\ req \in [Clients -> Requests]
    /\ prev \in [Clients -> NullableVersions]
    /\ \A c \in Clients : pc[c] # "idle" => req[c].target \in Versions

ReviewersOK ==
    /\ status \in [Versions -> Statuses] /\ everRevoked \subseteq Versions
    /\ vreq \in [Reviewers -> SUBSET [version : Versions, to : Statuses]]

ResolverOK ==
    /\ rpc \in {"idle", "version"}
    /\ pointer \in NullableVersions /\ served \in NullableVersions

ReleaseTypes == ChannelOK /\ ClientsOK /\ ReviewersOK /\ ResolverOK

\* The steps of each owner, and what every other step leaves alone.
ClientStep(c) == Begin(c) \/ Request(c) \/ Abort(c)
ReviewerStep(r) == TransitionRead(r) \/ TransitionWrite(r)

-----------------------------------------------------------------------------
(* Types.                                                                  *)

LEMMA ClientFrame ==
    ASSUME NEW c \in Clients, ClientStep(c)
    PROVE  UNCHANGED <<status, everRevoked, pruned, vreq, resolverVars>>
  BY DEF ClientStep, Request, Begin, ReadReplay, Lookup, InsertUnblocked, Gate, Move,
         ResolveOutcome, Abort, channelVars

LEMMA OthersFrame ==
    ASSUME [Next]_vars, \A c \in Clients : ~ClientStep(c)
    PROVE  UNCHANGED <<exists, creator, current, rowVersion, events, clientVars>>
  BY DEF Next, vars, ClientStep, TransitionRead, TransitionWrite, Prune, ResolvePointer,
         ResolveVersion, channelVars

LEMMA ClientsStep == ReleaseTypes /\ [Next]_vars => ClientsOK'
  <1> SUFFICES ASSUME ReleaseTypes, [Next]_vars PROVE ClientsOK'
    OBVIOUS
  <1> USE DEF ReleaseTypes, ClientsOK
  <1>1. ASSUME NEW c \in Clients, Answer(c) PROVE ClientsOK'
    <2>1. NoRequest \in Requests
      BY DEF NoRequest, Requests, NullableVersions
    <2> QED BY <1>1, <2>1 DEF Answer, Goto, NullableVersions
  <1>2. ASSUME NEW c \in Clients, NEW l \in {"lookup", "insert", "gate", "move", "resolve"},
               Goto(c, l), pc[c] # "idle", req' = req,
               prev' = prev \/ prev' = [prev EXCEPT ![c] = current]
        PROVE  ClientsOK'
    BY <1>2 DEF Goto, ChannelOK
  <1>3. ASSUME NEW c \in Clients, Begin(c) PROVE ClientsOK'
    <2>1. PICK q \in Requests : q.target \in Versions /\ req' = [req EXCEPT ![c] = q]
      <3>1. PICK k \in Keys \cup {NoKey}, v \in Versions, e \in 1 .. rowVersion + Lookahead :
              req' = [req EXCEPT ![c] =
                [key |-> k, target |-> v, expected |-> e, ahead |-> e > rowVersion]]
        BY <1>3 DEF Begin
      <3>2. [key |-> k, target |-> v, expected |-> e, ahead |-> e > rowVersion] \in Requests
        BY DEF Requests, NullableVersions, ChannelOK
      <3> QED BY <3>1, <3>2
    <2> QED BY <1>3, <2>1 DEF Begin, Goto
  <1>4. ASSUME NEW c \in Clients, ReadReplay(c) PROVE ClientsOK'
    BY <1>1, <1>2, <1>4 DEF ReadReplay
  <1>5. ASSUME NEW c \in Clients, Lookup(c) PROVE ClientsOK'
    BY <1>2, <1>5 DEF Lookup
  <1>6. ASSUME NEW c \in Clients, InsertUnblocked(c) PROVE ClientsOK'
    BY <1>2, <1>6 DEF InsertUnblocked
  <1>7. ASSUME NEW c \in Clients, Gate(c) PROVE ClientsOK'
    BY <1>1, <1>2, <1>7 DEF Gate
  <1>8. ASSUME NEW c \in Clients, Move(c) PROVE ClientsOK'
    BY <1>1, <1>2, <1>8 DEF Move
  <1>9. ASSUME NEW c \in Clients, ResolveOutcome(c) \/ Abort(c) PROVE ClientsOK'
    BY <1>1, <1>9 DEF ResolveOutcome, Abort
  <1>10. CASE UNCHANGED clientVars
    BY <1>10 DEF clientVars
  <1> QED BY <1>3, <1>4, <1>5, <1>6, <1>7, <1>8, <1>9, <1>10, OthersFrame
     DEF ClientStep, Request

LEMMA ChannelStep == ReleaseTypes /\ [Next]_vars => ChannelOK'
  <1> SUFFICES ASSUME ReleaseTypes, [Next]_vars PROVE ChannelOK'
    OBVIOUS
  <1> USE DEF ReleaseTypes, ChannelOK
  <1>1. ASSUME NEW c \in Clients, Begin(c) \/ ReadReplay(c) \/ ResolveOutcome(c)
        PROVE  ChannelOK'
    BY <1>1 DEF Begin, ReadReplay, ResolveOutcome, channelVars
  <1>2. ASSUME NEW c \in Clients, Lookup(c) \/ InsertUnblocked(c) \/ Gate(c) \/ Abort(c)
        PROVE  ChannelOK'
    BY <1>2 DEF Lookup, InsertUnblocked, Gate, Abort, RolledBack
  <1>3. ASSUME NEW c \in Clients, Move(c) PROVE ChannelOK'
    <2>1. creator' \subseteq Clients /\ pruned' = pruned
      BY <1>3 DEF Move, RolledBack
    <2>2. CASE UNCHANGED <<exists, current, rowVersion, events, record>>
      BY <2>1, <2>2
    <2>3. CASE /\ exists' = TRUE /\ current' = req[c].target
               /\ rowVersion' = NextRowVersion
               /\ events' = Append(events, [from |-> prev[c], to |-> req[c].target,
                                            key |-> req[c].key, ahead |-> req[c].ahead])
               /\ record' = [k \in Keys |->
                                IF k = req[c].key THEN ThisEvent ELSE record[k]]
      <3>1. [from |-> prev[c], to |-> req[c].target, key |-> req[c].key,
             ahead |-> req[c].ahead] \in Events
        BY <1>3 DEF Move, ClientsOK, Requests, Events
      <3>2. events' \in Seq(Events) /\ Len(events') = Len(events) + 1 /\ Len(events) \in Nat
        BY <2>3, <3>1
      <3>3. record' \in [Keys -> 0 .. Len(events')]
        BY <2>3, <3>2 DEF ThisEvent
      <3>4. current' \in NullableVersions /\ rowVersion' \in Nat \ {0}
        BY <1>3, <2>3 DEF Move, ClientsOK, NullableVersions, NextRowVersion
      <3> QED BY <2>1, <2>3, <3>2, <3>3, <3>4
    <2> QED BY <1>3, <2>2, <2>3 DEF Move
  <1>4. ASSUME NEW k \in Keys, Prune(k) PROVE ChannelOK'
    BY <1>4 DEF Prune
  <1>5. CASE UNCHANGED channelVars
    BY <1>5 DEF channelVars
  <1>6. ASSUME NEW r \in Reviewers, ReviewerStep(r) PROVE UNCHANGED channelVars
    BY <1>6 DEF ReviewerStep, TransitionRead, TransitionWrite
  <1> QED BY <1>1, <1>2, <1>3, <1>4, <1>5, <1>6
     DEF Next, vars, Request, ReviewerStep, ResolvePointer, ResolveVersion

LEMMA ReviewersStep == ReleaseTypes /\ [Next]_vars => ReviewersOK'
  <1> SUFFICES ASSUME ReleaseTypes, [Next]_vars PROVE ReviewersOK'
    OBVIOUS
  <1> USE DEF ReleaseTypes, ReviewersOK
  <1>1. ASSUME NEW r \in Reviewers, TransitionRead(r) PROVE ReviewersOK'
    <2>1. PICK v \in Versions, to \in {"reviewed", "published", "revoked"} :
              vreq' = [vreq EXCEPT ![r] = {[version |-> v, to |-> to]}]
      BY <1>1 DEF TransitionRead
    <2>2. {[version |-> v, to |-> to]} \in SUBSET [version : Versions, to : Statuses]
      BY DEF Statuses
    <2> QED BY <1>1, <2>1, <2>2 DEF TransitionRead
  <1>2. ASSUME NEW r \in Reviewers, TransitionWrite(r) PROVE ReviewersOK'
    <2>1. PICK t \in vreq[r] :
            \/ /\ status' = [status EXCEPT ![t.version] = t.to]
               /\ everRevoked' = IF t.to = "revoked" THEN everRevoked \cup {t.version}
                                 ELSE everRevoked
            \/ UNCHANGED <<status, everRevoked>>
      BY <1>2 DEF TransitionWrite
    <2>2. t.version \in Versions /\ t.to \in Statuses
      BY <2>1
    <2>3. vreq' = [vreq EXCEPT ![r] = {}]
      BY <1>2 DEF TransitionWrite
    <2> QED BY <2>1, <2>2, <2>3
  <1>3. CASE UNCHANGED <<status, everRevoked, vreq>>
    BY <1>3
  <1> QED BY <1>1, <1>2, <1>3, ClientFrame
     DEF Next, vars, ClientStep, Prune, ResolvePointer, ResolveVersion

LEMMA ResolverStep == ReleaseTypes /\ [Next]_vars => ResolverOK'
  <1> SUFFICES ASSUME ReleaseTypes, [Next]_vars PROVE ResolverOK'
    OBVIOUS
  <1> USE DEF ReleaseTypes, ResolverOK
  <1>1. CASE ResolvePointer
    BY <1>1 DEF ResolvePointer, ChannelOK, NullableVersions
  <1>2. CASE ResolveVersion
    BY <1>2 DEF ResolveVersion, NullableVersions
  <1>3. CASE UNCHANGED resolverVars
    BY <1>3 DEF resolverVars
  <1> QED BY <1>1, <1>2, <1>3, ClientFrame
     DEF Next, vars, ClientStep, TransitionRead, TransitionWrite, Prune

LEMMA TypesInit == Init => ReleaseTypes
  <1> SUFFICES ASSUME Init PROVE ReleaseTypes
    OBVIOUS
  <1>1. ChannelOK
    <2>1. << >> \in Seq(Events) /\ Len(<< >>) = 0
      OBVIOUS
    <2>2. record \in [Keys -> 0 .. Len(events)]
      BY <2>1 DEF Init
    <2>3. exists \in BOOLEAN /\ creator \subseteq Clients /\ pruned \subseteq Keys
      BY DEF Init
    <2>4. current \in NullableVersions /\ rowVersion \in Nat \ {0}
      BY DEF Init, NullableVersions
    <2>5. events \in Seq(Events)
      BY <2>1 DEF Init
    <2> QED BY <2>2, <2>3, <2>4, <2>5 DEF ChannelOK
  <1>2. ClientsOK
    <2>1. NoRequest \in Requests
      BY DEF NoRequest, Requests, NullableVersions
    <2> QED BY <2>1 DEF Init, ClientsOK, NullableVersions
  <1>3. ReviewersOK /\ ResolverOK
    BY DEF Init, ReviewersOK, ResolverOK, Statuses, NullableVersions
  <1> QED BY <1>1, <1>2, <1>3 DEF ReleaseTypes

LEMMA TypesInvariant == Spec => []ReleaseTypes
  <1>1. ReleaseTypes /\ [Next]_vars => ReleaseTypes'
    BY ClientsStep, ChannelStep, ReviewersStep, ResolverStep DEF ReleaseTypes
  <1> QED BY TypesInit, <1>1, PTL DEF Spec

\* Every statement of every request keeps the shape of the state.
THEOREM ReleaseTypeCorrect == Spec => []TypeOK
  <1>1. ReleaseTypes => TypeOK
    BY DEF ReleaseTypes, ChannelOK, ClientsOK, ReviewersOK, ResolverOK, TypeOK,
           NullableVersions, Requests, Events
  <1> QED BY TypesInvariant, <1>1, PTL

-----------------------------------------------------------------------------
(* The history.                                                            *)

\* The version the row holds; NULL as long as the row is not committed.
Committed == IF exists THEN current ELSE NoVersion

\* A request that is not ahead and whose If-Match still matches began at this
\* row_version, so what it read of the channel is still there.
ReadIsCurrent(c) ==
    /\ pc[c] \in {"idle", "replay", "lookup", "insert"} => prev[c] = NoVersion
    /\ pc[c] # "idle" /\ ~req[c].ahead => req[c].expected <= rowVersion
    /\ pc[c] \in {"gate", "move"} /\ ~req[c].ahead /\ req[c].expected = rowVersion =>
           prev[c] = Committed

HistoryInv ==
    /\ PointerMatchesHistory
    /\ HistoryChains
    /\ \A c \in Clients : ReadIsCurrent(c)

\* What Move does when it moves.
Moves(c) ==
    /\ pc[c] = "move" /\ CasMatches(c) /\ Stored(c) = 0
    /\ exists' = TRUE /\ current' = req[c].target /\ rowVersion' = NextRowVersion
    /\ events' = Append(events, [from |-> prev[c], to |-> req[c].target,
                                 key |-> req[c].key, ahead |-> req[c].ahead])
    /\ record' = [k \in Keys |-> IF k = req[c].key THEN ThisEvent ELSE record[k]]
    /\ pruned' = pruned
    /\ Answer(c)

\* Only a move changes the channel.
LEMMA OnlyMoves ==
    ASSUME [Next]_vars, \A c \in Clients : ~Moves(c)
    PROVE  UNCHANGED <<exists, current, rowVersion, events>>
  <1>1. ASSUME NEW c \in Clients, Move(c)
        PROVE  UNCHANGED <<exists, current, rowVersion, events>>
    BY <1>1 DEF Move, Moves
  <1> QED BY <1>1, OthersFrame
     DEF ClientStep, Request, Begin, ReadReplay, Lookup, InsertUnblocked, Gate,
         ResolveOutcome, Abort, channelVars

LEMMA AppendedMove ==
    ASSUME ReleaseTypes, NEW c \in Clients, Moves(c)
    PROVE  /\ Len(events) \in Nat /\ Len(events') = Len(events) + 1
           /\ DOMAIN events = 1 .. Len(events) /\ DOMAIN events' = 1 .. Len(events')
           /\ events' # << >>
           /\ \A i \in DOMAIN events : events'[i] = events[i]
           /\ events'[Len(events')] =
                [from |-> prev[c], to |-> req[c].target,
                 key |-> req[c].key, ahead |-> req[c].ahead]
  <1>1. events \in Seq(Events)
    BY DEF ReleaseTypes, ChannelOK
  <1>2. [from |-> prev[c], to |-> req[c].target,
         key |-> req[c].key, ahead |-> req[c].ahead] \in Events
    BY DEF Moves, ReleaseTypes, ClientsOK, Requests, Events
  <1> QED BY <1>1, <1>2 DEF Moves

LEMMA HistoryStep ==
    ReleaseTypes /\ ReleaseTypes' /\ HistoryInv /\ [Next]_vars => HistoryInv'
  <1> SUFFICES ASSUME ReleaseTypes, ReleaseTypes', HistoryInv, [Next]_vars
               PROVE  HistoryInv'
    OBVIOUS
  <1>0. rowVersion \in Nat
    BY DEF ReleaseTypes, ChannelOK
  <1>1. ASSUME NEW c \in Clients, Moves(c) PROVE HistoryInv'
    <2>1. rowVersion' = rowVersion + 1 /\ req[c].expected = rowVersion
      BY <1>1 DEF Moves, NextRowVersion, CasMatches
    <2>2. PointerMatchesHistory'
      <3>1. rowVersion' = Len(events') + 1
        BY <1>1, <2>1, AppendedMove DEF HistoryInv, PointerMatchesHistory
      <3> QED BY <1>1, <3>1, AppendedMove DEF PointerMatchesHistory, Moves
    <2>3. HistoryChains'
      <3>1. ASSUME NEW i \in DOMAIN events', ~events'[i].ahead
            PROVE  events'[i].from = IF i = 1 THEN NoVersion ELSE events'[i - 1].to
        <4>1. CASE i \in DOMAIN events
          <5>1. i \in 1 .. Len(events) /\ (i # 1 => i - 1 \in 1 .. Len(events))
            BY <1>1, <4>1, AppendedMove
          <5>2. events'[i] = events[i] /\ (i # 1 => events'[i - 1] = events[i - 1])
            BY <1>1, <4>1, <5>1, AppendedMove
          <5> QED BY <3>1, <4>1, <5>2 DEF HistoryInv, HistoryChains
        <4>2. CASE i = Len(events')
          <5>1. events'[i].from = prev[c] /\ ~req[c].ahead
            BY <1>1, <3>1, <4>2, AppendedMove
          <5>2. prev[c] = Committed
            BY <1>1, <2>1, <5>1 DEF Moves, HistoryInv, ReadIsCurrent
          <5>3. CASE i = 1
            BY <1>1, <4>2, <5>1, <5>2, <5>3, AppendedMove
            DEF HistoryInv, PointerMatchesHistory, Committed
          <5>4. CASE i # 1
            <6>1. /\ i - 1 = Len(events) /\ i - 1 \in DOMAIN events /\ events # << >>
                  /\ events'[i - 1] = events[Len(events)]
              BY <1>1, <4>2, <5>4, AppendedMove
            <6> QED BY <5>1, <5>2, <5>4, <6>1
               DEF HistoryInv, PointerMatchesHistory, Committed
          <5> QED BY <5>3, <5>4
        <4>3. i \in DOMAIN events \/ i = Len(events')
          <5>1. /\ i \in 1 .. Len(events') /\ DOMAIN events = 1 .. Len(events)
                /\ Len(events') = Len(events) + 1 /\ Len(events) \in Nat
            BY <1>1, AppendedMove
          <5> QED BY <5>1
        <4> QED BY <4>1, <4>2, <4>3
      <3> QED BY <3>1 DEF HistoryChains
    <2>4. ASSUME NEW d \in Clients PROVE ReadIsCurrent(d)'
      <3>1. CASE d = c
        BY <1>1, <3>1 DEF Moves, Answer, Goto, ReleaseTypes, ClientsOK, ReadIsCurrent
      <3>2. CASE d # c
        <4>1. pc'[d] = pc[d] /\ req'[d] = req[d] /\ prev'[d] = prev[d]
          BY <1>1, <3>2 DEF Moves, Answer, Goto, ReleaseTypes, ClientsOK
        <4>2. req[d].expected \in Nat
          BY DEF ReleaseTypes, ClientsOK, Requests
        <4> QED BY <1>0, <2>1, <4>1, <4>2 DEF HistoryInv, ReadIsCurrent
      <3> QED BY <3>1, <3>2
    <2> QED BY <2>2, <2>3, <2>4 DEF HistoryInv
  <1>2. CASE \A c \in Clients : ~Moves(c)
    <2>1. UNCHANGED <<exists, current, rowVersion, events>>
      BY <1>2, OnlyMoves
    <2>2. PointerMatchesHistory' /\ HistoryChains'
      BY <2>1 DEF HistoryInv, PointerMatchesHistory, HistoryChains
    <2>3. ASSUME NEW d \in Clients PROVE ReadIsCurrent(d)'
      <3>1. CASE UNCHANGED clientVars
        BY <2>1, <3>1 DEF HistoryInv, ReadIsCurrent, clientVars, Committed
      <3>2. ASSUME NEW c \in Clients, ClientStep(c) PROVE ReadIsCurrent(d)'
        <4>1. CASE d # c
          <5>1. pc'[d] = pc[d] /\ req'[d] = req[d] /\ prev'[d] = prev[d]
            BY <3>2, <4>1 DEF ReleaseTypes, ClientsOK, ClientStep, Request, Begin, ReadReplay,
               Lookup, InsertUnblocked, Gate, Move, ResolveOutcome, Abort, Answer, Goto
          <5> QED BY <2>1, <5>1 DEF HistoryInv, ReadIsCurrent, Committed
        <4>2. CASE d = c
          <5> USE DEF ReleaseTypes, ClientsOK, HistoryInv, ReadIsCurrent, Committed, Goto
          <5>1. CASE Answer(c)
            BY <4>2, <5>1 DEF Answer
          <5>2. CASE Begin(c)
            <6>1. PICK k \in Keys \cup {NoKey}, v \in Versions,
                       e \in 1 .. rowVersion + Lookahead :
                    req'[c] = [key |-> k, target |-> v, expected |-> e,
                               ahead |-> e > rowVersion]
              BY <5>2 DEF Begin
            <6>2. pc'[c] = "replay" /\ prev'[c] = NoVersion
              BY <5>2 DEF Begin
            <6>3. ~req'[c].ahead => req'[c].expected <= rowVersion
              <7>1. CASE e > rowVersion
                <8>1. req'[c].ahead = (e > rowVersion)
                  BY <6>1
                <8>2. req'[c].ahead
                  BY <7>1, <8>1, Zenon
                <8> QED BY <8>2
              <7>2. CASE ~(e > rowVersion)
                <8>1. req'[c].expected = e
                  BY <6>1
                <8> QED BY <1>0, <7>2, <8>1
              <7> QED BY <7>1, <7>2
            <6> QED BY <2>1, <4>2, <6>2, <6>3
          <5>3. CASE ReadReplay(c) /\ ~Answer(c)
            BY <2>1, <4>2, <5>3 DEF ReadReplay
          <5>4. CASE Lookup(c)
            BY <2>1, <4>2, <5>4 DEF Lookup
          <5>5. CASE InsertUnblocked(c)
            BY <2>1, <4>2, <5>5 DEF InsertUnblocked
          <5>6. CASE Gate(c) /\ ~Answer(c)
            BY <2>1, <4>2, <5>6 DEF Gate
          <5>7. CASE Move(c) /\ ~Answer(c)
            BY <2>1, <4>2, <5>7 DEF Move
          <5> QED BY <3>2, <5>1, <5>2, <5>3, <5>4, <5>5, <5>6, <5>7
             DEF ClientStep, Request, ResolveOutcome, Abort
        <4> QED BY <4>1, <4>2
      <3> QED BY <3>1, <3>2, OthersFrame
    <2> QED BY <2>2, <2>3 DEF HistoryInv
  <1> QED BY <1>1, <1>2

LEMMA HistoryInvariant == Spec => []HistoryInv
  <1>1. Init => HistoryInv
    BY DEF Init, HistoryInv, PointerMatchesHistory, HistoryChains, ReadIsCurrent
  <1> QED BY <1>1, HistoryStep, TypesInvariant, PTL DEF Spec

\* The compare-and-set of promote and rollback loses no move and repeats
\* none: row_version counts the events and the pointer is the last target.
THEOREM PointerFollowsHistory == Spec => []PointerMatchesHistory
  <1>1. HistoryInv => PointerMatchesHistory
    BY DEF HistoryInv
  <1> QED BY HistoryInvariant, <1>1, PTL

\* from_version_id, read before the compare-and-set, is the version the move
\* replaced, for every request whose If-Match the channel had when it was sent.
THEOREM HistoryIsAChain == Spec => []HistoryChains
  <1>1. HistoryInv => HistoryChains
    BY DEF HistoryInv
  <1> QED BY HistoryInvariant, <1>1, PTL

-----------------------------------------------------------------------------
(* Idempotency keys.                                                       *)

\* The key of every move is recorded for replay, unless it was pruned.
Retained(key) == key = NoKey \/ key \in pruned \/ (key \in Keys /\ record[key] # 0)

KeyInv ==
    /\ OneMovePerKey
    /\ \A i \in DOMAIN events : Retained(events[i].key)

LEMMA KeyStep == ReleaseTypes /\ KeyInv /\ [Next]_vars => KeyInv'
  <1> SUFFICES ASSUME ReleaseTypes, KeyInv, [Next]_vars PROVE KeyInv'
    OBVIOUS
  <1>1. ASSUME NEW c \in Clients, Moves(c) PROVE KeyInv'
    <2> DEFINE n == Len(events) + 1
               key == req[c].key
    <2>1. /\ DOMAIN events' = DOMAIN events \cup {n} /\ n \notin DOMAIN events
          /\ events'[n].key = key
          /\ \A i \in DOMAIN events : events'[i] = events[i]
      <3>1. /\ Len(events) \in Nat /\ Len(events') = n
            /\ DOMAIN events = 1 .. Len(events) /\ DOMAIN events' = 1 .. n
        BY <1>1, AppendedMove
      <3>2. \A i \in DOMAIN events : events'[i] = events[i]
        BY <1>1, AppendedMove
      <3>3. events'[n].key = key
        <4>1. events'[Len(events')] = [from |-> prev[c], to |-> req[c].target,
                                       key |-> req[c].key, ahead |-> req[c].ahead]
          BY <1>1, AppendedMove
        <4> QED BY <3>1, <4>1
      <3>4. 1 .. n = (1 .. Len(events)) \cup {n} /\ n \notin 1 .. Len(events)
        BY <3>1
      <3> QED BY <3>1, <3>2, <3>3, <3>4
    <2>2. key \in Keys \cup {NoKey} /\ n # 0
      BY <1>1, AppendedMove DEF ReleaseTypes, ClientsOK, Requests
    <2>3. ASSUME NEW i \in DOMAIN events, events[i].key = key
          PROVE  key \in pruned \cup {NoKey}
      BY <1>1, <2>3 DEF KeyInv, Retained, Moves, Stored
    <2>4. pruned' = pruned /\ (key \in Keys => record'[key] = n)
      BY <1>1 DEF Moves, ThisEvent
    <2>5. \A k \in Keys : record[k] # 0 => record'[k] # 0
      BY <1>1, <2>2 DEF Moves, ThisEvent
    <2> HIDE DEF n, key
    <2>6. OneMovePerKey'
      BY <2>1, <2>3, <2>4 DEF KeyInv, OneMovePerKey
    <2>7. ASSUME NEW i \in DOMAIN events' PROVE Retained(events[i].key)'
      <3>1. CASE i = n
        BY <2>1, <2>2, <2>4, <3>1 DEF Retained
      <3>2. CASE i \in DOMAIN events
        BY <2>1, <2>4, <2>5, <3>2 DEF KeyInv, Retained
      <3> QED BY <2>1, <3>1, <3>2
    <2> QED BY <2>6, <2>7 DEF KeyInv
  <1>2. ASSUME NEW k \in Keys, Prune(k) PROVE KeyInv'
    <2>1. events' = events /\ pruned' = pruned \cup {k}
      BY <1>2 DEF Prune
    <2>2. \A j \in Keys : j # k => record'[j] = record[j]
      BY <1>2 DEF Prune, ReleaseTypes, ChannelOK
    <2> QED BY <2>1, <2>2 DEF KeyInv, OneMovePerKey, Retained
  <1>3. CASE UNCHANGED <<events, record, pruned>>
    BY <1>3 DEF KeyInv, OneMovePerKey, Retained
  <1>4. ASSUME NEW c \in Clients, ClientStep(c), ~Moves(c)
        PROVE  UNCHANGED <<events, record, pruned>>
    BY <1>4 DEF Moves, ClientStep, Request, Begin, ReadReplay, Lookup, InsertUnblocked, Gate,
       Move, ResolveOutcome, Abort, channelVars
  <1>5. ASSUME NEW r \in Reviewers, ReviewerStep(r) PROVE UNCHANGED <<events, record, pruned>>
    BY <1>5 DEF ReviewerStep, TransitionRead, TransitionWrite, channelVars
  <1> QED BY <1>1, <1>2, <1>3, <1>4, <1>5
     DEF Next, vars, ClientStep, ReviewerStep, ResolvePointer, ResolveVersion, channelVars

\* However often and under whichever If-Match a request with an
\* Idempotency-Key is sent again, it moves the channel once while its record
\* is retained.
THEOREM KeysMoveOnce == Spec => []OneMovePerKey
  <1>1. Init => KeyInv
    BY DEF Init, KeyInv, OneMovePerKey
  <1>2. KeyInv => OneMovePerKey
    BY DEF KeyInv
  <1> QED BY <1>1, <1>2, KeyStep, TypesInvariant, PTL DEF Spec

-----------------------------------------------------------------------------
(* Revocation.                                                             *)

\* A transition that was checked is still legal when it is written, and a
\* revoked version stays revoked: true for one reviewer at a time.
RevokedInv ==
    /\ \A v \in everRevoked : status[v] = "revoked"
    /\ \A r \in Reviewers : \A t \in vreq[r] : t.to \in LEGAL_TRANSITIONS[status[t.version]]

LEMMA RevokedStep ==
    ASSUME \A r, q \in Reviewers : r = q,
           ReleaseTypes, RevokedInv, [Next]_vars
    PROVE  RevokedInv'
  <1>1. ASSUME NEW r \in Reviewers, TransitionRead(r) PROVE RevokedInv'
    <2>1. PICK v \in Versions, to \in {"reviewed", "published", "revoked"} :
              /\ to \in LEGAL_TRANSITIONS[status[v]]
              /\ vreq' = [vreq EXCEPT ![r] = {[version |-> v, to |-> to]}]
      BY <1>1 DEF TransitionRead
    <2>2. UNCHANGED <<status, everRevoked>>
      BY <1>1 DEF TransitionRead
    <2>3. ASSUME NEW q \in Reviewers, NEW t \in vreq'[q]
          PROVE  t.to \in LEGAL_TRANSITIONS[status[t.version]]
      <3>1. t = [version |-> v, to |-> to]
        BY <2>1 DEF ReleaseTypes, ReviewersOK
      <3> QED BY <2>1, <3>1
    <2> QED BY <2>2, <2>3 DEF RevokedInv
  <1>2. ASSUME NEW r \in Reviewers, TransitionWrite(r) PROVE RevokedInv'
    <2>1. PICK t \in vreq[r] :
            \/ /\ status' = [status EXCEPT ![t.version] = t.to]
               /\ everRevoked' = IF t.to = "revoked" THEN everRevoked \cup {t.version}
                                 ELSE everRevoked
            \/ UNCHANGED <<status, everRevoked>>
      BY <1>2 DEF TransitionWrite
    <2>2. \A q \in Reviewers : vreq'[q] = {}
      BY <1>2 DEF TransitionWrite, ReleaseTypes, ReviewersOK
    <2>3. t.version \in Versions
      BY DEF ReleaseTypes, ReviewersOK
    <2>4. t.version \notin everRevoked
      BY DEF RevokedInv, LEGAL_TRANSITIONS
    <2>5. \A v \in everRevoked' : status'[v] = "revoked"
      BY <2>1, <2>3, <2>4 DEF RevokedInv, ReleaseTypes, ReviewersOK
    <2> QED BY <2>2, <2>5 DEF RevokedInv
  <1>3. CASE UNCHANGED <<status, everRevoked, vreq>>
    BY <1>3 DEF RevokedInv
  <1> QED BY <1>1, <1>2, <1>3, ClientFrame
     DEF Next, vars, ClientStep, Prune, ResolvePointer, ResolveVersion

\* With one status change of a version at a time, no resolution of prod that
\* reads the version after a revocation serves it, whatever promotions,
\* rollbacks and replays are in flight (ReleaseResolver; the restriction is
\* needed, see the run bad_unrevoked).
THEOREM RevokedStaysUnserved ==
    ASSUME Channel = "prod", \A r, q \in Reviewers : r = q
    PROVE  Spec => RevokedNeverServed
  <1>1. Init => RevokedInv
    BY DEF Init, RevokedInv
  <1>2. ReleaseTypes /\ RevokedInv /\ [Next]_vars => RevokedInv'
    BY RevokedStep
  <1>3. ReleaseTypes /\ RevokedInv /\ [Next]_vars =>
          [rpc = "version" /\ pointer \in everRevoked => served' # pointer]_<<rpc, served>>
    <2> SUFFICES ASSUME ReleaseTypes, RevokedInv, [Next]_vars, rpc = "version",
                        pointer \in everRevoked, ~UNCHANGED <<rpc, served>>
                 PROVE  served' # pointer
      OBVIOUS
    <2>1. ResolveVersion
      BY ClientFrame DEF Next, vars, resolverVars, ClientStep, TransitionRead, TransitionWrite,
         Prune, ResolvePointer
    <2>2. status[pointer] = "revoked" /\ pointer # NoVersion
      BY DEF RevokedInv, ReleaseTypes, ReviewersOK
    <2> QED BY <2>1, <2>2 DEF ResolveVersion
  <1> QED BY <1>1, <1>2, <1>3, TypesInvariant, PTL DEF Spec, RevokedNeverServed
=============================================================================
