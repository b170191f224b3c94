-------------------------- MODULE ReleaseChannels --------------------------
(***************************************************************************)
(* Agent releases: the status machine of the versions of one package, one  *)
(* release channel moved by promote and rollback under If-Match and an     *)
(* Idempotency-Key, the pruning of replay records, and the resolver that   *)
(* new runs ask.  Requests are database transactions at READ COMMITTED:    *)
(* each query is a step.  From its compare-and-set to its commit a move    *)
(* holds the lock of the channel row and reads nothing another request may *)
(* write, so these statements are one step (Move).                         *)
(***************************************************************************)
EXTENDS Integers, Sequences

CONSTANTS
    Versions,
    Clients,    \* promote and rollback requests in flight
    Reviewers,  \* review, publish and revoke requests in flight
    Keys,       \* Idempotency-Keys the clients use
    NoKey,      \* a request without the header
    NoVersion,  \* NULL as a version id
    Channel,    \* "dev", "staging" or "prod"
    Lookahead,  \* how far If-Match may run ahead of what is committed
    MaxMoves    \* bound: no request begins after so many moves

ASSUME ReleaseAssumption ==
    /\ NoKey \notin Keys /\ NoVersion \notin Versions
    /\ Channel \in {"dev", "staging", "prod"}
    /\ Lookahead \in Nat /\ MaxMoves \in Nat

VARIABLES
    status,      \* per version: its status
    everRevoked, \* versions a revoke was committed for
    exists,      \* the channel row is committed
    creator,     \* {the client whose uncommitted transaction inserts the row}
    current,     \* current_version_id
    rowVersion,  \* row_version; 1 is also what a client sends before the row exists
    events,      \* release_events of the channel, in commit order
    record,      \* per key: the event whose response is stored for replay, or 0
    pruned,      \* keys whose record the sweep deleted
    pc,          \* per client: the next statement of its request
    req,         \* per client: its request
    prev,        \* per client: current_version_id as its transaction read it
    vreq,        \* per reviewer: {the transition it checked and will write}
    rpc,         \* the resolver: "idle" or "version"
    pointer,     \* the resolver: the pointer it read
    served       \* the version the resolver last returned

channelVars == <<exists, creator, current, rowVersion, events, record, pruned>>
clientVars == <<pc, req, prev>>
resolverVars == <<rpc, pointer, served>>
vars == <<status, everRevoked, channelVars, clientVars, vreq, resolverVars>>

Statuses == {"draft", "reviewed", "published", "revoked", "archived"}
NoRequest == [key |-> NoKey, target |-> NoVersion, expected |-> 0, ahead |-> FALSE]

Init ==
    /\ status = [v \in Versions |-> "draft"] /\ everRevoked = {}
    /\ exists = FALSE /\ creator = {} /\ current = NoVersion /\ rowVersion = 1
    /\ events = << >> /\ record = [k \in Keys |-> 0] /\ pruned = {}
    /\ pc = [c \in Clients |-> "idle"]
    /\ req = [c \in Clients |-> NoRequest]
    /\ prev = [c \in Clients |-> NoVersion]
    /\ vreq = [r \in Reviewers |-> {}]
    /\ rpc = "idle" /\ pointer = NoVersion /\ served = NoVersion

-----------------------------------------------------------------------------
(* Version status.                                                         *)

\* (mutant) a revoked version may be published again.
RepublishableTransitions ==
    [draft |-> {"reviewed", "published", "revoked", "archived"},
     reviewed |-> {"draft", "published", "revoked", "archived"},
     published |-> {"revoked"},
     revoked |-> {"published"},
     archived |-> {}]

LEGAL_TRANSITIONS ==
    [draft |-> {"reviewed", "published", "revoked", "archived"},
     reviewed |-> {"draft", "published", "revoked", "archived"},
     published |-> {"revoked"},
     revoked |-> {},
     archived |-> {}]

\* :review, :publish and :revoke read the status and check the transition ...
TransitionRead(r) ==
    /\ vreq[r] = {}
    /\ \E v \in Versions, to \in {"reviewed", "published", "revoked"} :
        /\ to \in LEGAL_TRANSITIONS[status[v]]
        /\ vreq' = [vreq EXCEPT ![r] = {[version |-> v, to |-> to]}]
    /\ UNCHANGED <<status, everRevoked, channelVars, clientVars, resolverVars>>

\* ... and update the row by its id, whatever the status is by then.  Or the
\* transaction fails.
TransitionWrite(r) ==
    /\ \E t \in vreq[r] :
        \/ /\ status' = [status EXCEPT ![t.version] = t.to]
           /\ everRevoked' = IF t.to = "revoked" THEN everRevoked \cup {t.version}
                             ELSE everRevoked
        \/ UNCHANGED <<status, everRevoked>>
    /\ vreq' = [vreq EXCEPT ![r] = {}]
    /\ UNCHANGED <<channelVars, clientVars, resolverVars>>

-----------------------------------------------------------------------------
(* Promote and rollback.                                                   *)

Goto(c, l) == pc' = [pc EXCEPT ![c] = l]

\* The request is answered and its transaction rolled back or committed.
Answer(c) ==
    /\ Goto(c, "idle")
    /\ req' = [req EXCEPT ![c] = NoRequest]
    /\ prev' = [prev EXCEPT ![c] = NoVersion]

\* A client sends a request, or sends one again: its If-Match is a version it
\* saw, or the one it expects its own outstanding request to produce.
Begin(c) ==
    /\ pc[c] = "idle" /\ Len(events) < MaxMoves
    /\ \E k \in Keys \cup {NoKey}, v \in Versions, e \in 1 .. rowVersion + Lookahead :
        req' = [req EXCEPT ![c] =
            [key |-> k, target |-> v, expected |-> e, ahead |-> e > rowVersion]]
    /\ Goto(c, "replay")
    /\ UNCHANGED <<status, everRevoked, channelVars, prev, vreq, resolverVars>>

\* (mutant) the key is not looked up.
StoredNothing(c) == 0

Stored(c) == IF req[c].key = NoKey THEN 0 ELSE record[req[c].key]

\* get_idempotency_record, before any mutation: the stored response of the
\* same request (replay) or of another one (409) is the answer.
ReadReplay(c) ==
    /\ pc[c] = "replay"
    /\ \/ Stored(c) # 0 /\ Answer(c)
       \/ Stored(c) = 0 /\ Goto(c, "lookup") /\ UNCHANGED <<req, prev>>
    /\ UNCHANGED <<status, everRevoked, channelVars, vreq, resolverVars>>

\* get_or_create_channel: read the row, or insert it.  A second insert waits
\* on the unique index while the first one is uncommitted; once that is
\* committed it raises IntegrityError.
Lookup(c) ==
    /\ pc[c] = "lookup"
    /\ \/ exists /\ Goto(c, "gate") /\ prev' = [prev EXCEPT ![c] = current]
          /\ UNCHANGED creator
       \/ ~exists /\ creator = {} /\ creator' = {c} /\ Goto(c, "gate")
          /\ UNCHANGED prev
       \/ ~exists /\ creator # {} /\ Goto(c, "insert")
          /\ UNCHANGED <<creator, prev>>
    /\ UNCHANGED <<status, everRevoked, exists, current, rowVersion, events,
                   record, pruned, req, vreq, resolverVars>>

InsertUnblocked(c) ==
    /\ pc[c] = "insert" /\ creator = {}
    /\ \/ exists /\ Goto(c, "resolve") /\ UNCHANGED creator
       \/ ~exists /\ Goto(c, "gate") /\ creator' = {c}
    /\ UNCHANGED <<status, everRevoked, exists, current, rowVersion, events,
                   record, pruned, req, prev, vreq, resolverVars>>

ChannelAllowed ==
    [dev |-> {"draft", "reviewed", "published"},
     staging |-> {"reviewed", "published"},
     prod |-> {"published"}]

RolledBack(c) == creator' = creator \ {c}

\* _assert_gate on the status of the target, for promote and rollback alike.
Gate(c) ==
    /\ pc[c] = "gate"
    /\ \/ /\ status[req[c].target] \in ChannelAllowed[Channel]
          /\ Goto(c, "move")
          /\ UNCHANGED <<creator, req, prev>>
       \/ /\ status[req[c].target] \notin ChannelAllowed[Channel]
          /\ Answer(c) /\ RolledBack(c)
    /\ UNCHANGED <<status, everRevoked, exists, current, rowVersion, events,
                   record, pruned, vreq, resolverVars>>

\* (mutants) the UPDATE forgets its row_version predicate; the pointer moves
\* without advancing row_version; the record is of the event after.
CasAlways(c) == TRUE
SameRowVersion == rowVersion
EventAfterThis == Len(events) + 2

CasMatches(c) == rowVersion = req[c].expected
NextRowVersion == rowVersion + 1
ThisEvent == Len(events) + 1

\* The compare-and-set, the event, the audit row, the replay record and the
\* commit.  A CAS miss is a 409; the unique key of the replay record turns a
\* second move into a lookup of the first one's response; or the commit fails.
Move(c) ==
    /\ pc[c] = "move"
    /\ creator \subseteq {c}
    /\ \/ /\ CasMatches(c) /\ Stored(c) = 0
          /\ exists' = TRUE
          /\ current' = req[c].target
          /\ rowVersion' = NextRowVersion
          /\ events' = Append(events, [from |-> prev[c], to |-> req[c].target,
                                       key |-> req[c].key, ahead |-> req[c].ahead])
          /\ record' = [k \in Keys |->
                            IF k = req[c].key THEN ThisEvent ELSE record[k]]
          /\ Answer(c)
       \/ /\ CasMatches(c) /\ Stored(c) # 0
          /\ Goto(c, "resolve")
          /\ UNCHANGED <<exists, current, rowVersion, events, record, req, prev>>
       \/ /\ ~CasMatches(c)
          /\ Answer(c)
          /\ UNCHANGED <<exists, current, rowVersion, events, record>>
    /\ RolledBack(c)
    /\ UNCHANGED <<status, everRevoked, pruned, vreq, resolverVars>>

\* resolve_idempotency_outcome on a fresh session: replay, conflict or, with
\* no record (the collision was on the channel row, or it was pruned), a 409;
\* without a key the IntegrityError is a 500.
ResolveOutcome(c) ==
    /\ pc[c] = "resolve"
    /\ Answer(c)
    /\ UNCHANGED <<status, everRevoked, channelVars, vreq, resolverVars>>

\* The request fails or its replica dies before the commit.
Abort(c) ==
    /\ pc[c] # "idle"
    /\ Answer(c) /\ RolledBack(c)
    /\ UNCHANGED <<status, everRevoked, exists, current, rowVersion, events,
                   record, pruned, vreq, resolverVars>>

\* The daily sweep deletes a record older than the retention window.
Prune(k) ==
    /\ record[k] # 0
    /\ record' = [record EXCEPT ![k] = 0]
    /\ pruned' = pruned \cup {k}
    /\ UNCHANGED <<status, everRevoked, exists, creator, current, rowVersion,
                   events, clientVars, vreq, resolverVars>>

-----------------------------------------------------------------------------
(* The resolver of new runs.                                               *)

\* The pointer, in a session of its own; a channel without a version is a 404.
ResolvePointer ==
    /\ rpc = "idle" /\ exists /\ current # NoVersion
    /\ rpc' = "version" /\ pointer' = current /\ served' = NoVersion
    /\ UNCHANGED <<status, everRevoked, channelVars, clientVars, vreq>>

\* The version, in another; only prod looks at its status again.
ResolveVersion ==
    /\ rpc = "version"
    /\ served' = IF Channel = "prod" /\ status[pointer] # "published"
                 THEN NoVersion ELSE pointer
    /\ rpc' = "idle" /\ pointer' = NoVersion
    /\ UNCHANGED <<status, everRevoked, channelVars, clientVars, vreq>>

-----------------------------------------------------------------------------

Request(c) ==
    \/ ReadReplay(c) \/ Lookup(c) \/ InsertUnblocked(c) \/ Gate(c)
    \/ Move(c) \/ ResolveOutcome(c)

Next ==
    \/ \E c \in Clients : Begin(c) \/ Request(c) \/ Abort(c)
    \/ \E r \in Reviewers : TransitionRead(r) \/ TransitionWrite(r)
    \/ \E k \in Keys : Prune(k)
    \/ ResolvePointer \/ ResolveVersion

Spec == Init /\ [][Next]_vars

-----------------------------------------------------------------------------

\* The shape of the state; a replay record names an event that was committed.
TypeOK ==
    /\ status \in [Versions -> Statuses] /\ everRevoked \subseteq Versions
    /\ exists \in BOOLEAN /\ creator \subseteq Clients
    /\ current \in Versions \cup {NoVersion} /\ rowVersion \in Nat \ {0}
    /\ events \in Seq([from : Versions \cup {NoVersion}, to : Versions,
                       key : Keys \cup {NoKey}, ahead : BOOLEAN])
    /\ record \in [Keys -> 0 .. Len(events)] /\ pruned \subseteq Keys
    /\ pc \in [Clients -> {"idle", "replay", "lookup", "insert", "gate", "move", "resolve"}]
    /\ req \in [Clients -> [key : Keys \cup {NoKey}, target : Versions \cup {NoVersion},
                            expected : Nat, ahead : BOOLEAN]]
    /\ prev \in [Clients -> Versions \cup {NoVersion}]
    /\ vreq \in [Reviewers -> SUBSET [version : Versions, to : Statuses]]
    /\ rpc \in {"idle", "version"}
    /\ pointer \in Versions \cup {NoVersion} /\ served \in Versions \cup {NoVersion}

\* The channel is where its history says: every move advanced row_version by
\* one and the pointer is the target of the last one, so two requests with the
\* same If-Match never both win.
PointerMatchesHistory ==
    /\ rowVersion = Len(events) + 1
    /\ exists <=> events # << >>
    /\ exists => current = events[Len(events)].to

\* The history is a chain: the from_version_id of a move is the version the
\* move before it put there, although it is read before the compare-and-set.
\* It holds for requests whose If-Match the channel already had when they were
\* sent; one that runs ahead can record a version that was already replaced.
HistoryChains ==
    \A i \in DOMAIN events : ~events[i].ahead =>
        events[i].from = IF i = 1 THEN NoVersion ELSE events[i - 1].to

\* An Idempotency-Key moves the channel at most once while its replay record
\* is retained, whatever If-Match its retries carry.
OneMovePerKey ==
    \A i, j \in DOMAIN events :
        i # j /\ events[i].key = events[j].key => events[i].key \in pruned \cup {NoKey}

\* A version that was revoked is never resolved for prod again: "A revoked
\* version cannot create new Runs".
RevokedNeverServed ==
    [][rpc = "version" /\ pointer \in everRevoked => served' # pointer]_<<rpc, served>>

=============================================================================
