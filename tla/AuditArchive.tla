---------------------------- MODULE AuditArchive ----------------------------
(***************************************************************************)
(* The daily export of audit_events, run by every gateway replica.  Days   *)
(* are numbered; a pass exports the day before the one it started in.  One *)
(* organisation: the object, manifest and watermark keys all carry the     *)
(* org_id, and an error for one only ends the pass (SweepRaises).          *)
(***************************************************************************)
EXTENDS Integers, FiniteSets, Sequences

CONSTANTS
    Events,
    Sweepers,    \* one archive loop per gateway replica
    BatchLimit,  \* ARCHIVE_BATCH_SIZE
    MaxDay,      \* bound: days
    MaxBatches   \* bound: objects written

ASSUME ArchiveAssumption ==
    /\ BatchLimit \in Nat \ {0} /\ MaxDay \in Nat /\ MaxBatches \in Nat
    /\ IsFiniteSet(Events)

VARIABLES
    day,         \* today (UTC)
    occurred,    \* per event: the day of occurred_at, 0 before it is recorded
    recorded,    \* per event: the day it was inserted into audit_events, or 0
    pc,          \* per sweeper: its place in sweep_archive_audit
    window,      \* per sweeper: the day it exports
    rows,        \* per sweeper: what _export_window returned
    batch,       \* per sweeper: the batch it wrote
    objects,     \* the batches in the object store: the day and rows of each
    manifest,    \* per day: the batch its manifest names, 0 without a manifest
    verified,    \* batches whose read-back matched
    watermark    \* last_archived_window_end: the day after the window, or 0

vars == <<day, occurred, recorded, pc, window, rows, batch,
          objects, manifest, verified, watermark>>
sweepVars == <<pc, window, rows, batch>>

Days == 1 .. MaxDay

Init ==
    /\ day = 1
    /\ occurred = [e \in Events |-> 0] /\ recorded = [e \in Events |-> 0]
    /\ pc = [s \in Sweepers |-> "idle"]
    /\ window = [s \in Sweepers |-> 0]
    /\ rows = [s \in Sweepers |-> {}]
    /\ batch = [s \in Sweepers |-> 0]
    /\ objects = << >>
    /\ manifest = [d \in Days |-> 0]
    /\ verified = {}
    /\ watermark = 0

-----------------------------------------------------------------------------
(* The environment.                                                        *)

\* The outbox worker inserts an event, on the day it occurred or, after a
\* backlog, on a later one.
Record(e) ==
    /\ recorded[e] = 0
    /\ recorded' = [recorded EXCEPT ![e] = day]
    /\ \E d \in 1 .. day : occurred' = [occurred EXCEPT ![e] = d]
    /\ UNCHANGED <<day, sweepVars, objects, manifest, verified, watermark>>

Midnight ==
    /\ day < MaxDay
    /\ day' = day + 1
    /\ UNCHANGED <<occurred, recorded, sweepVars, objects, manifest, verified, watermark>>

-----------------------------------------------------------------------------
(* One pass of a sweeper.                                                  *)

Goto(s, l) == pc' = [pc EXCEPT ![s] = l]

\* The pass is over, and its locals with it.
EndSweep(s) ==
    /\ Goto(s, "idle")
    /\ window' = [window EXCEPT ![s] = 0]
    /\ rows' = [rows EXCEPT ![s] = {}]
    /\ batch' = [batch EXCEPT ![s] = 0]

\* (mutant) the window is today's, still open.
OpenWindow == day

ArchiveWindow == day - 1

\* now is read once, at the start of the pass.
StartSweep(s) ==
    /\ pc[s] = "idle" /\ ArchiveWindow >= 1
    /\ Goto(s, "export")
    /\ window' = [window EXCEPT ![s] = ArchiveWindow]
    /\ UNCHANGED <<day, occurred, recorded, rows, batch, objects, manifest,
                   verified, watermark>>

InWindow(d) == {e \in Events : recorded[e] # 0 /\ occurred[e] = d}

Nothing(s) == InWindow(window[s]) = {}

\* The SELECT, at most BatchLimit rows; without rows the organisation is
\* skipped.
ExportWindow(s) ==
    /\ pc[s] = "export"
    /\ \/ Nothing(s) /\ EndSweep(s)
       \/ /\ ~Nothing(s)
          /\ \E found \in SUBSET InWindow(window[s]) :
             /\ Cardinality(found) <= BatchLimit
             /\ found # InWindow(window[s]) => Cardinality(found) = BatchLimit
             /\ rows' = [rows EXCEPT ![s] = found]
          /\ Goto(s, "put")
          /\ UNCHANGED <<window, batch>>
    /\ UNCHANGED <<day, occurred, recorded, objects, manifest, verified, watermark>>

\* The JSONL object, under a fresh random batch id.
PutObject(s) ==
    /\ pc[s] = "put" /\ Len(objects) < MaxBatches
    /\ objects' = Append(objects, [day |-> window[s], rows |-> rows[s]])
    /\ batch' = [batch EXCEPT ![s] = Len(objects) + 1]
    /\ Goto(s, "manifest")
    /\ UNCHANGED <<day, occurred, recorded, window, rows, manifest, verified, watermark>>

\* (mutant) the watermark moves without the read-back.
AfterManifestUnread == "mark"

AfterManifest == "verify"

\* The manifest of the day is overwritten.
PutManifest(s) ==
    /\ pc[s] = "manifest"
    /\ manifest' = [manifest EXCEPT ![window[s]] = batch[s]]
    /\ Goto(s, AfterManifest)
    /\ UNCHANGED <<day, occurred, recorded, window, rows, batch, objects,
                   verified, watermark>>

\* The read-back; a mismatch or an error leaves the watermark alone.
ReadBack(s) ==
    /\ pc[s] = "verify"
    /\ \/ /\ verified' = verified \cup {batch[s]}
          /\ Goto(s, "mark")
          /\ UNCHANGED <<window, rows, batch>>
       \/ EndSweep(s) /\ UNCHANGED verified
    /\ UNCHANGED <<day, occurred, recorded, objects, manifest, watermark>>

\* The upsert overwrites whatever window another replica recorded.
UpsertWatermark(s) ==
    /\ pc[s] = "mark"
    /\ watermark' = window[s] + 1
    /\ EndSweep(s)
    /\ UNCHANGED <<day, occurred, recorded, objects, manifest, verified>>

\* A query or a put raises out of the pass, or the replica dies, before or
\* after the last write landed.
SweepRaises(s) ==
    /\ pc[s] # "idle"
    /\ EndSweep(s)
    /\ UNCHANGED <<day, occurred, recorded, objects, manifest, verified, watermark>>

Sweep(s) ==
    \/ StartSweep(s) \/ ExportWindow(s) \/ PutObject(s) \/ PutManifest(s)
    \/ ReadBack(s) \/ UpsertWatermark(s) \/ SweepRaises(s)

Next ==
    \/ Midnight
    \/ \E e \in Events : Record(e)
    \/ \E s \in Sweepers : Sweep(s)

Spec == Init /\ [][Next]_vars

-----------------------------------------------------------------------------

\* The events of day d that were recorded before the day was over.
Prompt(d) == {e \in Events : occurred[e] = d /\ recorded[e] = d}

Covers(b, d) ==
    /\ objects[b].day = d
    /\ Cardinality(InWindow(d)) <= BatchLimit => Prompt(d) \subseteq objects[b].rows

\* A manifest names an object of its own day in the store, and that object
\* has every event that was recorded before the day closed (on a day that
\* fits one export): a pass reads only closed windows, and two replicas that
\* overwrite each other's manifest lose none of them.
ManifestComplete ==
    \A d \in Days : manifest[d] # 0 => Covers(manifest[d], d)

\* The watermark, wherever a stale pass last set it, closes a day that has an
\* object which was read back and holds what was recorded before the day
\* closed.
WatermarkVerified ==
    watermark # 0 => \E b \in verified : Covers(b, watermark - 1)

=============================================================================
