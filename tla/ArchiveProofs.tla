--------------------------- MODULE ArchiveProofs ---------------------------
(***************************************************************************)
(* The daily export, for any number of replicas, events, days and batches: *)
(* what a manifest or the watermark stands for.                            *)
(***************************************************************************)
EXTENDS AuditArchive, FiniteSetTheorems, TLAPS

USE ArchiveAssumption

Object == [day: Nat \ {0}, rows: SUBSET Events]

Shape ==
    /\ day \in Nat \ {0}
    /\ occurred \in [Events -> Nat] /\ recorded \in [Events -> Nat]
    /\ pc \in [Sweepers -> {"idle", "export", "put", "manifest", "verify", "mark"}]
    /\ window \in [Sweepers -> Nat]
    /\ rows \in [Sweepers -> SUBSET Events]
    /\ batch \in [Sweepers -> Nat]
    /\ objects \in Seq(Object)
    /\ manifest \in [Days -> Nat]
    /\ verified \subseteq DOMAIN objects
    /\ watermark \in Nat

\* R has what was recorded of day d before it closed, and d is closed.
Sound(d, R) ==
    /\ d >= 1 /\ d < day
    /\ Cardinality(InWindow(d)) <= BatchLimit => Prompt(d) \subseteq R

\* Batch b is an object of day d.
IsOf(b, d) == b \in DOMAIN objects /\ objects[b].day = d

\* What a sweeper holds, by its place in the pass.
SweeperInv(s) ==
    /\ pc[s] = "export" => window[s] >= 1 /\ window[s] < day
    /\ pc[s] \in {"put", "manifest", "verify", "mark"} => Sound(window[s], rows[s])
    /\ pc[s] \in {"manifest", "verify", "mark"} => IsOf(batch[s], window[s])
    /\ pc[s] = "mark" => batch[s] \in verified

ArchiveInv ==
    /\ Shape
    /\ \A s \in Sweepers : SweeperInv(s)
    /\ \A b \in DOMAIN objects : Sound(objects[b].day, objects[b].rows)
    /\ \A d \in Days : manifest[d] # 0 => IsOf(manifest[d], d)
    /\ watermark # 0 => \E b \in verified : objects[b].day = watermark - 1

-----------------------------------------------------------------------------
(* The windows.                                                            *)

LEMMA WindowFinite ==
    ASSUME NEW d
    PROVE  IsFiniteSet(InWindow(d)) /\ Cardinality(InWindow(d)) \in Nat
  BY FS_Subset, FS_CardinalityType DEF InWindow

\* Every row of a window that fits one export is found.
LEMMA FullExport ==
    ASSUME Shape, NEW d \in Nat, d >= 1, d < day, NEW found \in SUBSET InWindow(d),
           found # InWindow(d) => Cardinality(found) = BatchLimit
    PROVE  Sound(d, found)
  <1>1. ASSUME Cardinality(InWindow(d)) <= BatchLimit PROVE found = InWindow(d)
    <2>1. /\ Cardinality(found) \in Nat /\ Cardinality(found) <= Cardinality(InWindow(d))
          /\ Cardinality(found) = Cardinality(InWindow(d)) => found = InWindow(d)
      BY WindowFinite, FS_Subset, FS_CardinalityType
    <2> QED BY <1>1, <2>1, WindowFinite
  <1>2. Prompt(d) \subseteq InWindow(d)
    BY DEF Prompt, InWindow
  <1> QED BY <1>1, <1>2 DEF Sound

\* Late records change nothing of a day that is closed.
LEMMA SoundKept ==
    ASSUME Shape, NEW d, NEW R, Sound(d, R), d \in Nat,
           \/ Midnight
           \/ \E e \in Events : Record(e)
           \/ UNCHANGED <<day, occurred, recorded>>
    PROVE  Sound(d, R)'
  <1>1. CASE Midnight
    <2>1. UNCHANGED <<Prompt(d), InWindow(d)>> /\ day' = day + 1
      BY <1>1 DEF Midnight, Prompt, InWindow
    <2> QED BY <2>1 DEF Sound, Shape
  <1>2. ASSUME NEW e \in Events, Record(e) PROVE Sound(d, R)'
    <2>1. /\ recorded[e] = 0 /\ recorded' = [recorded EXCEPT ![e] = day] /\ day' = day
          /\ \A a \in Events : a # e => occurred'[a] = occurred[a]
      BY <1>2 DEF Record, Shape
    <2>2. d >= 1 /\ d < day /\ day \in Nat
      BY DEF Sound, Shape
    <2>3. Prompt(d)' \subseteq Prompt(d)
      BY <2>1, <2>2 DEF Prompt, Shape
    <2>4. InWindow(d) \subseteq InWindow(d)'
      BY <2>1, <2>2 DEF InWindow, Shape
    <2>5. Cardinality(InWindow(d)) <= Cardinality(InWindow(d)')
      <3>1. IsFiniteSet(InWindow(d)')
        BY FS_Subset DEF InWindow
      <3> QED BY <2>4, <3>1, FS_Subset
    <2>6. Cardinality(InWindow(d)) \in Nat /\ Cardinality(InWindow(d)') \in Nat
      <3>1. IsFiniteSet(InWindow(d)')
        BY FS_Subset DEF InWindow
      <3> QED BY <3>1, WindowFinite, FS_CardinalityType
    <2> QED BY <2>1, <2>2, <2>3, <2>5, <2>6 DEF Sound
  <1>3. CASE UNCHANGED <<day, occurred, recorded>>
    <2>1. UNCHANGED <<Prompt(d), InWindow(d)>>
      BY <1>3 DEF Prompt, InWindow
    <2> QED BY <1>3, <2>1 DEF Sound
  <1> QED BY <1>1, <1>2, <1>3

-----------------------------------------------------------------------------
(* The environment.                                                        *)

LEMMA EnvironmentKeeps ==
    ASSUME ArchiveInv, Midnight \/ \E e \in Events : Record(e)
    PROVE  ArchiveInv'
  <1>0. Shape
    BY DEF ArchiveInv
  <1>1. /\ UNCHANGED <<pc, window, rows, batch, objects, manifest, verified, watermark>>
        /\ day' \in Nat /\ day <= day'
    BY <1>0 DEF Midnight, Record, sweepVars, Shape
  <1>2. Shape'
    <2>1. occurred' \in [Events -> Nat] /\ recorded' \in [Events -> Nat] /\ day' \in Nat \ {0}
      <3>1. CASE Midnight
        BY <1>0, <3>1 DEF Midnight, Shape
      <3>2. ASSUME NEW e \in Events, Record(e)
            PROVE  occurred' \in [Events -> Nat] /\ recorded' \in [Events -> Nat] /\ day' = day
        <4>1. PICK d \in 1 .. day : occurred' = [occurred EXCEPT ![e] = d]
          BY <3>2 DEF Record
        <4> QED BY <1>0, <3>2, <4>1 DEF Record, Shape
      <3> QED BY <1>0, <3>1, <3>2 DEF Shape
    <2> QED BY <1>0, <1>1, <2>1 DEF Shape
  <1>3. ASSUME NEW s \in Sweepers PROVE SweeperInv(s)'
    <2>1. window[s] \in Nat /\ SweeperInv(s)
      BY <1>0 DEF ArchiveInv, Shape
    <2>2. pc[s] \in {"put", "manifest", "verify", "mark"} => Sound(window[s], rows[s])'
      <3>1. PICK d \in Nat, R \in SUBSET Events : d = window[s] /\ R = rows[s]
        BY <1>0, <2>1 DEF Shape
      <3>2. Sound(d, R) => Sound(d, R)'
        BY <1>0, SoundKept
      <3> QED BY <1>1, <2>1, <3>1, <3>2 DEF SweeperInv, Sound
    <2>3. pc[s] = "export" => window[s] >= 1 /\ window[s] < day'
      BY <1>0, <1>1, <2>1 DEF SweeperInv, Shape
    <2> QED BY <1>1, <2>1, <2>2, <2>3 DEF SweeperInv, IsOf
  <1>4. ASSUME NEW b \in DOMAIN objects PROVE Sound(objects[b].day, objects[b].rows)'
    <2>1. PICK d, R : d = objects[b].day /\ R = objects[b].rows
      OBVIOUS
    <2>2. d \in Nat
      <3>1. objects[b] \in Object
        BY <1>0 DEF Shape
      <3> QED BY <2>1, <3>1 DEF Object
    <2>3. Sound(d, R)'
      BY <1>0, <2>1, <2>2, SoundKept DEF ArchiveInv
    <2> QED BY <1>1, <2>1, <2>3 DEF Sound
  <1> QED BY <1>1, <1>2, <1>3, <1>4 DEF ArchiveInv, IsOf

-----------------------------------------------------------------------------
(* A pass.                                                                 *)

\* A step that only changes what sweeper s holds, and adds objects, manifests
\* and verified batches.
LEMMA OthersKept ==
    ASSUME ArchiveInv, UNCHANGED <<day, occurred, recorded>>, NEW s \in Sweepers,
           pc'[s] = pc[s], window'[s] = window[s], rows'[s] = rows[s], batch'[s] = batch[s],
           \A b \in DOMAIN objects : b \in DOMAIN objects' /\ objects'[b] = objects[b],
           verified \subseteq verified'
    PROVE  SweeperInv(s)'
  <1>1. Shape /\ SweeperInv(s)
    BY DEF ArchiveInv
  <1>2. ASSUME NEW d, NEW R, Sound(d, R) PROVE Sound(d, R)'
    BY <1>2 DEF Sound, Prompt, InWindow
  <1>3. PICK d, R, b : d = window[s] /\ R = rows[s] /\ b = batch[s]
    OBVIOUS
  <1>4. Sound(d, R) => Sound(d, R)'
    BY <1>2
  <1>5. Sound(window[s], rows[s]) => Sound(window[s], rows[s])'
    BY <1>3, <1>4 DEF Sound
  <1> QED BY <1>1, <1>5 DEF SweeperInv, IsOf

\* The pass ends.
LEMMA EndKeeps ==
    ASSUME ArchiveInv, NEW s \in Sweepers, EndSweep(s),
           UNCHANGED <<day, occurred, recorded, objects, manifest, verified>>,
           watermark' = watermark \/ (pc[s] = "mark" /\ watermark' = window[s] + 1)
    PROVE  ArchiveInv'
  <1>0. Shape /\ SweeperInv(s)
    BY DEF ArchiveInv
  <1>1. /\ pc'[s] = "idle"
        /\ pc' \in [Sweepers -> {"idle", "export", "put", "manifest", "verify", "mark"}]
        /\ window' \in [Sweepers -> Nat]
        /\ rows' \in [Sweepers -> SUBSET Events]
        /\ batch' \in [Sweepers -> Nat]
    BY <1>0 DEF EndSweep, Goto, Shape
  <1>2. \A q \in Sweepers : q # s => /\ pc'[q] = pc[q] /\ window'[q] = window[q]
                                     /\ rows'[q] = rows[q] /\ batch'[q] = batch[q]
    BY <1>0 DEF EndSweep, Goto, Shape
  <1>3. Shape'
    BY <1>0, <1>1 DEF Shape
  <1>4. ASSUME NEW q \in Sweepers PROVE SweeperInv(q)'
    <2>1. CASE q = s
      BY <1>1, <2>1 DEF SweeperInv
    <2>2. CASE q # s
      BY <1>2, <2>2, OthersKept
    <2> QED BY <2>1, <2>2
  <1>5. \A b \in DOMAIN objects' : Sound(objects[b].day, objects[b].rows)'
    BY DEF ArchiveInv, Sound, Prompt, InWindow
  <1>6. watermark' # 0 => \E b \in verified : objects[b].day = watermark' - 1
    <2>1. CASE watermark' = watermark
      BY <2>1 DEF ArchiveInv
    <2>2. CASE pc[s] = "mark" /\ watermark' = window[s] + 1
      <3>1. batch[s] \in verified /\ objects[batch[s]].day = window[s] /\ window[s] \in Nat
        BY <1>0, <2>2 DEF SweeperInv, IsOf, Shape
      <3> QED BY <2>2, <3>1
    <2> QED BY <2>1, <2>2
  <1> QED BY <1>3, <1>4, <1>5, <1>6 DEF ArchiveInv, IsOf

\* The steps of a pass that goes on.
LEMMA PassKeeps ==
    ASSUME ArchiveInv, NEW s \in Sweepers, StartSweep(s) \/ PutManifest(s)
    PROVE  ArchiveInv'
  <1>0. Shape /\ SweeperInv(s)
    BY DEF ArchiveInv
  <1>1. /\ UNCHANGED <<day, occurred, recorded, rows, batch, objects, verified, watermark>>
        /\ pc' \in [Sweepers -> {"idle", "export", "put", "manifest", "verify", "mark"}]
        /\ \A q \in Sweepers : q # s => pc'[q] = pc[q] /\ window'[q] = window[q]
        /\ window' \in [Sweepers -> Nat]
        /\ manifest' \in [Days -> Nat]
    <2>1. CASE StartSweep(s)
      BY <1>0, <2>1 DEF StartSweep, Goto, Shape, ArchiveWindow
    <2>2. CASE PutManifest(s)
      BY <1>0, <2>2 DEF PutManifest, Goto, Shape, AfterManifest
    <2> QED BY <2>1, <2>2
  <1>2. Shape'
    BY <1>0, <1>1 DEF Shape
  <1>3. \A b \in DOMAIN objects' : Sound(objects[b].day, objects[b].rows)'
    BY <1>1 DEF ArchiveInv, Sound, Prompt, InWindow
  <1>4. ASSUME NEW q \in Sweepers, q # s PROVE SweeperInv(q)'
    BY <1>1, <1>4, OthersKept
  <1>5. CASE StartSweep(s)
    <2>1. pc'[s] = "export" /\ window'[s] = day - 1 /\ day - 1 >= 1 /\ manifest' = manifest
      BY <1>0, <1>5 DEF StartSweep, Goto, Shape, ArchiveWindow
    <2>2. SweeperInv(s)'
      BY <1>0, <1>1, <2>1 DEF SweeperInv, Shape
    <2> QED BY <1>1, <1>2, <1>3, <1>4, <2>1, <2>2 DEF ArchiveInv, IsOf
  <1>6. CASE PutManifest(s)
    <2>1. /\ pc[s] = "manifest" /\ pc'[s] = "verify" /\ window' = window
          /\ manifest' = [manifest EXCEPT ![window[s]] = batch[s]]
      BY <1>0, <1>6 DEF PutManifest, Goto, Shape, AfterManifest
    <2>2. IsOf(batch[s], window[s]) /\ Sound(window[s], rows[s])
      BY <1>0, <2>1 DEF SweeperInv
    <2>3. SweeperInv(s)'
      BY <1>1, <2>1, <2>2 DEF SweeperInv, IsOf, Sound, Prompt, InWindow
    <2>4. \A d \in Days : manifest'[d] # 0 => IsOf(manifest'[d], d)
      BY <1>0, <2>1, <2>2 DEF ArchiveInv, Shape
    <2> QED BY <1>1, <1>2, <1>3, <1>4, <2>3, <2>4 DEF ArchiveInv, IsOf
  <1> QED BY <1>5, <1>6

LEMMA ExportKeeps ==
    ASSUME ArchiveInv, NEW s \in Sweepers, ExportWindow(s)
    PROVE  ArchiveInv'
  <1>0. Shape /\ SweeperInv(s)
    BY DEF ArchiveInv
  <1>1. CASE EndSweep(s)
    BY <1>1, EndKeeps DEF ExportWindow
  <1>2. ASSUME NEW found \in SUBSET InWindow(window[s]),
               found # InWindow(window[s]) => Cardinality(found) = BatchLimit,
               rows' = [rows EXCEPT ![s] = found], Goto(s, "put"), UNCHANGED <<window, batch>>
        PROVE  ArchiveInv'
    <2>1. UNCHANGED <<day, occurred, recorded, objects, manifest, verified, watermark>>
      BY DEF ExportWindow
    <2>2. /\ pc' \in [Sweepers -> {"idle", "export", "put", "manifest", "verify", "mark"}]
          /\ pc'[s] = "put" /\ rows'[s] = found
          /\ rows' \in [Sweepers -> SUBSET Events]
          /\ \A q \in Sweepers : q # s => pc'[q] = pc[q] /\ rows'[q] = rows[q]
      BY <1>0, <1>2 DEF Goto, Shape, InWindow
    <2>3. Shape'
      BY <1>0, <1>2, <2>1, <2>2 DEF Shape
    <2>4. Sound(window[s], found)
      <3>1. window[s] \in Nat /\ window[s] >= 1 /\ window[s] < day
        BY <1>0 DEF ExportWindow, SweeperInv, Shape
      <3>2. PICK d \in Nat : d = window[s]
        BY <3>1
      <3> QED BY <1>0, <1>2, <3>1, <3>2, FullExport
    <2>5. SweeperInv(s)'
      BY <1>2, <2>1, <2>2, <2>4 DEF SweeperInv, Sound, Prompt, InWindow
    <2>6. ASSUME NEW q \in Sweepers, q # s PROVE SweeperInv(q)'
      BY <1>2, <2>1, <2>2, <2>6, OthersKept
    <2>7. \A b \in DOMAIN objects' : Sound(objects[b].day, objects[b].rows)'
      BY <2>1 DEF ArchiveInv, Sound, Prompt, InWindow
    <2> QED BY <2>1, <2>3, <2>5, <2>6, <2>7 DEF ArchiveInv, IsOf
  <1> QED BY <1>1, <1>2 DEF ExportWindow

LEMMA PutKeeps ==
    ASSUME ArchiveInv, NEW s \in Sweepers, PutObject(s)
    PROVE  ArchiveInv'
  <1> DEFINE n == Len(objects) + 1
             new == [day |-> window[s], rows |-> rows[s]]
  <1>0. Shape /\ SweeperInv(s) /\ objects \in Seq(Object)
    BY DEF ArchiveInv, Shape
  <1>1. UNCHANGED <<day, occurred, recorded, window, rows, manifest, verified, watermark>>
    BY DEF PutObject
  <1>2. Sound(window[s], rows[s])
    BY <1>0 DEF PutObject, SweeperInv
  <1>3. new \in Object
    BY <1>0, <1>2 DEF Object, Shape, Sound
  <1>4. /\ objects' = Append(objects, new) /\ objects' \in Seq(Object)
        /\ DOMAIN objects' = DOMAIN objects \cup {n} /\ n \in Nat \ {0}
        /\ objects'[n] = new
        /\ \A b \in DOMAIN objects : objects'[b] = objects[b]
    BY <1>0, <1>3 DEF PutObject
  <1>5. /\ pc' \in [Sweepers -> {"idle", "export", "put", "manifest", "verify", "mark"}]
        /\ pc'[s] = "manifest" /\ batch'[s] = n
        /\ batch' \in [Sweepers -> Nat]
        /\ \A q \in Sweepers : q # s => pc'[q] = pc[q] /\ batch'[q] = batch[q]
    BY <1>0, <1>4 DEF PutObject, Goto, Shape
  <1>6. Shape'
    BY <1>0, <1>1, <1>4, <1>5 DEF Shape
  <1>7. ASSUME NEW d, NEW R, Sound(d, R) PROVE Sound(d, R)'
    BY <1>1, <1>7 DEF Sound, Prompt, InWindow
  <1>8. Sound(window[s], rows[s])'
    BY <1>1, <1>2 DEF Sound, Prompt, InWindow
  <1>9. SweeperInv(s)'
    <2>1. IsOf(batch[s], window[s])'
      BY <1>1, <1>4, <1>5 DEF IsOf
    <2> QED BY <1>5, <1>8, <2>1 DEF SweeperInv
  <1>10. ASSUME NEW q \in Sweepers, q # s PROVE SweeperInv(q)'
    BY <1>1, <1>4, <1>5, <1>10, OthersKept
  <1>11. ASSUME NEW b \in DOMAIN objects' PROVE Sound(objects[b].day, objects[b].rows)'
    <2>1. CASE b = n
      <3>1. objects'[b].day = window'[s] /\ objects'[b].rows = rows'[s]
        BY <1>1, <1>4, <2>1
      <3> QED BY <1>8, <3>1 DEF Sound
    <2>2. CASE b # n
      <3>1. b \in DOMAIN objects /\ objects'[b] = objects[b]
        BY <1>4, <1>11, <2>2
      <3>2. Sound(objects[b].day, objects[b].rows)
        BY <3>1 DEF ArchiveInv
      <3> QED BY <1>1, <3>1, <3>2 DEF Sound, Prompt, InWindow
    <2> QED BY <2>1, <2>2
  <1>12. \A d \in Days : manifest'[d] # 0 => IsOf(manifest[d], d)'
    BY <1>1, <1>4 DEF ArchiveInv, IsOf
  <1>13. watermark' # 0 => \E b \in verified' : objects'[b].day = watermark' - 1
    BY <1>0, <1>1, <1>4 DEF ArchiveInv, Shape
  <1> QED BY <1>6, <1>9, <1>10, <1>11, <1>12, <1>13 DEF ArchiveInv

LEMMA ReadBackKeeps ==
    ASSUME ArchiveInv, NEW s \in Sweepers, ReadBack(s)
    PROVE  ArchiveInv'
  <1>0. Shape /\ SweeperInv(s)
    BY DEF ArchiveInv
  <1>1. CASE EndSweep(s) /\ UNCHANGED verified
    BY <1>1, EndKeeps DEF ReadBack
  <1>2. CASE /\ verified' = verified \cup {batch[s]}
             /\ Goto(s, "mark")
             /\ UNCHANGED <<window, rows, batch>>
    <2>1. UNCHANGED <<day, occurred, recorded, objects, manifest, watermark>>
      BY DEF ReadBack
    <2>2. IsOf(batch[s], window[s]) /\ Sound(window[s], rows[s])
      BY <1>0 DEF ReadBack, SweeperInv
    <2>3. /\ pc' \in [Sweepers -> {"idle", "export", "put", "manifest", "verify", "mark"}]
          /\ pc'[s] = "mark"
          /\ \A q \in Sweepers : q # s => pc'[q] = pc[q]
      BY <1>0, <1>2 DEF Goto, Shape
    <2>4. Shape'
      BY <1>0, <1>2, <2>1, <2>2, <2>3 DEF Shape, IsOf
    <2>5. SweeperInv(s)'
      BY <1>2, <2>1, <2>2, <2>3 DEF SweeperInv, IsOf, Sound, Prompt, InWindow
    <2>6. ASSUME NEW q \in Sweepers, q # s PROVE SweeperInv(q)'
      BY <1>2, <2>1, <2>3, <2>6, OthersKept
    <2>7. \A b \in DOMAIN objects' : Sound(objects[b].day, objects[b].rows)'
      BY <2>1 DEF ArchiveInv, Sound, Prompt, InWindow
    <2> QED BY <1>2, <2>1, <2>4, <2>5, <2>6, <2>7 DEF ArchiveInv, IsOf
  <1> QED BY <1>1, <1>2 DEF ReadBack

LEMMA ArchiveInit == Init => ArchiveInv
  <1> SUFFICES ASSUME Init PROVE ArchiveInv
    OBVIOUS
  <1>1. objects = << >> /\ objects \in Seq(Object) /\ DOMAIN objects = {}
    BY DEF Init
  <1>2. Shape
    BY <1>1 DEF Init, Shape
  <1> QED BY <1>1, <1>2 DEF Init, ArchiveInv, SweeperInv

LEMMA ArchiveStep == ArchiveInv /\ [Next]_vars => ArchiveInv'
  <1> SUFFICES ASSUME ArchiveInv, [Next]_vars PROVE ArchiveInv'
    OBVIOUS
  <1>1. CASE UNCHANGED vars
    <2>1. \A s \in Sweepers : SweeperInv(s)'
      BY <1>1, OthersKept DEF vars
    <2>2. \A b \in DOMAIN objects' : Sound(objects[b].day, objects[b].rows)'
      BY <1>1 DEF vars, ArchiveInv, Sound, Prompt, InWindow
    <2>3. Shape'
      BY <1>1 DEF vars, ArchiveInv, Shape
    <2> QED BY <1>1, <2>1, <2>2, <2>3 DEF vars, ArchiveInv, IsOf
  <1>2. ASSUME NEW s \in Sweepers, UpsertWatermark(s) \/ SweepRaises(s) PROVE ArchiveInv'
    BY <1>2, EndKeeps DEF UpsertWatermark, SweepRaises
  <1> QED BY <1>1, <1>2, EnvironmentKeeps, PassKeeps, ExportKeeps, PutKeeps, ReadBackKeeps
     DEF Next, Sweep

LEMMA ArchiveInvariant == Spec => []ArchiveInv
  BY ArchiveInit, ArchiveStep, PTL DEF Spec

\* A manifest, however many replicas overwrote it, names an object of its day
\* with every event recorded before the day closed, if the day fits one export.
THEOREM ManifestsAreComplete == Spec => []ManifestComplete
  <1>1. ArchiveInv => ManifestComplete
    BY DEF ArchiveInv, IsOf, Sound, ManifestComplete, Covers
  <1> QED BY <1>1, ArchiveInvariant, PTL

\* The watermark, even when the upsert of a slow pass moved it back, closes a
\* day with such an object, and that object was read back.
THEOREM WatermarkIsVerified == Spec => []WatermarkVerified
  <1>1. ArchiveInv => WatermarkVerified
    BY DEF ArchiveInv, Shape, Sound, WatermarkVerified, Covers
  <1> QED BY <1>1, ArchiveInvariant, PTL
=============================================================================
