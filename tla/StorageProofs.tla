----------------------------- MODULE StorageProofs -----------------------------
(***************************************************************************)
(* The safety of the store under its two workers, for any shard, any       *)
(* division of its tensors and any number of downloads and faults.  What   *)
(* makes the properties inductive: a label the session has verified is     *)
(* either in its memory or in a file it holds, which nobody else touches;  *)
(* the artifact in the download's hand is that of the tensor at its        *)
(* position; and each phase of a download stands on the records before it. *)
(*                                                                         *)
(* That the list of evictable files names none twice takes more: by phase  *)
(* and position, which labels it and the artifacts of the tier at work may *)
(* hold (ListInv).                                                         *)
(***************************************************************************)
EXTENDS Storage, PrefixLemmas, SequenceTheorems, TLAPS

DlFields == {"at", "plan", "i", "room", "known", "evictable", "fresh", "quant", "hand"}

DlShape == /\ DOMAIN dl = DlFields
           /\ dl.at \in Phases
           /\ dl.plan \in {"monolithic", "wide", "quantized"}
           /\ dl.i \in Nat \ {0}
           /\ dl.quant \in Seq(Tensors \X Labels)
           /\ Crystallizing => dl.i <= Len(Order) /\ dl.hand \in Labels

Sessioned == [at : {"cold", "ensure", "persist", "open", "warm"},
              quant : Seq(Tensors \X Labels), sources : BOOLEAN, todo : Seq(Labels),
              overlay : SUBSET Labels, verified : SUBSET Labels,
              served : {"good", "rot", "torn"}]

WsShape == ws \in Sessioned /\ (ws.at = "persist" => ws.todo # << >>)

\* A label the session no longer verifies is right, wherever it comes from.
ServedInv ==
  /\ ws.at # "warm" => ws.verified = {}
  /\ \A l \in (ws.verified \cap held) \ ws.overlay : blob[l] = "good"
  /\ ~NetworkLies => ws.served = "good"

\* The quant map lists artifacts of their tensors only.
Named(quant) == \A k \in DOMAIN quant : quant[k] = <<quant[k][1], Artifact(quant[k][1])>>

ArtifactInv ==
  rots = 0 => /\ \A l \in Labels : blob[l] # "rot"
              /\ Crystallizing => dl.hand = Artifact(Here)
              /\ Named(dl.quant) /\ Named(dir.quant)

\* The records each phase of a download stands on.
Stands(phase) ==
  /\ phase \notin {"idle", "companions"} => dir.config
  /\ phase \in {"manifest", "quantize", "crystallize", "heads", "chunk", "stages", "ready"} =>
       dir.sources
  /\ phase \in {"quantize", "crystallize", "heads", "chunk", "stages", "ready"} => dir.manifest
  /\ phase = "ready" => dir.stages

ReadyInv == ReadyComplete /\ Stands(dl.at)

IInv == StoreTypeOK /\ DlShape /\ WsShape /\ ServedInv /\ ArtifactInv /\ ReadyInv

-----------------------------------------------------------------------------
(* The shard and the records.                                               *)

LEMMA OrderType ==
  /\ Order \in Seq(Tensors) /\ Len(Order) \in Nat
  /\ \A k \in 1 .. Len(Order) : Order[k] \in Tensors
  /\ Quantized \subseteq Tensors
BY StoreAssumption, LenProperties, ElementOfSeq DEF Quantized

LEMMA RecordsAre ==
  /\ ToSet(Records) = {"sources", "manifest", "stages", "ready"}
  /\ Phases = {"idle", "companions", "preflight", "stream", "quantize", "crystallize", "heads",
               "chunk", "archive", "sources", "manifest", "stages", "ready"}
<1>1. ToSet(Records) = {"sources", "manifest", "stages", "ready"}
  BY DEF Records, ToSet
<1> QED
  BY <1>1 DEF Phases

LEMMA RecordsFollow ==
  /\ AfterRecord("sources") = "manifest"
  /\ AfterRecord("manifest") = AfterManifest
  /\ AfterRecord("stages") = "ready"
  /\ AfterRecord("ready") = "idle"
<1>1. /\ Records[1] = "sources" /\ Records[2] = "manifest" /\ Records[3] = "stages"
      /\ Records[4] = "ready"
  BY DEF Records
<1>2. (CHOOSE k \in 1 .. 4 : Records[k] = "sources") = 1
  BY <1>1
<1>3. (CHOOSE k \in 1 .. 4 : Records[k] = "stages") = 3
  BY <1>1
<1>4. (CHOOSE k \in 1 .. 4 : Records[k] = "ready") = 4
  BY <1>1
<1>5. AfterRecord("sources") = "manifest"
  BY <1>1, <1>2 DEF AfterRecord
<1>6. AfterRecord("stages") = "ready"
  BY <1>1, <1>3 DEF AfterRecord
<1>7. AfterRecord("ready") = "idle"
  BY <1>1, <1>4 DEF AfterRecord
<1> QED
  BY <1>5, <1>6, <1>7 DEF AfterRecord

-----------------------------------------------------------------------------
(* What a download does to the files.                                       *)

\* Only files nobody holds change, and they are written right or removed.
FilesKept ==
  /\ blob' \in [Labels -> {"none", "torn", "rot", "good"}]
  /\ \A l \in Labels : blob'[l] = blob[l] \/ (Free(l) /\ blob'[l] \in {"none", "good"})
  /\ UNCHANGED <<held, rots, tears>>

LEMMA EvaporatedKept ==
  ASSUME StoreTypeOK, NEW l, blob' = Evaporated(l), UNCHANGED <<held, rots, tears>>
  PROVE  FilesKept
BY DEF StoreTypeOK, Evaporated, FilesKept, Free

LEMMA WrittenKept ==
  ASSUME StoreTypeOK, NEW l, Free(l), blob' = [blob EXCEPT ![l] = "good"],
         UNCHANGED <<held, rots, tears>>
  PROVE  FilesKept
BY DEF StoreTypeOK, FilesKept

LEMMA UntouchedKept ==
  ASSUME StoreTypeOK, UNCHANGED <<blob, held, rots, tears>> PROVE FilesKept
BY DEF StoreTypeOK, FilesKept

LEMMA DownloadFiles == ASSUME IInv, DlNext PROVE FilesKept
<1> USE DEF IInv
<1>1. ASSUME Begin \/ Fail \/ Preflight \/ Skip \/ Drop \/ StreamFails \/ FinishShard PROVE FilesKept
  BY <1>1, UntouchedKept DEF Begin, Fail, Preflight, Skip, Drop, StreamFails, FinishShard, store
<1>2. ASSUME Companions \/ Record \/ Archive \/ RemoveModel PROVE FilesKept
  BY <1>2, UntouchedKept DEF Companions, Record, Archive, RemoveModel
<1>3. ASSUME Cache PROVE FilesKept
  BY <1>3, WrittenKept DEF Cache
<1>4. ASSUME CacheRefused PROVE FilesKept
  BY <1>4, EvaporatedKept DEF CacheRefused
<1>5. ASSUME Pressed PROVE FilesKept
  BY <1>5, EvaporatedKept DEF Pressed
<1>6. ASSUME NEW otherwise, Exhausted(otherwise) PROVE FilesKept
  BY <1>6, UntouchedKept DEF Exhausted, store
<1>7. ASSUME RecordRefused \/ CrystallizeRefused PROVE FilesKept
  BY <1>5, <1>6, <1>7 DEF RecordRefused, CrystallizeRefused
<1>8. ASSUME Pass \/ EndTier \/ DeriveFails PROVE FilesKept
  BY <1>8, UntouchedKept DEF Pass, EndTier, DeriveFails, store
<1>9. ASSUME Derive PROVE FilesKept
  <2>1. UNCHANGED <<held, rots, tears>> /\ (blob' = Evaporated(Wide(Here)) \/ blob' = blob)
    BY <1>9 DEF Derive
  <2> QED
    BY <2>1, EvaporatedKept, UntouchedKept
<1>10. ASSUME Crystallize PROVE FilesKept
  BY <1>10, WrittenKept DEF Crystallize
<1>11. ASSUME ArchiveRefused PROVE FilesKept
  <2>1. /\ UNCHANGED <<held, rots, tears>>
        /\ (\E l \in Labels : blob' = Evaporated(l)) \/ UNCHANGED blob
    BY <1>11 DEF ArchiveRefused
  <2> QED
    BY <2>1, EvaporatedKept, UntouchedKept
<1> QED
  BY <1>1, <1>2, <1>3, <1>4, <1>7, <1>8, <1>9, <1>10, <1>11 DEF DlNext, DlStep

-----------------------------------------------------------------------------
(* What a download does to itself and to the directory.                     *)

Dirs == [config : BOOLEAN, sources : BOOLEAN, manifest : BOOLEAN, stages : BOOLEAN,
         ready : BOOLEAN, archive : BOOLEAN, quant : Seq(Tensors \X Labels)]

DlInv == dir \in Dirs /\ DlShape /\ ArtifactInv /\ ReadyInv

\* Without a new record and without a new entry of the quant map.
LEMMA DlMoves ==
  ASSUME IInv, FilesKept, UNCHANGED dir, NEW phase \in Phases, Stands(phase),
         DOMAIN dl' = DlFields, dl'.at = phase,
         dl'.plan \in {"monolithic", "wide", "quantized"}, dl'.i \in Nat \ {0},
         dl'.quant = dl.quant,
         phase \in {"crystallize", "chunk"} =>
           dl.at = phase /\ dl'.i = dl.i /\ dl'.hand = dl.hand
  PROVE  DlInv'
<1>1. DlShape'
  BY DEF IInv, DlShape, Crystallizing
<1>2. ReadyInv'
  BY DEF IInv, ReadyInv, ReadyComplete, Stands
<1>3. ArtifactInv'
  <2>1. rots' = rots /\ (rots = 0 => \A l \in Labels : blob'[l] # "rot")
    BY DEF IInv, ArtifactInv, FilesKept
  <2>2. Crystallizing' => Crystallizing /\ Here' = Here /\ dl'.hand = dl.hand
    BY DEF Crystallizing, Here
  <2> QED
    BY <2>1, <2>2 DEF IInv, ArtifactInv, Named
<1>4. dir' \in Dirs
  BY DEF IInv, StoreTypeOK, Dirs
<1> QED
  BY <1>1, <1>2, <1>3, <1>4 DEF DlInv

\* A download that ends leaves the directory as it is.
LEMMA DlStops ==
  ASSUME IInv, FilesKept, UNCHANGED dir, dl' = Idle PROVE DlInv'
<1>1. /\ DOMAIN dl' = DlFields /\ dl'.at = "idle" /\ dl'.plan = "quantized" /\ dl'.i = 1
      /\ dl'.quant = << >>
  BY DEF Idle, DlFields
<1>2. DlShape' /\ ~Crystallizing'
  BY <1>1, RecordsAre DEF DlShape, Crystallizing
<1>3. ReadyInv'
  BY <1>1 DEF IInv, ReadyInv, ReadyComplete, Stands
<1>4. ArtifactInv'
  <2>1. rots' = rots /\ (rots = 0 => \A l \in Labels : blob'[l] # "rot")
    BY DEF IInv, ArtifactInv, FilesKept
  <2> QED
    BY <1>1, <1>2, <2>1 DEF IInv, ArtifactInv, Named
<1>5. dir' \in Dirs
  BY DEF IInv, StoreTypeOK, Dirs
<1> QED
  BY <1>2, <1>3, <1>4, <1>5 DEF DlInv

LEMMA StreamOwn ==
  ASSUME IInv, FilesKept,
         Preflight \/ Skip \/ Drop \/ Cache \/ CacheRefused \/ FinishShard \/ Pass
  PROVE  DlInv'
<1>1. DOMAIN dl = DlFields /\ dl.at \in Phases /\ dl.i \in Nat \ {0} /\ Stands(dl.at)
      /\ dl.plan \in {"monolithic", "wide", "quantized"}
  BY DEF IInv, DlShape, ReadyInv
<1>2. CASE Preflight
  <2>1. Stands("stream") /\ "stream" \in Phases
    BY <1>1, <1>2, RecordsAre DEF Preflight, Stands
  <2>2. PICK k : dl' = [dl EXCEPT !.at = "stream", !.known = k]
    BY <1>2 DEF Preflight
  <2>3. /\ DOMAIN dl' = DlFields /\ dl'.at = "stream" /\ dl'.i = dl.i /\ dl'.plan = dl.plan
        /\ dl'.quant = dl.quant
    BY <1>1, <2>2 DEF DlFields
  <2> QED
    BY <1>1, <1>2, <2>1, <2>3, DlMoves DEF Preflight, store
<1>3. CASE FinishShard
  <2>1. Stands("sources") /\ "sources" \in Phases
    BY <1>1, <1>3, RecordsAre DEF FinishShard, Stands
  <2>2. /\ DOMAIN dl' = DlFields /\ dl'.at = "sources" /\ dl'.i = dl.i /\ dl'.plan = dl.plan
        /\ dl'.quant = dl.quant
    BY <1>1, <1>3 DEF FinishShard, DlFields
  <2> QED
    BY <1>1, <1>3, <2>1, <2>2, DlMoves DEF FinishShard, store
<1>4. CASE Skip \/ Drop \/ Cache \/ CacheRefused \/ Pass
  <2>1. /\ DOMAIN dl' = DlFields /\ dl'.at = dl.at /\ dl'.i = dl.i + 1 /\ dl'.plan = dl.plan
        /\ dl'.quant = dl.quant
    BY <1>1, <1>4 DEF Skip, Drop, Cache, CacheRefused, Pass, Onward, DlFields
  <2>2. UNCHANGED dir /\ dl.at \notin {"crystallize", "chunk"}
    BY <1>4 DEF Skip, Drop, Cache, CacheRefused, Pass, Streaming, Deriving, store
  <2> QED
    BY <1>1, <2>1, <2>2, DlMoves
<1> QED
  BY <1>2, <1>3, <1>4

\* The beginning, the companion files and the end of a download.
LEMMA BeginOwn == ASSUME IInv, FilesKept, Begin PROVE DlInv'
<1>1. UNCHANGED dir /\ "companions" \in Phases /\ Stands("companions")
  BY RecordsAre DEF Begin, store, Stands
<1>2. PICK p \in {"monolithic", "wide", "quantized"}, r \in 0 .. Len(Order) :
        dl' = [Idle EXCEPT !.at = "companions", !.plan = p, !.room = r]
  BY DEF Begin
<1>3. /\ DOMAIN dl' = DlFields /\ dl'.at = "companions" /\ dl'.i = 1 /\ dl'.plan = p
      /\ dl'.quant = << >>
  BY <1>2 DEF Idle, DlFields
<1>4. DlShape' /\ ~Crystallizing'
  BY <1>1, <1>3 DEF DlShape, Crystallizing
<1>5. ReadyInv'
  BY <1>1, <1>3 DEF IInv, ReadyInv, ReadyComplete, Stands
<1>6. ArtifactInv'
  <2>1. rots' = rots /\ (rots = 0 => \A l \in Labels : blob'[l] # "rot")
    BY DEF IInv, ArtifactInv, FilesKept
  <2> QED
    BY <1>1, <1>3, <1>4, <2>1 DEF IInv, ArtifactInv, Named
<1>7. dir' \in Dirs
  BY <1>1 DEF IInv, StoreTypeOK, Dirs
<1> QED
  BY <1>4, <1>5, <1>6, <1>7 DEF DlInv

LEMMA FailsOwn == ASSUME IInv, FilesKept, Fail \/ StreamFails \/ DeriveFails PROVE DlInv'
BY DlStops DEF Fail, StreamFails, DeriveFails, Abort, store

\* A record joins the directory: the marker of a ready model is the last.
LEMMA RecordOwn == ASSUME IInv, FilesKept, Record PROVE DlInv'
<1>1. /\ DOMAIN dl = DlFields /\ dl.i \in Nat \ {0} /\ Stands(dl.at)
      /\ dl.plan \in {"monolithic", "wide", "quantized"} /\ dl.quant \in Seq(Tensors \X Labels)
      /\ dir \in Dirs /\ ReadyComplete /\ ArtifactInv /\ ~Crystallizing
  BY RecordsAre DEF Record, Crystallizing, IInv, DlShape, ReadyInv, StoreTypeOK, Dirs
<1>2. rots' = rots /\ (rots = 0 => \A l \in Labels : blob'[l] # "rot")
  BY <1>1 DEF ArtifactInv, FilesKept
<1>3. CASE dl.at = "ready"
  <2>1. dl' = Idle /\ dir' = [dir EXCEPT !["ready"] = TRUE, !.quant = dl.quant]
    BY <1>3, RecordsFollow DEF Record
  <2>2. /\ dir' \in Dirs /\ dir'.quant = dl.quant /\ dir'.config = dir.config
        /\ dir'.sources = dir.sources /\ dir'.manifest = dir.manifest /\ dir'.stages = dir.stages
    BY <1>1, <2>1 DEF Dirs
  <2>3. /\ DOMAIN dl' = DlFields /\ dl'.at = "idle" /\ dl'.plan = "quantized" /\ dl'.i = 1
        /\ dl'.quant = << >>
    BY <2>1 DEF Idle, DlFields
  <2>4. DlShape' /\ ~Crystallizing'
    BY <2>3, RecordsAre DEF DlShape, Crystallizing
  <2>5. ReadyInv'
    BY <1>1, <1>3, <2>2, <2>3 DEF ReadyInv, ReadyComplete, Stands
  <2>6. ArtifactInv'
    BY <1>1, <1>2, <2>2, <2>3, <2>4 DEF ArtifactInv, Named
  <2> QED
    BY <2>2, <2>4, <2>5, <2>6 DEF DlInv
<1>4. ASSUME NEW r \in {"sources", "manifest", "stages"}, dl.at = r PROVE DlInv'
  <2>1. AfterRecord(r) = CASE r = "sources" -> "manifest" [] r = "manifest" -> AfterManifest
                           [] r = "stages" -> "ready"
    BY <1>4, RecordsFollow
  <2>2. AfterManifest \in {"archive", "stages", "quantize"}
    BY <1>1 DEF AfterManifest
  <2>3. PICK phase : phase = AfterRecord(r)
    OBVIOUS
  <2>4. /\ phase \in Phases \ {"idle", "crystallize", "chunk"}
        /\ r = "sources" => phase = "manifest"
        /\ r = "manifest" => phase \in {"archive", "stages", "quantize"}
        /\ r = "stages" => phase = "ready"
    BY <1>4, <2>1, <2>2, <2>3, RecordsAre
  <2>5. dl' = [dl EXCEPT !.at = phase, !.i = 1] /\ dir' = [dir EXCEPT ![r] = TRUE, !.quant = dir.quant]
    BY <1>4, <2>3, <2>4 DEF Record
  <2>6. /\ dir' \in Dirs /\ dir'.quant = dir.quant /\ dir'[r] = TRUE /\ dir'.ready = dir.ready
        /\ \A f \in {"config", "sources", "manifest", "stages"} : dir[f] => dir'[f]
    BY <1>1, <1>4, <2>5 DEF Dirs
  <2>7. /\ DOMAIN dl' = DlFields /\ dl'.at = phase /\ dl'.plan = dl.plan /\ dl'.i = 1
        /\ dl'.quant = dl.quant
    BY <1>1, <2>5 DEF DlFields
  <2>8. DlShape' /\ ~Crystallizing'
    BY <1>1, <2>4, <2>7 DEF DlShape, Crystallizing
  <2>9. ReadyInv'
    BY <1>1, <1>4, <2>4, <2>6, <2>7 DEF ReadyInv, ReadyComplete, Stands
  <2>10. ArtifactInv'
    BY <1>1, <1>2, <2>6, <2>7, <2>8 DEF ArtifactInv, Named
  <2> QED
    BY <2>6, <2>8, <2>9, <2>10 DEF DlInv
<1> QED
  BY <1>3, <1>4, RecordsAre DEF Record

LEMMA DirectoryOwn ==
  ASSUME IInv, FilesKept, Companions \/ Archive \/ RemoveModel PROVE DlInv'
<1>1. /\ DOMAIN dl = DlFields /\ dl.at \in Phases /\ dl.i \in Nat \ {0} /\ Stands(dl.at)
      /\ dl.plan \in {"monolithic", "wide", "quantized"} /\ dl.quant \in Seq(Tensors \X Labels)
      /\ dir \in Dirs /\ ReadyComplete /\ ArtifactInv
  BY DEF IInv, DlShape, ReadyInv, StoreTypeOK, Dirs
<1>2. rots' = rots /\ (rots = 0 => \A l \in Labels : blob'[l] # "rot")
  BY <1>1 DEF ArtifactInv, FilesKept
<1>3. CASE Companions
  <2>1. /\ dir' \in Dirs /\ dir'.quant = dir.quant /\ dir'.config /\ dir'.ready = dir.ready
        /\ dir'.sources = dir.sources /\ dir'.manifest = dir.manifest /\ dir'.stages = dir.stages
    BY <1>1, <1>3 DEF Companions, Dirs
  <2>2. /\ DOMAIN dl' = DlFields /\ dl'.at = "preflight" /\ dl'.plan = dl.plan /\ dl'.i = dl.i
        /\ dl'.quant = dl.quant
    BY <1>1, <1>3 DEF Companions, DlFields
  <2>3. DlShape' /\ ~Crystallizing'
    BY <1>1, <2>2, RecordsAre DEF DlShape, Crystallizing
  <2>4. ReadyInv'
    BY <1>1, <2>1, <2>2 DEF ReadyInv, ReadyComplete, Stands
  <2>5. ArtifactInv'
    BY <1>1, <1>2, <2>1, <2>2, <2>3 DEF ArtifactInv, Named
  <2> QED
    BY <2>1, <2>3, <2>4, <2>5 DEF DlInv
<1>4. CASE Archive
  <2>1. /\ dir' \in Dirs /\ dir'.quant = dir.quant /\ dir'.config = dir.config
        /\ dir'.ready = dir.ready
        /\ dir'.sources = dir.sources /\ dir'.manifest = dir.manifest /\ dir'.stages = dir.stages
    BY <1>1, <1>4 DEF Archive, Dirs
  <2>2. /\ DOMAIN dl' = DlFields /\ dl'.at = "idle" /\ dl'.plan = "quantized" /\ dl'.i = 1
        /\ dl'.quant = << >>
    BY <1>4 DEF Archive, Idle, DlFields
  <2>3. DlShape' /\ ~Crystallizing'
    BY <2>2, RecordsAre DEF DlShape, Crystallizing
  <2>4. ReadyInv'
    BY <1>1, <2>1, <2>2 DEF ReadyInv, ReadyComplete, Stands
  <2>5. ArtifactInv'
    BY <1>1, <1>2, <2>1, <2>2, <2>3 DEF ArtifactInv, Named
  <2> QED
    BY <2>1, <2>3, <2>4, <2>5 DEF DlInv
<1>5. CASE RemoveModel
  <2>1. dir' = NoDir /\ dl' = dl /\ dl.at = "idle"
    BY <1>5 DEF RemoveModel, dlVars
  <2>2. /\ dir' \in Dirs /\ dir'.quant = << >> /\ ~dir'.ready
    BY <2>1 DEF NoDir, Dirs
  <2>3. DlShape' /\ ~Crystallizing'
    BY <2>1 DEF IInv, DlShape, Crystallizing
  <2>4. ReadyInv'
    BY <2>1, <2>2 DEF ReadyInv, ReadyComplete, Stands
  <2>5. ArtifactInv'
    BY <1>1, <1>2, <2>1, <2>2, <2>3 DEF ArtifactInv, Named
  <2> QED
    BY <2>2, <2>3, <2>4, <2>5 DEF DlInv
<1> QED
  BY <1>3, <1>4, <1>5

\* A file is evaporated for the write that was refused.
LEMMA PressedOwn == ASSUME IInv, FilesKept, Pressed PROVE DlInv'
<1>1. /\ DOMAIN dl = DlFields /\ dl.at \in Phases /\ dl.i \in Nat \ {0} /\ Stands(dl.at)
      /\ dl.plan \in {"monolithic", "wide", "quantized"}
  BY DEF IInv, DlShape, ReadyInv
<1>2. /\ DOMAIN dl' = DlFields /\ dl'.at = dl.at /\ dl'.i = dl.i /\ dl'.plan = dl.plan
      /\ dl'.quant = dl.quant /\ dl'.hand = dl.hand
  BY <1>1 DEF Pressed, DlFields
<1> QED
  BY <1>1, <1>2, DlMoves DEF Pressed

\* A tier ends, because it is through or because the storage is saturated.
LEMMA LeaveOwn ==
  ASSUME IInv, FilesKept, UNCHANGED dir, dl' = Leave,
         dl.at \in {"quantize", "heads", "crystallize", "chunk"}
  PROVE  DlInv'
<1>1. /\ DOMAIN dl = DlFields /\ Stands(dl.at) /\ dl.plan \in {"monolithic", "wide", "quantized"}
  BY DEF IInv, DlShape, ReadyInv
<1>2. PICK phase \in {"heads", "stages"} :
        dl' = [dl EXCEPT !.at = phase, !.i = 1, !.evictable = dl.fresh \o @, !.fresh = << >>]
  BY DEF Leave, LeaveProjections, LeaveHeads
<1>3. /\ DOMAIN dl' = DlFields /\ dl'.at = phase /\ dl'.i = 1 /\ dl'.plan = dl.plan
      /\ dl'.quant = dl.quant
  BY <1>1, <1>2 DEF DlFields
<1>4. Stands(phase) /\ phase \in Phases
  BY <1>1, RecordsAre DEF Stands
<1> QED
  BY <1>1, <1>3, <1>4, DlMoves

LEMMA RefusedOwn ==
  ASSUME IInv, FilesKept, RecordRefused \/ CrystallizeRefused \/ EndTier \/ ArchiveRefused
  PROVE  DlInv'
<1>1. CASE RecordRefused
  BY <1>1, PressedOwn, DlStops DEF RecordRefused, Exhausted, store
<1>2. CASE CrystallizeRefused
  BY <1>2, PressedOwn, LeaveOwn DEF CrystallizeRefused, Crystallizing, Exhausted, store
<1>3. CASE EndTier
  BY <1>3, LeaveOwn DEF EndTier, store
<1>4. CASE ArchiveRefused
  <2>1. UNCHANGED dir /\ dl.at = "archive" /\ (dl' = dl \/ dl' = Idle)
    BY <1>4 DEF ArchiveRefused, Abort
  <2>2. CASE dl' = dl
    <3>1. /\ DOMAIN dl = DlFields /\ dl.at \in Phases /\ dl.i \in Nat \ {0} /\ Stands(dl.at)
          /\ dl.plan \in {"monolithic", "wide", "quantized"}
      BY DEF IInv, DlShape, ReadyInv
    <3> QED
      BY <2>1, <2>2, <3>1, DlMoves
  <2> QED
    BY <2>1, <2>2, DlStops
<1> QED
  BY <1>1, <1>2, <1>3, <1>4

\* The derivation takes the tensor at hand into the download's hand ...
LEMMA DeriveOwn == ASSUME IInv, FilesKept, Derive PROVE DlInv'
<1>1. /\ DOMAIN dl = DlFields /\ dl.i \in Nat \ {0} /\ Stands(dl.at) /\ ReadyComplete /\ ArtifactInv
      /\ dl.plan \in {"monolithic", "wide", "quantized"} /\ dl.quant \in Seq(Tensors \X Labels)
      /\ dir \in Dirs
  BY DEF IInv, DlShape, ReadyInv, StoreTypeOK, Dirs
<1>2. /\ dl.at \in {"quantize", "heads"} /\ dl.i <= Len(Order) /\ UNCHANGED dir
      /\ Here \in Tier
  BY DEF Derive, Deriving
<1>3. CASE dl' = Idle
  BY <1>2, <1>3, DlStops
<1>4. ASSUME NEW a \in Derived(Here, WideBytes), NEW rest,
             dl' = [dl EXCEPT !.at = IF @ = "quantize" THEN "crystallize" ELSE "chunk",
                              !.hand = a, !.evictable = rest]
      PROVE  DlInv'
  <2>1. PICK phase \in {"crystallize", "chunk"} :
          dl' = [dl EXCEPT !.at = phase, !.hand = a, !.evictable = rest]
    BY <1>4
  <2>2. /\ DOMAIN dl' = DlFields /\ dl'.at = phase /\ dl'.i = dl.i /\ dl'.plan = dl.plan
        /\ dl'.quant = dl.quant /\ dl'.hand = a
    BY <1>1, <2>1 DEF DlFields
  <2>3. Here \in Quantized /\ Here \in Tensors
    BY <1>2, OrderType DEF Tier, Quantized
  <2>4. Wide(Here) \in Labels /\ Artifact(Here) \in Labels /\ Mistaken(Here) \in Labels
    BY <2>3 DEF Labels
  <2>5. a \in Labels
    <3>1. WideBytes \in {"good", "rot", "torn"}
      BY <2>4 DEF WideBytes, Present, IInv, StoreTypeOK
    <3> QED
      BY <1>4, <2>4, <3>1 DEF Derived
  <2>6. DlShape' /\ Crystallizing'
    BY <1>1, <1>2, <2>2, <2>5, RecordsAre DEF DlShape, Crystallizing
  <2>7. ReadyInv'
    BY <1>1, <1>2, <2>2 DEF ReadyInv, ReadyComplete, Stands
  <2>8. rots' = rots /\ (rots = 0 => \A l \in Labels : blob'[l] # "rot")
    BY <1>1 DEF ArtifactInv, FilesKept
  \* An unrotten copy has given the artifact of the tensor.
  <2>9. rots = 0 => a = Artifact(Here)
    <3>1. WideBytes \in {"good", "rot", "torn"} /\ (rots = 0 => WideBytes # "rot")
      BY <1>1, <2>4 DEF ArtifactInv, WideBytes, Present, IInv, StoreTypeOK
    <3> QED
      BY <1>4, <3>1 DEF Derived
  <2>10. Here' = Here
    BY <2>2 DEF Here
  <2>11. ArtifactInv'
    BY <1>1, <1>2, <2>2, <2>8, <2>9, <2>10 DEF ArtifactInv, Named
  <2> QED
    BY <1>1, <1>2, <2>6, <2>7, <2>11 DEF DlInv
<1> QED
  BY <1>3, <1>4 DEF Derive, Abort

\* ... and from there into the store and the quant map.
LEMMA CrystallizeOwn == ASSUME IInv, FilesKept, Crystallize PROVE DlInv'
<1>1. /\ DOMAIN dl = DlFields /\ dl.i \in Nat \ {0} /\ Stands(dl.at) /\ ReadyComplete /\ ArtifactInv
      /\ dl.plan \in {"monolithic", "wide", "quantized"} /\ dl.quant \in Seq(Tensors \X Labels)
      /\ dir \in Dirs /\ dl.i <= Len(Order) /\ dl.hand \in Labels
      /\ dl.at \in {"crystallize", "chunk"} /\ Crystallizing
  BY DEF IInv, DlShape, ReadyInv, StoreTypeOK, Dirs, Crystallize, Crystallizing
<1>2. PICK phase \in {"quantize", "heads"} :
        dl' = [Onward EXCEPT !.at = phase, !.fresh = Append(@, dl.hand),
                             !.quant = Append(@, <<Here, dl.hand>>)]
  BY <1>1 DEF Crystallize, Onward
<1>3. /\ DOMAIN dl' = DlFields /\ dl'.at = phase /\ dl'.i = dl.i + 1 /\ dl'.plan = dl.plan
      /\ dl'.quant = Append(dl.quant, <<Here, dl.hand>>)
  BY <1>1, <1>2 DEF Onward, DlFields
<1>4. Here \in Tensors /\ <<Here, dl.hand>> \in Tensors \X Labels
  BY <1>1, OrderType DEF Here
<1>5. PICK q \in Seq(Tensors \X Labels) : q = dl.quant
  BY <1>1
<1>6. PICK e \in Tensors \X Labels : e = <<Here, dl.hand>>
  BY <1>4
<1>7. /\ Append(q, e) \in Seq(Tensors \X Labels)
      /\ DOMAIN q = 1 .. Len(q) /\ DOMAIN Append(q, e) = 1 .. Len(q) + 1 /\ Len(q) \in Nat
      /\ \A k \in 1 .. Len(q) : Append(q, e)[k] = q[k]
      /\ Append(q, e)[Len(q) + 1] = e
  BY AppendProperties, LenProperties
<1>8. dl'.quant = Append(q, e)
  BY <1>3, <1>5, <1>6
<1>9. DlShape' /\ ~Crystallizing'
  BY <1>1, <1>3, <1>7, <1>8, RecordsAre DEF DlShape, Crystallizing
<1>10. UNCHANGED dir
  BY DEF Crystallize
<1>11. ReadyInv'
  BY <1>1, <1>3, <1>10 DEF ReadyInv, ReadyComplete, Stands
<1>12. rots' = rots /\ (rots = 0 => \A l \in Labels : blob'[l] # "rot")
  BY <1>1 DEF ArtifactInv, FilesKept
<1>13. rots = 0 => Named(Append(q, e))
  <2> SUFFICES ASSUME rots = 0, NEW k \in 1 .. Len(q) + 1
               PROVE  Append(q, e)[k] = <<Append(q, e)[k][1], Artifact(Append(q, e)[k][1])>>
    BY <1>7 DEF Named
  <2>1. CASE k \in 1 .. Len(q)
    BY <1>1, <1>5, <1>7, <2>1 DEF ArtifactInv, Named
  <2>2. CASE k = Len(q) + 1
    <3>1. dl.hand = Artifact(Here)
      BY <1>1 DEF ArtifactInv
    <3>2. e = <<Here, Artifact(Here)>> /\ e[1] = Here
      BY <1>6, <3>1
    <3> QED
      BY <1>7, <2>2, <3>2
  <2> QED
    BY <1>7, <2>1, <2>2
<1>14. ArtifactInv'
  BY <1>1, <1>8, <1>9, <1>10, <1>12, <1>13 DEF ArtifactInv, Named
<1> QED
  BY <1>1, <1>9, <1>10, <1>11, <1>14 DEF DlInv

LEMMA DownloadOwn == ASSUME IInv, FilesKept, DlNext PROVE DlInv'
<1>1. ASSUME DlStep PROVE DlInv'
  <2>1. ASSUME Fail \/ StreamFails \/ DeriveFails PROVE DlInv'
    BY <2>1, FailsOwn
  <2>2. ASSUME Preflight \/ Skip \/ Drop \/ Cache \/ CacheRefused \/ FinishShard \/ Pass
        PROVE  DlInv'
    BY <2>2, StreamOwn
  <2>3. ASSUME Companions \/ Archive PROVE DlInv'
    BY <2>3, DirectoryOwn
  <2>4. ASSUME RecordRefused \/ CrystallizeRefused \/ EndTier \/ ArchiveRefused PROVE DlInv'
    BY <2>4, RefusedOwn
  <2> QED
    BY <1>1, <2>1, <2>2, <2>3, <2>4, RecordOwn, DeriveOwn, CrystallizeOwn DEF DlStep
<1> QED
  BY <1>1, BeginOwn, DirectoryOwn DEF DlNext

-----------------------------------------------------------------------------
(* The session.                                                             *)

LEMMA ArtifactsType ==
  ASSUME NEW quant \in Seq(Tensors \X Labels)
  PROVE  Artifacts(quant) \in Seq(Labels) /\ Opens(quant) \in Seq(Labels)
<1>1. Artifacts(quant) \in Seq(Labels)
  <2>1. Len(quant) \in Nat /\ DOMAIN quant = 1 .. Len(quant)
        /\ \A k \in 1 .. Len(quant) : quant[k] \in Tensors \X Labels
    BY LenProperties, ElementOfSeq
  <2>2. \A k \in 1 .. Len(quant) : quant[k][2] \in Labels
    BY <2>1
  <2> QED
    BY <2>1, <2>2 DEF Artifacts
<1>2. [k \in DOMAIN Order |-> Wide(Order[k])] \in Seq(Labels)
  <2>1. DOMAIN Order = 1 .. Len(Order)
    BY OrderType, LenProperties
  <2>2. \A k \in 1 .. Len(Order) : Wide(Order[k]) \in Labels
    BY OrderType DEF Labels
  <2> QED
    BY <2>1, <2>2, OrderType
<1>3. Opens(quant) \in Seq(Labels)
  <2>1. PICK wide \in Seq(Labels) : wide = [k \in DOMAIN Order |-> Wide(Order[k])]
    BY <1>2
  <2>2. PICK derived \in Seq(Labels) : derived = Artifacts(quant)
    BY <1>1
  <2>3. wide \o derived \in Seq(Labels)
    BY ConcatProperties
  <2> QED
    BY <2>1, <2>2, <2>3 DEF Opens
<1> QED
  BY <1>1, <1>3

LEMMA NeededLabels ==
  ASSUME NEW quant \in Seq(Tensors \X Labels), NEW l \in Needed(quant) PROVE l \in Labels
<1>1. PICK s \in Seq(Labels) : s = Opens(quant)
  BY ArtifactsType
<1>2. \A k \in DOMAIN s : s[k] \in Labels
  BY LenProperties, ElementOfSeq
<1> QED
  BY <1>1, <1>2 DEF Needed, ToSet

LEMMA ColdShape == Cold \in Sessioned /\ Cold.at = "cold" /\ Cold.verified = {} /\ Cold.served = "good"
<1>1. << >> \in Seq(Tensors \X Labels) /\ << >> \in Seq(Labels)
  BY EmptySeq
<1> QED
  BY <1>1 DEF Cold, Sessioned

\* A session leaves the files right or removed, and the directory alone.
SessionFiles ==
  /\ blob' \in [Labels -> {"none", "torn", "rot", "good"}]
  /\ \A l \in Labels : blob'[l] = blob[l] \/ blob'[l] \in {"none", "good"}
  /\ held' \subseteq Labels
  /\ UNCHANGED <<dir, rots, tears>>

SessionInv == SessionFiles /\ WsShape' /\ ServedInv'

\* The worker ends, with its handles.
LEMMA SessionEnds ==
  ASSUME IInv, ws' = Cold, held' = {}, UNCHANGED <<dir, rots, tears>>,
         \/ UNCHANGED blob
         \/ \E l \in Labels : blob' = [blob EXCEPT ![l] = "none"]
  PROVE  SessionInv
<1>1. WsShape' /\ ServedInv'
  BY ColdShape DEF WsShape, ServedInv
<1>2. SessionFiles
  BY DEF IInv, StoreTypeOK, SessionFiles
<1> QED
  BY <1>1, <1>2 DEF SessionInv

\* The session is built: it has verified nothing yet.
LEMMA SessionBuilds ==
  ASSUME IInv, UNCHANGED <<dir, rots, tears>>, SessionFiles,
         ws' \in Sessioned, ws'.at = "persist" => ws'.todo # << >>,
         ws'.verified = {}, ws'.served = "good" \/ ws'.served = ws.served
  PROVE  SessionInv
<1>1. WsShape'
  BY DEF WsShape
<1>2. ServedInv'
  BY DEF IInv, ServedInv
<1> QED
  BY <1>1, <1>2 DEF SessionInv

LEMMA BuildKeeps == ASSUME IInv, Build PROVE SessionInv
<1>1. PICK q \in Seq(Tensors \X Labels) : q = dir.quant
  BY DEF IInv, StoreTypeOK
<1>2. PICK todo \in Seq(Labels) : todo = Artifacts(q)
  BY ArtifactsType
<1>3. PICK known \in BOOLEAN : known = dir.sources
  BY DEF IInv, StoreTypeOK
<1>4. ws' = [Cold EXCEPT !.at = "ensure", !.quant = q, !.sources = known, !.todo = todo]
  BY <1>1, <1>2, <1>3 DEF Build
<1>5. /\ ws' \in Sessioned /\ ws'.at = "ensure" /\ ws'.verified = {} /\ ws'.served = "good"
  BY <1>4, ColdShape DEF Sessioned
<1>6. SessionFiles
  BY DEF Build, store, IInv, StoreTypeOK, SessionFiles
<1> QED
  BY <1>5, <1>6, SessionBuilds DEF Build, store

LEMMA EnsureKeeps ==
  ASSUME IInv, ArtifactThere \/ ArtifactMissing \/ Ensured \/ Opened \/ Open \/ Terminate \/ Dispose
  PROVE  SessionInv
<1>1. /\ ws \in Sessioned /\ (ws.at # "warm" => ws.verified = {})
      /\ UNCHANGED store => SessionFiles
  BY DEF IInv, WsShape, ServedInv, store, StoreTypeOK, SessionFiles
<1>2. /\ ws.todo \in Seq(Labels) /\ ws.quant \in Seq(Tensors \X Labels)
      /\ ws.todo # << >> => Tail(ws.todo) \in Seq(Labels) /\ Head(ws.todo) \in Labels
  BY <1>1, HeadTailProperties DEF Sessioned
<1>3. CASE ArtifactThere
  <2>1. /\ ws' \in Sessioned /\ ws'.at = "ensure" /\ ws'.verified = {} /\ ws'.served = ws.served
    BY <1>1, <1>2, <1>3 DEF ArtifactThere, Sessioned
  <2> QED
    BY <1>1, <1>3, <2>1, SessionBuilds DEF ArtifactThere, store
<1>4. CASE ArtifactMissing
  <2>1. CASE WorkerEnds
    BY <2>1, SessionEnds DEF WorkerEnds
  <2>2. CASE ws' = [ws EXCEPT !.at = "persist"] /\ UNCHANGED store
    <3>1. /\ ws' \in Sessioned /\ ws'.todo # << >> /\ ws'.verified = {} /\ ws'.served = ws.served
      BY <1>1, <1>4, <2>2 DEF ArtifactMissing, Sessioned
    <3> QED
      BY <1>1, <2>2, <3>1, SessionBuilds DEF store
  <2> QED
    BY <1>4, <2>1, <2>2 DEF ArtifactMissing
<1>5. CASE Ensured
  <2>1. PICK todo \in Seq(Labels) : todo = Opens(ws.quant)
    BY <1>2, ArtifactsType
  <2>2. ws' = [ws EXCEPT !.at = "open", !.todo = todo]
    BY <1>5, <2>1 DEF Ensured
  <2>3. /\ ws' \in Sessioned /\ ws'.at = "open" /\ ws'.verified = {} /\ ws'.served = ws.served
    BY <1>1, <1>5, <2>2 DEF Ensured, Sessioned
  <2> QED
    BY <1>1, <1>5, <2>3, SessionBuilds DEF Ensured, store
<1>6. CASE Opened
  <2>1. /\ ws' \in Sessioned /\ ws'.at = "warm" /\ ws'.verified = {} /\ ws'.served = ws.served
    BY <1>1, <1>6 DEF Opened, Sessioned
  <2> QED
    BY <1>1, <1>6, <2>1, SessionBuilds DEF Opened, store
<1>7. CASE Open
  <2>1. /\ ws' \in Sessioned /\ ws'.at = "open" /\ ws'.verified = {} /\ ws'.served = ws.served
    BY <1>1, <1>2, <1>7 DEF Open, Sessioned
  <2>2. SessionFiles
    BY <1>2, <1>7 DEF Open, IInv, StoreTypeOK, SessionFiles
  <2> QED
    BY <1>1, <1>7, <2>1, <2>2, SessionBuilds DEF Open
<1>8. CASE Terminate \/ Dispose
  BY <1>8, SessionEnds DEF Terminate, Dispose, WorkerEnds
<1> QED
  BY <1>3, <1>4, <1>5, <1>6, <1>7, <1>8

LEMMA PersistKeeps == ASSUME IInv, Persist PROVE SessionInv
<1>1. /\ ws \in Sessioned /\ ws.todo # << >> /\ ws.verified = {}
      /\ blob \in [Labels -> {"none", "torn", "rot", "good"}] /\ held \subseteq Labels
  BY DEF IInv, WsShape, ServedInv, Persist, StoreTypeOK
<1>2. PICK a \in Labels : a = Head(ws.todo)
  BY <1>1, HeadTailProperties DEF Sessioned
<1>3. PICK rest : rest = IF TensorOf(a) \in Eligible THEN Evaporated(Wide(TensorOf(a))) ELSE blob
  OBVIOUS
<1>4. /\ rest \in [Labels -> {"none", "torn", "rot", "good"}]
      /\ \A l \in Labels : rest[l] = blob[l] \/ rest[l] = "none"
  BY <1>1, <1>3 DEF Evaporated
<1>5. PICK done : done = [ws EXCEPT !.at = "ensure", !.todo = Tail(@)]
  OBVIOUS
<1>6. /\ done \in Sessioned /\ done.at = "ensure" /\ done.verified = {} /\ done.served = ws.served
      /\ [done EXCEPT !.overlay = @ \cup {a}] \in Sessioned
  BY <1>1, <1>2, <1>5, HeadTailProperties DEF Sessioned
<1>7. /\ ws' = done \/ ws' = [done EXCEPT !.overlay = @ \cup {a}]
      /\ blob' \in {rest, [rest EXCEPT ![a] = "good"], [rest EXCEPT ![a] = "none"]}
      /\ UNCHANGED <<held, dir, rots, tears>>
  BY <1>2, <1>3, <1>5 DEF Persist
<1>8. SessionFiles
  BY <1>1, <1>4, <1>7 DEF SessionFiles
<1>9. ws' \in Sessioned /\ ws'.at = "ensure" /\ ws'.verified = {} /\ ws'.served = ws.served
  BY <1>6, <1>7 DEF Sessioned
<1> QED
  BY <1>7, <1>8, <1>9, SessionBuilds

\* What resolving a label gives: right bytes, what the held file holds, or the
\* network's answer.
LEMMA BindKeeps == ASSUME IInv, Bind PROVE SessionInv
<1>1. /\ ws \in Sessioned /\ ServedInv /\ ws.at = "warm" /\ UNCHANGED store
      /\ blob \in [Labels -> {"none", "torn", "rot", "good"}] /\ held \subseteq Labels
  BY DEF IInv, WsShape, Bind, StoreTypeOK
<1>2. PICK l \in Needed(ws.quant) :
        \E content \in Resolved(l, held) : Accepts(l, content) /\ ws' = Bound(l, content)
  BY DEF Bind
<1>3. PICK content \in Resolved(l, held) : Accepts(l, content) /\ ws' = Bound(l, content)
  BY <1>2
<1>4. l \in Labels
  BY <1>1, <1>3, NeededLabels DEF Sessioned
<1>5. \/ l \in ws.overlay /\ content = "good"
      \/ l \notin ws.overlay /\ l \in held /\ content = blob[l]
      \/ l \notin held /\ content \in Network
  BY <1>3 DEF Resolved
<1>6. /\ l \in held /\ l \notin ws.overlay => content = blob[l] /\ content = "good"
      /\ content \in {"good", "rot"} /\ (~NetworkLies => content = "good")
  BY <1>1, <1>3, <1>5 DEF ServedInv, Accepts, Network
<1>7. /\ ws' \in Sessioned /\ ws'.at = "warm" /\ ws'.verified = ws.verified \cup {l}
      /\ ws'.served = content /\ ws'.overlay = ws.overlay
  BY <1>1, <1>3, <1>4, <1>6 DEF Bound, Sessioned
<1>8. WsShape'
  BY <1>7 DEF WsShape
<1>9. ServedInv'
  BY <1>1, <1>6, <1>7 DEF ServedInv, store
<1>10. SessionFiles
  BY <1>1 DEF SessionFiles, store
<1> QED
  BY <1>8, <1>9, <1>10 DEF SessionInv

LEMMA RecoverKeeps == ASSUME IInv, Recover PROVE SessionInv
<1>1. /\ ws \in Sessioned /\ ServedInv /\ ws.at = "warm" /\ UNCHANGED <<dir, rots, tears>>
      /\ blob \in [Labels -> {"none", "torn", "rot", "good"}] /\ held \subseteq Labels
  BY DEF IInv, WsShape, Recover, StoreTypeOK
<1>2. PICK l \in Needed(ws.quant) :
        /\ ws' = Bound(l, "good")
        /\ held' = held \ {l}
        /\ blob' \in {blob, [blob EXCEPT ![l] = "none"]}
  BY DEF Recover
<1>3. l \in Labels
  BY <1>1, <1>2, NeededLabels DEF Sessioned
<1>4. /\ ws' \in Sessioned /\ ws'.at = "warm" /\ ws'.verified = ws.verified \cup {l}
      /\ ws'.served = "good" /\ ws'.overlay = ws.overlay
  BY <1>1, <1>2, <1>3 DEF Bound, Sessioned
<1>5. \A k \in Labels \ {l} : blob'[k] = blob[k]
  BY <1>1, <1>2, <1>3
<1>6. WsShape'
  BY <1>4 DEF WsShape
<1>7. ServedInv'
  BY <1>1, <1>2, <1>4, <1>5 DEF ServedInv
<1>8. SessionFiles
  BY <1>1, <1>2, <1>3 DEF SessionFiles
<1> QED
  BY <1>6, <1>7, <1>8 DEF SessionInv

LEMMA UnresolvedKeeps == ASSUME IInv, Unresolved PROVE SessionInv
<1>1. PICK l \in Needed(ws.quant) : blob' = blob \/ blob' = [blob EXCEPT ![l] = "none"]
  BY DEF Unresolved
<1>2. l \in Labels
  BY <1>1, NeededLabels DEF IInv, WsShape, Sessioned
<1> QED
  BY <1>1, <1>2, SessionEnds DEF Unresolved

LEMMA SessionKeeps == ASSUME IInv, WsNext PROVE SessionInv
BY BuildKeeps, EnsureKeeps, PersistKeeps, BindKeeps, RecoverKeeps, UnresolvedKeeps DEF WsNext

-----------------------------------------------------------------------------
(* The theorems.                                                            *)

LEMMA StorageInit == Init => IInv
<1> SUFFICES ASSUME Init PROVE IInv
  OBVIOUS
<1>1. dl = Idle /\ ws = Cold /\ dir = NoDir /\ held = {} /\ rots = 0 /\ tears = 0
      /\ blob = [l \in Labels |-> "none"]
  BY DEF Init, StoreInit, DlInit, WsInit
<1>2. NoDir \in Dirs /\ NoDir.quant = << >> /\ ~NoDir.ready
  <2>1. << >> \in Seq(Tensors \X Labels)
    BY EmptySeq
  <2> QED
    BY <2>1 DEF NoDir, Dirs
<1>3. StoreTypeOK
  BY <1>1, <1>2 DEF StoreTypeOK, Dirs
<1>4. /\ DOMAIN dl = DlFields /\ dl.at = "idle" /\ dl.plan = "quantized" /\ dl.i = 1
      /\ dl.quant = << >>
  BY <1>1 DEF Idle, DlFields
<1>5. DlShape /\ ~Crystallizing
  BY <1>4, RecordsAre DEF DlShape, Crystallizing
<1>6. WsShape /\ ServedInv
  BY <1>1, ColdShape DEF WsShape, ServedInv
<1>7. ArtifactInv
  BY <1>1, <1>2, <1>4, <1>5 DEF ArtifactInv, Named
<1>8. ReadyInv
  BY <1>1, <1>2, <1>4 DEF ReadyInv, ReadyComplete, Stands
<1> QED
  BY <1>3, <1>5, <1>6, <1>7, <1>8 DEF IInv

\* The download's steps leave what a session has verified as it is.
LEMMA DownloadsKeep == ASSUME IInv, Downloads PROVE IInv'
<1>1. FilesKept /\ UNCHANGED ws
  BY DownloadFiles DEF Downloads
<1>2. DlInv'
  BY <1>1, DownloadOwn DEF Downloads
<1>3. StoreTypeOK'
  <2>1. rots \in Nat /\ tears \in Nat /\ held \subseteq Labels
    BY DEF IInv, StoreTypeOK
  <2> QED
    BY <1>1, <1>2, <2>1 DEF StoreTypeOK, FilesKept, DlInv, Dirs
<1>4. WsShape'
  BY <1>1 DEF IInv, WsShape
<1>5. ServedInv'
  <2>1. \A l \in held : l \in Labels /\ blob'[l] = blob[l]
    BY <1>1 DEF FilesKept, Free, IInv, StoreTypeOK
  <2> QED
    BY <1>1, <2>1 DEF IInv, ServedInv, FilesKept
<1> QED
  BY <1>2, <1>3, <1>4, <1>5 DEF IInv, DlInv

\* Where the download stands, it stays.
LEMMA DownloadWaits ==
  ASSUME IInv, UNCHANGED <<dl, dir>>,
         rots' = 0 => rots = 0 /\ \A l \in Labels : blob'[l] # "rot"
  PROVE  DlShape' /\ ReadyInv' /\ ArtifactInv'
<1>1. DlShape' /\ ReadyInv'
  BY DEF IInv, DlShape, Crystallizing, ReadyInv, ReadyComplete, Stands
<1>2. ArtifactInv'
  BY DEF IInv, ArtifactInv, Crystallizing, Here, Named
<1> QED
  BY <1>1, <1>2

LEMMA SessionsKeep == ASSUME IInv, Sessions PROVE IInv'
<1>1. SessionInv /\ UNCHANGED dl
  BY SessionKeeps DEF Sessions, dlVars
<1>2. StoreTypeOK'
  BY <1>1 DEF SessionInv, SessionFiles, IInv, StoreTypeOK
<1>3. UNCHANGED <<dir, rots>> /\ (rots = 0 => \A l \in Labels : blob'[l] # "rot")
  BY <1>1 DEF SessionInv, SessionFiles, IInv, ArtifactInv
<1>4. DlShape' /\ ReadyInv' /\ ArtifactInv'
  BY <1>1, <1>3, DownloadWaits
<1> QED
  BY <1>1, <1>2, <1>4 DEF IInv, SessionInv

LEMMA RotKeeps == ASSUME IInv, Rot PROVE IInv'
<1>1. PICK l \in Labels : Free(l) /\ blob' = [blob EXCEPT ![l] = "rot"]
  BY DEF Rot
<1>2. rots \in Nat /\ rots' = rots + 1 /\ UNCHANGED <<held, dir, tears, dl, ws>>
  BY DEF IInv, StoreTypeOK, Rot, dlVars
<1>3. StoreTypeOK'
  BY <1>1, <1>2 DEF IInv, StoreTypeOK
<1>4. DlShape' /\ ReadyInv' /\ ArtifactInv'
  <2>1. rots' # 0
    BY <1>2
  <2> QED
    BY <1>2, <2>1, DownloadWaits
<1>5. WsShape'
  BY <1>2 DEF IInv, WsShape
<1>6. ServedInv'
  <2>1. \A k \in held : k \in Labels /\ blob'[k] = blob[k]
    BY <1>1 DEF Free, IInv, StoreTypeOK
  <2> QED
    BY <1>2, <2>1 DEF IInv, ServedInv
<1> QED
  BY <1>3, <1>4, <1>5, <1>6 DEF IInv

\* The tab is closed, between two writes or in the middle of one.
LEMMA CloseKeeps == ASSUME IInv, Close \/ CloseTorn PROVE IInv'
<1>1. /\ dl' = Idle /\ ws' = Cold /\ held' = {} /\ UNCHANGED <<dir, rots>>
      /\ blob' = blob \/ \E l : blob' = [blob EXCEPT ![l] = "torn"]
      /\ tears' = tears \/ tears' = tears + 1
  BY DEF Close, CloseTorn
<1>2. StoreTypeOK'
  BY <1>1 DEF IInv, StoreTypeOK
<1>3. rots = 0 => \A l \in Labels : blob'[l] # "rot"
  BY <1>1 DEF IInv, StoreTypeOK, ArtifactInv
<1>4. WsShape' /\ ServedInv'
  BY <1>1, ColdShape DEF WsShape, ServedInv
<1>5. /\ DOMAIN dl' = DlFields /\ dl'.at = "idle" /\ dl'.plan = "quantized" /\ dl'.i = 1
      /\ dl'.quant = << >>
  BY <1>1 DEF Idle, DlFields
<1>6. DlShape' /\ ~Crystallizing'
  BY <1>5, RecordsAre DEF DlShape, Crystallizing
<1>7. ReadyInv'
  BY <1>1, <1>5 DEF IInv, ReadyInv, ReadyComplete, Stands
<1>8. ArtifactInv'
  BY <1>1, <1>3, <1>5, <1>6 DEF IInv, ArtifactInv, Named
<1> QED
  BY <1>2, <1>4, <1>6, <1>7, <1>8 DEF IInv

LEMMA StorageInductive == IInv /\ [Next]_vars => IInv'
<1> SUFFICES ASSUME IInv, [Next]_vars PROVE IInv'
  OBVIOUS
<1>1. CASE UNCHANGED vars
  <2>1. UNCHANGED <<blob, held, dir, rots, tears, dl, ws>>
    BY <1>1 DEF vars, store, dlVars
  <2>2. DlShape' /\ ReadyInv' /\ ArtifactInv'
    BY <2>1, DownloadWaits DEF IInv, ArtifactInv
  <2>3. StoreTypeOK' /\ WsShape' /\ ServedInv'
    BY <2>1 DEF IInv, StoreTypeOK, WsShape, ServedInv
  <2> QED
    BY <2>2, <2>3 DEF IInv
<1> QED
  BY <1>1, DownloadsKeep, SessionsKeep, CloseKeeps, RotKeeps DEF Next

\* However downloads, sessions, closed tabs and rotting files interleave, the
\* inductive invariant of the store holds.
THEOREM StorageInvariant == Spec => []IInv
BY StorageInit, StorageInductive, PTL DEF Spec

\* With a provenance that answers with the bytes it recorded, every buffer a
\* session binds has the content its label names, whatever was torn, rotten,
\* evaporated or rewritten under it (runner.rs: a label is verified once).
THEOREM StorageServedRight ==
  ASSUME ~NetworkLies PROVE Spec => []ServedRight
<1>1. IInv => ServedRight
  BY DEF IInv, ServedInv, ServedRight
<1> QED
  BY <1>1, StorageInvariant, PTL

\* As long as no file has rotted, the quant map names the artifact of every
\* tensor it lists, after any torn and refetched files (download.worker.ts).
THEOREM StorageArtifactsTrue == Spec => []ArtifactsTrue
<1>1. ASSUME IInv PROVE ArtifactsTrue
  <2> SUFFICES ASSUME rots = 0, NEW e \in ToSet(dir.quant \o dl.quant)
               PROVE  e = <<e[1], Artifact(e[1])>>
    BY DEF ArtifactsTrue
  <2>1. Named(dl.quant) /\ Named(dir.quant)
    BY <1>1 DEF IInv, ArtifactInv
  <2>2. PICK p \in Seq(Tensors \X Labels) : p = dir.quant
    BY <1>1 DEF IInv, StoreTypeOK
  <2>3. PICK q \in Seq(Tensors \X Labels) : q = dl.quant
    BY <1>1 DEF IInv, DlShape
  <2>4. /\ p \o q \in Seq(Tensors \X Labels) /\ Len(p \o q) = Len(p) + Len(q)
        /\ \A i \in 1 .. Len(p) + Len(q) :
             (p \o q)[i] = IF i <= Len(p) THEN p[i] ELSE q[i - Len(p)]
        /\ DOMAIN p = 1 .. Len(p) /\ DOMAIN q = 1 .. Len(q) /\ Len(p) \in Nat /\ Len(q) \in Nat
    BY ConcatProperties, LenProperties
  <2>5. PICK i \in 1 .. Len(p) + Len(q) : e = (p \o q)[i]
    <3>1. PICK i \in DOMAIN (p \o q) : e = (p \o q)[i]
      BY <2>2, <2>3 DEF ToSet
    <3>2. DOMAIN (p \o q) = 1 .. Len(p) + Len(q)
      BY <2>4, LenProperties
    <3> QED
      BY <3>1, <3>2
  <2>6. CASE i <= Len(p)
    <3>1. i \in DOMAIN p /\ e = p[i]
      BY <2>4, <2>5, <2>6
    <3> QED
      BY <2>1, <2>2, <3>1 DEF Named
  <2>7. CASE ~(i <= Len(p))
    <3>1. i - Len(p) \in DOMAIN q /\ e = q[i - Len(p)]
      BY <2>4, <2>5, <2>7
    <3> QED
      BY <2>1, <2>3, <3>1 DEF Named
  <2> QED
    BY <2>6, <2>7
<1> QED
  BY <1>1, StorageInvariant, PTL

\* A directory marked ready holds everything a session reads, after any sequence
\* of crashed, failed and repeated downloads and removals.
THEOREM StorageReadyComplete == Spec => []ReadyComplete
<1>1. IInv => ReadyComplete
  BY DEF IInv, ReadyInv
<1> QED
  BY <1>1, StorageInvariant, PTL

-----------------------------------------------------------------------------
(* Sequences that name nothing twice.                                      *)

\* A sequence over T that names nothing twice.
Once(s, T) == s \in Seq(T) /\ IsInjective(s)

\* A larger set to take the members from.
LEMMA OnceMore ==
  ASSUME NEW T, NEW U, T \subseteq U, NEW s, Once(s, T) PROVE Once(s, U)
<1>1. Len(s) \in Nat /\ s \in [1 .. Len(s) -> T]
  BY LenProperties DEF Once
<1>2. s \in [1 .. Len(s) -> U]
  BY <1>1
<1> QED
  BY <1>1, <1>2 DEF Once

\* Sequences with no member in common.
LEMMA OnceConcat ==
  ASSUME NEW T, NEW U, T \cap U = {}, NEW s, NEW t, Once(s, T), Once(t, U)
  PROVE  Once(s \o t, T \cup U)
<1>1. /\ s \in Seq(T \cup U) /\ Len(s) \in Nat /\ \A k \in 1 .. Len(s) : s[k] \in T
      /\ t \in Seq(T \cup U) /\ Len(t) \in Nat /\ \A k \in 1 .. Len(t) : t[k] \in U
      /\ DOMAIN s = 1 .. Len(s) /\ DOMAIN t = 1 .. Len(t)
  <2>1. Once(s, T \cup U) /\ Once(t, T \cup U)
    BY OnceMore
  <2> QED
    BY <2>1, LenProperties, ElementOfSeq DEF Once
<1> DEFINE w == s \o t
<1>2. /\ w \in Seq(T \cup U) /\ Len(w) = Len(s) + Len(t)
      /\ \A k \in 1 .. Len(s) + Len(t) : w[k] = IF k <= Len(s) THEN s[k] ELSE t[k - Len(s)]
  BY <1>1, ConcatProperties
<1>3. DOMAIN w = 1 .. Len(s) + Len(t)
  BY <1>2, LenProperties
<1> HIDE DEF w
<1>4. ASSUME NEW a \in DOMAIN w, NEW b \in DOMAIN w, w[a] = w[b] PROVE a = b
  <2>1. CASE a <= Len(s) /\ b <= Len(s)
    BY <1>1, <1>2, <1>3, <1>4, <2>1 DEF Once, IsInjective
  <2>2. CASE ~(a <= Len(s)) /\ ~(b <= Len(s))
    <3>1. a - Len(s) \in DOMAIN t /\ b - Len(s) \in DOMAIN t /\ t[a - Len(s)] = t[b - Len(s)]
      BY <1>1, <1>2, <1>3, <1>4, <2>2
    <3>2. a - Len(s) = b - Len(s)
      BY <3>1 DEF Once, IsInjective
    <3> QED
      BY <1>1, <1>3, <3>2
  <2>3. CASE a <= Len(s) /\ ~(b <= Len(s))
    BY <1>1, <1>2, <1>3, <1>4, <2>3
  <2>4. CASE ~(a <= Len(s)) /\ b <= Len(s)
    BY <1>1, <1>2, <1>3, <1>4, <2>4
  <2> QED
    BY <2>1, <2>2, <2>3, <2>4
<1>5. w \in Seq(T \cup U) /\ IsInjective(w)
  BY <1>2, <1>4 DEF IsInjective
<1> QED
  BY <1>5 DEF w, Once

\* A member that was not there.
LEMMA OnceAppend ==
  ASSUME NEW T, NEW s, Once(s, T), NEW x, x \notin T
  PROVE  Once(Append(s, x), T \cup {x})
<1>1. Once(<<x>>, {x})
  BY DEF Once, IsInjective
<1>2. Once(s \o <<x>>, T \cup {x})
  BY <1>1, OnceConcat
<1>3. s \in Seq(T \cup {x})
  BY OnceMore DEF Once
<1>4. Append(s, x) = s \o <<x>>
  BY <1>3, AppendIsConcat
<1> QED
  BY <1>2, <1>4

\* Two pieces of it, one behind the other, with something left out between.
LEMMA OnceApart ==
  ASSUME NEW T, NEW s, Once(s, T), NEW k \in 1 .. Len(s)
  PROVE  Once(SubSeq(s, 1, k - 1) \o SubSeq(s, k + 1, Len(s)), T)
<1>1. Len(s) \in Nat /\ DOMAIN s = 1 .. Len(s) /\ \A j \in 1 .. Len(s) : s[j] \in T
  BY LenProperties, ElementOfSeq DEF Once
<1> DEFINE a == SubSeq(s, 1, k - 1)
<1> DEFINE b == SubSeq(s, k + 1, Len(s))
<1>2. /\ a \in Seq(T) /\ Len(a) = k - 1 /\ \A j \in 1 .. k - 1 : a[j] = s[j]
  BY <1>1, PrefixType DEF Once
<1>3. /\ b \in Seq(T) /\ Len(b) = Len(s) - k /\ \A j \in 1 .. Len(s) - k : b[j] = s[k + j]
  <2>1. \A j \in k + 1 .. Len(s) : s[j] \in T
    BY <1>1
  <2>2. /\ SubSeq(s, k + 1, Len(s)) \in Seq(T)
        /\ Len(SubSeq(s, k + 1, Len(s))) = IF k + 1 <= Len(s) THEN Len(s) - (k + 1) + 1 ELSE 0
        /\ \A j \in 1 .. Len(s) - (k + 1) + 1 : SubSeq(s, k + 1, Len(s))[j] = s[k + 1 + j - 1]
    BY <1>1, <2>1, SubSeqProperties
  <2> HIDE DEF a, b
  <2>3. /\ b \in Seq(T)
        /\ Len(b) = IF k + 1 <= Len(s) THEN Len(s) - (k + 1) + 1 ELSE 0
        /\ \A j \in 1 .. Len(s) - (k + 1) + 1 : b[j] = s[k + 1 + j - 1]
    BY <2>2 DEF b
  <2>4. ASSUME NEW j \in 1 .. Len(s) - k PROVE b[j] = s[k + j]
    <3>1. j \in 1 .. Len(s) - (k + 1) + 1 /\ k + 1 + j - 1 = k + j
      BY <1>1
    <3> QED
      BY <2>3, <3>1
  <2>5. Len(b) = Len(s) - k
    <3>1. k \in Nat /\ k <= Len(s)
      BY <1>1
    <3>2. CASE k + 1 <= Len(s)
      <4>1. Len(b) = Len(s) - (k + 1) + 1
        BY <2>3, <3>2
      <4> QED
        BY <1>1, <3>1, <4>1
    <3>3. CASE ~(k + 1 <= Len(s))
      <4>1. Len(b) = 0
        BY <2>3, <3>3
      <4>2. Len(s) \in Nat
        BY <1>1
      <4>3. Len(s) = k
        BY <3>1, <3>3, <4>2
      <4>4. Len(s) - k = 0
        BY <3>1, <4>2, <4>3
      <4> QED
        BY <4>1, <4>4
    <3> QED
      BY <3>2, <3>3
  <2> QED
    BY <2>3, <2>4, <2>5
<1> HIDE DEF a, b
<1> DEFINE w == a \o b
<1>4. /\ w \in Seq(T) /\ Len(w) = Len(s) - 1
      /\ \A j \in 1 .. Len(s) - 1 : w[j] = IF j <= k - 1 THEN a[j] ELSE b[j - (k - 1)]
  <2>1. /\ a \o b \in Seq(T) /\ Len(a \o b) = Len(a) + Len(b)
        /\ \A j \in 1 .. Len(a) + Len(b) : (a \o b)[j] = IF j <= Len(a) THEN a[j] ELSE b[j - Len(a)]
    BY <1>2, <1>3, ConcatProperties
  <2> QED
    BY <1>1, <1>2, <1>3, <2>1
<1>5. DOMAIN w = 1 .. Len(s) - 1
  BY <1>4, LenProperties
<1> HIDE DEF w
<1>6. ASSUME NEW j \in 1 .. Len(s) - 1 PROVE w[j] = s[IF j <= k - 1 THEN j ELSE j + 1]
  <2>1. CASE j <= k - 1
    BY <1>1, <1>2, <1>4, <2>1
  <2>2. CASE ~(j <= k - 1)
    <3>1. j - (k - 1) \in 1 .. Len(s) - k /\ k + (j - (k - 1)) = j + 1
      BY <1>1, <2>2
    <3>2. b[j - (k - 1)] = s[k + (j - (k - 1))]
      BY <1>3, <3>1
    <3> QED
      BY <1>4, <2>2, <3>1, <3>2
  <2> QED
    BY <2>1, <2>2
<1>7. ASSUME NEW j \in 1 .. Len(s) - 1, NEW m \in 1 .. Len(s) - 1, w[j] = w[m] PROVE j = m
  <2> DEFINE p == IF j <= k - 1 THEN j ELSE j + 1
  <2> DEFINE q == IF m <= k - 1 THEN m ELSE m + 1
  <2>1. p \in 1 .. Len(s) /\ q \in 1 .. Len(s) /\ s[p] = s[q]
    BY <1>1, <1>6, <1>7
  <2>2. p = q
    <3> HIDE DEF p, q
    <3> QED
      BY <1>1, <2>1 DEF Once, IsInjective
  <2> QED
    BY <1>1, <2>2
<1>8. w \in Seq(T) /\ IsInjective(w)
  BY <1>4, <1>5, <1>7 DEF IsInjective
<1> QED
  BY <1>8 DEF w, a, b, Once

\* indexOf and splice.
LEMMA OnceRemoved ==
  ASSUME NEW T, NEW s, Once(s, T), NEW e
  PROVE  Once(RemoveFirst(s, e), T)
<1>1. CASE \E k \in 1 .. Len(s) : s[k] = e
  <2> DEFINE I == {k \in 1 .. Len(s) : s[k] = e}
  <2>1. I # {} /\ I \subseteq Nat
    BY <1>1
  <2>2. PICK least \in I : \A m \in I : least <= m
    <3> HIDE DEF I
    <3> QED
      BY <2>1, LeastNatural
  <2>3. SelectInSeq(s, LAMBDA v : v = e) = Min(I)
    BY <2>1 DEF SelectInSeq
  <2> HIDE DEF I
  <2>4. Min(I) \in I
    BY <2>2 DEF Min
  <2>5. Min(I) \in 1 .. Len(s)
    BY <2>4 DEF I
  <2>6. RemoveFirst(s, e) = RemoveAt(s, Min(I))
    BY <1>1, <2>3 DEF RemoveFirst
  <2> QED
    BY <2>5, <2>6, OnceApart DEF RemoveAt
<1>2. CASE ~ \E k \in 1 .. Len(s) : s[k] = e
  BY <1>2 DEF RemoveFirst
<1> QED
  BY <1>1, <1>2

\* pop.
LEMMA OnceFront ==
  ASSUME NEW T, NEW s, Once(s, T), s # <<>>
  PROVE  Once(Front(s), T)
<1>1. Len(s) \in Nat /\ Len(s) \in 1 .. Len(s)
  <2>1. Len(s) \in Nat
    BY LenProperties DEF Once
  <2>2. Len(s) # 0
    BY EmptySeq DEF Once
  <2> QED
    BY <2>1, <2>2
<1>2. Len(s) - 1 \in 0 .. Len(s)
  BY <1>1
<1>3. /\ Front(s) \in Seq(T) /\ Len(Front(s)) = Len(s) - 1
      /\ \A j \in 1 .. Len(s) - 1 : Front(s)[j] = s[j]
  BY <1>2, PrefixType DEF Front, Once
<1>4. DOMAIN s = 1 .. Len(s) /\ DOMAIN Front(s) = 1 .. Len(s) - 1
  BY <1>3, LenProperties DEF Once
<1>5. IsInjective(Front(s))
  BY <1>1, <1>3, <1>4 DEF Once, IsInjective
<1> QED
  BY <1>3, <1>5 DEF Once

-----------------------------------------------------------------------------
(* The list of evictable files.                                             *)

Wides(T) == {Wide(t) : t \in T}
Made(T) == {Artifact(t) : t \in T} \cup {Mistaken(t) : t \in T}

\* The tensors before position k of the shard.
Passed(k) == {Order[j] : j \in 1 .. k - 1}

\* What may be evictable, by phase and position ...
Evictables(phase, k) ==
  CASE phase \in {"idle", "companions", "preflight"} -> {}
    [] phase = "stream" -> Wides(Passed(k))
    [] phase \in {"sources", "manifest", "quantize", "crystallize"} -> Wides(Tensors)
    [] phase \in {"heads", "chunk"} -> Wides(Tensors) \cup Made(Eligible)
    [] OTHER -> Wides(Tensors) \cup Made(Eligible) \cup Made(Heads)

\* ... and what the tier at work has made.
Freshes(phase, k) ==
  CASE phase \in {"quantize", "crystallize"} -> Made(Passed(k) \cap Eligible)
    [] phase \in {"heads", "chunk"} -> Made(Passed(k) \cap Heads)
    [] OTHER -> {}

\* The tensor whose artifact is in the download's hand.
Handed == /\ dl.at = "crystallize" => Here \in Eligible
          /\ dl.at = "chunk" => Here \in Heads
          /\ Crystallizing => dl.i <= Len(Order) /\ dl.hand \in Made({Here})

ListInv ==
  /\ dl.i \in 1 .. Len(Order) + 1 /\ dl.room \in 0 .. Len(Order) /\ dl.known \in BOOLEAN
  /\ dl.at \in {"idle", "companions", "preflight"} => dl.i = 1
  /\ begun \in 0 .. MaxDownloads /\ pinned \in BOOLEAN
  /\ Once(dl.evictable, Evictables(dl.at, dl.i)) /\ Once(dl.fresh, Freshes(dl.at, dl.i))
  /\ Handed

\* Growing sets, as the position grows.
LEMMA PassedGrows ==
  ASSUME NEW k \in 1 .. Len(Order)
  PROVE  /\ Passed(k) \subseteq Tensors /\ Passed(k + 1) = Passed(k) \cup {Order[k]}
         /\ Order[k] \notin Passed(k) /\ Order[k] \in Tensors
<1>1. Len(Order) \in Nat /\ \A j \in 1 .. Len(Order) : Order[j] \in Tensors
  BY OrderType
<1>2. DOMAIN Order = 1 .. Len(Order)
  BY OrderType, LenProperties
<1>3. 1 .. k + 1 - 1 = (1 .. k - 1) \cup {k} /\ 1 .. k - 1 \subseteq 1 .. Len(Order)
  BY <1>1
<1>4. Passed(k + 1) = Passed(k) \cup {Order[k]}
  BY <1>3 DEF Passed
<1>5. ASSUME NEW j \in 1 .. k - 1 PROVE Order[j] # Order[k]
  BY <1>1, <1>2, StoreAssumption DEF IsInjective
<1> QED
  BY <1>1, <1>3, <1>4, <1>5 DEF Passed

LEMMA PassedAll ==
  ASSUME NEW k \in 1 .. Len(Order) + 1 PROVE Passed(k) \subseteq Tensors
BY OrderType DEF Passed

LEMMA NothingPassed == Passed(1) = {}
BY DEF Passed

LEMMA NothingListed == \A T : Once(<< >>, T)
BY DEF Once, IsInjective

\* What a position more may list.
LEMMA ListsGrow ==
  ASSUME NEW phase, NEW k \in 1 .. Len(Order)
  PROVE  /\ Evictables(phase, k) \subseteq Evictables(phase, k + 1)
         /\ Freshes(phase, k) \subseteq Freshes(phase, k + 1)
<1>1. Passed(k) \subseteq Passed(k + 1)
  BY PassedGrows
<1> QED
  BY <1>1 DEF Evictables, Freshes, Wides, Made

\* Until it ends, a download's list keeps its shape under what its steps do.
LEMMA ListStops ==
  ASSUME dl' = Idle, UNCHANGED <<begun, pinned>>, ListInv PROVE ListInv'
<1>1. /\ dl'.at = "idle" /\ dl'.i = 1 /\ dl'.room = 0 /\ dl'.known \in BOOLEAN
      /\ dl'.evictable = << >> /\ dl'.fresh = << >>
  BY DEF Idle
<1>2. Handed'
  BY <1>1 DEF Handed, Crystallizing
<1> QED
  BY <1>1, <1>2, OrderType, NothingListed DEF ListInv

LEMMA ListStays ==
  ASSUME UNCHANGED dlVars, ListInv PROVE ListInv'
BY DEF dlVars, ListInv, Handed, Crystallizing, Here, Evictables, Freshes, Passed, Wides, Made,
       Once, IsInjective

LEMMA ListBegins == ASSUME ListInv, Begin PROVE ListInv'
<1>1. PICK p \in {"monolithic", "wide", "quantized"}, r \in 0 .. Len(Order) :
        dl' = [Idle EXCEPT !.at = "companions", !.plan = p, !.room = r]
  BY DEF Begin
<1>2. /\ dl'.at = "companions" /\ dl'.i = 1 /\ dl'.room = r /\ dl'.known \in BOOLEAN
      /\ dl'.evictable = << >> /\ dl'.fresh = << >>
  BY <1>1 DEF Idle
<1>3. begun' \in 0 .. MaxDownloads /\ pinned' = pinned
  BY DownloadAssumption DEF Begin, ListInv
<1>4. Handed'
  BY <1>2 DEF Handed, Crystallizing
<1> QED
  BY <1>2, <1>3, <1>4, OrderType, NothingListed DEF ListInv

LEMMA ListStreams ==
  ASSUME DOMAIN dl = DlFields, ListInv,
         Companions \/ Preflight \/ Skip \/ Drop \/ CacheRefused \/ FinishShard \/ Pass
  PROVE  ListInv'
<1>1. begun' \in 0 .. MaxDownloads /\ pinned' \in BOOLEAN /\ dl.i \in 1 .. Len(Order) + 1
      /\ Len(Order) \in Nat
  BY OrderType DEF ListInv, Companions, Preflight, Skip, Drop, CacheRefused, FinishShard, Pass
<1>2. CASE Companions
  <2>1. /\ dl'.at = "preflight" /\ dl.at = "companions" /\ dl'.i = dl.i /\ dl'.room = dl.room
        /\ dl'.known = dl.known /\ dl'.evictable = dl.evictable /\ dl'.fresh = dl.fresh
    BY <1>2 DEF Companions, DlFields
  <2>2. Handed'
    BY <2>1 DEF Handed, Crystallizing
  <2>3. /\ Evictables("preflight", dl.i) = Evictables("companions", dl.i)
        /\ Freshes("preflight", dl.i) = Freshes("companions", dl.i)
    BY DEF Evictables, Freshes
  <2> QED
    BY <1>1, <2>1, <2>2, <2>3 DEF ListInv
<1>3. CASE Preflight
  <2>1. PICK known \in BOOLEAN : dl' = [dl EXCEPT !.at = "stream", !.known = known]
    BY <1>3 DEF Preflight, ListInv
  <2>2. /\ dl'.at = "stream" /\ dl.at = "preflight" /\ dl'.i = dl.i /\ dl'.room = dl.room
        /\ dl'.known = known /\ dl'.evictable = dl.evictable /\ dl'.fresh = dl.fresh
    BY <1>3, <2>1 DEF Preflight, DlFields
  <2>3. Handed'
    BY <2>2 DEF Handed, Crystallizing
  <2>4. Once(dl.evictable, {}) /\ Once(dl.fresh, {})
    BY <2>2 DEF ListInv, Evictables, Freshes
  <2>5. Once(dl.evictable, Evictables("stream", dl.i)) /\ Once(dl.fresh, Freshes("stream", dl.i))
    BY <2>4, OnceMore
  <2> QED
    BY <1>1, <2>2, <2>3, <2>5 DEF ListInv
<1>4. CASE FinishShard
  <2>1. /\ dl'.at = "sources" /\ dl.at = "stream" /\ dl'.i = dl.i /\ dl'.room = 0
        /\ dl'.known \in BOOLEAN /\ dl'.evictable = dl.evictable /\ dl'.fresh = dl.fresh
    BY <1>4 DEF FinishShard, DlFields
  <2>2. Handed'
    BY <2>1 DEF Handed, Crystallizing
  <2>3. /\ Evictables("stream", dl.i) \subseteq Evictables("sources", dl.i)
        /\ Freshes("stream", dl.i) = Freshes("sources", dl.i)
    BY <1>1, PassedAll DEF Evictables, Freshes, Wides
  <2>4. Once(dl.evictable, Evictables("sources", dl.i)) /\ Once(dl.fresh, Freshes("sources", dl.i))
    BY <2>1, <2>3, OnceMore DEF ListInv
  <2> QED
    BY <1>1, <2>1, <2>2, <2>4 DEF ListInv
<1>5. CASE Skip \/ Drop \/ CacheRefused \/ Pass
  <2>1. /\ dl'.at = dl.at /\ dl'.i = dl.i + 1 /\ dl'.room \in {0, dl.room} /\ dl'.known = dl.known
        /\ dl'.evictable = dl.evictable /\ dl'.fresh = dl.fresh
        /\ dl.i <= Len(Order) /\ dl.at \in {"stream", "quantize", "heads"}
    BY <1>5 DEF Skip, Drop, CacheRefused, Pass, Onward, Streaming, Deriving, DlFields
  <2>2. Handed'
    BY <2>1 DEF Handed, Crystallizing
  <2>3. dl.i \in 1 .. Len(Order) /\ dl.i + 1 \in 1 .. Len(Order) + 1
    BY <1>1, <2>1
  <2>4. /\ Once(dl.evictable, Evictables(dl.at, dl.i + 1))
        /\ Once(dl.fresh, Freshes(dl.at, dl.i + 1))
    BY <2>3, ListsGrow, OnceMore DEF ListInv
  <2> QED
    BY <1>1, <2>1, <2>2, <2>3, <2>4 DEF ListInv
<1> QED
  BY <1>2, <1>3, <1>4, <1>5

\* A streamed tensor joins the list: no other position has its label.
LEMMA ListCaches == ASSUME DOMAIN dl = DlFields, ListInv, Cache PROVE ListInv'
<1>1. begun' = begun /\ pinned' = pinned /\ dl.i \in 1 .. Len(Order)
  BY OrderType DEF Cache, Streaming, ListInv
<1>2. /\ dl'.at = "stream" /\ dl.at = "stream" /\ dl'.i = dl.i + 1 /\ dl'.room = dl.room - 1
      /\ dl.room > 0 /\ dl'.known = dl.known /\ dl'.fresh = dl.fresh
      /\ dl'.evictable = Append(dl.evictable, Wide(Here))
  BY DEF Cache, Onward, Streaming, DlFields
<1>3. Here \notin Passed(dl.i) /\ Passed(dl.i + 1) = Passed(dl.i) \cup {Here}
  BY <1>1, PassedGrows DEF Here
<1>4. Once(dl.evictable, Wides(Passed(dl.i)))
  BY <1>2 DEF ListInv, Evictables
<1>5. /\ Wide(Here) \notin Wides(Passed(dl.i))
      /\ Wides(Passed(dl.i)) \cup {Wide(Here)} = Wides(Passed(dl.i + 1))
  BY <1>3 DEF Wides, Wide
<1>6. Once(Append(dl.evictable, Wide(Here)), Wides(Passed(dl.i + 1)))
  <2>1. Once(Append(dl.evictable, Wide(Here)), Wides(Passed(dl.i)) \cup {Wide(Here)})
    BY <1>4, <1>5, OnceAppend
  <2> QED
    BY <1>5, <2>1
<1>7. Once(dl.fresh, Freshes("stream", dl.i + 1))
  BY <1>2 DEF ListInv, Freshes
<1>8. Handed'
  BY <1>2 DEF Handed, Crystallizing
<1>9. dl.i + 1 \in 1 .. Len(Order) + 1 /\ dl.room - 1 \in 0 .. Len(Order)
  BY <1>1, <1>2, OrderType DEF ListInv
<1>10. Evictables("stream", dl.i + 1) = Wides(Passed(dl.i + 1))
  BY DEF Evictables
<1> QED
  BY <1>1, <1>2, <1>6, <1>7, <1>8, <1>9, <1>10 DEF ListInv

\* The last file leaves the list with its bytes.
LEMMA ListPressed == ASSUME DOMAIN dl = DlFields, ListInv, Pressed PROVE ListInv'
<1>1. /\ dl'.at = dl.at /\ dl'.i = dl.i /\ dl'.room = dl.room /\ dl'.known = dl.known
      /\ dl'.fresh = dl.fresh /\ dl'.evictable = Front(dl.evictable) /\ dl'.hand = dl.hand
      /\ begun' = begun /\ pinned' = pinned /\ dl.evictable # << >>
  BY DEF Pressed, DlFields
<1>2. Once(Front(dl.evictable), Evictables(dl.at, dl.i))
  BY <1>1, OnceFront DEF ListInv
<1>3. Handed'
  BY <1>1 DEF ListInv, Handed, Crystallizing, Here
<1> QED
  BY <1>1, <1>2, <1>3 DEF ListInv

\* A tier ends: its artifacts are none of the files listed before.
LEMMA ListLeaves ==
  ASSUME DOMAIN dl = DlFields, ListInv, dl' = Leave, UNCHANGED <<begun, pinned>>,
         dl.at \in {"quantize", "heads", "crystallize", "chunk"}
  PROVE  ListInv'
<1>1. PICK phase \in {"heads", "stages"} :
        /\ dl' = [dl EXCEPT !.at = phase, !.i = 1, !.evictable = dl.fresh \o @, !.fresh = << >>]
        /\ phase = "heads" <=> dl.at \in {"quantize", "crystallize"}
  BY DEF Leave, LeaveProjections, LeaveHeads
<1>2. /\ dl'.at = phase /\ dl'.i = 1 /\ dl'.room = dl.room /\ dl'.known = dl.known
      /\ dl'.fresh = << >> /\ dl'.evictable = dl.fresh \o dl.evictable
  BY <1>1 DEF DlFields
<1>3. Freshes(dl.at, dl.i) \cap Evictables(dl.at, dl.i) = {}
  <2>1. Eligible \cap Heads = {}
    BY StoreAssumption
  <2> QED
    BY <2>1 DEF Freshes, Evictables, Wides, Made, Wide, Artifact, Mistaken
<1>4. Freshes(dl.at, dl.i) \cup Evictables(dl.at, dl.i) \subseteq Evictables(phase, 1)
  BY <1>1 DEF Freshes, Evictables, Made
<1>5. Once(dl.fresh \o dl.evictable, Freshes(dl.at, dl.i) \cup Evictables(dl.at, dl.i))
  BY <1>3, OnceConcat DEF ListInv
<1>6. Once(dl.fresh \o dl.evictable, Evictables(phase, 1))
  BY <1>4, <1>5, OnceMore
<1>7. Handed'
  BY <1>2 DEF Handed, Crystallizing
<1> QED
  BY <1>2, <1>6, <1>7, OrderType, NothingListed DEF ListInv

\* A wide file leaves the list before the artifact is derived from its bytes.
LEMMA ListDerives == ASSUME IInv, DOMAIN dl = DlFields, ListInv, Derive PROVE ListInv'
<1>1. /\ dl.at \in {"quantize", "heads"} /\ dl.i <= Len(Order) /\ Here \in Tier
      /\ begun' = begun /\ pinned' = pinned
  BY DEF Derive, Deriving
<1>2. CASE dl' = Idle
  BY <1>1, <1>2, ListStops
<1>3. ASSUME NEW a \in Derived(Here, WideBytes),
             dl' = [dl EXCEPT !.at = IF @ = "quantize" THEN "crystallize" ELSE "chunk",
                              !.hand = a,
                              !.evictable = IF dl.at = "quantize" THEN RemoveFirst(@, Wide(Here)) ELSE @]
      PROVE  ListInv'
  <2>1. PICK phase \in {"crystallize", "chunk"}, rest \in {dl.evictable, RemoveFirst(dl.evictable, Wide(Here))} :
          /\ dl' = [dl EXCEPT !.at = phase, !.hand = a, !.evictable = rest]
          /\ phase = "crystallize" <=> dl.at = "quantize"
    BY <1>3
  <2>2. /\ dl'.at = phase /\ dl'.i = dl.i /\ dl'.room = dl.room /\ dl'.known = dl.known
        /\ dl'.fresh = dl.fresh /\ dl'.evictable = rest /\ dl'.hand = a
    BY <2>1 DEF DlFields
  <2>3. Once(rest, Evictables(dl.at, dl.i))
    BY OnceRemoved DEF ListInv
  <2>4. Evictables(phase, dl.i) = Evictables(dl.at, dl.i) /\ Freshes(phase, dl.i) = Freshes(dl.at, dl.i)
    BY <1>1, <2>1 DEF Evictables, Freshes
  <2>5. a \in Made({Here})
    <3>1. Here \in Tensors
      BY <1>1, OrderType DEF Here, ListInv
    <3>2. Wide(Here) \in Labels
      BY <3>1 DEF Labels
    <3>3. WideBytes \in {"good", "rot", "torn"}
      BY <3>2 DEF WideBytes, Present, IInv, StoreTypeOK
    <3> QED
      BY <1>3, <3>3 DEF Derived, Made
  <2>6. Handed'
    BY <1>1, <2>1, <2>2, <2>5 DEF Handed, Here, Tier, Crystallizing
  <2> QED
    BY <1>1, <2>2, <2>3, <2>4, <2>6 DEF ListInv
<1> QED
  BY <1>2, <1>3 DEF Derive, Abort

\* What is crystallized is the artifact of a tensor none of the tier's was made of.
LEMMA ListCrystallizes == ASSUME DOMAIN dl = DlFields, ListInv, Crystallize PROVE ListInv'
<1>1. /\ dl.at \in {"crystallize", "chunk"} /\ dl.i \in 1 .. Len(Order)
      /\ dl.hand \in Made({Here}) /\ begun' = begun /\ pinned' = pinned
  BY OrderType DEF Crystallize, Crystallizing, ListInv, Handed
<1>2. PICK phase \in {"quantize", "heads"} :
        /\ dl' = [Onward EXCEPT !.at = phase, !.fresh = Append(@, dl.hand),
                                !.quant = Append(@, <<Here, dl.hand>>)]
        /\ phase = "quantize" <=> dl.at = "crystallize"
  BY <1>1 DEF Crystallize, Onward
<1>3. /\ dl'.at = phase /\ dl'.i = dl.i + 1 /\ dl'.room = dl.room /\ dl'.known = dl.known
      /\ dl'.fresh = Append(dl.fresh, dl.hand) /\ dl'.evictable = dl.evictable
  BY <1>2 DEF Onward, DlFields
<1>4. PICK tier \in {Eligible, Heads} :
        /\ Here \in tier /\ Freshes(dl.at, dl.i) = Made(Passed(dl.i) \cap tier)
        /\ Freshes(phase, dl.i + 1) = Made(Passed(dl.i + 1) \cap tier)
  BY <1>1, <1>2 DEF ListInv, Handed, Freshes
<1>5. Here \notin Passed(dl.i) /\ Passed(dl.i + 1) = Passed(dl.i) \cup {Here}
  BY <1>1, PassedGrows DEF Here
<1>6. /\ dl.hand \notin Freshes(dl.at, dl.i)
      /\ Freshes(dl.at, dl.i) \cup {dl.hand} \subseteq Freshes(phase, dl.i + 1)
  BY <1>1, <1>4, <1>5 DEF Made, Artifact, Mistaken
<1>7. Once(Append(dl.fresh, dl.hand), Freshes(phase, dl.i + 1))
  <2>1. Once(Append(dl.fresh, dl.hand), Freshes(dl.at, dl.i) \cup {dl.hand})
    BY <1>6, OnceAppend DEF ListInv
  <2> QED
    BY <1>6, <2>1, OnceMore
<1>8. Once(dl.evictable, Evictables(phase, dl.i + 1))
  <2>1. Evictables(phase, dl.i + 1) = Evictables(dl.at, dl.i)
    BY <1>1, <1>2 DEF Evictables
  <2> QED
    BY <2>1 DEF ListInv
<1>9. Handed'
  BY <1>3 DEF Handed, Crystallizing
<1>10. dl.i + 1 \in 1 .. Len(Order) + 1 /\ dl.i + 1 # 1
  BY <1>1, OrderType
<1> QED
  BY <1>1, <1>3, <1>7, <1>8, <1>9, <1>10 DEF ListInv

\* A record is written; what was listed stays listed.
LEMMA ListRecords == ASSUME IInv, ListInv, Record PROVE ListInv'
<1>1. /\ DOMAIN dl = DlFields /\ begun' = begun /\ pinned' = pinned /\ dl.at \in ToSet(Records)
      /\ dl.plan \in {"monolithic", "wide", "quantized"}
  BY DEF IInv, DlShape, Record
<1>2. CASE dl' = Idle
  BY <1>1, <1>2, ListStops
<1>3. CASE dl' # Idle
  <2>1. AfterManifest \in {"archive", "stages", "quantize"}
    BY <1>1 DEF AfterManifest
  <2>2. PICK phase : phase = AfterRecord(dl.at)
    OBVIOUS
  <2>3. /\ dl.at = "sources" => phase = "manifest"
        /\ dl.at = "manifest" => phase \in {"archive", "stages", "quantize"}
        /\ dl.at = "stages" => phase = "ready"
        /\ dl.at \in {"sources", "manifest", "stages"}
    BY <1>1, <1>3, <2>1, <2>2, RecordsFollow, RecordsAre DEF Record
  <2>4. /\ dl'.at = phase /\ dl'.i = 1 /\ dl'.room = dl.room /\ dl'.known = dl.known
        /\ dl'.fresh = dl.fresh /\ dl'.evictable = dl.evictable
    BY <1>1, <1>3, <2>2 DEF Record, DlFields
  <2>5. /\ Evictables(dl.at, dl.i) \subseteq Evictables(phase, 1)
        /\ Freshes(dl.at, dl.i) \subseteq Freshes(phase, 1)
    BY <2>3 DEF Evictables, Freshes
  <2>6. Once(dl.evictable, Evictables(phase, 1)) /\ Once(dl.fresh, Freshes(phase, 1))
    BY <2>5, OnceMore DEF ListInv
  <2>7. Handed'
    BY <2>3, <2>4 DEF Handed, Crystallizing
  <2> QED
    BY <1>1, <2>3, <2>4, <2>6, <2>7, OrderType DEF ListInv
<1> QED
  BY <1>2, <1>3

LEMMA ListDownloads == ASSUME IInv, ListInv, DlNext PROVE ListInv'
<1>1. DOMAIN dl = DlFields
  BY DEF IInv, DlShape
<1>2. ASSUME Fail \/ StreamFails \/ DeriveFails \/ Archive PROVE ListInv'
  BY <1>2, ListStops DEF Fail, StreamFails, DeriveFails, Archive, Abort
<1>3. ASSUME Companions \/ Preflight \/ Skip \/ Drop \/ CacheRefused \/ FinishShard \/ Pass
      PROVE  ListInv'
  BY <1>1, <1>3, ListStreams
<1>4. ASSUME RecordRefused PROVE ListInv'
  BY <1>1, <1>4, ListPressed, ListStops DEF RecordRefused, Exhausted
<1>5. ASSUME CrystallizeRefused \/ EndTier PROVE ListInv'
  BY <1>1, <1>5, ListPressed, ListLeaves DEF CrystallizeRefused, Crystallizing, Exhausted, EndTier
<1>6. ASSUME ArchiveRefused PROVE ListInv'
  BY <1>6, ListStops, ListStays DEF ArchiveRefused, Abort, dlVars
<1>7. ASSUME RemoveModel PROVE ListInv'
  BY <1>7, ListStays DEF RemoveModel
<1> QED
  BY <1>1, <1>2, <1>3, <1>4, <1>5, <1>6, <1>7, ListBegins, ListCaches, ListDerives, ListCrystallizes,
     ListRecords DEF DlNext, DlStep

LEMMA ListInductive == IInv /\ ListInv /\ [Next]_vars => ListInv'
<1> SUFFICES ASSUME IInv, ListInv, [Next]_vars PROVE ListInv'
  OBVIOUS
<1>1. CASE UNCHANGED vars
  BY <1>1, ListStays DEF vars
<1>2. CASE Downloads
  BY <1>2, ListDownloads DEF Downloads
<1>3. CASE Sessions
  BY <1>3, ListStays DEF Sessions
<1>4. CASE Close \/ CloseTorn
  BY <1>4, ListStops DEF Close, CloseTorn
<1>5. CASE Rot
  BY <1>5, ListStays DEF Rot
<1> QED
  BY <1>1, <1>2, <1>3, <1>4, <1>5 DEF Next

LEMMA ListStart == Init => ListInv
<1> SUFFICES ASSUME Init PROVE ListInv
  OBVIOUS
<1>1. /\ dl.at = "idle" /\ dl.i = 1 /\ dl.room = 0 /\ dl.known \in BOOLEAN
      /\ dl.evictable = << >> /\ dl.fresh = << >> /\ begun = 0 /\ pinned \in BOOLEAN
  BY DEF Init, DlInit, Idle
<1>2. Handed
  BY <1>1 DEF Handed, Crystallizing
<1> QED
  BY <1>1, <1>2, OrderType, NothingListed, DownloadAssumption DEF ListInv

\* The types of the store, the download and the session hold; with them, that
\* the list of files a pressed write may evaporate names no file twice: streamed
\* tensors, the artifacts of both tiers and what is evaporated or consumed in
\* between never put one back (download.worker.ts, cachedKappas).
THEOREM StorageTypeCorrect == Spec => []TypeOK
<1>1. ASSUME IInv, ListInv PROVE TypeOK
  <2>1. StoreTypeOK /\ WsTypeOK
    BY <1>1 DEF IInv, WsShape, WsTypeOK, Sessioned
  <2>2. Evictables(dl.at, dl.i) \subseteq Labels /\ Freshes(dl.at, dl.i) \subseteq Labels
    <3>1. Eligible \subseteq Tensors /\ Heads \subseteq Tensors /\ Passed(dl.i) \subseteq Tensors
      BY <1>1, StoreAssumption, PassedAll DEF ListInv
    <3> QED
      BY <3>1 DEF Evictables, Freshes, Wides, Made, Labels, Quantized
  <2>3. Once(dl.evictable, Labels) /\ Once(dl.fresh, Labels)
    BY <1>1, <2>2, OnceMore DEF ListInv
  <2>4. DlTypeOK
    BY <1>1, <2>3 DEF ListInv, IInv, DlShape, DlTypeOK, Once
  <2> QED
    BY <2>1, <2>4 DEF TypeOK
<1>2. Spec => []ListInv
  BY StorageInvariant, ListStart, ListInductive, PTL DEF Spec
<1> QED
  BY <1>1, <1>2, StorageInvariant, PTL
================================================================================
