------------------------------- MODULE Download -------------------------------
(***************************************************************************)
(* The download of a model: the page's part (ipc.ts, downloadOne) and the  *)
(* download worker's (download.worker.ts, handleSafetensorsDownload).  One *)
(* action is what happens between two awaits that touch the store.  Any    *)
(* write may be refused (quota, a locked file, an I/O error), any fetch    *)
(* may fail; a loop of writeEssential is one action per attempt.           *)
(***************************************************************************)
EXTENDS KappaStore

CONSTANT MaxDownloads   \* bound: downloads begun in a behaviour

ASSUME DownloadAssumption == MaxDownloads \in Nat

VARIABLES
  dl,      \* the download: phase, position, cache room, evictable list, the artifacts
           \* of the tier at work (artifactKappas, headArtifactKappas), quant entries
  begun,   \* bound: the downloads begun
  pinned   \* provenance/: the ranges of the shard are known under its content pin

dlVars == <<dl, begun, pinned>>

Idle == [at |-> "idle", plan |-> "quantized", i |-> 1, room |-> 0, known |-> FALSE,
         evictable |-> <<>>, fresh |-> <<>>, quant |-> <<>>, hand |-> Wide(Order[1])]

DlInit == dl = Idle /\ begun = 0 /\ pinned = FALSE

\* onDownload: the page allows one download at a time.  The estimate decides
\* whether the model is staged and how many tensors the cache may hold.
Begin ==
  /\ dl.at = "idle" /\ begun < MaxDownloads
  /\ begun' = begun + 1
  /\ \E p \in {"monolithic", "wide", "quantized"}, r \in 0 .. Len(Order) :
       dl' = [Idle EXCEPT !.at = "companions", !.plan = p, !.room = r]
  /\ UNCHANGED <<store, pinned>>

\* emitError, or a throw in downloadOne: nothing is undone.
Abort == dl' = Idle

Fail == dl.at \in {"companions", "preflight"} /\ Abort /\ UNCHANGED <<store, begun, pinned>>

\* The companion files: config.json is the last one the worker needs.
Companions ==
  /\ dl.at = "companions"
  /\ dir' = [dir EXCEPT !.config = TRUE]
  /\ dl' = [dl EXCEPT !.at = "preflight"]
  /\ UNCHANGED <<blob, held, rots, tears, begun, pinned>>

\* The headers are read and validated; the prior of the content pin is loaded,
\* if the server names a pin and the file can be read.
Preflight ==
  /\ dl.at = "preflight"
  /\ \E k \in {FALSE, pinned} : dl' = [dl EXCEPT !.at = "stream", !.known = k]
  /\ UNCHANGED <<store, begun, pinned>>

-----------------------------------------------------------------------------
(* Streaming: every tensor's provenance is recorded, its bytes are cached    *)
(* while the budget lasts.                                                  *)

Here == Order[dl.i]
Streaming == dl.at = "stream" /\ dl.i <= Len(Order)
Onward == [dl EXCEPT !.i = @ + 1]

\* A known range is not transferred, and not cached.
Skip == Streaming /\ dl.known /\ dl' = Onward /\ UNCHANGED <<store, begun, pinned>>

\* The budget is used up: the bytes are hashed and dropped.
Drop == Streaming /\ ~dl.known /\ dl.room = 0 /\ dl' = Onward /\ UNCHANGED <<store, begun, pinned>>

Cache ==
  /\ Streaming /\ ~dl.known /\ dl.room > 0
  /\ Free(Wide(Here))
  /\ blob' = [blob EXCEPT ![Wide(Here)] = "good"]
  /\ dl' = [Onward EXCEPT !.room = @ - 1, !.evictable = Append(@, Wide(Here))]
  /\ UNCHANGED <<held, dir, rots, tears, begun, pinned>>

\* Quota, or the handle cannot be had: the cache is closed for the rest.
CacheRefused ==
  /\ Streaming /\ ~dl.known /\ dl.room > 0
  /\ blob' = Evaporated(Wide(Here))
  /\ dl' = [Onward EXCEPT !.room = 0]
  /\ UNCHANGED <<held, dir, rots, tears, begun, pinned>>

StreamFails == Streaming /\ ~dl.known /\ Abort /\ UNCHANGED <<store, begun, pinned>>

\* The shard is through: its prior is saved, or the write is lost.
FinishShard ==
  /\ dl.at = "stream" /\ dl.i > Len(Order)
  /\ pinned' \in {TRUE, pinned}
  /\ dl' = [dl EXCEPT !.at = "sources", !.room = 0, !.known = FALSE]
  /\ UNCHANGED <<store, begun>>

-----------------------------------------------------------------------------
(* writeEssential: a refused write evaporates the last evictable file and is *)
(* tried again; with nothing left to evaporate it fails.                     *)

\* Fault: the file is removed and stays in the list.
PressedKept ==
  /\ dl.evictable # <<>>
  /\ blob' = Evaporated(Last(dl.evictable))
  /\ UNCHANGED <<held, dir, rots, tears, dlVars>>

Pressed ==
  /\ dl.evictable # <<>>
  /\ blob' = Evaporated(Last(dl.evictable))
  /\ dl' = [dl EXCEPT !.evictable = Front(@)]
  /\ UNCHANGED <<held, dir, rots, tears, begun, pinned>>

Exhausted(otherwise) ==
  dl.evictable = <<>> /\ dl' = otherwise /\ UNCHANGED <<store, begun, pinned>>

AfterManifest == CASE dl.plan = "monolithic" -> "archive"
                   [] dl.plan = "wide" -> "stages"
                   [] dl.plan = "quantized" -> "quantize"

\* Fault: the marker of a ready model is written before what it promises.
RecordsMarkerFirst == <<"sources", "ready", "manifest", "stages">>

\* The records of the directory in the order they are written.
Records == <<"sources", "manifest", "stages", "ready">>

AfterRecord(r) ==
  LET n == CHOOSE k \in 1 .. 4 : Records[k] = r
  IN IF r = "manifest" THEN AfterManifest
     ELSE IF n = 4 THEN "idle" ELSE Records[n + 1]

\* kappa-sources.json (with model-meta.json), manifest.json, the stage archives,
\* and last stages.json, which carries the quant map.
Record ==
  /\ dl.at \in ToSet(Records)
  /\ dir' = [dir EXCEPT ![dl.at] = TRUE,
                        !.quant = IF dl.at = "ready" THEN dl.quant ELSE @]
  /\ dl' = IF AfterRecord(dl.at) = "idle" THEN Idle
           ELSE [dl EXCEPT !.at = AfterRecord(dl.at), !.i = 1]
  /\ UNCHANGED <<blob, held, rots, tears, begun, pinned>>

RecordRefused == dl.at \in ToSet(Records) /\ (Pressed \/ Exhausted(Idle))

-----------------------------------------------------------------------------
(* The quantized tier.                                                      *)

\* Fault: one list gathers the artifacts of both tiers.
LeaveProjectionsGathering ==
  [dl EXCEPT !.at = "heads", !.i = 1, !.evictable = dl.fresh \o @]

\* Artifacts join the evictable list behind every wide file.
LeaveProjections ==
  [dl EXCEPT !.at = "heads", !.i = 1, !.evictable = dl.fresh \o @, !.fresh = <<>>]

LeaveHeads ==
  [dl EXCEPT !.at = "stages", !.i = 1, !.evictable = dl.fresh \o @, !.fresh = <<>>]

Leave == IF dl.at \in {"quantize", "crystallize"} THEN LeaveProjections ELSE LeaveHeads

Tier == CASE dl.at = "quantize" -> Eligible [] dl.at = "heads" -> Heads [] OTHER -> {}
Deriving == dl.at \in {"quantize", "heads"} /\ dl.i <= Len(Order)

Pass == Deriving /\ Here \notin Tier /\ dl' = Onward /\ UNCHANGED <<store, begun, pinned>>

EndTier ==
  /\ dl.at \in {"quantize", "heads"} /\ dl.i > Len(Order)
  /\ dl' = Leave
  /\ UNCHANGED <<store, begun, pinned>>

\* readTensorBytes: the cache, unverified, else the provenance.
WideBytes == IF Present(Wide(Here)) THEN blob[Wide(Here)] ELSE "good"

\* A projection's wide file evaporates before the derivation; a head's stays.
Derive ==
  /\ Deriving /\ Here \in Tier
  /\ blob' = IF dl.at = "quantize" THEN Evaporated(Wide(Here)) ELSE blob
  /\ \/ \E a \in Derived(Here, WideBytes) :
          dl' = [dl EXCEPT !.at = IF @ = "quantize" THEN "crystallize" ELSE "chunk",
                           !.hand = a,
                           !.evictable = IF dl.at = "quantize" THEN RemoveFirst(@, Wide(Here)) ELSE @]
     \/ Derived(Here, WideBytes) = {} /\ Abort
  /\ UNCHANGED <<held, dir, rots, tears, begun, pinned>>

DeriveFails == Deriving /\ Here \in Tier /\ ~Present(Wide(Here)) /\ Abort /\ UNCHANGED <<store, begun, pinned>>

Crystallizing == dl.at \in {"crystallize", "chunk"}

Crystallize ==
  /\ Crystallizing
  /\ Free(dl.hand)
  /\ blob' = [blob EXCEPT ![dl.hand] = "good"]
  /\ dl' = [Onward EXCEPT !.at = IF @ = "crystallize" THEN "quantize" ELSE "heads",
                          !.fresh = Append(@, dl.hand),
                          !.quant = Append(@, <<Here, dl.hand>>)]
  /\ UNCHANGED <<held, dir, rots, tears, begun, pinned>>

\* Refused with nothing left to evaporate: the tier is saturated, and the rest
\* of it stays wide.
CrystallizeRefused == Crystallizing /\ (Pressed \/ Exhausted(Leave))

-----------------------------------------------------------------------------
(* The monolithic archive is written by the page, which evaporates whatever  *)
(* tensors/ lists first, held or not.                                        *)

Archive ==
  /\ dl.at = "archive"
  /\ dir' = [dir EXCEPT !.archive = TRUE]
  /\ dl' = Idle
  /\ UNCHANGED <<blob, held, rots, tears, begun, pinned>>

ArchiveRefused ==
  /\ dl.at = "archive"
  /\ \/ \E l \in Labels : Present(l) /\ blob' = Evaporated(l) /\ UNCHANGED dl
     \/ (\A l \in Labels : ~Present(l)) /\ Abort /\ UNCHANGED blob
  /\ UNCHANGED <<held, dir, rots, tears, begun, pinned>>

-----------------------------------------------------------------------------
\* removeStoredModel: the directory, not the shared tensors.  The page disables
\* the button while its own download runs.
RemoveModel ==
  /\ dl.at = "idle"
  /\ dir # NoDir
  /\ dir' = NoDir
  /\ UNCHANGED <<blob, held, rots, tears, dlVars>>

DlStep ==
  \/ Fail \/ Companions \/ Preflight
  \/ Skip \/ Drop \/ Cache \/ CacheRefused \/ StreamFails \/ FinishShard
  \/ Record \/ RecordRefused
  \/ Pass \/ EndTier \/ Derive \/ DeriveFails \/ Crystallize \/ CrystallizeRefused
  \/ Archive \/ ArchiveRefused

DlNext == Begin \/ DlStep \/ RemoveModel

Phases == {"idle", "companions", "preflight", "stream", "quantize", "crystallize", "heads",
           "chunk", "archive"} \cup ToSet(Records)

DlTypeOK ==
  /\ dl.at \in Phases
  /\ dl.plan \in {"monolithic", "wide", "quantized"}
  /\ dl.i \in 1 .. Len(Order) + 1
  /\ dl.room \in 0 .. Len(Order)
  /\ dl.known \in BOOLEAN
  /\ dl.evictable \in Seq(Labels) /\ IsInjective(dl.evictable)
  /\ dl.fresh \in Seq(Labels)
  /\ dl.quant \in Seq(Tensors \X Labels)
  /\ Crystallizing => dl.hand \in Labels
  /\ begun \in 0 .. MaxDownloads
  /\ pinned \in BOOLEAN
===============================================================================
