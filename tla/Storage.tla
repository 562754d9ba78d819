-------------------------------- MODULE Storage --------------------------------
(***************************************************************************)
(* The download worker and the generate worker over one store, with the    *)
(* faults of the device: the tab may be closed at any moment, a closing    *)
(* may cut a synchronous write short, and a file nobody holds may rot.     *)
(***************************************************************************)
EXTENDS Download, WarmSession

CONSTANT MaxFaults   \* bound: rotten files and torn writes in a behaviour

ASSUME FaultAssumption == MaxFaults \in Nat

vars == <<store, dlVars, ws>>

Init == StoreInit /\ DlInit /\ WsInit

\* The tab is closed: both workers end.
Close ==
  /\ dl' = Idle /\ ws' = Cold
  /\ held' = {}
  /\ UNCHANGED <<blob, dir, rots, tears, begun, pinned>>

\* The same in the middle of the one write that is not atomic: the synchronous
\* write of a streamed tensor.
CloseTorn ==
  /\ rots + tears < MaxFaults
  /\ Streaming /\ ~dl.known /\ dl.room > 0 /\ Free(Wide(Here))
  /\ dl' = Idle /\ ws' = Cold
  /\ held' = {}
  /\ blob' = [blob EXCEPT ![Wide(Here)] = "torn"]
  /\ tears' = tears + 1
  /\ UNCHANGED <<dir, rots, begun, pinned>>

Rot ==
  /\ rots + tears < MaxFaults
  /\ \E l \in Labels :
       /\ blob[l] = "good" /\ Free(l)
       /\ blob' = [blob EXCEPT ![l] = "rot"]
  /\ rots' = rots + 1
  /\ UNCHANGED <<held, dir, tears, dlVars, ws>>

Downloads == DlNext /\ UNCHANGED ws
Sessions == WsNext /\ UNCHANGED dlVars

Next == Downloads \/ Sessions \/ (Close /\ (dl # Idle \/ ws # Cold)) \/ CloseTorn \/ Rot

Spec == Init /\ [][Next]_vars

\* The download's event loop goes on.
FairSpec == Spec /\ WF_vars(DlStep /\ UNCHANGED ws)

-----------------------------------------------------------------------------
TypeOK == StoreTypeOK /\ DlTypeOK /\ WsTypeOK

\* Every buffer a session binds has the content its label names, whatever was
\* torn, rotten, evaporated or rewritten under it.
ServedRight == ws.served = "good"

\* As long as no file has rotted, the quant map names the artifact of every
\* tensor it lists: torn files and refetched ones do not change an artifact.
ArtifactsTrue ==
  rots = 0 => \A e \in ToSet(dir.quant \o dl.quant) : e = <<e[1], Artifact(e[1])>>

\* The directory is marked ready only when everything a session reads is there,
\* after any sequence of crashed, failed and repeated downloads and removals.
ReadyComplete ==
  dir.ready => dir.config /\ dir.sources /\ dir.manifest /\ dir.stages

\* A download ends, with the model or with an error, however often its writes
\* are refused: only the archive's loop may go on, while a session holds files
\* or restores them.
DownloadEnds == dl.at # "idle" ~> (dl.at = "idle" \/ (dl.at = "archive" /\ ws # Cold))
===============================================================================
