--------------------------- MODULE StagedRunnerProofs ---------------------------
(***************************************************************************)
(* Proofs about StagedRunner, for any set of runners, any number of stages *)
(* and any placement of the attention layers.  The properties themselves   *)
(* only speak of the runner that owns the truth; what makes them inductive *)
(* is where the pieces of the cache are in the MIDDLE of a walk: behind    *)
(* the stage at hand in the walking runner, ahead of it wherever the walk  *)
(* started from.                                                           *)
(***************************************************************************)
EXTENDS StagedRunner, TLAPS

\* Runner r can hand back a right copy of stage s, and holds it once.
Carries(r, s) == /\ HandedBack(r)[s] = "right"
                 /\ Label(r, s) = "none" <=> shadow[r][s] # "none"

HostRight == \A s \in KvStages : host[s] = "right"

\* Ahead of an ingesting walk the host's copy is right and nothing is banked.
Awaits(r, s) == host[s] = "right" /\ shadow[r][s] = "none"

BytesInv == Walking /\ walk.mode = "bytes" => truth = "Host"

IngestInv ==
  Walking /\ walk.mode = "ingest" =>
    /\ truth = "Lost"
    /\ \A s \in KvStages : IF s < walk.stage THEN Carries(walk.who, s) ELSE Awaits(walk.who, s)

CarryInv ==
  Walking /\ walk.mode = "carry" =>
    /\ truth = "Lost"
    /\ \A s \in KvStages : Carries(walk.who, s)

IInv == /\ TypeOK
        /\ sound
        /\ truth = "Host" => HostRight
        /\ truth \in Runner => \A s \in KvStages : Carries(truth, s)
        /\ BytesInv /\ IngestInv /\ CarryInv

-----------------------------------------------------------------------------

LEMMA StagedInit == Init => IInv
<1> SUFFICES ASSUME Init PROVE IInv
  OBVIOUS
<1>1. TypeOK
  BY DEF Init, TypeOK, Copies, NoWalk
<1>2. ~Walking
  BY DEF Init, Walking
<1>3. HostRight
  BY StageAssumption DEF Init, HostRight, Stages
<1> QED
  BY <1>1, <1>2, <1>3, StageAssumption DEF Init, IInv, BytesInv, IngestInv, CarryInv

LEMMA StagedTypes == TypeOK /\ [Next]_vars => TypeOK'
<1> SUFFICES ASSUME TypeOK, [Next]_vars PROVE TypeOK'
  OBVIOUS
<1> USE StageAssumption DEF TypeOK, Copies
<1>1. ASSUME NEW r \in Runner, NEW mode \in {"bytes", "ingest", "carry"}, WalkBegins(r, mode)
      PROVE TypeOK'
  BY <1>1 DEF WalkBegins, Stages
<1>2. ASSUME NEW kept \in BOOLEAN, StageWalks(kept) PROVE TypeOK'
  <2> DEFINE who == walk.who
             at == walk.stage
  <2>1. walk \in [who : Runner, mode : {"bytes", "ingest", "carry"}, stage : Stages]
    BY <1>2 DEF StageWalks, Walking
  <2>2. StageReads(who, at) \in Copies /\ LabelAfter(who, at) \in Copies \cup {"none"}
    BY <2>1 DEF StageReads, LabelAfter, Label
  <2>3. slot' \in [Runner -> [Stages -> {"absent", "bare"} \cup Copies]]
    BY <1>2, <2>1, <2>2 DEF StageWalks, SlotsAfter, Outdated
  <2>4. shadow' \in [Runner -> [Stages -> {"none"} \cup Copies]]
    BY <1>2, <2>1, <2>2 DEF StageWalks, ShadowAfter, Outdated
  <2>5. host' \in [Stages -> Copies]
    BY <1>2, <2>1 DEF StageWalks, Outdated
  <2>6. walk' \in {NoWalk} \cup [who : Runner, mode : {"bytes", "ingest", "carry"}, stage : Stages]
    BY <1>2, <2>1 DEF StageWalks, Stages
  <2>7. truth' \in Runner \cup {"Host", "Lost"} /\ sound' \in BOOLEAN
    BY <1>2, <2>1 DEF StageWalks
  <2> QED
    BY <2>3, <2>4, <2>5, <2>6, <2>7
<1>3. ASSUME StageFails PROVE TypeOK'
  BY <1>3 DEF StageFails, Walking
<1>4. ASSUME NEW r \in Runner, Sync(r) PROVE TypeOK'
  BY <1>4 DEF Sync, HandedBack, Unlabelled, Label
<1>5. ASSUME NEW r \in Runner, EvictResident(r) PROVE TypeOK'
  BY <1>5 DEF EvictResident, Label
<1>6. ASSUME NEW r \in Runner, Replace(r) PROVE TypeOK'
  BY <1>6 DEF Replace
<1>7. ASSUME Reset PROVE TypeOK'
  BY <1>7 DEF Reset, Outdated
<1>8. CASE UNCHANGED vars
  BY <1>8 DEF vars
<1> QED
  BY <1>1, <1>2, <1>3, <1>4, <1>5, <1>6, <1>7, <1>8 DEF Next

-----------------------------------------------------------------------------
(* One lemma per operation that moves copies around.                        *)

LEMMA BeginsKeeps ==
  ASSUME IInv, NEW r \in Runner, NEW mode \in {"bytes", "ingest", "carry"}, WalkBegins(r, mode)
  PROVE  IInv'
<1>1. TypeOK'
  BY StagedTypes DEF IInv, Next
<1>2. walk' = [who |-> r, mode |-> mode, stage |-> 0] /\ slot' = slot /\ host' = host /\ sound' = sound
  BY DEF WalkBegins
<1>3. CASE mode = "bytes"
  BY <1>1, <1>2, <1>3, StageAssumption
     DEF IInv, WalkBegins, HostRight, BytesInv, IngestInv, CarryInv
<1>4. CASE mode = "ingest"
  <2>1. truth = "Host" /\ truth' = "Lost"
    BY <1>4 DEF WalkBegins
  <2>2. \A s \in KvStages : Awaits(r, s)' /\ ~(s < 0)
    BY <1>2, <1>4, <2>1, StageAssumption DEF IInv, HostRight, Awaits, WalkBegins, TypeOK, Stages
  <2> QED
    BY <1>1, <1>2, <1>4, <2>1, <2>2, StageAssumption DEF IInv, BytesInv, IngestInv, CarryInv, Awaits
<1>5. CASE mode = "carry"
  <2>1. truth = r /\ truth' = "Lost" /\ shadow' = shadow
    BY <1>5 DEF WalkBegins
  <2>2. \A s \in KvStages : Carries(r, s)'
    BY <1>2, <2>1 DEF IInv, Carries, HandedBack, Label
  <2> QED
    BY <1>1, <1>2, <1>5, <2>1, <2>2, StageAssumption DEF IInv, BytesInv, IngestInv, CarryInv
<1> QED
  BY <1>3, <1>4, <1>5

\* A stage of a resident walk reads a right copy and leaves a right one, in
\* one place, kept or dropped; the other stages of its runner do not move.
LEMMA StageMoves ==
  ASSUME IInv, NEW kept \in BOOLEAN, StageWalks(kept), walk.mode # "bytes",
         NEW r, r = walk.who, NEW at, at = walk.stage
  PROVE  /\ r \in Runner /\ at \in Stages /\ truth = "Lost" /\ walk.mode \in {"ingest", "carry"}
         /\ at \in KvStages => StageReads(r, at) = "right" /\ Carries(r, at)'
         /\ \A s \in KvStages \ {at} :
              /\ Carries(r, s) => Carries(r, s)'
              /\ Awaits(r, s) => Awaits(r, s)'
<1>1. /\ walk \in [who : Runner, mode : {"bytes", "ingest", "carry"}, stage : Stages]
      /\ Walking
      /\ walk.mode \in {"ingest", "carry"}
  BY DEF IInv, TypeOK, StageWalks, Walking
<1>2. r \in Runner /\ at \in Stages /\ truth = "Lost"
  BY <1>1 DEF IInv, IngestInv, CarryInv
<1>3. ASSUME at \in KvStages PROVE StageReads(r, at) = "right"
  <2>1. CASE walk.mode = "ingest"
    BY <1>1, <1>2, <1>3, <2>1 DEF IInv, IngestInv, Awaits, StageReads, Stages
  <2>2. CASE walk.mode = "carry"
    BY <1>1, <1>2, <1>3, <2>2 DEF IInv, CarryInv, Carries, HandedBack, StageReads
  <2> QED
    BY <1>1, <2>1, <2>2
<1>4. ASSUME at \in KvStages PROVE Carries(r, at)'
  <2>1. LabelAfter(r, at) = "right"
    BY <1>1, <1>3, <1>4 DEF LabelAfter
  <2>2. slot'[r][at] = IF kept THEN "right" ELSE "absent"
    BY <1>2, <2>1 DEF StageWalks, SlotsAfter, IInv, TypeOK
  <2>3. shadow'[r][at] = IF kept THEN "none" ELSE "right"
    BY <1>1, <1>2, <2>1 DEF StageWalks, ShadowAfter, IInv, TypeOK
  <2> QED
    BY <1>2, <2>2, <2>3 DEF Carries, HandedBack, Label, Copies
<1>5. ASSUME NEW s \in KvStages \ {at}
      PROVE  /\ slot'[r][s] = slot[r][s] /\ shadow'[r][s] = shadow[r][s] /\ host'[s] = host[s]
             /\ s \in Stages
  BY <1>2, <1>5, StageAssumption
     DEF StageWalks, SlotsAfter, ShadowAfter, IInv, TypeOK, Stages
<1> QED
  BY <1>1, <1>2, <1>3, <1>4, <1>5 DEF Carries, HandedBack, Label, Awaits

LEMMA StageKeeps ==
  ASSUME IInv, NEW kept \in BOOLEAN, StageWalks(kept)
  PROVE  IInv'
<1>1. TypeOK'
  BY StagedTypes DEF IInv, Next
<1>2. /\ walk \in [who : Runner, mode : {"bytes", "ingest", "carry"}, stage : Stages]
      /\ Walking
  BY DEF IInv, TypeOK, StageWalks, Walking
<1>3. CASE walk.mode = "bytes"
  <2>1. truth = "Host" /\ truth' = "Host" /\ host' = host /\ HostRight
    BY <1>2, <1>3 DEF IInv, BytesInv, StageWalks, Writes
  <2>2. sound'
    BY <1>2, <1>3, <2>1 DEF IInv, StageWalks, StageReads, HostRight
  <2>3. walk' = NoWalk \/ walk'.mode = "bytes"
    BY <1>2, <1>3 DEF StageWalks
  <2> QED
    BY <1>1, <2>1, <2>2, <2>3, StageAssumption
       DEF IInv, HostRight, BytesInv, IngestInv, CarryInv, Walking, NoWalk
<1>4. CASE walk.mode # "bytes"
  <2> DEFINE last == walk.stage = StageCount - 1
  <2>1. PICK r \in Runner, at \in Stages : r = walk.who /\ at = walk.stage
    BY <1>2
  <2>2. /\ truth = "Lost" /\ walk.mode \in {"ingest", "carry"}
        /\ at \in KvStages => StageReads(r, at) = "right" /\ Carries(r, at)'
        /\ \A s \in KvStages \ {at} : /\ Carries(r, s) => Carries(r, s)'
                                      /\ Awaits(r, s) => Awaits(r, s)'
    BY <1>4, <2>1, StageMoves
  <2>3. sound'
    BY <2>1, <2>2 DEF IInv, StageWalks
  <2>4. \A s \in KvStages : s <= at \/ walk.mode = "carry" => Carries(r, s)'
    BY <1>2, <2>1, <2>2, StageAssumption DEF IInv, IngestInv, CarryInv, Stages
  <2>5. ASSUME walk.mode = "ingest" PROVE \A s \in KvStages : s > at => Awaits(r, s)'
    BY <1>2, <2>1, <2>2, <2>5, StageAssumption DEF IInv, IngestInv, Stages
  <2>6. CASE at = StageCount - 1
    <3>1. walk' = NoWalk /\ truth' = r
      BY <1>4, <2>1, <2>6 DEF StageWalks
    <3>2. \A s \in KvStages : Carries(r, s)'
      BY <2>4, <2>6, StageAssumption DEF Stages
    <3> QED
      BY <1>1, <2>3, <3>1, <3>2, StageAssumption
         DEF IInv, BytesInv, IngestInv, CarryInv, Walking
  <2>7. CASE at # StageCount - 1
    <3>1. /\ walk'.who = r /\ walk'.mode = walk.mode /\ walk'.stage = at + 1
          /\ truth' = "Lost"
      BY <1>2, <2>1, <2>2, <2>7 DEF StageWalks
    <3>2. \A s \in KvStages : s \in Int /\ (s < at + 1 <=> s <= at)
      BY <2>1, StageAssumption DEF Stages
    <3>3. IngestInv'
      BY <2>4, <2>5, <3>1, <3>2, <2>1 DEF IngestInv, Stages
    <3>4. CarryInv'
      BY <2>4, <3>1 DEF CarryInv
    <3>5. BytesInv'
      BY <1>4, <3>1 DEF BytesInv
    <3> QED
      BY <1>1, <2>3, <3>1, <3>3, <3>4, <3>5, StageAssumption DEF IInv
  <2> QED
    BY <2>6, <2>7
<1> QED
  BY <1>3, <1>4

-----------------------------------------------------------------------------

LEMMA StagedInductive == IInv /\ [Next]_vars => IInv'
<1> SUFFICES ASSUME IInv, [Next]_vars PROVE IInv'
  OBVIOUS
<1>0. TypeOK'
  BY StagedTypes DEF IInv
<1>1. ASSUME NEW r \in Runner, NEW mode \in {"bytes", "ingest", "carry"}, WalkBegins(r, mode)
      PROVE IInv'
  BY <1>1, BeginsKeeps
<1>2. ASSUME NEW kept \in BOOLEAN, StageWalks(kept) PROVE IInv'
  BY <1>2, StageKeeps
<1>3. ASSUME StageFails PROVE IInv'
  <2>1. ~Walking' /\ truth' = truth /\ host' = host /\ sound' = sound /\ Walking
    BY <1>3 DEF StageFails, Walking
  <2>2. truth \notin Runner
    BY <2>1, StageAssumption DEF IInv, TypeOK, Walking, BytesInv, IngestInv, CarryInv
  <2> QED
    BY <1>0, <2>1, <2>2 DEF IInv, HostRight, BytesInv, IngestInv, CarryInv
<1>4. ASSUME NEW r \in Runner, Sync(r) PROVE IInv'
  <2>1. \A s \in KvStages : host'[s] = "right"
    BY <1>4, StageAssumption DEF Sync, IInv, Carries, HandedBack, Stages
  <2> QED
    BY <1>0, <1>4, <2>1, StageAssumption
       DEF Sync, IInv, HostRight, BytesInv, IngestInv, CarryInv, Walking
<1>5. ASSUME NEW r \in Runner, EvictResident(r) PROVE IInv'
  <2>1. /\ ~Walking /\ ~Walking' /\ truth' = truth /\ host' = host /\ sound' = sound
    BY <1>5 DEF EvictResident, Walking
  <2>2. ASSUME truth \in Runner, NEW s \in KvStages PROVE Carries(truth, s)'
    <3>1. s \in Stages /\ Carries(truth, s)
      BY <2>2, StageAssumption DEF IInv, Stages
    <3>2. CASE truth = r
      <4>1. slot'[truth][s] = "absent"
        BY <1>5, <2>2, <3>1, <3>2 DEF EvictResident, IInv, TypeOK
      <4>2. shadow'[truth][s] = IF Label(truth, s) # "none" THEN Label(truth, s) ELSE shadow[truth][s]
        BY <1>5, <2>2, <3>1, <3>2 DEF EvictResident, IInv, TypeOK
      <4> QED
        BY <2>1, <3>1, <4>1, <4>2 DEF Carries, HandedBack, Label, Copies
    <3>3. CASE truth # r
      <4>1. slot'[truth] = slot[truth] /\ shadow'[truth] = shadow[truth]
        BY <1>5, <2>2, <3>3 DEF EvictResident, IInv, TypeOK
      <4> QED
        BY <2>1, <3>1, <4>1 DEF Carries, HandedBack, Label
    <3> QED
      BY <3>2, <3>3
  <2> QED
    BY <1>0, <2>1, <2>2 DEF IInv, HostRight, BytesInv, IngestInv, CarryInv
<1>6. ASSUME NEW r \in Runner, Replace(r) PROVE IInv'
  <2>1. /\ ~Walking /\ ~Walking' /\ truth' = truth /\ host' = host /\ sound' = sound
    BY <1>6 DEF Replace, Walking
  <2>2. ASSUME truth \in Runner, NEW s \in KvStages PROVE Carries(truth, s)'
    <3>1. slot'[truth] = slot[truth] /\ shadow'[truth] = shadow[truth]
      BY <1>6, <2>2 DEF Replace, IInv, TypeOK
    <3> QED
      BY <2>1, <2>2, <3>1 DEF IInv, Carries, HandedBack, Label
  <2> QED
    BY <1>0, <2>1, <2>2 DEF IInv, HostRight, BytesInv, IngestInv, CarryInv
<1>7. ASSUME Reset PROVE IInv'
  BY <1>0, <1>7, StageAssumption
     DEF Reset, IInv, HostRight, BytesInv, IngestInv, CarryInv, Walking, Stages
<1>8. CASE UNCHANGED vars
  BY <1>0, <1>8
     DEF vars, IInv, HostRight, BytesInv, IngestInv, CarryInv, Walking, Carries, Awaits,
         HandedBack, Label
<1> QED
  BY <1>1, <1>2, <1>3, <1>4, <1>5, <1>6, <1>7, <1>8 DEF Next

\* Whatever sequence of walks, evictions, hand-overs, failures and resets the
\* runners of a session go through, the inductive invariant holds.
THEOREM StagedInvariant == Spec => []IInv
BY StagedInit, StagedInductive, PTL DEF Spec

\* The state of a staged pipeline keeps its shape (execute_window_kv and the
\* operations around it).
THEOREM StagedTypeCorrect == Spec => []TypeOK
<1>1. IInv => TypeOK
  BY DEF IInv
<1> QED
  BY <1>1, StagedInvariant, PTL

\* No stage of a walk ever reads a stale cache: the shadow discipline of
\* execute_window_kv, evict_resident and take_kv_carry keeps the truth.
THEOREM StagedReadsTruth == Spec => []WalksReadTruth
<1>1. IInv => WalksReadTruth
  BY DEF IInv, WalksReadTruth
<1> QED
  BY <1>1, StagedInvariant, PTL

\* The owner of the truth can always hand back a right cache for every stage.
THEOREM StagedTruthComplete == Spec => []TruthComplete
<1>1. IInv => TruthComplete
  BY DEF IInv, TruthComplete, HostRight, Carries
<1> QED
  BY <1>1, StagedInvariant, PTL

\* The owner of the truth holds every stage's rows in exactly one place.
THEOREM StagedOneCopy == Spec => []OneCopy
<1>1. IInv => OneCopy
  BY DEF IInv, OneCopy, Carries
<1> QED
  BY <1>1, StagedInvariant, PTL
===============================================================================
