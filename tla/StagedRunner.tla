------------------------------ MODULE StagedRunner ------------------------------
(***************************************************************************)
(* Resident K/V over a staged pipeline (crates/hologram-ai/src/staged.rs). *)
(* A runner of a decode session walks its stages in order; the stage       *)
(* session it walks keeps the caches of ITS layers as labels, and a stage  *)
(* that is dropped banks them in the runner's shadow first.  One copy of   *)
(* each stage's rows is current: DecodeSession sees "the cache runner r    *)
(* carries", this module the places its pieces are in.                     *)
(*                                                                         *)
(* A copy is "right" when it is what the latest walk of its stage wrote,   *)
(* "stale" otherwise; a walk writes a right copy when all it read was.     *)
(* Which stages fit the residency budget is Residency's subject: here any  *)
(* stage may be kept or dropped.                                           *)
(***************************************************************************)
EXTENDS Integers

CONSTANTS Runner,      \* the runners of one decode session (step, seeder, verify)
          StageCount,  \* stages of the pipeline
          KvStages     \* the stages that hold attention layers

ASSUME StageAssumption == /\ StageCount \in Nat \ {0}
                          /\ KvStages \subseteq 0 .. StageCount - 1
                          /\ Runner \cap {"Host", "Lost"} = {}

VARIABLES slot,    \* resident: per runner and stage, "absent" or the labels its session holds
          shadow,  \* kv_shadow: per runner, the banked caches of each stage
          host,    \* the decode session's past_k / past_v, per stage
          truth,   \* KvTruth: "Host", a runner, or "Lost" (Poisoned)
          walk,    \* the walk in progress
          sound    \* has every stage of every walk read right rows?

vars == <<slot, shadow, host, truth, walk, sound>>

Stages == 0 .. StageCount - 1

Copies == {"right", "stale"}
Label(r, s) == IF slot[r][s] \in Copies THEN slot[r][s] ELSE "none"

\* Modes: "bytes" binds and returns bytes, "ingest" binds the caller's bytes
\* and keeps labels, "carry" binds the labels of the walk before.
NoWalk == [who |-> "nobody", mode |-> "bytes", stage |-> 0]
Walking == walk # NoWalk

-----------------------------------------------------------------------------
(* execute_window_kv.                                                      *)

\* A walk may start when the truth is the host's or the runner's own
\* (DecodeSession syncs first); a resident walk owns the truth until it ends.
WalkBegins(r, mode) ==
  /\ ~Walking
  /\ truth = IF mode = "carry" THEN r ELSE "Host"
  /\ walk' = [who |-> r, mode |-> mode, stage |-> 0]
  /\ truth' = IF mode = "bytes" THEN "Host" ELSE "Lost"
  /\ shadow' = IF mode = "carry" THEN shadow ELSE [shadow EXCEPT ![r] = [s \in Stages |-> "none"]]
  /\ UNCHANGED <<slot, host, sound>>

\* The cache a stage binds: its own labels, else what was banked, else the
\* caller's bytes.
StageReads(r, s) ==
  LET banked == shadow[r][s]
  IN CASE walk.mode = "carry" /\ Label(r, s) # "none" -> Label(r, s)
       [] walk.mode = "carry" /\ Label(r, s) = "none" /\ banked # "none" -> banked
       [] OTHER -> host[s]

\* The labels the stage's session holds after the walk.
LabelAfter(r, s) ==
  CASE walk.mode # "bytes" /\ s \in KvStages -> StageReads(r, s)
    [] walk.mode = "bytes" /\ s \in KvStages -> Label(r, s)
    [] s \notin KvStages -> "none"

Outdated(copy) == IF copy = "right" THEN "stale" ELSE copy

\* A resident walk of a stage that holds layers writes the next rows: every
\* copy of that stage but its own is now behind.
Writes(s) == walk.mode # "bytes" /\ s \in KvStages

SlotsAfter(r, s, kept) ==
  [q \in Runner |-> [slot[q] EXCEPT ![s] =
     IF q = r
       THEN IF ~kept THEN "absent"
            ELSE IF LabelAfter(r, s) = "none" THEN "bare" ELSE LabelAfter(r, s)
       ELSE IF Writes(s) THEN Outdated(@) ELSE @]]

\* Faults: a dropped stage is banked whether it carries labels or not; it is
\* not banked; a banked copy outlives its re-ingestion.
ShadowBanksAll(r, s, kept) ==
  [q \in Runner |-> [shadow[q] EXCEPT ![s] =
     IF q = r THEN IF ~kept THEN (IF LabelAfter(r, s) = "none" THEN "bare" ELSE LabelAfter(r, s)) ELSE @
     ELSE IF Writes(s) THEN Outdated(@) ELSE @]]
ShadowForgets(r, s, kept) ==
  [q \in Runner |-> [shadow[q] EXCEPT ![s] =
     IF q = r THEN IF walk.mode = "bytes" THEN @ ELSE "none"
     ELSE IF Writes(s) THEN Outdated(@) ELSE @]]
ShadowStays(r, s, kept) ==
  [q \in Runner |-> [shadow[q] EXCEPT ![s] =
     IF q = r THEN IF ~kept /\ LabelAfter(r, s) # "none" THEN LabelAfter(r, s) ELSE @
     ELSE IF Writes(s) THEN Outdated(@) ELSE @]]

ShadowAfter(r, s, kept) ==
  [q \in Runner |-> [shadow[q] EXCEPT ![s] =
     IF q = r
       THEN IF ~kept /\ LabelAfter(r, s) # "none" THEN LabelAfter(r, s)
            ELSE IF walk.mode = "bytes" THEN @ ELSE "none"
       ELSE IF Writes(s) THEN Outdated(@) ELSE @]]

StageWalks(kept) ==
  LET r == walk.who
      s == walk.stage
      last == s = StageCount - 1
  IN /\ Walking
     /\ sound' = (sound /\ (s \in KvStages => StageReads(r, s) = "right"))
     /\ slot' = SlotsAfter(r, s, kept)
     /\ shadow' = ShadowAfter(r, s, kept)
     /\ host' = IF Writes(s) THEN [host EXCEPT ![s] = Outdated(@)] ELSE host
     /\ walk' = IF last THEN NoWalk ELSE [walk EXCEPT !.stage = s + 1]
     /\ truth' = IF last /\ walk.mode # "bytes" THEN r ELSE truth

\* Materializing, executing or banking the stage fails: its session was
\* taken out of its slot and goes down with the walk.
StageFails ==
  /\ Walking
  /\ slot' = [slot EXCEPT ![walk.who][walk.stage] = "absent"]
  /\ walk' = NoWalk
  /\ UNCHANGED <<shadow, host, truth, sound>>

-----------------------------------------------------------------------------
(* The other operations, each on an idle runner.                           *)

Unlabelled(session) == IF session = "absent" THEN "absent" ELSE "bare"

\* take_kv_carry as sync_kv_carry applies it: shadow first, labels over it.
HandedBack(r) ==
  [s \in Stages |-> IF Label(r, s) # "none" THEN Label(r, s)
                    ELSE IF shadow[r][s] # "none" THEN shadow[r][s] ELSE host[s]]

Sync(r) ==
  /\ ~Walking /\ truth = r
  /\ host' = HandedBack(r)
  /\ shadow' = [shadow EXCEPT ![r] = [s \in Stages |-> "none"]]
  /\ slot' = [slot EXCEPT ![r] = [s \in Stages |-> Unlabelled(@[s])]]
  /\ truth' = "Host"
  /\ UNCHANGED <<walk, sound>>

\* Fault: the labels die with the sessions.
EvictDrops(r) == /\ ~Walking
                 /\ slot' = [slot EXCEPT ![r] = [s \in Stages |-> "absent"]]
                 /\ UNCHANGED <<shadow, host, truth, walk, sound>>

\* evict_resident: the seeder yields to the step runner, a retired verify
\* runner is freed, grow frees the outgoing step runner, the budget is 0.
EvictResident(r) ==
  /\ ~Walking
  /\ shadow' = [shadow EXCEPT ![r] = [s \in Stages |-> IF Label(r, s) # "none" THEN Label(r, s) ELSE @[s]]]
  /\ slot' = [slot EXCEPT ![r] = [s \in Stages |-> "absent"]]
  /\ UNCHANGED <<host, truth, walk, sound>>

\* A runner is dropped or replaced (grow, set_seeder, a new turn's verify
\* runner) once the truth is no longer with it.
Replace(r) ==
  /\ ~Walking /\ truth # r
  /\ slot' = [slot EXCEPT ![r] = [s \in Stages |-> "absent"]]
  /\ shadow' = [shadow EXCEPT ![r] = [s \in Stages |-> "none"]]
  /\ UNCHANGED <<host, truth, walk, sound>>

\* reset after a lost walk: no row is realized, so the host's buffers hold
\* every row there is.  Leases of the failed walk stay where they were.
Reset ==
  /\ ~Walking /\ truth = "Lost"
  /\ truth' = "Host"
  /\ host' = [s \in Stages |-> "right"]
  /\ slot' = [r \in Runner |-> [s \in Stages |-> Outdated(slot[r][s])]]
  /\ shadow' = [r \in Runner |-> [s \in Stages |-> Outdated(shadow[r][s])]]
  /\ UNCHANGED <<walk, sound>>

-----------------------------------------------------------------------------

Init == /\ slot = [r \in Runner |-> [s \in Stages |-> "absent"]]
        /\ shadow = [r \in Runner |-> [s \in Stages |-> "none"]]
        /\ host = [s \in Stages |-> "right"]
        /\ truth = "Host"
        /\ walk = NoWalk
        /\ sound = TRUE

Next == \/ \E r \in Runner, mode \in {"bytes", "ingest", "carry"} : WalkBegins(r, mode)
        \/ \E kept \in BOOLEAN : StageWalks(kept)
        \/ StageFails
        \/ \E r \in Runner : Sync(r) \/ EvictResident(r) \/ Replace(r)
        \/ Reset

Spec == Init /\ [][Next]_vars

-----------------------------------------------------------------------------
(* Properties.                                                             *)

TypeOK == /\ slot \in [Runner -> [Stages -> {"absent", "bare"} \cup Copies]]
          /\ shadow \in [Runner -> [Stages -> {"none"} \cup Copies]]
          /\ host \in [Stages -> Copies]
          /\ truth \in Runner \cup {"Host", "Lost"}
          /\ walk \in {NoWalk} \cup [who : Runner, mode : {"bytes", "ingest", "carry"}, stage : Stages]
          /\ sound \in BOOLEAN

\* Whatever was evicted, banked, re-ingested, failed or handed over before,
\* no stage of a walk ever reads a stale cache (the shadow discipline of
\* execute_window_kv: "the truth survives every eviction").
WalksReadTruth == sound

\* The runner that carries the truth can hand back a right cache for every
\* stage, and the host's are all right when the truth is the host's.
TruthComplete ==
  /\ truth = "Host" => \A s \in KvStages : host[s] = "right"
  /\ truth \in Runner => \A s \in KvStages : HandedBack(truth)[s] = "right"

\* The carrying runner holds each stage's rows in one place: a label and a
\* banked copy of the same stage would be drained in no particular order.
OneCopy ==
  truth \in Runner =>
    \A s \in KvStages : Label(truth, s) = "none" <=> shadow[truth][s] # "none"
===============================================================================
