----------------------------- MODULE DecodeSession -----------------------------
(***************************************************************************)
(* The decode session (crates/hologram-ai/src/decode.rs): one model, one   *)
(* sequence of realized tokens, and a K/V cache whose current copy is      *)
(* either the host's buffers or the labels one of three runners carries:   *)
(* the step runner, the prefill seeder, or the caller's verify runner.     *)
(*                                                                         *)
(* A cache row is modelled by what it was computed from: the token prefix  *)
(* up to its own position, or Junk.  A walk computes a right row exactly   *)
(* when every realized row it reads is right, so a stale copy or a lost    *)
(* hand-off shows up in the rows and the logits that follow.               *)
(***************************************************************************)
EXTENDS Integers, Sequences, FiniteSets

CONSTANTS Token,          \* the vocabulary
          ContextLength,  \* the model's trained position ceiling
          MinWindow,      \* the first rung of the window ladder (64 in the code)
          VerifyChunk,    \* batch width of the verify runner
          FeedLimit,      \* bound: tokens of one feed call
          Plan,           \* how caches travel: see PlanAssumption
          Rebuilds,       \* may a session have a rebuild source, may it lack one?
          SyncMayFail,    \* may take_kv_carry return an error?
          RingWraps       \* does a ring write past the bucket wrap around?

\* "legacy": a pass returns its new rows and the host splices the real ones;
\* "bytes": the fused plan on a session type that returns the whole cache;
\* "resident": the fused plan on a runner that keeps the cache as labels.
ASSUME PlanAssumption == Plan \in {"legacy", "bytes", "resident"}
ASSUME SizeAssumption == /\ ContextLength \in Nat \ {0}
                         /\ MinWindow \in Nat \ {0}
                         /\ VerifyChunk \in Nat \ {0}
                         /\ FeedLimit \in Nat \ {0}
ASSUME FlagAssumption == Rebuilds \subseteq BOOLEAN /\ SyncMayFail \in BOOLEAN /\ RingWraps \in BOOLEAN

VARIABLES tokens,   \* state.tokens; state.cur_len is always its length
          bucket,   \* geom.bucket: the rows of every cache
          host,     \* state.past_k / past_v
          carried,  \* per runner, the cache it holds as labels, or NoCache
          truth,    \* KvTruth
          seeder,   \* the installed seeder's chunk, 0 without one
          verify,   \* bucket of the caller's verify runner, 0 without one
          rebuild,  \* was a rebuild source attached (with_rebuild)?
          call,     \* the step or feed call in progress
          row       \* what the last returned logits were computed from

vars == <<tokens, bucket, host, carried, truth, seeder, verify, rebuild, call, row>>

Runners == {"Step", "Seeder", "Verify"}
Truths == Runners \cup {"Host", "Poisoned"}

Prefix(s, n) == SubSeq(s, 1, n)
Min2(a, b) == IF a <= b THEN a ELSE b

\* No sequence a row is computed from is empty, so the empty one is free to
\* stand for zeroed rows, pad rows and rows computed over wrong rows.
Junk == <<>>
NoCache == <<>>

cur_len == Len(tokens)

-----------------------------------------------------------------------------
(* engine.rs: the window ladder.                                           *)

Doublings == {MinWindow * 2^k : k \in 0 .. ContextLength}

geometric_window(want) ==
  Min2(ContextLength,
       CHOOSE w \in Doublings : w >= want /\ \A v \in Doublings : v >= want => w <= v)

\* The buckets a session is opened at.
Rungs == {rung \in 1 .. ContextLength : \E want \in 1 .. ContextLength : rung = geometric_window(want)}

\* The width of one prefill pass (hologram-ai-wasm lib.rs, generate).
SeederChunk == Min2(geometric_window(1), bucket)

-----------------------------------------------------------------------------
(* What one walk computes over a cache.                                    *)

Zeroed(rows) == [p \in 0 .. rows - 1 |-> Junk]

\* A walk attends to the realized rows (PassBuffers is about the mask that
\* says so): are they the K/V of one token sequence?
Coherent(cache) ==
  cur_len > 0 => LET past == cache[cur_len - 1]
                 IN Len(past) = cur_len /\ \A p \in 0 .. cur_len - 1 : cache[p] = Prefix(past, p + 1)

\* What the row (and the logits) at the end of batch is computed from.
Attended(cache, batch) ==
  IF Coherent(cache)
    THEN (IF cur_len = 0 THEN <<>> ELSE cache[cur_len - 1]) \o batch
    ELSE Junk

\* Rows a fused write of chunk rows gives to pad positions of the batch.
PadRows(batch, chunk) ==
  LET raw == {cur_len + i : i \in Len(batch) .. chunk - 1}
  IN IF RingWraps THEN {p % bucket : p \in raw} ELSE raw

\* KvCacheWrite of the whole chunk (the fused plans), or the splice of the
\* first `commit` rows (the legacy plan).
Written(cache, batch, chunk, commit) ==
  LET width == IF Plan = "legacy" THEN commit ELSE Len(batch)
      pads == IF Plan = "legacy" THEN {} ELSE PadRows(batch, chunk)
  IN [p \in 0 .. bucket - 1 |->
        IF p \in cur_len .. cur_len + width - 1
          THEN Attended(cache, Prefix(batch, p - cur_len + 1))
          ELSE IF p \in pads THEN Junk ELSE cache[p]]

-----------------------------------------------------------------------------
(* sync_truth: move the runner's labels into the host buffers.             *)

\* Fault: nothing is handed back.
HostKept == host

HandedBack == IF truth \in Runners /\ carried[truth] # NoCache THEN carried[truth] ELSE host

Released == [r \in Runners |-> IF r = truth THEN NoCache ELSE carried[r]]

\* Fault: a pass binds the host's bytes whoever carries the truth.
NeverSyncs(r) == FALSE

\* Must r's pass first take the truth from another runner?
MustSync(r) == truth \in {"Step", "Seeder"} \ {r}

\* take_kv_carry drained the labels and then failed; truth is not touched.
SyncLost == /\ SyncMayFail
            /\ truth \in {"Step", "Seeder"}
            /\ carried[truth] # NoCache
            /\ carried' = Released
            /\ UNCHANGED <<tokens, bucket, host, truth, seeder, verify, rebuild, row>>

-----------------------------------------------------------------------------
(* pass and speculate_pass: one walk of runner r over batch, of which the  *)
(* first `commit` tokens become realized.                                  *)

\* The cache the walk binds: r's own labels while it carries the truth, the
\* (synced) host bytes otherwise.  A staged runner asked for labels it does
\* not hold binds the caller's bytes instead.
Bound(r) ==
  CASE truth = r /\ carried[r] # NoCache -> carried[r]
    [] truth = r /\ carried[r] = NoCache -> host
    [] MustSync(r) -> HandedBack
    [] truth # r /\ ~MustSync(r) -> host

HostAfterSync(r) == IF MustSync(r) THEN HandedBack ELSE host
CarriedAfterSync(r) == IF MustSync(r) THEN Released ELSE carried

Walk(r, chunk, batch, commit) ==
  LET out == Written(Bound(r), batch, chunk, commit)
  IN /\ tokens' = tokens \o Prefix(batch, commit)
     /\ row' = Attended(Bound(r), Prefix(batch, commit))
     /\ IF Plan = "resident"
          THEN host' = HostAfterSync(r) /\ carried' = [CarriedAfterSync(r) EXCEPT ![r] = out]
          ELSE host' = out /\ UNCHANGED carried
     /\ truth' = IF Plan = "resident" \/ (Plan = "bytes" /\ r # "Verify") THEN r ELSE "Host"
     /\ UNCHANGED <<bucket, seeder, verify, rebuild>>

\* The walk fails.  What labels the runner is left with are half-written: no
\* pass may ever read them as a cache.
WalkFails(r) ==
  /\ host' = HostAfterSync(r)
  /\ carried' = [CarriedAfterSync(r) EXCEPT ![r] = IF Plan = "resident" THEN Zeroed(bucket) ELSE @]
  /\ truth' = IF Plan = "legacy" THEN truth ELSE "Poisoned"
  /\ UNCHANGED <<tokens, bucket, seeder, verify, rebuild, row>>

-----------------------------------------------------------------------------
(* step and feed: a call takes its tokens chunk by chunk.  Only how many   *)
(* tokens are left is state: a pass picks the ones it realizes.            *)

Idle == [now |-> 0, rest |-> 0]

CallEnds == call' = Idle

Begin(n) == /\ call = Idle
            /\ truth # "Verify"
            /\ call' = [now |-> 0, rest |-> n]
            /\ UNCHANGED <<tokens, bucket, host, carried, truth, seeder, verify, rebuild, row>>

Step == Begin(1)
Feed(n) == Begin(n)

\* Fault: a chunk of the seeder's width without a seeder.
TakesUnseeded == Min2(call.rest, seeder)

Takes == IF seeder # 0 /\ call.rest >= 2
           THEN Min2(call.rest, seeder)
           ELSE 1

TakeChunk == /\ call # Idle
             /\ call.now = 0
             /\ cur_len + Takes <= ContextLength
             /\ call' = [call EXCEPT !.now = Takes, !.rest = @ - Takes]
             /\ UNCHANGED <<tokens, bucket, host, carried, truth, seeder, verify, rebuild, row>>

\* ensure_capacity: the trained context is exhausted.
ContextExhausted == /\ call # Idle
                    /\ call.now = 0
                    /\ cur_len + Takes > ContextLength
                    /\ CallEnds
                    /\ UNCHANGED <<tokens, bucket, host, carried, truth, seeder, verify,
                                   rebuild, row>>

Taken == call.now > 0
\* Fault: off by one.
FitsLate == cur_len + call.now <= bucket + 1

Fits == cur_len + call.now <= bucket

\* The call after the first n tokens it took are realized.
CallAdvances(n) ==
  call' = IF call.now = n /\ call.rest = 0 THEN Idle ELSE [call EXCEPT !.now = @ - n]

UsesSeeder == seeder # 0 /\ call.now >= 2

TokenLists(n) == UNION {[1 .. k -> Token] : k \in 0 .. n}

SeederPass == /\ Taken /\ Fits /\ UsesSeeder /\ truth # "Poisoned"
              /\ \E batch \in [1 .. call.now -> Token] : Walk("Seeder", seeder, batch, call.now)
              /\ CallAdvances(call.now)

SeederPassFails == /\ Taken /\ Fits /\ UsesSeeder /\ truth # "Poisoned"
                   /\ WalkFails("Seeder")
                   /\ CallEnds

\* Fault: the step pass does not look at a lost truth.
StepPassUnguarded == /\ Taken /\ Fits /\ ~UsesSeeder
                     /\ \E t \in Token : Walk("Step", 1, <<t>>, 1)
                     /\ CallAdvances(1)

StepPass == /\ Taken /\ Fits /\ ~UsesSeeder /\ truth # "Poisoned"
            /\ \E t \in Token : Walk("Step", 1, <<t>>, 1)
            /\ CallAdvances(1)

StepPassFails == /\ Taken /\ Fits /\ ~UsesSeeder /\ truth # "Poisoned"
                 /\ WalkFails("Step")
                 /\ CallEnds

\* The hand-off before a pass, or before a regrow, loses the labels.
HandOffFails == /\ Taken
                /\ IF Fits THEN MustSync(IF UsesSeeder THEN "Seeder" ELSE "Step") ELSE rebuild
                /\ SyncLost
                /\ CallEnds

\* A poisoned session refuses every pass, and no bucket grows without a
\* rebuild source.
CallRefused == /\ Taken
               /\ truth = "Poisoned" \/ (~Fits /\ ~rebuild)
               /\ CallEnds
               /\ UNCHANGED <<tokens, bucket, host, carried, truth, seeder, verify, rebuild, row>>

\* grow: the truth is materialized, the next rung compiled, and every
\* realized row copied into the wider buffers.
Growing == Taken /\ ~Fits /\ rebuild /\ truth \in {"Host", "Step", "Seeder"}

Grow == /\ Growing
        /\ \E wide \in bucket + 1 .. ContextLength :
             /\ wide = geometric_window(bucket + 1)
             /\ bucket' = wide
             /\ host' = [p \in 0 .. wide - 1 |-> IF p < cur_len THEN HandedBack[p] ELSE Junk]
        /\ carried' = [carried EXCEPT !["Step"] = NoCache, !["Seeder"] = NoCache]
        /\ truth' = "Host"
        /\ seeder' = 0
        /\ UNCHANGED <<tokens, verify, rebuild, call, row>>

\* The compile of the wider bucket fails: the old runner survives, without
\* its seeder and with the truth in the host buffers.
RebuildFails == /\ Growing
                /\ host' = HandedBack
                /\ carried' = [Released EXCEPT !["Seeder"] = NoCache]
                /\ truth' = "Host"
                /\ seeder' = 0
                /\ CallEnds
                /\ UNCHANGED <<tokens, bucket, verify, rebuild, row>>

-----------------------------------------------------------------------------
(* The caller's other operations, each one synchronous.                    *)

\* set_seeder: the caller installs one only when none is installed.
SetSeeder == /\ call = Idle /\ seeder = 0
             /\ \E chunk \in 2 .. bucket : chunk = SeederChunk /\ seeder' = chunk
             /\ carried' = [carried EXCEPT !["Seeder"] = NoCache]
             /\ UNCHANGED <<tokens, bucket, host, truth, verify, rebuild, call, row>>

\* The caller builds a verify runner at the session's bucket, after its
\* turn's rewind and prefill (so never while the old one holds the truth).
MakeVerify == /\ call = Idle /\ truth # "Verify"
              /\ verify' = bucket
              /\ carried' = [carried EXCEPT !["Verify"] = NoCache]
              /\ UNCHANGED <<tokens, bucket, host, truth, seeder, rebuild, call, row>>

\* The caller's turn ends or fails and its verify runner goes with it.
DropVerify == /\ call = Idle /\ verify # 0
              /\ verify' = 0
              /\ carried' = [carried EXCEPT !["Verify"] = NoCache]
              /\ UNCHANGED <<tokens, bucket, host, truth, seeder, rebuild, call, row>>

\* speculate: commit `pending`, verify `draft` behind it, keep the accepted
\* prefix.  The accepted count is the model's choice.
Speculating(k) == /\ call = Idle
                  /\ verify # 0
                  /\ truth # "Poisoned"
                  /\ cur_len + 1 + k <= bucket

Speculate(pending, draft, accepted) ==
  /\ Speculating(Len(draft)) /\ verify = bucket /\ 1 + Len(draft) <= VerifyChunk
  /\ Walk("Verify", VerifyChunk, <<pending>> \o draft, 1 + accepted)
  /\ UNCHANGED call

SpeculateFails(k) ==
  /\ Speculating(k) /\ verify = bucket /\ 1 + k <= VerifyChunk
  /\ WalkFails("Verify")
  /\ UNCHANGED call

\* A verify runner of another bucket is refused, or a trial pass fails,
\* after the hand-off.
VerifyRefused == /\ call = Idle /\ verify # 0 /\ MustSync("Verify")
                 /\ host' = HandedBack
                 /\ carried' = Released
                 /\ truth' = "Host"
                 /\ UNCHANGED <<tokens, bucket, seeder, verify, rebuild, call, row>>

SpeculateSyncFails == /\ call = Idle /\ verify # 0 /\ MustSync("Verify")
                      /\ SyncLost
                      /\ UNCHANGED call

\* verify: a trial pass over the host bytes that leaves the session as it was.
Verify(batch) ==
  /\ call = Idle /\ verify = bucket /\ truth \in {"Host", "Step", "Seeder"}
  /\ Len(batch) <= VerifyChunk
  /\ row' = Attended(HandedBack, batch)
  /\ host' = HandedBack
  /\ carried' = Released
  /\ truth' = "Host"
  /\ UNCHANGED <<tokens, bucket, seeder, verify, rebuild, call>>

\* end_speculation: the truth is poisoned until every cache came back.
EndSpeculation == /\ call = Idle /\ verify # 0 /\ truth = "Verify"
                  /\ carried["Verify"] # NoCache
                  /\ host' = carried["Verify"]
                  /\ carried' = Released
                  /\ truth' = "Host"
                  /\ UNCHANGED <<tokens, bucket, seeder, verify, rebuild, call, row>>

EndSpeculationFails == /\ call = Idle /\ verify # 0 /\ truth = "Verify"
                       /\ carried["Verify"] = NoCache \/ SyncMayFail
                       /\ carried' = Released
                       /\ truth' = "Poisoned"
                       /\ UNCHANGED <<tokens, bucket, host, seeder, verify, rebuild, call, row>>

\* rewind_to (reset is rewind_to(0)).
RewindTo(len) ==
  /\ call = Idle
  /\ tokens' = Prefix(tokens, len)
  /\ truth' = IF truth \in {"Verify", "Poisoned"}
                THEN IF len = 0 THEN "Host" ELSE "Poisoned"
                ELSE truth
  /\ UNCHANGED <<bucket, host, carried, seeder, verify, rebuild, call, row>>

-----------------------------------------------------------------------------

Init == /\ tokens = <<>>
        /\ bucket \in Rungs
        /\ host = Zeroed(bucket)
        /\ carried = [r \in Runners |-> NoCache]
        /\ truth = "Host"
        /\ seeder = 0
        /\ verify = 0
        /\ rebuild \in Rebuilds
        /\ call = Idle
        /\ row = Junk

CallStep == \/ TakeChunk \/ ContextExhausted \/ CallRefused
            \/ SeederPass \/ SeederPassFails
            \/ StepPass \/ StepPassFails
            \/ HandOffFails \/ Grow \/ RebuildFails

Next == \/ CallStep
        \/ Step
        \/ \E n \in 1 .. FeedLimit : Feed(n)
        \/ SetSeeder \/ MakeVerify \/ DropVerify
        \/ \E pending \in Token, draft \in TokenLists(VerifyChunk - 1) :
             \E accepted \in 0 .. Len(draft) : Speculate(pending, draft, accepted)
        \/ \E k \in 0 .. VerifyChunk - 1 : SpeculateFails(k)
        \/ VerifyRefused \/ SpeculateSyncFails
        \/ \E batch \in TokenLists(VerifyChunk) \ {<<>>} : Verify(batch)
        \/ EndSpeculation \/ EndSpeculationFails
        \/ \E len \in 0 .. cur_len : RewindTo(len)

Spec == Init /\ [][Next]_vars

\* A call is one synchronous Rust call: its loop keeps running until it
\* returns.  Nothing obliges the caller to make another call.
FairSpec == Spec /\ WF_vars(CallStep)

-----------------------------------------------------------------------------
(* Properties.                                                             *)

Cache(rows) == [0 .. rows - 1 -> Seq(Token)]

\* The shape of the state; a carried cache may be one of an earlier bucket.
TypeOK ==
  /\ tokens \in Seq(Token)
  /\ bucket \in 1 .. ContextLength /\ cur_len <= bucket
  /\ host \in Cache(bucket)
  /\ DOMAIN carried = Runners
  /\ \A r \in Runners : carried[r] = NoCache \/ \E b \in 1 .. ContextLength : carried[r] \in Cache(b)
  /\ truth \in Truths
  /\ seeder \in Nat /\ verify \in Nat
  /\ rebuild \in BOOLEAN
  /\ call \in [now : Nat, rest : Nat]
  /\ row \in Seq(Token)

RightRows(cache) == \A p \in 0 .. cur_len - 1 : cache[p] = Prefix(tokens, p + 1)

\* The truth went down with a verify runner its caller dropped: every
\* operation refuses until a rewind poisons or clears the session.
TruthAbandoned == truth = "Verify" /\ verify = 0

\* The copy of the K/V cache the session believes current holds, at every
\* realized position, the row of exactly the tokens realized up to it:
\* whichever runner carries it, after every hand-off, rejected draft,
\* rewind and regrow (KvTruth and sync_truth in decode.rs).
TruthCurrent == truth # "Poisoned" /\ ~TruthAbandoned => RightRows(HandedBack)

\* A session whose truth was lost answers no pass until it is rewound to
\* the empty sequence (KvTruth::Poisoned in decode.rs).
PoisonedStays == [][truth = "Poisoned" /\ truth' # "Poisoned" => tokens' = <<>> /\ row' = row]_vars

\* Every step or feed call returns: its chunks, regrows and passes cannot
\* go round without making progress (the loops of feed and ensure_capacity).
CallReturns == call # Idle ~> call = Idle

\* The session implements the token log it promises: the logits of every
\* pass follow exactly the realized tokens, whatever plan, chunking,
\* hand-off or speculation produced them.
Log == INSTANCE TokenLog WITH log <- tokens
LogRefined == Log!LogSpec
===============================================================================
