-------------------------- MODULE DecodeSessionProofs --------------------------
(***************************************************************************)
(* The types and the safety of DecodeSession, for every plan, ladder,      *)
(* chunk width and vocabulary.                                             *)
(*                                                                         *)
(* The type invariant is not inductive by itself: a runner may still hold  *)
(* a cache of an earlier bucket, but never the one that owns the truth,    *)
(* and a call that wants tokens always has some left to take.  It and      *)
(* PoisonedStays hold whatever fails; that the truth is current and that   *)
(* the session refines the token log are proved for hand-offs that do not  *)
(* fail half-way and ring writes that do not wrap, the two cases in which  *)
(* they do not hold.                                                       *)
(***************************************************************************)
EXTENDS DecodeSession, PrefixLemmas

\* A table of carried caches, each of some bucket.
CachesOf(f) ==
  /\ DOMAIN f = Runners
  /\ \A r \in Runners : f[r] = NoCache \/ \E b \in 1 .. ContextLength : f[r] \in Cache(b)

\* The owner of the truth carries a cache of the session's own bucket.
OwnerFits == truth \in Runners /\ carried[truth] # NoCache => carried[truth] \in Cache(bucket)

\* Only the resident plan leaves caches with runners.
BytesCarryNothing == Plan # "resident" => \A r \in Runners : carried[r] = NoCache

StateInv ==
  /\ tokens \in Seq(Token)
  /\ bucket \in 1 .. ContextLength /\ cur_len <= bucket
  /\ host \in Cache(bucket)
  /\ CachesOf(carried)
  /\ truth \in Truths
  /\ seeder \in Nat /\ verify \in Nat
  /\ rebuild \in BOOLEAN
  /\ row \in Seq(Token)
  /\ OwnerFits /\ BytesCarryNothing

CallInv ==
  /\ call \in [now : Nat, rest : Nat]
  /\ call # Idle /\ call.now = 0 => call.rest > 0

TypeInv == StateInv /\ CallInv

LEMMA TypeInvIsType == TypeInv => TypeOK
BY DEF TypeInv, StateInv, CallInv, TypeOK, CachesOf

-----------------------------------------------------------------------------
(* The helpers a walk is made of.                                          *)

LEMMA CurLen == StateInv => cur_len \in 0 .. bucket /\ bucket \in Nat \ {0} /\ Len(tokens) = cur_len
BY SizeAssumption, LenProperties DEF StateInv, cur_len

LEMMA EmptyCache == <<>> \in Seq(Token) /\ \A b \in Nat \ {0} : NoCache \notin Cache(b)
<1>1. <<>> \in Seq(Token)
  BY EmptySeq
<1>2. ASSUME NEW b \in Nat \ {0}, NoCache \in Cache(b) PROVE FALSE
  <2>1. DOMAIN NoCache = 0 .. b - 1
    BY <1>2 DEF Cache
  <2>2. DOMAIN NoCache = {}
    BY DEF NoCache
  <2> QED
    BY <2>1, <2>2
<1> QED
  BY <1>1, <1>2

LEMMA ZeroedType == \A b \in Nat : Zeroed(b) \in Cache(b)
BY EmptyCache DEF Zeroed, Cache, Junk

LEMMA HandedBackType == StateInv => HandedBack \in Cache(bucket)
BY DEF StateInv, OwnerFits, HandedBack

\* What a walk binds is the truth, or the host's bytes.
LEMMA BoundIs ==
  ASSUME NEW r \in Runners
  PROVE  Bound(r) \in {HandedBack, host}
<1>1. CASE truth = r /\ carried[r] # NoCache
  BY <1>1 DEF Bound, HandedBack, MustSync
<1>2. CASE truth = r /\ carried[r] = NoCache
  BY <1>2 DEF Bound, MustSync
<1>3. CASE truth # r /\ MustSync(r)
  BY <1>3 DEF Bound
<1>4. CASE truth # r /\ ~MustSync(r)
  BY <1>4 DEF Bound
<1> QED
  BY <1>1, <1>2, <1>3, <1>4

LEMMA AttendedType ==
  ASSUME StateInv, NEW cache \in Cache(bucket), NEW batch \in Seq(Token)
  PROVE  Attended(cache, batch) \in Seq(Token)
<1>1. CASE Coherent(cache) /\ cur_len = 0
  BY <1>1, EmptyCache, ConcatProperties DEF Attended
<1>2. CASE Coherent(cache) /\ cur_len # 0
  <2>1. cache[cur_len - 1] \in Seq(Token)
    BY <1>2, CurLen DEF Cache
  <2> QED
    BY <1>2, <2>1, ConcatProperties DEF Attended
<1>3. CASE ~Coherent(cache)
  BY <1>3, EmptyCache DEF Attended, Junk
<1> QED
  BY <1>1, <1>2, <1>3

LEMMA WrittenType ==
  ASSUME StateInv, NEW cache \in Cache(bucket), NEW chunk, NEW batch \in Seq(Token),
         NEW commit \in 1 .. Len(batch)
  PROVE  Written(cache, batch, chunk, commit) \in Cache(bucket)
<1> DEFINE width == IF Plan = "legacy" THEN commit ELSE Len(batch)
           pads == IF Plan = "legacy" THEN {} ELSE PadRows(batch, chunk)
           new(p) == IF p \in cur_len .. cur_len + width - 1
                       THEN Attended(cache, Prefix(batch, p - cur_len + 1))
                       ELSE IF p \in pads THEN Junk ELSE cache[p]
<1>1. width \in 0 .. Len(batch) /\ Len(batch) \in Nat
  BY LenProperties
<1>2. ASSUME NEW p \in 0 .. bucket - 1 PROVE new(p) \in Seq(Token)
  <2>1. CASE p \in cur_len .. cur_len + width - 1
    <3>1. p - cur_len + 1 \in 0 .. Len(batch)
      BY <1>1, <2>1, CurLen
    <3>2. Prefix(batch, p - cur_len + 1) \in Seq(Token)
      BY <3>1, PrefixType DEF Prefix
    <3> QED
      BY <2>1, <3>2, AttendedType
  <2>2. CASE p \notin cur_len .. cur_len + width - 1
    BY <2>2, EmptyCache DEF Junk, Cache
  <2> QED
    BY <2>1, <2>2
<1>3. Written(cache, batch, chunk, commit) = [p \in 0 .. bucket - 1 |-> new(p)]
  BY DEF Written
<1> QED
  BY <1>2, <1>3 DEF Cache

LEMMA ReleasedType ==
  StateInv => /\ CachesOf(Released)
              /\ Plan # "resident" => \A q \in Runners : Released[q] = NoCache
BY DEF StateInv, CachesOf, BytesCarryNothing, Released

LEMMA SyncedType ==
  ASSUME StateInv, NEW r \in Runners
  PROVE  /\ HostAfterSync(r) \in Cache(bucket)
         /\ CachesOf(CarriedAfterSync(r))
         /\ Plan # "resident" => \A q \in Runners : CarriedAfterSync(r)[q] = NoCache
<1>1. HostAfterSync(r) \in Cache(bucket)
  BY HandedBackType DEF HostAfterSync, StateInv
<1> QED
  BY <1>1, ReleasedType DEF CarriedAfterSync, StateInv, BytesCarryNothing

-----------------------------------------------------------------------------
(* Walks.                                                                  *)

LEMMA WalkState ==
  ASSUME StateInv, NEW r \in Runners, NEW chunk, NEW batch \in Seq(Token),
         NEW commit \in 1 .. Len(batch), cur_len + Len(batch) <= bucket,
         Walk(r, chunk, batch, commit)
  PROVE  StateInv' /\ cur_len' = cur_len + commit
<1> DEFINE out == Written(Bound(r), batch, chunk, commit)
<1>1. Bound(r) \in Cache(bucket)
  BY BoundIs, HandedBackType DEF StateInv
<1>2. out \in Cache(bucket)
  BY <1>1, WrittenType
<1>3. Len(batch) \in Nat /\ commit \in 0 .. Len(batch)
  BY LenProperties
<1>4. Prefix(batch, commit) \in Seq(Token) /\ Len(Prefix(batch, commit)) = commit
  BY <1>3, PrefixType DEF Prefix
<1>5. /\ tokens' \in Seq(Token) /\ cur_len' = cur_len + commit /\ cur_len' <= bucket'
      /\ bucket' = bucket
  <2>1. tokens' = tokens \o Prefix(batch, commit) /\ bucket' = bucket
    BY DEF Walk
  <2>2. tokens' \in Seq(Token) /\ Len(tokens') = Len(tokens) + commit
    BY <1>4, <2>1, ConcatProperties DEF StateInv
  <2> QED
    BY <1>3, <2>1, <2>2, CurLen DEF cur_len
<1>6. row' \in Seq(Token)
  BY <1>1, <1>4, AttendedType DEF Walk
<1>7. CASE Plan = "resident"
  <2>1. host' = HostAfterSync(r) /\ carried' = [CarriedAfterSync(r) EXCEPT ![r] = out] /\ truth' = r
    BY <1>7 DEF Walk
  <2>2. CachesOf(carried') /\ carried'[r] = out
    BY <1>2, <2>1, SyncedType DEF CachesOf, StateInv
  <2> QED
    BY <1>2, <1>5, <1>6, <1>7, <2>1, <2>2, SyncedType
       DEF Walk, StateInv, OwnerFits, BytesCarryNothing, Truths, Cache, CachesOf
<1>8. CASE Plan # "resident"
  <2>1. host' = out /\ carried' = carried /\ truth' \in Truths
    BY <1>8 DEF Walk, Truths
  <2> QED
    BY <1>2, <1>5, <1>6, <1>8, <2>1
       DEF Walk, StateInv, OwnerFits, BytesCarryNothing, Cache, CachesOf
<1> QED
  BY <1>5, <1>7, <1>8

LEMMA WalkFailsState ==
  ASSUME StateInv, NEW r \in Runners, WalkFails(r)
  PROVE  StateInv'
<1>1. host' \in Cache(bucket) /\ bucket' = bucket
  BY SyncedType DEF WalkFails
<1>2. CachesOf(carried') /\ (Plan # "resident" => \A q \in Runners : carried'[q] = NoCache)
  <2>1. Zeroed(bucket) \in Cache(bucket)
    BY ZeroedType, CurLen
  <2> QED
    BY <2>1, SyncedType DEF WalkFails, CachesOf, StateInv
<1>3. truth' = "Poisoned" \/ (Plan = "legacy" /\ truth' = truth)
  BY DEF WalkFails
<1> QED
  BY <1>1, <1>2, <1>3
     DEF WalkFails, StateInv, OwnerFits, BytesCarryNothing, Truths, Runners, Cache, CachesOf, cur_len

LEMMA SyncLostState ==
  ASSUME StateInv, SyncLost
  PROVE  StateInv'
<1>1. CachesOf(Released) /\ (Plan # "resident" => \A q \in Runners : Released[q] = NoCache)
  BY ReleasedType DEF StateInv, BytesCarryNothing
<1>2. truth \in Runners /\ carried' = Released /\ truth' = truth /\ Released[truth] = NoCache
  BY DEF SyncLost, Runners, Released
<1> QED
  BY <1>1, <1>2 DEF SyncLost, StateInv, OwnerFits, BytesCarryNothing, CachesOf, cur_len

\* The truth moves to the host's buffers, at the same bucket.
LEMMA HandedOverState ==
  ASSUME StateInv, host' = HandedBack \/ host' = host, carried' = Released \/ carried' = carried,
         truth' = "Host", seeder' \in Nat, row' \in Seq(Token),
         UNCHANGED <<tokens, bucket, verify, rebuild>>
  PROVE  StateInv'
<1>1. host' \in Cache(bucket)
  BY HandedBackType DEF StateInv
<1>2. CachesOf(carried') /\ (Plan # "resident" => \A q \in Runners : carried'[q] = NoCache)
  BY ReleasedType DEF StateInv, BytesCarryNothing
<1>3. truth' \in Truths /\ truth' \notin Runners
  BY DEF Truths, Runners
<1> QED
  BY <1>1, <1>2, <1>3 DEF StateInv, OwnerFits, BytesCarryNothing, CachesOf, cur_len

\* A runner that does not own the truth, or whose cache nobody reads, is
\* emptied.
LEMMA EmptiedState ==
  ASSUME StateInv, NEW r \in Runners, carried' = [carried EXCEPT ![r] = NoCache],
         seeder' \in Nat, verify' \in Nat,
         UNCHANGED <<tokens, bucket, host, truth, rebuild, row>>
  PROVE  StateInv'
BY DEF StateInv, OwnerFits, BytesCarryNothing, Truths, Cache, CachesOf, cur_len

-----------------------------------------------------------------------------
(* The passes of a call.                                                   *)

LEMMA Batches == \A n \in Nat : \A batch \in [1 .. n -> Token] : batch \in Seq(Token) /\ Len(batch) = n
<1> SUFFICES ASSUME NEW n \in Nat, NEW batch \in [1 .. n -> Token]
             PROVE  batch \in Seq(Token) /\ Len(batch) = n
  OBVIOUS
<1>1. batch \in Seq(Token)
  BY SeqDef
<1>2. DOMAIN batch = 1 .. Len(batch) /\ Len(batch) \in Nat
  BY <1>1, LenProperties
<1> QED
  BY <1>1, <1>2

LEMMA SeederPassType == TypeInv /\ SeederPass => TypeInv'
<1> SUFFICES ASSUME TypeInv, SeederPass PROVE TypeInv'
  OBVIOUS
<1>1. PICK batch \in [1 .. call.now -> Token] : Walk("Seeder", seeder, batch, call.now)
  BY DEF SeederPass
<1>2. call.now \in Nat \ {0} /\ call.rest \in Nat /\ cur_len + call.now <= bucket
  BY DEF SeederPass, Taken, Fits, TypeInv, CallInv
<1>3. batch \in Seq(Token) /\ Len(batch) = call.now
  BY <1>2, Batches
<1>4. StateInv'
  BY <1>1, <1>2, <1>3, WalkState DEF TypeInv, Runners
<1>5. CallInv'
  BY <1>2 DEF SeederPass, CallAdvances, TypeInv, CallInv, Idle
<1> QED
  BY <1>4, <1>5 DEF TypeInv

LEMMA StepPassType == TypeInv /\ StepPass => TypeInv'
<1> SUFFICES ASSUME TypeInv, StepPass PROVE TypeInv'
  OBVIOUS
<1>1. PICK t \in Token : Walk("Step", 1, <<t>>, 1)
  BY DEF StepPass
<1>2. call.now \in Nat \ {0} /\ call.rest \in Nat /\ cur_len + call.now <= bucket
  BY DEF StepPass, Taken, Fits, TypeInv, CallInv
<1>3. <<t>> \in Seq(Token) /\ Len(<<t>>) = 1
  OBVIOUS
<1>4. cur_len + 1 <= bucket
  BY <1>2, CurLen DEF TypeInv
<1>5. StateInv'
  <2>1. StateInv /\ "Step" \in Runners /\ 1 \in 1 .. Len(<<t>>) /\ cur_len + Len(<<t>>) <= bucket
    BY <1>3, <1>4 DEF TypeInv, Runners
  <2> QED
    BY <1>1, <1>3, <2>1, WalkState
<1>6. CallInv'
  BY <1>2 DEF StepPass, CallAdvances, TypeInv, CallInv, Idle
<1> QED
  BY <1>5, <1>6 DEF TypeInv

LEMMA CallStepType == TypeInv /\ CallStep => TypeInv'
<1> SUFFICES ASSUME TypeInv, CallStep PROVE TypeInv'
  OBVIOUS
<1>1. ASSUME CallEnds PROVE CallInv'
  BY <1>1 DEF CallEnds, CallInv, Idle
<1>2. ASSUME UNCHANGED <<tokens, bucket, host, carried, truth, seeder, verify, rebuild, row>>
      PROVE StateInv'
  BY <1>2 DEF TypeInv, StateInv, OwnerFits, BytesCarryNothing, Cache, CachesOf, cur_len
<1>3. CASE TakeChunk
  <2>1. call.rest \in Nat \ {0} /\ seeder \in Nat
    BY <1>3 DEF TakeChunk, TypeInv, CallInv, StateInv
  <2>2. Takes \in 1 .. call.rest
    BY <2>1 DEF Takes, Min2
  <2>3. call' = [now |-> Takes, rest |-> call.rest - Takes]
    BY <1>3 DEF TakeChunk, TypeInv, CallInv
  <2>4. CallInv'
    BY <2>1, <2>2, <2>3 DEF CallInv
  <2> QED
    BY <1>2, <1>3, <2>4 DEF TakeChunk, TypeInv
<1>4. CASE ContextExhausted
  BY <1>1, <1>2, <1>4 DEF ContextExhausted, TypeInv
<1>5. CASE CallRefused
  BY <1>1, <1>2, <1>5 DEF CallRefused, TypeInv
<1>6. CASE SeederPass
  BY <1>6, SeederPassType
<1>7. CASE SeederPassFails
  BY <1>1, <1>7, WalkFailsState DEF SeederPassFails, TypeInv, Runners
<1>8. CASE StepPass
  BY <1>8, StepPassType
<1>9. CASE StepPassFails
  BY <1>1, <1>9, WalkFailsState DEF StepPassFails, TypeInv, Runners
<1>10. CASE HandOffFails
  BY <1>1, <1>10, SyncLostState DEF HandOffFails, TypeInv
<1>11. CASE Grow
  <2>1. PICK wide \in bucket + 1 .. ContextLength :
          /\ bucket' = wide
          /\ host' = [p \in 0 .. wide - 1 |-> IF p < cur_len THEN HandedBack[p] ELSE Junk]
    BY <1>11 DEF Grow
  <2>2. host' \in Cache(bucket')
    <3>1. ASSUME NEW p \in 0 .. wide - 1
          PROVE  (IF p < cur_len THEN HandedBack[p] ELSE Junk) \in Seq(Token)
      BY HandedBackType, CurLen, EmptyCache DEF TypeInv, Cache, Junk
    <3> QED
      BY <2>1, <3>1 DEF Cache
  <2>3. CachesOf(carried') /\ (Plan # "resident" => \A q \in Runners : carried'[q] = NoCache)
    BY <1>11 DEF Grow, TypeInv, StateInv, CachesOf, BytesCarryNothing, Runners
  <2>4. bucket' \in 1 .. ContextLength /\ cur_len' <= bucket'
    BY <1>11, <2>1, CurLen, SizeAssumption DEF Grow, TypeInv, cur_len
  <2> QED
    BY <1>11, <2>2, <2>3, <2>4
       DEF Grow, TypeInv, StateInv, CallInv, OwnerFits, BytesCarryNothing, Truths, Runners
<1>12. CASE RebuildFails
  <2>1. carried' = [Released EXCEPT !["Seeder"] = NoCache] /\ host' = HandedBack /\ truth' = "Host"
    BY <1>12 DEF RebuildFails
  <2>2. CachesOf(carried') /\ (Plan # "resident" => \A q \in Runners : carried'[q] = NoCache)
    BY <2>1 DEF TypeInv, StateInv, CachesOf, BytesCarryNothing, Runners, Released
  <2>3. host' \in Cache(bucket)
    BY <2>1, HandedBackType DEF TypeInv
  <2> QED
    BY <1>1, <1>12, <2>1, <2>2, <2>3
       DEF RebuildFails, TypeInv, StateInv, OwnerFits, BytesCarryNothing, Truths, Runners, cur_len
<1> QED
  BY <1>3, <1>4, <1>5, <1>6, <1>7, <1>8, <1>9, <1>10, <1>11, <1>12 DEF CallStep

-----------------------------------------------------------------------------
(* The caller's other operations leave the call alone.                     *)

LEMMA BeginType == ASSUME TypeInv, NEW n \in Nat \ {0}, Begin(n) PROVE TypeInv'
<1>1. StateInv'
  BY DEF Begin, TypeInv, StateInv, OwnerFits, BytesCarryNothing, CachesOf, cur_len
<1>2. CallInv'
  BY DEF Begin, CallInv
<1> QED
  BY <1>1, <1>2 DEF TypeInv

LEMMA SpeculateType ==
  ASSUME TypeInv, NEW pending \in Token, NEW draft \in Seq(Token), NEW accepted \in 0 .. Len(draft),
         Speculate(pending, draft, accepted)
  PROVE  StateInv'
<1>1. Len(draft) \in Nat
  BY LenProperties
<1>2. <<pending>> \o draft \in Seq(Token) /\ Len(<<pending>> \o draft) = 1 + Len(draft)
  BY ConcatProperties
<1>3. cur_len + Len(<<pending>> \o draft) <= bucket
  BY <1>1, <1>2, CurLen DEF Speculate, Speculating, TypeInv
<1>4. 1 + accepted \in 1 .. Len(<<pending>> \o draft)
  BY <1>1, <1>2
<1>5. Walk("Verify", VerifyChunk, <<pending>> \o draft, 1 + accepted)
  BY DEF Speculate
<1> QED
  BY <1>2, <1>3, <1>4, <1>5, WalkState DEF TypeInv, Runners

LEMMA TokenListsAre == \A n \in Nat : \A batch \in TokenLists(n) : batch \in Seq(Token)
<1> SUFFICES ASSUME NEW n \in Nat, NEW batch \in TokenLists(n) PROVE batch \in Seq(Token)
  OBVIOUS
<1>1. PICK k \in 0 .. n : batch \in [1 .. k -> Token]
  BY DEF TokenLists
<1> QED
  BY <1>1, Batches

LEMMA RewindType == ASSUME TypeInv, NEW len \in 0 .. cur_len, RewindTo(len) PROVE StateInv'
<1>1. len \in 0 .. Len(tokens)
  BY DEF cur_len
<1>2. tokens' \in Seq(Token) /\ Len(tokens') = len
  BY <1>1, PrefixType DEF RewindTo, Prefix, TypeInv, StateInv
<1>3. len <= bucket
  BY CurLen DEF TypeInv
<1>4. truth' \in {"Host", "Poisoned", truth}
  BY DEF RewindTo
<1>5. truth' \in Truths /\ OwnerFits'
  BY <1>4 DEF RewindTo, TypeInv, StateInv, OwnerFits, Truths, Runners
<1> QED
  BY <1>2, <1>3, <1>5 DEF RewindTo, TypeInv, StateInv, BytesCarryNothing, CachesOf, cur_len

LEMMA InitType == Init => TypeInv
<1> SUFFICES ASSUME Init PROVE TypeInv
  OBVIOUS
<1>1. bucket \in 1 .. ContextLength /\ host \in Cache(bucket)
  BY ZeroedType, SizeAssumption DEF Init, Rungs
<1>2. tokens \in Seq(Token) /\ row \in Seq(Token) /\ cur_len = 0
  BY EmptyCache, EmptySeq DEF Init, Junk, cur_len
<1>3. CachesOf(carried) /\ BytesCarryNothing /\ OwnerFits /\ truth \in Truths
  BY DEF Init, CachesOf, BytesCarryNothing, OwnerFits, Truths, Runners
<1>4. CallInv
  BY DEF Init, CallInv, Idle
<1> QED
  BY <1>1, <1>2, <1>3, <1>4, FlagAssumption, SizeAssumption DEF Init, TypeInv, StateInv

LEMMA NextType == TypeInv /\ [Next]_vars => TypeInv'
<1> SUFFICES ASSUME TypeInv, [Next]_vars PROVE TypeInv'
  OBVIOUS
<1>1. ASSUME UNCHANGED call, StateInv' PROVE TypeInv'
  BY <1>1 DEF TypeInv, CallInv
<1>2. CASE CallStep
  BY <1>2, CallStepType
<1>3. CASE Step
  BY <1>3, BeginType DEF Step
<1>4. ASSUME NEW n \in 1 .. FeedLimit, Feed(n) PROVE TypeInv'
  BY <1>4, BeginType, SizeAssumption DEF Feed
<1>5. CASE SetSeeder
  <2>1. seeder' \in Nat
    BY <1>5, CurLen DEF SetSeeder, TypeInv
  <2> QED
    BY <1>1, <1>5, <2>1, EmptiedState DEF SetSeeder, TypeInv, StateInv, Runners
<1>6. CASE MakeVerify
  <2>1. verify' \in Nat
    BY <1>6, CurLen DEF MakeVerify, TypeInv
  <2> QED
    BY <1>1, <1>6, <2>1, EmptiedState DEF MakeVerify, TypeInv, StateInv, Runners
<1>7. CASE DropVerify
  BY <1>1, <1>7, EmptiedState DEF DropVerify, TypeInv, StateInv, Runners
<1>8. ASSUME NEW pending \in Token, NEW draft \in TokenLists(VerifyChunk - 1),
             NEW accepted \in 0 .. Len(draft), Speculate(pending, draft, accepted)
      PROVE TypeInv'
  BY <1>1, <1>8, SpeculateType, TokenListsAre, SizeAssumption DEF Speculate
<1>9. ASSUME NEW k \in 0 .. VerifyChunk - 1, SpeculateFails(k) PROVE TypeInv'
  BY <1>1, <1>9, WalkFailsState DEF SpeculateFails, TypeInv, Runners
<1>10. CASE VerifyRefused
  BY <1>1, <1>10, HandedOverState DEF VerifyRefused, TypeInv, StateInv
<1>11. CASE SpeculateSyncFails
  BY <1>1, <1>11, SyncLostState DEF SpeculateSyncFails, TypeInv
<1>12. ASSUME NEW batch \in TokenLists(VerifyChunk), Verify(batch) PROVE TypeInv'
  <2>1. batch \in Seq(Token)
    BY TokenListsAre, SizeAssumption
  <2>2. row' \in Seq(Token)
    BY <1>12, <2>1, HandedBackType, AttendedType DEF Verify, TypeInv
  <2> QED
    BY <1>1, <1>12, <2>2, HandedOverState DEF Verify, TypeInv, StateInv
<1>13. CASE EndSpeculation
  <2>1. host' = HandedBack
    BY <1>13 DEF EndSpeculation, HandedBack, Runners
  <2> QED
    BY <1>1, <1>13, <2>1, HandedOverState DEF EndSpeculation, TypeInv, StateInv
<1>14. CASE EndSpeculationFails
  <2>1. /\ truth' = "Poisoned" /\ truth' \in Truths /\ truth' \notin Runners
        /\ CachesOf(carried') /\ (Plan # "resident" => \A q \in Runners : carried'[q] = NoCache)
    BY <1>14, ReleasedType DEF EndSpeculationFails, TypeInv, Truths, Runners
  <2> QED
    BY <1>1, <1>14, <2>1
       DEF EndSpeculationFails, TypeInv, StateInv, OwnerFits, BytesCarryNothing, CachesOf, cur_len
<1>15. ASSUME NEW len \in 0 .. cur_len, RewindTo(len) PROVE TypeInv'
  BY <1>1, <1>15, RewindType DEF RewindTo
<1>16. CASE UNCHANGED vars
  BY <1>1, <1>16 DEF vars, TypeInv, StateInv, OwnerFits, BytesCarryNothing, CachesOf, cur_len
<1> QED
  BY <1>2, <1>3, <1>4, <1>5, <1>6, <1>7, <1>8, <1>9, <1>10, <1>11, <1>12, <1>13, <1>14, <1>15, <1>16
     DEF Next

\* Under every plan, and whatever fails or wraps, a decode session keeps its
\* shape, the owner of the truth carries a cache of the session's own bucket,
\* and a call in progress has tokens left (DecodeSession in decode.rs).
THEOREM SessionInvariant == Spec => []TypeInv
BY InitType, NextType, PTL DEF Spec

\* The state of a decode session keeps its shape, and the realized length
\* never passes the bucket.
THEOREM SessionTypeCorrect == Spec => []TypeOK
BY SessionInvariant, TypeInvIsType, PTL

-----------------------------------------------------------------------------
(* Safety.                                                                 *)

\* No call in progress finds the truth with a verify runner, and a seeder
\* that owns it is installed.
TruthInv == /\ TypeInv
            /\ TruthCurrent
            /\ call # Idle => truth # "Verify"
            /\ truth = "Seeder" => seeder # 0

-----------------------------------------------------------------------------
(* Walks over right rows.                                                  *)

\* A walk over right rows attends to exactly the realized tokens.
LEMMA AttendsToLog ==
  ASSUME StateInv, NEW cache \in Cache(bucket), RightRows(cache), NEW batch \in Seq(Token)
  PROVE  Attended(cache, batch) = tokens \o batch
<1>1. CASE cur_len = 0
  <2>1. tokens = <<>>
    BY <1>1, EmptySeq DEF StateInv, cur_len
  <2> QED
    BY <1>1, <2>1 DEF Attended, Coherent
<1>2. CASE cur_len # 0
  <2>1. cur_len \in Nat /\ cur_len - 1 \in 0 .. cur_len - 1
    BY <1>2, CurLen
  <2>2. cache[cur_len - 1] = tokens
    <3>1. cache[cur_len - 1] = Prefix(tokens, cur_len - 1 + 1)
      BY <2>1 DEF RightRows
    <3>2. Prefix(tokens, cur_len) = tokens
      BY SubSeqFull DEF Prefix, cur_len, StateInv
    <3> QED
      BY <2>1, <3>1, <3>2
  <2>3. Coherent(cache)
    BY <2>2 DEF Coherent, RightRows, cur_len
  <2> QED
    BY <1>2, <2>2, <2>3 DEF Attended
<1> QED
  BY <1>1, <1>2

\* What the walk leaves is right for the longer log.
LEMMA WritesRight ==
  ASSUME ~RingWraps, StateInv, NEW cache \in Cache(bucket), RightRows(cache),
         NEW chunk \in Nat, NEW batch \in Seq(Token), NEW commit \in 1 .. Len(batch),
         cur_len + Len(batch) <= bucket,
         NEW p \in 0 .. cur_len + commit - 1
  PROVE  Written(cache, batch, chunk, commit)[p] = Prefix(tokens \o Prefix(batch, commit), p + 1)
<1> DEFINE width == IF Plan = "legacy" THEN commit ELSE Len(batch)
           pads == IF Plan = "legacy" THEN {} ELSE PadRows(batch, chunk)
           kept == Prefix(batch, commit)
<1>1. /\ Len(batch) \in Nat /\ cur_len \in Nat /\ Len(tokens) = cur_len /\ bucket \in Nat
      /\ commit \in 0 .. Len(batch) /\ tokens \in Seq(Token)
  BY LenProperties, CurLen DEF StateInv
<1>2. kept \in Seq(Token) /\ Len(kept) = commit
  BY <1>1, PrefixType DEF Prefix
<1>3. p \in 0 .. bucket - 1 /\ width \in commit .. Len(batch)
  BY <1>1
<1>4. Written(cache, batch, chunk, commit)[p] =
        IF p \in cur_len .. cur_len + width - 1
          THEN Attended(cache, Prefix(batch, p - cur_len + 1))
          ELSE IF p \in pads THEN Junk ELSE cache[p]
  BY <1>3 DEF Written
<1>5. CASE p < cur_len
  <2>1. p \notin pads /\ p \notin cur_len .. cur_len + width - 1
    BY <1>1, <1>3, <1>5 DEF PadRows
  <2>2. cache[p] = Prefix(tokens, p + 1)
    BY <1>1, <1>5 DEF RightRows
  <2>3. p + 1 \in 0 .. Len(tokens)
    BY <1>1, <1>5
  <2>4. Prefix(tokens \o kept, p + 1) = Prefix(tokens, p + 1)
    BY <1>1, <1>2, <2>3, PrefixOfConcat DEF Prefix
  <2> QED
    BY <1>4, <2>1, <2>2, <2>4
<1>6. CASE ~(p < cur_len)
  <2> DEFINE k == p - cur_len + 1
  <2>1. k \in 0 .. commit /\ k \in 0 .. Len(batch) /\ p + 1 = Len(tokens) + k
        /\ p \in cur_len .. cur_len + width - 1
    BY <1>1, <1>3, <1>6
  <2>2. Prefix(batch, k) \in Seq(Token)
    BY <2>1, PrefixType DEF Prefix
  <2>3. Attended(cache, Prefix(batch, k)) = tokens \o Prefix(batch, k)
    BY <2>2, AttendsToLog
  <2>4. Prefix(kept, k) = Prefix(batch, k)
    BY <1>1, <2>1, PrefixOfPrefix DEF Prefix
  <2>5. Prefix(tokens \o kept, Len(tokens) + k) = tokens \o Prefix(kept, k)
    <3>1. k \in 0 .. Len(kept)
      BY <1>2, <2>1
    <3> HIDE DEF kept, k
    <3> QED
      BY <1>1, <1>2, <3>1, PrefixPastConcat DEF Prefix
  <2> QED
    BY <1>4, <2>1, <2>3, <2>4, <2>5
<1> QED
  BY <1>5, <1>6

\* A runner that may walk binds the truth itself.
LEMMA BindsTruth ==
  ASSUME NEW r \in Runners, truth \in Truths, truth # "Poisoned", truth = "Verify" => r = "Verify"
  PROVE  Bound(r) = HandedBack
<1>1. CASE truth = r
  BY <1>1 DEF Bound, HandedBack, MustSync
<1>2. CASE truth # r /\ MustSync(r)
  BY <1>2 DEF Bound
<1>3. CASE truth # r /\ ~MustSync(r)
  <2>1. truth = "Host"
    BY <1>3 DEF MustSync, Truths, Runners
  <2> QED
    BY <1>3, <2>1 DEF Bound, HandedBack, Runners
<1> QED
  BY <1>1, <1>2, <1>3

\* One walk extends the log, and leaves the truth current.
LEMMA WalkTruth ==
  ASSUME ~RingWraps, StateInv, RightRows(HandedBack),
         NEW r \in Runners, truth # "Poisoned", truth = "Verify" => r = "Verify",
         NEW chunk \in Nat, NEW batch \in Seq(Token), NEW commit \in 1 .. Len(batch),
         cur_len + Len(batch) <= bucket,
         Walk(r, chunk, batch, commit)
  PROVE  /\ truth' \in {r, "Host"}
         /\ RightRows(HandedBack)'
         /\ Log!Extend
<1> DEFINE kept == Prefix(batch, commit)
           out == Written(HandedBack, batch, chunk, commit)
<1>1. Bound(r) = HandedBack /\ HandedBack \in Cache(bucket)
  BY BindsTruth, HandedBackType DEF StateInv
<1>2. /\ Len(batch) \in Nat /\ commit \in 0 .. Len(batch) /\ cur_len \in Nat
      /\ Len(tokens) = cur_len /\ tokens \in Seq(Token) /\ bucket \in 1 .. ContextLength
      /\ ContextLength \in Nat
  BY LenProperties, CurLen, SizeAssumption DEF StateInv
<1>3. kept \in Seq(Token) /\ Len(kept) = commit
  BY <1>2, PrefixType DEF Prefix
<1>4. tokens' = tokens \o kept /\ row' = tokens \o kept
  BY <1>1, <1>3, AttendsToLog DEF Walk
<1>5. cur_len' = cur_len + commit
  BY WalkState
<1>6. Log!Extend
  <2>1. Len(tokens') = Len(tokens) + commit
    BY <1>2, <1>3, <1>4, ConcatProperties
  <2>2. Log!Prefix(tokens', Len(tokens)) = tokens
    <3>1. SubSeq(tokens \o kept, 1, Len(tokens)) = SubSeq(tokens, 1, Len(tokens))
      BY <1>2, <1>3, PrefixOfConcat
    <3> QED
      BY <1>2, <1>4, <3>1, SubSeqFull DEF Log!Prefix
  <2>3. Len(tokens') \in Len(tokens) + 1 .. ContextLength
    BY <1>2, <2>1
  <2> QED
    BY <1>4, <2>2, <2>3 DEF Log!Extend
<1>7. /\ truth' \in {r, "Host"}
      /\ HandedBack' = out
  <2>1. out \in Cache(bucket)
    BY <1>1, WrittenType
  <2>2. out # NoCache
    BY <2>1, EmptyCache, CurLen
  <2>3. CASE Plan = "resident"
    <3>1. truth' = r /\ carried'[r] = out
      BY <1>1, <2>3, SyncedType DEF Walk, CachesOf
    <3> QED
      BY <2>2, <3>1 DEF HandedBack
  <2>4. CASE Plan # "resident"
    <3>1. host' = out /\ carried' = carried /\ truth' \in {r, "Host"} /\ carried[r] = NoCache
      BY <1>1, <2>4 DEF Walk, StateInv, BytesCarryNothing
    <3> QED
      BY <3>1 DEF HandedBack, Runners
  <2> QED
    BY <2>3, <2>4
<1>8. RightRows(HandedBack)'
  <2>1. \A p \in 0 .. cur_len + commit - 1 : out[p] = Prefix(tokens \o kept, p + 1)
    BY <1>1, WritesRight
  <2> HIDE DEF out, kept
  <2>2. ASSUME NEW p \in 0 .. cur_len' - 1 PROVE HandedBack'[p] = SubSeq(tokens', 1, p + 1)
    <3>1. p \in 0 .. cur_len + commit - 1
      BY <1>2, <1>3, <1>5, <2>2
    <3>2. out[p] = Prefix(tokens \o kept, p + 1)
      BY <2>1, <3>1
    <3> QED
      BY <1>4, <1>7, <3>2 DEF Prefix
  <2> QED
    BY <2>2 DEF RightRows, Prefix
<1> QED
  BY <1>6, <1>7, <1>8

-----------------------------------------------------------------------------
(* The other ways in which the truth moves.                                *)

\* A move of the truth to the host's buffers that copies it.
LEMMA HandedOverTruth ==
  ASSUME RightRows(HandedBack), host' = HandedBack, truth' = "Host", UNCHANGED tokens
  PROVE  RightRows(HandedBack)'
<1>1. HandedBack' = HandedBack
  BY DEF HandedBack, Runners
<1> QED
  BY <1>1 DEF RightRows, cur_len, Prefix

\* A change that leaves the owner's copy and the log alone.
LEMMA UntouchedTruth ==
  ASSUME TruthCurrent, UNCHANGED <<tokens, host, truth>>,
         truth \in Runners => carried'[truth] = carried[truth],
         TruthAbandoned => TruthAbandoned'
  PROVE  TruthCurrent'
<1>1. HandedBack' = HandedBack
  BY DEF HandedBack
<1> QED
  BY <1>1 DEF TruthCurrent, RightRows, cur_len, Prefix

LEMMA GrowTruth ==
  ASSUME TypeInv, TruthCurrent, Grow
  PROVE  TruthCurrent'
<1>1. PICK wide \in bucket + 1 .. ContextLength :
        host' = [p \in 0 .. wide - 1 |-> IF p < cur_len THEN HandedBack[p] ELSE Junk]
  BY DEF Grow
<1>2. RightRows(HandedBack)
  BY DEF Grow, Growing, TruthCurrent, TruthAbandoned
<1>3. HandedBack' = host' /\ tokens' = tokens
  BY DEF Grow, HandedBack, Runners
<1>4. ASSUME NEW p \in 0 .. cur_len - 1 PROVE host'[p] = SubSeq(tokens, 1, p + 1)
  <2>1. p \in 0 .. wide - 1 /\ p < cur_len
    BY <1>1, CurLen, SizeAssumption DEF TypeInv
  <2> QED
    BY <1>1, <1>2, <2>1 DEF RightRows, Prefix
<1> QED
  BY <1>3, <1>4 DEF TruthCurrent, RightRows, cur_len, Prefix

LEMMA RewindTruth ==
  ASSUME TypeInv, TruthCurrent, NEW len \in 0 .. cur_len, RewindTo(len)
  PROVE  TruthCurrent' /\ Log!Cut
<1>1. len \in 0 .. Len(tokens) /\ tokens \in Seq(Token) /\ cur_len = Len(tokens)
  BY DEF TypeInv, StateInv, cur_len
<1>2. tokens' = SubSeq(tokens, 1, len) /\ cur_len' = len
  BY <1>1, PrefixType DEF RewindTo, Prefix, cur_len
<1>3. Log!Cut
  BY <1>1, <1>2 DEF RewindTo, Log!Cut, Log!Prefix
<1>4. CASE truth \in {"Verify", "Poisoned"}
  <2>1. truth' = "Poisoned" \/ (len = 0 /\ truth' = "Host")
    BY <1>4 DEF RewindTo
  <2> QED
    BY <1>2, <1>3, <2>1 DEF TruthCurrent, RightRows
<1>5. CASE truth \notin {"Verify", "Poisoned"}
  <2>1. truth' = truth /\ HandedBack' = HandedBack /\ RightRows(HandedBack)
    BY <1>5 DEF RewindTo, HandedBack, TruthCurrent, TruthAbandoned
  <2>2. ASSUME NEW p \in 0 .. len - 1 PROVE HandedBack[p] = SubSeq(SubSeq(tokens, 1, len), 1, p + 1)
    <3>1. p + 1 \in 0 .. len /\ p \in 0 .. cur_len - 1
      BY <1>1
    <3>2. SubSeq(SubSeq(tokens, 1, len), 1, p + 1) = SubSeq(tokens, 1, p + 1)
      BY <1>1, <3>1, PrefixOfPrefix
    <3> QED
      BY <2>1, <3>1, <3>2 DEF RightRows, Prefix
  <2> QED
    BY <1>2, <1>3, <2>1, <2>2 DEF TruthCurrent, RightRows, Prefix
<1> QED
  BY <1>4, <1>5

-----------------------------------------------------------------------------
(* One step of the session: the truth stays current, and the log extends,  *)
(* is tried, is cut, or does not move.                                     *)

LogStep == Log!LogNext \/ UNCHANGED <<tokens, row>>

LEMMA PassTruth ==
  ASSUME ~RingWraps, TruthInv, SeederPass \/ StepPass
  PROVE  TruthInv' /\ LogStep
<1>1. TypeInv' /\ StateInv
  BY NextType DEF TruthInv, TypeInv, Next, CallStep
<1>2. /\ call.now \in Nat \ {0} /\ cur_len + call.now <= bucket /\ cur_len \in Nat
      /\ bucket \in Nat /\ seeder \in Nat
      /\ truth # "Poisoned" /\ truth # "Verify" /\ truth \in Truths
  <2>1. call # Idle
    BY DEF SeederPass, StepPass, Taken, Idle
  <2> QED
    BY <2>1, CurLen DEF SeederPass, StepPass, Taken, Fits, TruthInv, TypeInv, StateInv, CallInv
<1>3. RightRows(HandedBack)
  BY <1>2 DEF TruthInv, TruthCurrent, TruthAbandoned
<1>4. CASE SeederPass
  <2>1. PICK batch \in [1 .. call.now -> Token] : Walk("Seeder", seeder, batch, call.now)
    BY <1>4 DEF SeederPass
  <2>2. /\ batch \in Seq(Token) /\ Len(batch) = call.now /\ "Seeder" \in Runners
        /\ call.now \in 1 .. Len(batch) /\ cur_len + Len(batch) <= bucket
    BY <1>2, Batches DEF Runners
  <2>3. truth' \in {"Seeder", "Host"} /\ RightRows(HandedBack)' /\ Log!Extend
    BY <1>1, <1>2, <1>3, <2>1, <2>2, WalkTruth
  <2>4. seeder # 0 /\ seeder' = seeder
    BY <1>4, <2>1 DEF SeederPass, UsesSeeder, Walk
  <2> QED
    BY <1>1, <2>3, <2>4 DEF TruthInv, TruthCurrent, LogStep, Log!LogNext
<1>5. CASE StepPass
  <2>1. PICK t \in Token : Walk("Step", 1, <<t>>, 1)
    BY <1>5 DEF StepPass
  <2>2. /\ <<t>> \in Seq(Token) /\ Len(<<t>>) = 1 /\ "Step" \in Runners
        /\ 1 \in 1 .. Len(<<t>>) /\ cur_len + Len(<<t>>) <= bucket
    BY <1>2 DEF Runners
  <2>3. truth' \in {"Step", "Host"} /\ RightRows(HandedBack)' /\ Log!Extend
    BY <1>1, <1>2, <1>3, <2>1, <2>2, WalkTruth
  <2> QED
    BY <1>1, <2>3 DEF TruthInv, TruthCurrent, LogStep, Log!LogNext
<1> QED
  BY <1>4, <1>5

LEMMA SpeculateTruth ==
  ASSUME ~RingWraps, TruthInv, NEW pending \in Token, NEW draft \in TokenLists(VerifyChunk - 1),
         NEW accepted \in 0 .. Len(draft), Speculate(pending, draft, accepted)
  PROVE  TruthInv' /\ LogStep
<1> DEFINE batch == <<pending>> \o draft
<1>1. TypeInv' /\ StateInv
  BY NextType DEF TruthInv, TypeInv, Next
<1>2. draft \in Seq(Token) /\ Len(draft) \in Nat
  BY TokenListsAre, SizeAssumption, LenProperties
<1>3. batch \in Seq(Token) /\ Len(batch) = 1 + Len(draft)
  BY <1>2, ConcatProperties
<1>4. /\ truth # "Poisoned" /\ truth \in Truths /\ "Verify" \in Runners
      /\ 1 + accepted \in 1 .. Len(batch) /\ cur_len + Len(batch) <= bucket
      /\ VerifyChunk \in Nat /\ verify # 0 /\ call = Idle
  BY <1>1, <1>2, <1>3, CurLen, SizeAssumption DEF Speculate, Speculating, StateInv, Runners
<1>5. RightRows(HandedBack) /\ Walk("Verify", VerifyChunk, batch, 1 + accepted)
  BY <1>4 DEF TruthInv, TruthCurrent, TruthAbandoned, Speculate
<1>6. truth' \in {"Verify", "Host"} /\ RightRows(HandedBack)' /\ Log!Extend
  BY <1>1, <1>3, <1>4, <1>5, WalkTruth
<1>7. call' = Idle
  BY <1>4 DEF Speculate, Idle
<1> QED
  BY <1>1, <1>6, <1>7 DEF TruthInv, TruthCurrent, LogStep, Log!LogNext

\* A walk that fails poisons the truth, or leaves it where the hand-off did.
LEMMA WalkFailsTruth ==
  ASSUME TruthInv, NEW r \in Runners, WalkFails(r)
  PROVE  TruthCurrent'
<1>1. CASE truth' = "Poisoned"
  BY <1>1 DEF TruthCurrent
<1>2. CASE truth' # "Poisoned"
  <2>1. Plan = "legacy" /\ truth' = truth /\ UNCHANGED <<tokens, verify>>
    BY <1>2 DEF WalkFails
  <2>2. \A q \in Runners : carried[q] = NoCache /\ carried'[q] = NoCache
    BY <2>1, SyncedType
       DEF WalkFails, TruthInv, TypeInv, StateInv, BytesCarryNothing, CachesOf
  <2>3. HandedBack = host /\ host' = host /\ HandedBack' = host
    BY <2>1, <2>2 DEF HandedBack, HostAfterSync, WalkFails
  <2> QED
    BY <2>1, <2>3 DEF TruthInv, TruthCurrent, TruthAbandoned, RightRows, cur_len, Prefix
<1> QED
  BY <1>1, <1>2

LEMMA CallTruth ==
  ASSUME ~SyncMayFail, ~RingWraps, TruthInv, CallStep
  PROVE  TruthInv' /\ LogStep
<1>1. TypeInv' /\ TypeInv
  BY NextType DEF TruthInv, Next
<1>2. ASSUME UNCHANGED <<tokens, host, carried, truth, seeder, verify, row>>, call # Idle
      PROVE  TruthInv' /\ LogStep
  <2>1. TruthCurrent'
    BY <1>2, UntouchedTruth DEF TruthInv, TruthAbandoned
  <2> QED
    BY <1>1, <1>2, <2>1 DEF TruthInv, LogStep
<1>3. CASE TakeChunk
  BY <1>2, <1>3 DEF TakeChunk
<1>4. CASE ContextExhausted
  BY <1>2, <1>4 DEF ContextExhausted
<1>5. CASE CallRefused
  BY <1>2, <1>5 DEF CallRefused, Taken, Idle
<1>6. CASE SeederPass \/ StepPass
  BY <1>6, PassTruth
<1>7. ASSUME SeederPassFails \/ StepPassFails PROVE TruthInv' /\ LogStep
  <2>1. PICK r \in Runners : WalkFails(r) /\ CallEnds
    BY <1>7 DEF SeederPassFails, StepPassFails, Runners
  <2>2. truth' \in {"Poisoned", truth} /\ seeder' = seeder /\ UNCHANGED <<tokens, row>>
    BY <2>1 DEF WalkFails
  <2> QED
    BY <1>1, <2>1, <2>2, WalkFailsTruth DEF TruthInv, LogStep, CallEnds
<1>8. CASE HandOffFails
  BY <1>8 DEF HandOffFails, SyncLost
<1>9. CASE Grow
  BY <1>1, <1>9, GrowTruth DEF TruthInv, LogStep, Grow
<1>10. CASE RebuildFails
  <2>1. RightRows(HandedBack)
    BY <1>10 DEF RebuildFails, Growing, TruthInv, TruthCurrent, TruthAbandoned
  <2>2. RightRows(HandedBack)'
    BY <1>10, <2>1, HandedOverTruth DEF RebuildFails
  <2> QED
    BY <1>1, <1>10, <2>2 DEF RebuildFails, TruthInv, TruthCurrent, LogStep
<1> QED
  BY <1>3, <1>4, <1>5, <1>6, <1>7, <1>8, <1>9, <1>10 DEF CallStep

LEMMA StepTruth ==
  ASSUME ~SyncMayFail, ~RingWraps, TruthInv, [Next]_vars
  PROVE  TruthInv' /\ LogStep
<1>1. TypeInv' /\ TypeInv
  BY NextType DEF TruthInv
<1>2. ASSUME UNCHANGED <<tokens, host, truth, row>>, TruthAbandoned => TruthAbandoned',
             truth \in Runners => carried'[truth] = carried[truth],
             call' # Idle => truth # "Verify", truth = "Seeder" => seeder' # 0
      PROVE  TruthInv' /\ LogStep
  BY <1>1, <1>2, UntouchedTruth DEF TruthInv, LogStep
<1>3. CASE CallStep
  BY <1>3, CallTruth
<1>4. ASSUME NEW n, Begin(n) PROVE TruthInv' /\ LogStep
  BY <1>2, <1>4 DEF Begin, TruthInv, TruthAbandoned
<1>5. CASE SetSeeder
  <2>1. truth # "Seeder" /\ call' = Idle
    BY <1>5 DEF SetSeeder, TruthInv
  <2>2. truth \in Runners => carried'[truth] = carried[truth]
    BY <1>1, <1>5, <2>1 DEF SetSeeder, TypeInv, StateInv, CachesOf
  <2> QED
    BY <1>2, <1>5, <2>1, <2>2 DEF SetSeeder, TruthAbandoned
<1>6. CASE MakeVerify
  <2>1. truth \in Runners => carried'[truth] = carried[truth]
    BY <1>1, <1>6 DEF MakeVerify, TypeInv, StateInv, CachesOf
  <2> QED
    BY <1>2, <1>6, <2>1 DEF MakeVerify, TruthAbandoned, TruthInv
<1>7. CASE DropVerify
  <2>1. CASE truth = "Verify"
    <3>1. TruthAbandoned'
      BY <1>7, <2>1 DEF DropVerify, TruthAbandoned
    <3> QED
      BY <1>1, <1>7, <2>1, <3>1 DEF DropVerify, TruthInv, TruthCurrent, LogStep
  <2>2. CASE truth # "Verify"
    <3>1. truth \in Runners => carried'[truth] = carried[truth]
      BY <1>1, <1>7, <2>2 DEF DropVerify, TypeInv, StateInv, CachesOf
    <3> QED
      BY <1>2, <1>7, <2>2, <3>1 DEF DropVerify, TruthAbandoned, TruthInv
  <2> QED
    BY <2>1, <2>2
<1>8. ASSUME NEW pending \in Token, NEW draft \in TokenLists(VerifyChunk - 1),
             NEW accepted \in 0 .. Len(draft), Speculate(pending, draft, accepted)
      PROVE  TruthInv' /\ LogStep
  BY <1>8, SpeculateTruth
<1>9. ASSUME NEW k \in 0 .. VerifyChunk - 1, SpeculateFails(k) PROVE TruthInv' /\ LogStep
  <2>1. WalkFails("Verify") /\ "Verify" \in Runners /\ call = Idle /\ call' = Idle
    BY <1>9 DEF SpeculateFails, Speculating, Runners
  <2>2. truth' \in {"Poisoned", truth} /\ seeder' = seeder /\ UNCHANGED <<tokens, row>>
    BY <2>1 DEF WalkFails
  <2> QED
    BY <1>1, <2>1, <2>2, WalkFailsTruth DEF TruthInv, LogStep
<1>10. CASE VerifyRefused
  <2>1. RightRows(HandedBack)
    BY <1>10 DEF VerifyRefused, MustSync, TruthInv, TruthCurrent, TruthAbandoned
  <2>2. RightRows(HandedBack)'
    BY <1>10, <2>1, HandedOverTruth DEF VerifyRefused
  <2> QED
    BY <1>1, <1>10, <2>2 DEF VerifyRefused, TruthInv, TruthCurrent, LogStep
<1>11. CASE SpeculateSyncFails
  BY <1>11 DEF SpeculateSyncFails, SyncLost
<1>12. ASSUME NEW batch \in TokenLists(VerifyChunk) \ {<<>>}, Verify(batch)
       PROVE  TruthInv' /\ LogStep
  <2>1. RightRows(HandedBack) /\ HandedBack \in Cache(bucket) /\ tokens \in Seq(Token)
    BY <1>1, <1>12, HandedBackType DEF Verify, TruthInv, TruthCurrent, TruthAbandoned, TypeInv, StateInv
  <2>2. RightRows(HandedBack)'
    BY <1>12, <2>1, HandedOverTruth DEF Verify
  <2>3. batch \in Seq(Token) /\ Len(batch) \in Nat \ {0} /\ Len(tokens) \in Nat
    BY <2>1, TokenListsAre, SizeAssumption, EmptySeq, LenProperties
  <2>4. row' = tokens \o batch
    BY <1>1, <1>12, <2>1, <2>3, AttendsToLog DEF Verify, TypeInv
  <2>5. Len(row') > Len(tokens) /\ Log!Prefix(row', Len(tokens)) = tokens
    <3>1. SubSeq(tokens \o batch, 1, Len(tokens)) = SubSeq(tokens, 1, Len(tokens))
      BY <2>1, <2>3, PrefixOfConcat
    <3> QED
      BY <2>1, <2>3, <2>4, <3>1, ConcatProperties, SubSeqFull DEF Log!Prefix
  <2>6. Log!Trial
    BY <1>12, <2>5 DEF Log!Trial, Verify
  <2> QED
    BY <1>1, <1>12, <2>2, <2>6 DEF Verify, TruthInv, TruthCurrent, LogStep, Log!LogNext
<1>13. CASE EndSpeculation
  <2>1. host' = HandedBack /\ RightRows(HandedBack)
    BY <1>13 DEF EndSpeculation, HandedBack, Runners, TruthInv, TruthCurrent, TruthAbandoned
  <2>2. RightRows(HandedBack)'
    BY <1>13, <2>1, HandedOverTruth DEF EndSpeculation
  <2> QED
    BY <1>1, <1>13, <2>2 DEF EndSpeculation, TruthInv, TruthCurrent, LogStep
<1>14. CASE EndSpeculationFails
  BY <1>1, <1>14 DEF EndSpeculationFails, TruthInv, TruthCurrent, LogStep
<1>15. ASSUME NEW len \in 0 .. cur_len, RewindTo(len) PROVE TruthInv' /\ LogStep
  <2>1. truth' \in {"Host", "Poisoned", truth} /\ seeder' = seeder /\ call = Idle /\ call' = call
    BY <1>15 DEF RewindTo
  <2> QED
    BY <1>1, <1>15, <2>1, RewindTruth DEF TruthInv, LogStep, Log!LogNext
<1>16. CASE UNCHANGED vars
  BY <1>2, <1>16 DEF vars, TruthInv, TruthAbandoned
<1> QED
  BY <1>3, <1>4, <1>5, <1>6, <1>7, <1>8, <1>9, <1>10, <1>11, <1>12, <1>13, <1>14, <1>15, <1>16
     DEF Next, Step, Feed

-----------------------------------------------------------------------------

LEMMA InitTruth == Init => TruthInv /\ Log!LogInit
<1> SUFFICES ASSUME Init PROVE TruthInv /\ Log!LogInit
  OBVIOUS
<1>1. tokens = <<>> /\ cur_len = 0 /\ row = <<>>
  BY EmptySeq DEF Init, cur_len, Junk
<1> QED
  BY <1>1, InitType DEF Init, TruthInv, TruthCurrent, RightRows, Idle, Log!LogInit

\* The copy of the cache the session believes current is the one of exactly
\* its realized tokens (KvTruth and sync_truth), under every plan.
THEOREM SessionTruthCurrent ==
  ASSUME ~SyncMayFail, ~RingWraps
  PROVE  Spec => []TruthCurrent
<1>1. TruthInv /\ [Next]_vars => TruthInv'
  BY StepTruth
<1>2. TruthInv => TruthCurrent
  BY DEF TruthInv
<1> QED
  BY <1>1, <1>2, InitTruth, PTL DEF Spec

\* The session implements the token log: whatever plan, chunking, hand-off
\* or speculation produced them, the logits follow the realized tokens.
THEOREM SessionImplementsLog ==
  ASSUME ~SyncMayFail, ~RingWraps
  PROVE  Spec => LogRefined
<1>1. TruthInv /\ [Next]_vars => TruthInv'
  BY StepTruth
<1>2. TruthInv /\ [Next]_vars => [Log!LogNext]_Log!logVars
  BY StepTruth DEF LogStep, Log!logVars
<1> QED
  BY <1>1, <1>2, InitTruth, PTL DEF Spec, LogRefined, Log!LogSpec

\* A session whose truth was lost answers no pass until it is rewound to the
\* empty sequence, whatever fails (KvTruth::Poisoned).
THEOREM SessionPoisonedStays == Spec => PoisonedStays
<1>1. [Next]_vars => [truth = "Poisoned" /\ truth' # "Poisoned" => tokens' = <<>> /\ row' = row]_vars
  <2> SUFFICES ASSUME Next, truth = "Poisoned", truth' # "Poisoned"
               PROVE  tokens' = <<>> /\ row' = row
    OBVIOUS
  <2>1. ~CallStep
    BY DEF CallStep, TakeChunk, ContextExhausted, CallRefused, SeederPass, SeederPassFails, StepPass,
           StepPassFails, HandOffFails, SyncLost, Grow, RebuildFails, Growing
  <2>2. ASSUME NEW len \in 0 .. cur_len, RewindTo(len) PROVE tokens' = <<>> /\ row' = row
    BY <2>2, SubSeqEmpty DEF RewindTo, Prefix
  <2> QED
    BY <2>1, <2>2
       DEF Next, Step, Feed, Begin, SetSeeder, MakeVerify, DropVerify, Speculate, SpeculateFails,
           Speculating, VerifyRefused, SpeculateSyncFails, SyncLost, MustSync, Verify,
           EndSpeculation, EndSpeculationFails
<1> QED
  BY <1>1, PTL DEF Spec, PoisonedStays
===============================================================================
