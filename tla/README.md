# hologram-ai in TLA+

A verification project for the decode path of hologram-ai: the Rust decode
session and its K/V cache, the staged runner and its residency ledger, the
speculative turn, the plans a decoder is compiled to, the graph passes, shapes
and values that fix what is executed, the tokenizers, the content-addressed
storage a model lives in, and the browser application that drives them. Each module is translated from the source; `PROJECT.json` maps its definitions to lines.

Paths below are relative to the repository; `H` stands for
`crates/hologram-ai/src`, `W` for `apps/web/src`.

## 1. The system

| part | where | state it keeps | operations |
|---|---|---|---|
| decode session | `H/decode.rs` | realized tokens, bucket, host K/V, where the current K/V is (`KvTruth`), seeder, verify geometry | `step`, `feed`, `speculate`, `verify`, `end_speculation`, `rewind_to`, `grow` |
| pass buffers | `H/decode.rs`, `common/rope.rs` | attention mask, rotary tables of the last length | `refresh_buffers`, `rewind_to`, `grow` |
| staged runner, carried K/V | `H/staged.rs`, `H/runner.rs` | per stage: a session with K/V labels, or a banked shadow copy | `execute_window_kv`, `take_kv_carry`, `evict_resident` |
| staged runner, residency | `H/staged.rs`, `hologram-ai-wasm/src/lib.rs` | resident stages, footprints, shared ledger, budgets | admission, hit, eviction, failure, drop, `charge_carried_kv`, regrow |
| speculative turn | `H/commands/generate.rs`, `H/speculative.rs` | output, pending token, regime, verify runner, drafter | one loop per turn |
| prompt lookup | `H/speculative.rs` | Z-function and its window | `z_function`, `prompt_lookup_draft` |
| browser turn | `W/pages/Chat.tsx`, `W/ipc.ts`, `W/generate.worker.ts` | `running`, prewarm handle, active worker, settlers, closures, warm session | prewarm, send, cancel, model switch, remount, messages |
| browser pool | `W/ipc.ts`, `W/holo.ts`, `W/pool.worker.ts` | pool workers, commit flag, readiness | spawn, register, poll, time out, fail, commit, tear down |
| κ-store, download, warm session | `W/download.worker.ts`, `W/ipc.ts`, `W/generate.worker.ts`, `H/materialize.rs`, `H/runner.rs` | files by label, a model's records, exclusive handles, the session's verified set | stream, verify, quantize early, evict, record, mark ready; ensure artifacts, open, bind, recover |
| derived stages | `H/staged.rs`, `W/generate.worker.ts` | entries in memory and on disk, background tasks | `stages_for_window`, load, save, invalidate |
| streamed text | `hologram-ai-tokenizer/src/streaming.rs`, `H/commands/generate.rs` | overlap and held tokens, scanned tail | `feed`, `finish`, `StopScan::hit` |
| graph passes | `hologram-ai-common/src/{rules,opt,ir,lower}` | the graph and its cached order | the passes of `OptPipeline::mvp` |
| import, shapes, values | `hologram-ai-onnx/src/graph_builder.rs`, `hologram-ai-common/src/opt`, `H/compiler.rs` | per tensor: shape, dtype, known values, constant | build the graph, propagate, evaluate, concretize to a window, repair |
| decoder plans | `hologram-ai-safetensors/src/parametric.rs`, `common/opt/decode_plan.rs`, `H/staged.rs`, `common/lower/quantize.rs` | graphs or stages, label bindings, quantized artifacts | emit, split, rewrite attention for decode, bind, quantize, retire |
| tokenizers | `hologram-ai-tokenizer/src` | none across calls | load a file, `encode`, `decode` |
| lowering to kernels | `hologram-ai-common/src/lower` | the kernel of each tensor so far | emit inputs, nodes in topological order, outputs |
| memory planner, block codecs | other crates | none across calls | pure transformations |
| catalogue, command-line download | `W/resources.ts`, `H/download` | files | network and storage |

How they interact. The chat page calls `generate()`, which posts a request to
the one generate worker; the worker starts the threaded runtime with pool
workers the page owns, builds a session, and decodes synchronously. A turn is
a loop over `DecodeSession`, whose three runners (step, seeder, verify) hand
the K/V cache to each other through the host. Each runner is a staged
pipeline, whose stages come and go under a budget that target and draft share.
All Rust of a session runs on one thread: its interleavings are those of calls
and of failures inside calls. The browser part is truly concurrent.

What is hard: the current K/V has no fixed place, and a stale copy raises no
error, it only changes the text; rejected draft rows stay in the cache; a
regrow replaces everything a call has read; a failure between two stages
leaves half a cache; a runner admits stages while another holds the ledger's
bytes; and in the browser, a promise is settled by whichever closures were
installed last. On storage, whatever
is written may be cut short, evicted, or rot, while a session reads it. And a
graph pass trusts a match, an order or a shape that another pass, or another
reader of the same tensor, may have made untrue. `PROJECT.json` lists the
hazards line by line.

## 2. Modules

| module | models | proofs |
|---|---|---|
| `TokenLog` | abstract: a log of tokens, appended to, tried on, cut; every answer follows the log | |
| `DecodeSession` | the session and its hand-offs; implements `TokenLog` | `DecodeSessionProofs`, `PrefixLemmas` |
| `PassBuffers` | mask and rotary tables kept between passes | `HostWorkProofs` |
| `StagedRunner` | where each stage's K/V is, in and between walks | `StagedRunnerProofs` |
| `Residency` | ledger, budgets, admission over a pair of models | `ResidencyProofs` |
| `SpeculativeTurn` | one turn from its prefill to its end | `SpeculativeTurnProofs` |
| `PromptLookup` | the drafter's algorithm, step by step | `HostWorkProofs` |
| `StreamText` | detokenizing token by token, and the stop-string scan | `HostWorkProofs` |
| `DerivedStages` | the store of compiled stages under worker restarts | `HostWorkProofs` |
| `GraphIR`, `RewriteRules`, `GraphPasses` | the graph and what it lowers to; the pattern engine and its rules; the pipeline, one action per pass | |
| `DecoderPlan`, `PlanSession` | the graphs and stages a decoder recipe is emitted as; the session over them | |
| `TextCodec` | tokenizer files, the three encoders step by step, decoding | `HostWorkProofs` |
| `TensorOps` | what the operators mean: the reference of the next rows | |
| `OnnxImport`, `ConstEval`, `ShapeRules`, `DataRules` | the import; compile-time evaluation; shape inference; known values, one operator each | |
| `ShapePasses`, `ShapeRepair`, `ShapeFlow` | the passes over shapes and values; their repair at a window; the whole flow, one action per pass | |
| `Lowering` | the kernels the repaired graph becomes, the last step of that flow | |
| `HostWork` | composes `PassBuffers`, `PromptLookup`, `StreamText`, `DerivedStages`, `GraphPasses`, `PlanSession`, `TextCodec`, `ShapeFlow`: one part per behaviour | |
| `KappaStore`, `Download`, `WarmSession` | the files and a model's records; the download worker; the generate worker's session over the store | |
| `Storage` | composes the three, with closing tabs, torn writes and rot | `StorageProofs` |
| `GenerateTurn` | page, worker, pool of the browser | `GenerateTurnProofs` |

The `MC…` modules instantiate them for TLC. They contain symmetry sets, views
and the values of constants; a run whose cfg needs none of these is over the
module itself (`SessionProgress`, `BuffersPaddedRope`, `WebTurn`,
`WebTurnKept`). `MCSessionPlans` also declares the family of
sessions over several plans, `Over(p) == INSTANCE DecodeSession WITH Plan <- p`,
with a variable that never changes. Its view drops what nothing reads: labels of
runners that do not hold the truth, and the host buffers while one does.
`GraphFamilies` are the graphs the pass pipeline is started on, `ShapeFamilies`
the models `ShapeFlow` is.

### DecodeSession
A cache row is what it was computed from: the token prefix up to its position,
or `Junk`. A walk computes right rows exactly when the realized rows it
attends to are right, so a lost hand-off shows in the rows and in `row`, the
sequence the last logits follow. `tokens`, `bucket`, `host`, `truth`, `seeder`,
`verify`, `rebuild` are fields of `DecodeState` and `DecodeSession`; `carried`
is the runners' `kv_carry`. `step` and `feed` are loops: `Step`, `Feed` begin a
call and `CallStep` runs one round of it (take a chunk, regrow, seeder or step
pass, failure), so that everything the loop re-reads is re-read. `speculate`,
`verify`, `end_speculation` and `rewind_to` are single actions. `Plan` is
how caches travel: `legacy` (new rows only, spliced by the host), `bytes` (the
whole cache comes back) or `resident` (the runner keeps it as labels).

### PassBuffers
`refresh_buffers` as one action: the mask is rebuilt or flipped in place
according to the span, chunk and last position it was left at. Frequencies are
abstracted to the length they were computed for.

### StagedRunner
What `DecodeSession` calls "the cache runner r carries", taken apart into
stages. A copy is right or stale; a walk goes stage by stage and may drop,
bank, re-ingest or fail at each. Any stage may be kept or dropped: which ones
fit is `Residency`'s subject.

### Residency
The shared ledger and each runner's own tally, in footprint mode (an address
ceiling, wasm32) and in weight mode (native): the frozen variable `host` says
which. `admission_probe` may answer either way. The carried-K/V charge and the
way a budget reaches a runner (`handed`, `budget`) are kept apart as in the
code.

### SpeculativeTurn
The tokens a model draws are given by a `stream`: sampling is a function of
logits and position. Proposals are arbitrary, the acceptance gate is a free
Boolean, and `drafter` is prompt lookup or a draft model, which has a
session of its own, modelled by its length. The plain loop's output is an
operator over the same stream. Left out: the errors of building the verify runner,
of handing the truth over (in `DecodeSession`) and of the drafter's commit
(`generate.rs:882-884`), each of which ends the turn as a refusal does.

### PromptLookup
`z_function` one index at a time, then the draft read off it, against the
definitions of "longest common prefix" and "latest longest match".

### StreamText
The streaming detokenizer and the stop scan of the same loop. A token is its
decoded piece: characters of one, two or three bytes, parts of a character, or
the Metaspace mark that a window's first token loses when it is decoded alone.
`Feed` is one round of the loop: decode the window, hold or show, anchor the
next window, scan. `Finish` drains what is held.

### DerivedStages
A stage archive is what it was derived from; an entry is the list of κ and one
file per stage. `stages_for_window` answers from the session's entries when
every archive hashes to its κ, derives and saves otherwise. In the browser
saving and removing are background tasks that outlive the session and are cut
off by the worker's end; the native directory store is the case where each
ends before the next call.

### GraphIR, RewriteRules, GraphPasses
A graph is the vector of nodes of `AiGraph`, with its cached topological order.
`Lowered` gives the value of every output: a term over inputs and weights, in
which scalars are kept apart so that absorbing a scale into a product changes
nothing. `RewriteRules` is the pattern engine (binding, commuted operands,
single-consumer test, one sweep, removal) and the rules as data, with the two custom
rewrites (attention with its optional NaN guard, norm with projections). These two
test less than the engine does, so they may be applied where they change what is
computed; the graph then records it (`overreach`), and `MeaningKept` leaves it out by
that name: an interior tensor that something else reads or the graph returns, scores
masked with something else than the causal mask, unmasked scores where an output is
called `logits` or `output`, a K behind no Transpose, a V on the left of the weights. In every
other graph the fused node must mean what the chain meant. `GraphPasses` runs the pipeline in its order,
including who reads the cached order and who resets it, and decomposes the reductions
and the batch norm. Left out: the position-id
injection, which adds an input on purpose; `SliceToGather` and the passes that
write shapes, which are in `ShapeFlow`; hints; subgraphs; the depth/space
decompositions; shapes, of which only "fewer than three axes" is kept; hop
limits; the size conditions of the projection rewrite, which are the constant's
kind.

### OnnxImport, ConstEval, ShapeRules, DataRules, ShapePasses, ShapeRepair, Lowering, ShapeFlow
Tensors are small and of integers, so that an operator has a value to be right
about: `TensorOps` gives shape and elements, the other modules what the
compiler computes of them at each moment, in its order. A dimension is concrete,
a multiple of a variable, or anything; known values are sequences in which an
entry may be unknown. `ShapeFlow` runs import, the generic pipeline,
concretization, the repair rounds and lowering as steps. `ValuesTrue` compares
what the graph then computes with what the model means at the sizes compiled
for, and what its kernels compute too; `ShapesTrue` each recorded shape with the
one its tensor takes. In `Lowering` a tensor is the expression of kernels that
writes it. Kernels are told the shape of what they write, stretch no operand (that of a
`Where` is assumed to be like the binary ones here, which `builder.rs:348-352` describes),
append flat data and multiply matrices of two axes only, and the pipelines make
up for it. Operators that lowering computes wrongly (`Misses`, section 5) put
their graph into `inexact` and out of `ValuesTrue`; the others, in nearly all of
the models of the run, must come out exactly. Operators whose
elements nothing computes at compile time are zeros; sizes that an operator
takes from data (`Counts`) are guesses of the compiler and excepted. Left out:
the lowering of weight encodings, of a norm's epsilon, of rotary tables fused into
attention and of control flow, the axis of a `Softmax` or `CumSum` and the constant of a `Pad`,
which the code does not pass on (`dispatch.rs:283, 525`, `graph_builder.rs:1580-1583`), the unfused legacy fusions (in `GraphIR`), operator decomposition, semantic hints and dedup (the first and the last are in
`GraphPasses`), subgraphs, quantized weights.

### DecoderPlan, PlanSession
An activation is a term per position, a weight an interval of a tensor's rows,
so a layer wired to another's cache, a head chunk at the wrong rows or a slice
of a fused projection shows in the logits' term. `DecoderPlan` emits a recipe:
which family it is, what is refused, one graph or stages, over the window or
over carried K/V. `PlanSession` binds labels to stages, moves quantized weights
onto artifacts and lets the wide ones go, then runs passes: stages walked in
order with ports routed by name, cache rows written, padded chunks, rejected
drafts. The text is fixed (the token at position n is n, 0 pads), so a row that
is read says what it was computed from. A window pass starts from an empty
cache; rows past the bucket are dropped, the kernel being outside. Left out:
heads, batch and layout; the scaling law of the rotary tables; parsing of
configurations; the heap guard of the F32 head; int8 without stages.

### TextCodec
A tokenizer file becomes a configuration or is refused; then a text is encoded
one merge, one lattice position, one step back over the lattice or one longest
match per step, and decoded.
`EncodeExact` compares with the definition of each algorithm, `RoundTrip` the
decoded text with the one encoded. Texts a file cannot give back are excepted by
name: characters it drops (`Dropped`), spaces its normalization or decoding
loses (`LosesSpace`), a typed U+2581 that comes back as a space (`LosesMark`),
and what its vocabulary does not cover (`Covered`). `FilesAssumption` says what
a file that is read is like: a merge joins two pieces to a listed piece and
leaves byte pieces alone, a dummy prefix comes with a Metaspace, a Unigram that
lists bytes declares byte fallback. Left out: the wire forms, JSON, the regex engine, NFC and NFKC, pieces longer than
the byte limit, the section of an archive that carries the tokenizer.

### HostWork
The parts share no state. `part` is frozen and says which of them runs, the
others keep one initial state, so an execution is one part's and the run is
their sum.

### KappaStore, Download, WarmSession, Storage
A label names the wide form of a tensor, an artifact (its int8 form), or an
artifact derived from wrong bytes; a file is good, torn, rotten or none, and
may be held by an exclusive handle. `dir` are the model's records. `Download`
follows `download.worker.ts` and the page's archive loop: manifest, one tensor after
another (measure, write, evict when refused, quantize early, remove the wide
form), heads, records, marker. `WarmSession` follows `warmStagedSession`:
records read, missing artifacts derived again, files opened in order, then
constants bound: a label is hashed the first time the session resolves it, and
a failed hash closes, removes and resolves once more. `Storage` interleaves
the two and closes the tab at any point. Simplified: one revision and one model
directory; one stage file stands for the loop over them; `model-meta.json` is
written with `kappa-sources.json`; one head chunk; a model is removed only while
none is downloaded; only files nobody holds rot; the draft's session is left
out.

### GenerateTurn
`turn[t]` is one call of `generate()`: its promise goes clicked, opening,
posted, resolved or rejected. `page` is the module state of `ipc.ts`: the
settlers and `handler`, the turn whose closures are on the worker. `worker`
has an inbox, an outbox, the readiness of the runtime, the warm session's archive
and the requests suspended at an `await` (`job`); while one decodes, the
event loop takes nothing else. Killing a worker discards both queues and the
pool. `Remount` is a change of route and back: the component's `running`,
`prewarmRef` and `prewarmedArchiveRef` start over, its continuations go on.
`displaced` is a history variable. Tokens, progress lines, the idle
pre-derivation and the path of non-staged archives are left out.

## 3. Runs

All runs explore their whole state space (symmetry and views as stated).

| run | question | bounds |
|---|---|---|
| `SessionTruth` | is the copy believed current always right, and is the session a token log, on every plan? | 3 plans, 2 tokens, context 4, ladder 2-4, batches and feeds of 3, with and without a rebuild source |
| `SessionProgress` | does a poisoned session answer nothing, and does every call return, with hand-offs failing too? | 1 token, context 4, feeds of 4 |
| `HostWork` | is the mask flipped in place the one built from scratch, and the rotary law the pass's own? is the draft the longest match's, in linear work? do the deltas add up to the text, and does the scan stop exactly at a stop string? does a session run the stages its inputs derive? does every pass keep what the graph computes? do all plans of a decoder compute the same? are texts encoded as defined, and given back? do evaluated values and baked shapes agree with what the model means? | buckets 2, 4, 8, 11, chunks 1, 2, 4; sequences to length 8 over 3 tokens; 4 tokens of 9 pieces, 4 sets of stop strings; 2 inputs, 2 stages, 3 background tasks, 1 rotten file; the chains of the rules with each interior tensor exposed, and all graphs of three operations; 12 recipes of two layers, vocabularies of 9 and 20, buckets 3 and 5, chunks of 3, texts of 4; 20 tokenizer files, 171 texts to 4 characters; about 180 models at a window of 3 |
| `BuffersPaddedRope` (violation) | is the rotary law that of the realized length? | buckets 4, 8, a padded chunk |
| `StagedCarry` | does any walk read a stale cache, can the carrier hand everything back? | 2 runners, 3 stages, one without attention |
| `ResidencyPair` | does the ledger equal what is held, below the ceiling, within the weight budget? | 2 models, 3 runners each, 2 stages, 2 buckets, a tab and a native host |
| `ResidencyKvRoom` (violation) | does admission leave room for the carried K/V? | 1 model |
| `TurnOutput` | is the output the plain loop's, is the truth home, is no call refused, does the turn end? | budgets to 5, drafts to 3, 3 rungs, both drafters |
| `TurnStale` (violation) | does the turn retire rather than fail when the bucket moved? | same, prompt lookup |
| `WebTurn` | has the pool an owner, the live turn its settlers, is it released? | 2 turns, 2 archives, 2 pool members |
| `WebTurnKept` (violation) | does a send in flight keep its settlers? | same |
| `Storage` | is what a session binds what its label names, are artifacts true, is a ready model complete, does a download end? | one projection and one head, 1 rotten or torn file, 2 downloads |

Why the bounds are enough for what they show. Two rungs give a regrow with
realized rows on both sides; a batch of two has an accepted and a rejected
row; the ladder's last rung is the context, so exhaustion happens. Three
stages have a first, a middle and a last one, with one that carries nothing. The residency
head is heavier than the rest, so admission must evict; the ceiling holds some
of the pair's stages and not all. A budget of five reaches two batches and
plain steps in between. Two turns are the least that overlap; two members are
the least pool that can be half registered. Three overlapping turns were not
kept in a run: they multiply the states and repeat the same displacement.

A projection and the head are the two kinds of tensor a download treats
differently; two downloads are the least in which one finds what another left.
The graph families expose every interior tensor, once to another reader and
once to the caller, since that is what a match must not break: those of the
patterns, of both custom rewrites and of the batch norms. The attentions come with and
without a mask, causal or not, with K turned or not, with a NaN guard or
none, under an output called `logits` or not; the graphs that the custom rewrites
break are the ones `overreach` names, and no graph it names was left intact.
The bounds of a `Clip` have values on both sides of them.

`CHECK_DEADLOCK FALSE` is set where a behaviour ends: a turn that is over, a
draft that is made, a pipeline that has run, the bound on downloads reached.

Liveness and fairness. `SessionProgress` and `TurnOutput` assume weak fairness
of the running call only: it is one synchronous Rust call, which runs until it
returns. Nothing obliges a caller to call again. `WebTurn` assumes weak
fairness of the page's and the worker's event loops; users, file reads,
failures and registrations promise nothing, so the pool's deadline is what
ends a poll. `Storage` assumes weak fairness of the download worker's steps
alone. `DownloadEnds` excepts the archive phase while a session holds files:
the page's eviction loop removes the first entry of the directory, and goes on
for as long as that entry is held.

## 4. Proofs

Proved by TLAPS for every value of the constants that meets the modules'
assumptions. Each theorem follows from one inductive invariant of its module,
proved by one lemma per action.

* `StagedRunner`: `TypeOK`, `WalksReadTruth`, `TruthComplete`, `OneCopy`, all
  from the inductive invariant `IInv`. Between walks these properties are almost inductive; in
  the middle of a walk they are not, since half of the stages have moved on:
  `IInv` says for each mode of walk what the stages before and after the
  current one hold (`BytesInv`, `IngestInv`, `CarryInv`).
* `PassBuffers`: `TypeOK`, `MaskExact`, `RopeNotStale`. `MaskExact` alone says
  nothing of a mask left behind by a regrow; `MaskFits` bounds its position
  by its span. `RopeNotStale` follows from the law's dependence on the length
  (`RopeLaw`).
* `DecodeSession`: `TypeOK` from `TypeInv` (a call in progress is never empty, a
  carried cache has the shape of the bucket whenever it is the truth), then
  `TruthCurrent` and the refinement of `TokenLog` from `TruthInv`, which adds
  that no call runs while the caller's verify runner has the truth and that a truth in
  the seeder has a seeder. The step lemmas prove both at once: each operation
  keeps the invariant and is a step or a stutter of the log.
  `SessionPoisonedStays` needs no invariant.
* `SpeculativeTurn`: `TypeOK`, `OutputIdentical`, `TruthHome`, `NeverRefused`,
  `RealizedFollows`. The output is at every moment a prefix of the stream, which
  is still open (`Open`) or has ended exactly there (`Cut`); realized tokens and
  the pending one are the output (`RealizedInv`); a batch is tried only with a
  token to commit and room for the longest draft (`RoundInv`).
* `Residency`: `TypeOK`, `LedgerExact`, `BudgetHeld`. Sums over finite sets come
  first (any element may be taken out first; a sum splits; one value changes),
  proved from the fold's own definition. `Wired`, that runners outside `live`
  hold nothing, turns the sum over the live ones into one over all;
  `Walking` ties the call to a wired runner; `Handed` bounds every budget by
  the ceiling.
* `GenerateTurn`: `TypeOK`, `PoolOwned`, `CommitIsCurrent`, `PendingServed`.
  These speak of pool and settlers at rest; `PoolInv` is about the order of the
  worker's outbox: the pool is asked for once (`AskedOnce`), an order to tear it
  down has nothing of the pool behind it (`TornDownLast`), the page keeps the
  pool whose commit may still arrive (`PoolKept`, `Committed`). `NothingLeft`
  says that a page without a worker has none of its messages.
* `Storage`: `TypeOK`, `ServedRight`, `ArtifactsTrue`, `ReadyComplete`. A label verified
  and held is right because its file is nobody else's (`ServedInv`); what the
  download has in its hand is the artifact of the tensor at its position
  (`ArtifactInv`); each phase stands on the records before it (`Stands`). That
  the evictable list names no file twice takes, by phase and position, which
  labels it and the tier's fresh artifacts may hold (`ListInv`): a position's
  label is none of an earlier one's, an artifact is none of the wide files'.
* `DerivedStages`: `StagesDerived`. A κ-list, in memory or on disk, is that of
  what its key derives to, whatever the files hold, so a set of files that hashes
  to its list is the right one (`DerivedInv`).
* `PromptLookup`: `DraftRight`, correctness and linear work. The window repeats
  the head of the reversed sequence, so an entry copied from its mirror is final
  or goes on at the window's edge (`WindowInv`, `TableInv`); the comparisons are
  at most the positions passed plus the edge. The latest longest match is then
  the table's first largest entry.
* `StreamText`: `StreamExact`. First that flattening and lossy decoding
  distribute over a cut between characters (by a least counterexample, since
  induction theorems cannot be cited). Then the invariant: the window begins at
  such a cut, and tokens before it show something only if its first tokens do
  (`Anchored`), so a space stripped from the window's front was stripped from
  its emitted prefix too; the scan's tail is a suffix of the emitted text, all
  of it or as many bytes as the longest stop string less one (`Scanned`). An
  occurrence that is new ends in new text, so it begins within the tail
  (`ScanFinds`). The theorem's assumption is typing: tokens are byte sequences,
  stop sets are finite.
* `TextCodec`: `RoundTrip`. The bytes of the ids emitted, of the pieces in hand
  and of the words left, in this order, are the bytes of the text (`BpeSpells`,
  for merges of any ranks; `WordPieceSpells`). For a Unigram model every entry
  of the lattice spells the bytes it spans (`LatticeSpells`), and the end of each
  character passed is reached, by a piece or byte by byte (`LatticeReaches`). So
  the walk back ends at the front and its ids spell the word (`BackSpells`). That every file
  that is read gives such a configuration is `LoadedGood`; what decoding makes of
  the bytes, `BpeDecodes`, `UnigramDecodes` and `WordPieceEnds`. The theorem's
  assumptions are `FilesAssumption` and the alphabet of the texts.
* `PrefixLemmas`: prefixes of sequences, least and greatest members of sets of
  naturals, used by the above.

Four assumptions are more than typing. `SessionTruthCurrent` and
`SessionImplementsLog` assume `~SyncMayFail` and `~RingWraps`,
`StorageServedRight` assumes `~NetworkLies`: section 5 says
what happens otherwise. The constants are false in `SessionTruth` and `Storage`
too; `SyncMayFail` is true in `SessionProgress`. `DerivedStages` takes content
addresses to be free of collisions.

Model-checked only. Liveness (`CallReturns`, `TurnReturns`, `TurnReleased`,
`DownloadEnds`) is out of the prover's reach. So are the graph
modules and `PlanSession` (`MeaningKept`, `ValuesTrue`, `ShapesTrue`,
`PlanExact`), which recurse over terms and graphs, and `EncodeExact`, whose
references are recursive definitions over a text. `EncodeExact` is besides not
true of every file `FilesAssumption` admits: pieces of equal score may be merged
in another order than SentencePiece's, and a Unigram whose pieces hold
characters it does not list can miss the best segmentation (§5). The files of
the run are as training leaves them: merged pieces of different scores, every
character of a piece listed.

## 5. Where the code and its words part

Shown by a run (`findings` in `PROJECT.json`):

* `TurnStale`: a verify runner built for a bucket that a plain step or the
  prefill has outgrown fails the turn; `generate.rs:786` promises retirement.
* `BuffersPaddedRope`: for a length-dependent rotary law, a padded chunk is fed
  the law of the padded length (`decode.rs:299`), where `decode.rs:276-278`
  says the realized length.
* `ResidencyKvRoom`: the K/V charge never reaches a runner already wired.
* `WebTurnKept`: a chat route left and entered again during a send prewarms,
  takes the settlers over, and the send's promise never settles. Switching
  models during a prewarm, or two clicks while tokens are counted, overlap
  turns in the same way.

Seen while modelling, with no run of their own; those up to the dashed
line are `findings` too:

* A κ verified once in a session is not hashed again (`materialize.rs:301, 349`),
  also when its bytes now come from the network, and `syncFetchRange` pads a
  short body with zeros (`generate.worker.ts:111-112`); `generate.worker.ts:98-99`
  says every buffer is hashed. `Storage` sets `NetworkLies` to FALSE; with TRUE,
  `ServedRight` fails.
* Folding a `Reshape` of a constant drops the new shape (`constant_fold.rs:44`),
  against what `const_dedup.rs:36-43` says of shapes.
* `apply_rules` replaces the nodes and leaves the cached order
  (`rules/mod.rs:600`, `ir/graph.rs:302-304`). The pipeline survives it, since
  decomposition and dead node elimination reset the cache at the end; `GraphPasses` models the stale reads.
* `find_pre_transpose_with_scale` may return the scaled tensor and the scale
  (`graph_utils.rs:314-320`). `MeaningKept` excepts such a K (`overreach`).
* The custom rewrites drop interior nodes without the single-consumer test
  of `rules/mod.rs:643-651` (`pattern_rules.rs:843, 988`): a tensor that is read elsewhere or
  returned is left without a producer. Excepted (`overreach`).
* An output named `logits` or `output` makes unmasked attention causal
  (`pattern_rules.rs:779-782, 857`), and any mask is taken for the causal one, "redundant by
  construction" (839-840); a V on the left of the weights is taken for one on the
  right (`graph_utils.rs:185`). Excepted (`overreach`).
* A batch norm over three axes keeps its weights at `[C]`, which the
  product stretches along the last axis (`decompose.rs:405`). `GraphIR` keeps no
  shapes that could show it.
* `layernorm_rule` matches no LayerNorm chain, since the centered value has two
  consumers (`rules/mod.rs:650`, `pipeline.rs:62-71`).
* A model compiled as one graph keeps a manifest tensor that its family's graph
  does not read as a parameter nothing reads (`compiler.rs:366`): a Llama manifest
  with `q_norm` compiles without its norms, where `parametric.rs:185-186` promises
  a loud failure. The staged path refuses it (`staged.rs:313-319`).
* `decode.rs:1287`: under the resident plan the kernel writes every row of the
  chunk, pads included, where `decode.rs:1281-1282` speaks of a splice that stays in
  the bucket, and the capacity check counts real rows. Were the kernel's ring
  write to wrap, the pads of a short last chunk would land on realized rows. The
  kernel is outside the repository; `RingWraps` is that case.
* `decode_plan.rs:363`: the `k_new` and `v_new` ports of the fused form carry the
  whole updated cache, where `decode_plan.rs:68-76` says the new rows.
* Seven of the tokenizer: an eos that is not declared maps to id 2, whose token
  decode then drops (`native.rs:639`); the pre-tokenizer cuts before every mark, so
  that pieces with a mark inside are never formed (`sentencepiece.rs:185`); a leading
  space is stripped also where none was prepended (`bpe.rs:101`); a split pattern
  that does not compile is dropped silently (`bpe.rs:40`); `PrependSpace` is parsed
  and never applied (`native.rs:384`); the lattice matches control pieces in text
  (`unigram.rs:41`); it tries a byte only where no piece ends one byte on
  (`unigram.rs:57`): with the pieces `aa` (-1) and `ab` (-2) and bytes at -100,
  `aab` becomes a byte and `ab` (-102), not `aa` and a byte (-101), as TLC finds
  once `HostWork` is given that file.
* Compile-time evaluation: `eval_gather` strides leading dimensions by the
  gathered axis (`const_eval_ops.rs:529`); known values of a `Concat` are appended
  flat (`data_eval_ops.rs:87`).
* Shapes: an `Expand` with an unknown target is settled at its input's shape
  (`shape_inference.rs:387`); a concrete dimension may shrink, against the
  comment (`shape_prop.rs:197`); slices with parameter inputs never become
  gathers (`pattern_rules.rs:619`).
* Import: the zero point is added unrounded (`graph_builder.rs:346`); with
  optional inputs absent, `MatMulInteger` and `Clip` read the wrong one (397,
  1607); unnamed nodes share synthesized tensors (615).
* Lowering: three desugarings join along any axis by an append
  (`lower/builder.rs:810`); "There is no failure path" (line 5) has several.
  Not exact, against `dispatch.rs:14-15`: reductions of other axes than the last
  (1641), extremes and norms by batch that need stretched operands (1723),
  `GatherElements` and `GatherND` (`dispatch.rs:367`), the indices of a `TopK`
  (2076), blocks of channels but for one mode (2009), transposed `Gemm`s and
  uneven windows (469), `Trilu` (`dispatch.rs:603`), marks other than 0 and 1 or
  off the last axis (1275), a negative end of a `Shape` (733), the bounds of a `Clip`, which
  the importer moves onto the operator (`graph_builder.rs:1605-1621`) and lowering
  expects as operands (`dispatch.rs:489`), three and more copies of a `Tile`, whose joins
  declare too large a shape (`lower/builder.rs:809`), a `Where` that stretches an operand; and the batch axes of
  a product's second operand in shape inference (`shape_inference.rs:46`).

---

* The quantization of a missing artifact reads the cached wide file unverified
  (`ensureQuantArtifacts`), and fails the turn if it has rotted, where
  `materialize.rs:352-356` recovers by streaming.
* The archive loop of the page (`ipc.ts:522-546`) does not end while the first
  entry of `tensors` is held open, since a failed removal counts as an eviction.
* Two downloads after the models page is mounted anew share one worker and
  overwrite its `onmessage` (`ipc.ts:474`): the first promise never settles.
* A draft session that fails to build never frees its handles:
  `draftHandles` is still undefined at `generate.worker.ts:571`.
* `take_kv_carry` drains the labels before it can fail (`runner.rs:379`,
  `decode.rs:867-889`): on failure `truth` still names the runner, which
  `decode.rs:784-785` describes as the place of the current K/V. Modelled as
  `SyncLost`.
* The shared ledger learns a stage's footprint when the stage is first walked
  (`staged.rs:1173-1174`), so stages admitted before the largest one leave it
  less room than "always leaves room for the largest single walk"
  (`staged.rs:1169-1172`) says; nothing is evicted when the maximum grows.
* An error of the drafter is an error of the turn (`generate.rs:844, 923`),
  while `speculative.rs:34-35` says a bad proposal costs only speed.
* `ModelDrafter` follows the target by length (`speculative.rs:164-181`): after
  a proposal that was not used, its session may hold other tokens than the
  target's (`speculative.rs:118-120`). The output does not depend on it.
* A pool member that dies after all have registered and before the page
  handles `pool-committed` is taken for a start failure (`ipc.ts:810-821`): the
  pool is terminated under a worker that decodes with it and waits for it. This is
  `Wedged`, the exception of `TurnReleased`.
* Cancel before a send has been posted ends the prewarm it awaits, not the
  send (`ipc.ts:1072`, `Chat.tsx:379-380`).

## 6. Not modelled

The memory planner's sizes, the codecs of
quantized blocks, protobuf and configuration parsing: sequential translations
whose errors are numerical or structural, not of order. The command line and its download: a sequential
caller and a file that is skipped when it is there. User interface, catalogue,
resource estimates: layout and formatting mostly. Within the modelled parts:
the non-staged path of the browser, the draft's file handles, several
revisions or models in one store. Tensor arithmetic is abstracted everywhere. The substrate (kernels, archive
runtime, worker pool) is outside the repository and appears only as what the
code relies on.

## 7. Plan

Done: the core in the order of the table of section 2, then storage, derived
stages, streamed text, the graph passes, decoder plans, tokenizers, shapes and
values. Proved: every safety property of the sessions, runners, ledger, turns,
pool and store (section 4).

Next, models: the draft's pairing in `WarmSession`; the failure of
`take_kv_carry` after its drain as a state of its own.

Next, proofs: that `StagedRunner` implements the carried cache of `DecodeSession`.
