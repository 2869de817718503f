# Verification of radiance

TLA+ models, TLC runs and TLAPS proofs for this repository: the hand-written
tensor-parallel all-reduce, the speculative-draft controller and what it keeps
of a request, the recurrent (GDN) state, the path of every quantised linear
from its checkpoint to its output, the launches around the model, and the
source patches all of it is installed by.

The repository turns vLLM into an inference server for RDNA4 cards. Almost
none of it runs on its own: Python modules are loaded into vLLM's workers,
`patch_*.py` scripts rewrite vLLM's sources when a container starts, and HIP
kernels take the place of library calls. vLLM is therefore the environment of
every model. What is not under `src/` (vLLM's scheduler, block tables, engine
loop, HIP's stream order) is modelled from how the code here uses it, and
marked `external` in the map of `PROJECT.json`.

Contents

1. Inventory
2. Modules and how they correspond to the code
3. Runs: what is checked, bounds, fairness
4. Proofs
5. Findings and remarks
6. What is not modelled
7. Plan

## 1. Inventory

| part | state | operations | talks to | what is hard | correct when |
|---|---|---|---|---|---|
| one-shot all-reduce (`r4d_radiance_extras_rx10.patch`, `radiance_allreduce.py`, `patch_ar_3rank.py`) | per rank: scratch (two slots per sender), flags, a sequence counter per block, never reset | one kernel per call: push to the peers, drain, flag, spin, reduce | peers write each other's memory; no lock, no host | two GPUs run ahead of each other; grids of different sizes; counters wrap; a spin gives up | the result is the sum of this call on every rank, every call returns |
| fp8 residual stream (`radiance_arnq.py`, `radiance_gdnmerge.py`) | which layer reduces (`reduce_results`, `_rad_fp8_in`, `_rad_fp8_mid`), counters shared with the exact kernel | install; one fused op per site | the all-reduce's scratch and counters | a partial sum travels between layers | each partial sum is reduced exactly once |
| rotated stream (`paroquant/radiance_paroquant.py`) | which linear takes a rotated input, which leaves its all-reduce out | install over the layers; grant and take back | norms, activations, gates | a grant is made before the next layer is looked at | the sum is whole wherever it is read |
| overlapped all-reduce (`radiance_aroverlap.py`) | persistent scratch, a second stream | slices of a GEMM on one stream, reductions on the other | all-reduce | buffer reuse across streams | no slice is read before it is written or after it is reused |
| fused split-K reduction (`radiance_mxfp4_fp8.hip`) | slab and arrival counter, never cleared | accumulate, publish, count, the last one adds up | launches of one stream | another split in the next launch | every part is added once |
| draft controller (`radiance_draft.py`, `patch_mtp_loopbreak.py`) | per request: running confidence, stop slot, choice; per step: slot, stop flag, cap | match, propose, gated sample per slot, loop head, postprocess | MTP loop of vLLM; matcher; collectives of the ranks | decided requests ride along with undecided ones; exceptions on one rank | a draft does not depend on the rest of the batch; ranks meet in the same collective |
| draft loop overlap (`moe-draftloop/`, `patch_moe_draftloop.py`) | pinned buffer, event, deferred decision | defer, prepare the next pass, resolve | controller; device stream | one buffer is written behind the host's back | same decisions as without overlap |
| draft loop graph (same module) | per shape: uses, graph, captured signature; a process-wide disable flag | normal, warm, capture, replay, fall back | vLLM metadata | captured addresses grow stale; capture fails on one rank | a replay reads this pass's lengths and live buffers |
| dynamic verify width (`patch_dynwidth.py`, `patch_async_dynwidth.py`) | per request a moving average | observe, cap | both schedulers; a shared placeholder list | the cap starves its own evidence | the cap can be left; only its own request is cut |
| context mirror and matcher (`radiance_draft.py`, `radiance_draft_gpu.py`) | device copy of every row's tokens; per request: row and length mirrored | synchronise, forget, search, copy the continuation | vLLM's input batch | rows are reused and reshuffled | a remembered row is the request's text; the continuation is its own |
| lazy recurrent state (`radiance_gdn.py`, `radiance_gdn_lazy.py`, `patch_gdn_lazy.py`, the rx10 patch) | per request a base state and a stash with a header; accepted count | migrate, prefill, lazy update, checkpoint | vLLM's mamba blocks, prefix cache and `align` postprocess | four writers of one protocol; blocks are recycled and shared | every step resumes from exactly the accepted tokens; every cached state is exact |
| GDN metadata (`patch_gdn_shared_build.py`, `patch_gdn_metadata.py`) | a dictionary per step, persistent buffers per cache group | build once, copy into the other groups | captured graphs | fields that are not copied | each group's buffers equal a build of its own |
| GDN layer dispatch (`radiance_gdn.py`, `patch_gdn_glue.py`) | which kernels bound, scratch, the stash's owner | plan, run the paths of prefill, decode and drafts, or fall back | stock body, graphs, padding | mixed batches; a refusal half way; pad rows | every row is computed once, from its own state |
| fused GDN decode kernel (rx10 patch) | one barrier counter | two phases around a grid barrier | streams | residency, reset by the last arrival | the counter is zero between launches, phase two reads this launch |
| adaptive prefill chunk (`moe-adaptivechunk/`, `patch_adaptive_chunk.py`) | none of its own; reads the scheduler's queues | budget, hold | vLLM's scheduler and two-deep engine loop | arrivals during a big step; flooring to blocks | a short arrival waits a bounded time, no prompt starves |
| padded router rows (`moe-padroute/`) | count on the device, its last value on the host | set, fix | captured graphs | a forward that does not set it | a real row is never overwritten |
| activation layout registry (`radiance_mxfp4.py`) | dictionary by address | register, take | producers and consumers in one graph | addresses are reused | a tensor is read in the layout it was written in |
| quantised linears (`radiance_mxfp4.py`, `radiance_mxfp4_fp8.hip`, `paroquant/`, `radiance_nvfp4.py`, `radiance_w4.py`, `radiance_kernels.py`, `moe-densefp8/`, `moe-w4a8/`, `radiance_escha.py`, `radiance_autoround.py`) | the form and order a weight's bytes are left in | load hooks, requantise, pack, pick a kernel per call | vLLM's loaders and linear methods | hooks wrap one another; the kernel depends on rows, shape and switches | what reads a weight reads it as it is held |
| three-card padding (`radiance_tp3pad.py`, `patch_tp3_pad.py`) | a tally of what was padded | widen the configuration, pad each tensor | vLLM's loaders | every tensor in its own units | the padding changes no result |
| draft and verify heads (`radiance_drafthead.py`, `radiance_verifyhead.py`, `moe-drafthead/`) | packed copy of a head; a gate per step | arm, pack, decide per step | the order of loading; sampler's slots | packed before it is loaded; slots recycled | the packed head stands for the shared one; a step that needs the exact head gets it |
| block-diffusion drafter (`dflash2/`, `patch_dflash_base.py`) | kept draft distribution per slot; draft KV | candidates, walk, keep and erase, write KV | rejection sampler, block tables, graphs | an entry of an earlier step left over; freed blocks | the kept distribution is the one the path was drawn from |
| attention (`radiance_kernels.py`, `patch_attn_3d_multiq.py`, `radiance_r4d_attn.py`) | a width left between two calls; captured grids and scratch | refuse, choose widths and splits, launch | vLLM's metadata; graphs | mixed batches; replay at a longer context | every query is answered once from its own row's whole context |
| KV grouping (`patch_kv_group_size.py`) | none | search | vLLM's allocator | divisibility | no other group size holds more |
| source patcher (`_patchlib.py`, `patch_*.py`, order in `serve-mxfp4.sh`) | the source files | apply, apply one of several shapes, audit | container restarts | repeated application; interruption; order | applying the list again changes nothing |
| KV calibration and detection (`calibrate-kv.sh`, `gpu-detect.sh`) | table of pins | profile, raise, back off, look up | launcher | rounding, first failure, which row wins | a stored pin has served, with the margin |
| kernels' arithmetic, launchers, templates, shims, tools | weights, environment | | | | numerical agreement |

`PROJECT.json` lists every part with its files, and the hazards each one
carries with the line where it bites.

How the parts meet. At a container's start the patches rewrite vLLM; then the
model is loaded: configuration and tensors are padded for three cards, hooks
and loaders leave each weight in the form one kernel wants, the heads are
packed, and the stream installers tell each layer whether it reduces and in
which form it hands its output on. In a decode step the scheduler grants
tokens (adaptive chunk, dynamic width); the metadata of the recurrent layers
are built once and copied; the GDN layers migrate, update and checkpoint their
states around the forward (lazy states), in the fused kernel when the step
qualifies; attention cuts the batch into launches; every linear is served by
the kernel its rows select, and most layers end in an all-reduce, alone,
overlapped with the GEMM or fused with the next norm. The gate of the verify
head decides how the target's rows are scored. After the target has verified
the draft, the mirror is brought up to date, the matcher proposes
continuations, and the draft loop runs the MTP model once per slot, eagerly or
from a captured graph, until every request has decided; with the block
drafter, one pass drafts all slots.

## 2. Modules

Every module names its constants' bounds, and every definition that stands for
code has its file and lines in the `map` of `PROJECT.json`. An operator with
the comment "Mutant of" is a deliberately wrong variant of the definition it
names; it is used by no specification, and shows that a run would notice.

A module is one component: its state as variables, one action per operation,
its properties at the end. The names of variables and actions carry a prefix
(`Gl`, `bd`, `sp`) where several modules meet in one run. Six modules are
instances for TLC. `MCOneShotAllReduce` instantiates the all-reduce.
`MCDraft`, `MCEngine`, `MCRequests`, `MCLayers` and `MCHost` each put the
components of one area side by side: a variable `focus` names the component a
behaviour exercises, the others stay in one initial state, and `MCNext` is the
disjunction of their next-state relations. The components in such a module
hand each other finished results and share no state, so exercising them one at
a time loses no behaviour; where parts do interact step by step
(`DraftGate` with the overlap, the ranks with each other, the installers with
the forward they leave) the interaction is inside a module. The properties of
such a run are conjunctions over its components (section 3).

### The all-reduce

`OneShotAllReduce` is the push kernel of any number of ranks, at the grain at
which GPUs interleave: one store to one peer, one flag, one poll, one word
reduced is a step. `Start` is thread 0 taking a sequence number, `Push` and
`Drain` the stores and the wait for them, `Signal` the release of a flag,
`Poll`, `PollAgain` and `SpinOut` the bounded spin, `Reduce` and `Exit` the
sum, `Retire` HIP's stream order. A call is `[kind, n16, rows]`: the exact
kernel's grid follows `_nblocks`, the fused one has a block per row, and both
use the same counters. Words are 16-byte words; a value is the number of the
call that wrote it, so "sums this call" is visible without arithmetic. The
counter is taken modulo `SeqMod` (2^32 in the code). `Resident` is how many
blocks of a grid the device holds at most, `SpinsOut` whether the poll limit
may strike. Two ranks have one receive region, three have two
(`Region(i, j)`), and the proofs are about any number.

`CollectiveSum` is the promise: calls are entered in order, return only once
every rank has entered them, with everyone's contribution to that very call.

`ArOverlap` is the pipelined variant: the host queues a GEMM cut into slices
and a reduction per slice on two streams, over two scratch buffers all calls
share, and may be several calls ahead. `SplitK` is the reduction inside the
decode GEMM: blocks race on a counter that outlives the launch.

### Drafting

`DraftGate` is one rank's controller: `Match` (the wrapper around
`propose_draft_token_ids`), `Propose` (reset, cap from the concurrency
schedule), `GreedySample` (the gate of one slot), `Forward` and `LeaveLoop`
(head of the loop, with the break the patch inserts), `Postprocess` (assembly).
What the drafter and matcher answer is an arbitrary input. Confidence is an
integer out of `Scale`, multiplied and floored; the code multiplies floats, so
what is abstracted is rounding. A drafted token is named by its origin,
`"mtp"` or `"ngram"`; which token it is follows from its position. The depth
in the schedule is clamped as the code clamps it.

`DraftOverlap` extends it with what RADIANCE_MOE_DRAFT_OVERLAP changes: the
copy to the pinned buffer is a step of the device (`CopyLands`), the decision
one of the host (`Resolve`), which may come before the forward, before the
next deferral or before the postprocessor.

`DraftRanks` is several controllers and the two collectives of each pass,
with one exception of the matcher or of the local path that strikes any of the
ranks, one of them or all. Rank 0's answer is what the engine waits for, so the others may be a step
behind.

`DraftGraph` is the choice of each rank, pass by pass, between a piecewise
pass, an eager one, a capture and a replay, with the staging buffer all graphs
share and a capture that fails on one rank. `PadRoute` is the device-side
count of real rows behind its host-side cache, read by replayed and eager
forwards.

`DynWidth` is the verify width of a request, as steps go through a pipeline.
`ScheduleStep` takes the lists of some requests into a step and, under
asynchronous scheduling, makes and caps the next lists at once
(`patch_async_dynwidth.py:21-27`), while that step and the one before it have
not been observed: two steps may be in flight. `ObserveStep` is the output of
the oldest, with any number of accepted drafts; synchronous, `TakeDrafts`
follows with the drafts that were made. `Arrive` and `Finish` come between, so a
request may end with a step of its own in flight, and the batch that a cap saw
need not be the batch of the step. Lists are objects, since under asynchronous
scheduling all requests start from one list of placeholders.

`BlockDrafter` is the drafter that fills all slots in one pass: candidates of
a sharded head, the walk that picks a path, the distribution kept for the
rejection sampler, and the KV it writes over freed blocks and rejected rows.
`CompressedHeads` says whose weights a packed head stands for, given the order
in which target and drafter are loaded, and holds the gate that decides for
a step whether reranked logits are all the sampler needs.

### What the worker keeps of a request

`ContextMirror`: `PrepareMatch` is `_prepare_match_gpu` with its search:
synchronise the new columns of the batch's rows, remember row and length,
forget who left, search each row. `Enter`, `Leave` and `Accept` are vLLM's
batch: requests enter, leave, return, and the rows are closed up in any order.
The atomic maximum over packed keys is a maximum over
`MatchLen * Shift + position`. Assumed of vLLM: request ids are not reused, a
request's text only grows, and the tokens read from `token_ids_cpu` are final
(true under synchronous scheduling; the controller is off under asynchronous
scheduling, `patch_moe_async.py`).

`GdnLazy`: a recurrent state is the sequence of tokens it has absorbed, so
"correct state" means "exactly these tokens". A mamba block's bytes hold a
state or a stash, and writing one destroys the other. `Migrate` is the
pre-forward materialise (mode 0), `Prefill` and `Decode` the forward with the
invalidation and `lazy_update`, `Checkpoint` the post-step materialise (mode 1)
with vLLM's bookkeeping. Rows of a batch touch disjoint blocks (proved:
`Disjoint` in `RequestsProofs`), so a step serves one request and steps
interleave. `Tables`, `Held`, `Arrive`, `Schedule`, `Finish`, `Evict` and
`AcceptedSlot` are vLLM's `align` mode as the code relies on it: two columns
per row (running and stash), rows that are only appended to, null columns
between, state blocks before the current one released. All requests follow one
conversation, so that prefix hits happen. `HitReach` says how many columns the
first step after a prefix hit may advance.

`GdnBuild`: several cache groups with one builder each; the first builds,
the others copy into the buffers their graphs have captured. The counts and the
index tensor are those of one pass over the batch; a padded row has length 0.
`GdnStep`: a step of one layer over prefill, decode and draft rows: the plan
and its refusals, the fall-back to the stock body, each path's reads and
writes, the stash's owner, and what is left of the output's pad rows. A token
is `<<turn, position>>`, and the state and the output of a row are named after
the token, so that "every row is answered once from its own state" is an
equality. `FusedUpdate`: the launch with a grid barrier between its
convolution and its update, from launch to launch.

### The engine's queue

`AdaptiveChunk`: `Budget`, `SoloLong` and `Hold` are the module's three
decisions; `Take`, `Schedule`, `WaitForStep` and `Pop` are the engine loop with
its queue of two steps, with the scheduler's order (running requests, then
waiting ones up to the first that gets nothing) and its block-aligned chunks.
`ahead` is a history variable: the tokens the GPU still has to work through,
or is given, before the first request that has not been scheduled; `Along` is
the rest of a step's budget from place to place of the queue. Left out:
paused streaming sessions, preemption, the other limits of the scheduler,
statistics.

### Linears

Each of these follows a weight from what the checkpoint stores to what a call
reads. Sizes are the real ones of the served models (the choices depend on
their divisors); bytes are abstracted to the form and order they are in.

* `MxLinear`: what the loader leaves in an MXFP4 layer (the order of the bytes,
  the row reference whose size says which kernel may serve it) and which
  kernel a call of M rows reaches, in `radiance_mxfp4.py` and in the host code
  of the `.hip` file.
* `RotLinear`: rotations of merged projections. Adjacent partitions with one
  rotation are one run; a block of columns has to read the copy of the
  activations its run was rotated for, in the layout and the scale grain its
  kernel expects.
* `Mxfp4Requant`: which layers are turned into MXFP4 at load, per-partition
  divisors, and the rounding to codes and block scales, on exact integers
  against a reference that searches all codes.
* `WeightHooks`: two hooks around `process_weights_after_loading` that do not
  know of each other, a hook that fails, the bracket around the drafter's load,
  and the kernel that later reads the weight.
* `DenseFp8`: the arena, the classes of layers, the self-check that must have
  compiled every variant before a graph is captured, and the fall-back of the
  experts' kernels.
* `EschaLoad`: sources and partitions of a trellis checkpoint cut over ranks.
* `AutoRound`: registration, the claim on a checkpoint, which module goes to
  the kernel, what loading leaves, and the kernel of a call.
* `Tp3Pad`: the widened configuration and every rule that pads a tensor.
* `Fp8Stream`, `RotStream`: the installers, run over a stack of layers, and the
  forward they leave: who reduces, and in which form each linear is handed its
  input. A hidden state counts the reductions it has been through. A linear of
  `Fp8Stream` is known by its row reference: the row's, the one-element
  placeholder of a layer that the kernel cannot serve, which
  `_linear_is_ours` takes as well, or none.
* `TiledRegistry`: the mark that an activation is in fragment order travels by
  address, under an allocator that reuses addresses.

### Attention and cache

`UnifiedAttention` and `R4dAttention` are the two backends: how a batch is cut
into launches, with the state between two calls in the first, and the
refusals, the metadata, the scratch and capture at the longest context in the
second. Answers name the row, the place and how much of the context was read.
`KvGroups` is the search for a group size, against every size.

### Patches

`SourcePatcher`: a file is a bag of fragments of text, so anchors that occur
twice and insertions that are made twice show; the order of the fragments
(`InOrder`) matters only to a write that is cut short. `BuildImage` bakes the image's
patches in, `StartContainer` and `LaunchHunk` are the launcher's list one hunk
at a time, `Serve`, `Stop` and `StopTorn` what ends a start (the last in the
middle of a write, which leaves the new text up to any fragment, its sentinel
in it or not), `ParseFails` the check before a write that refuses such a text,
and `Audit` the two passes of `audit_upgrade.py`. A text that was cut short may
also fail to import. The
patch set is that of the scripts that rewrite the
recurrent layers, with the shapes of each hunk, its sentinel, and what the
inserted text contains; the other scripts use the same two functions.

`Arith` has integer helpers.


## 3. Runs

| run | properties | what it shows |
|---|---|---|
| `ar_uniform` | `TypeOK`, `SumsThisCall`, `NoScratchRace`, `RankParity`, `AtMostOneCallAhead`, `AllCallsReturn`, `ImplementsCollectiveSum` | with one grid the double buffer is sound, ranks hold the same result, streams stay within a call of each other, every call returns, and the kernel implements `CollectiveSum` |
| `ar_dead_peer` | `AliveCallsReturn` | the poll limit lets two ranks finish when the third has stopped |
| `draft` | `BatchIndependent`, `NoWastedForward`, `AgreementStops`, `DecisionFrozen`, `ImplementsInline`, `PinIsPending`, `WidthEarned` | drafts are what each request would have got alone and decided inline, no pass is wasted, decisions are final; the verify width is narrowed only by the request's own history and climbs back, with two steps in flight or one |
| `engine` | `Rendezvous`, `DraftsAgree`, `PassedOverForTails`, `BigStepsRunAlone`, `PromptsFinish`, `LoopsEnd` | unless an exception strikes one rank and not the other, ranks meet in the same collective of the same pass and finish; if the local path raises so, they wait in different collectives for good; a short arrival that is next in line waits for the steps in flight and for the tails of earlier prompts only, no prompt starves |
| `requests` | `MirrorIsText`, `ContinuesOwnText`, `StartsFromContext`, `ReplayComplete`, `CheckpointsExact`, `BuiltForThisStep` | what the worker keeps of a request is that request's, however rows, blocks and cached states are reused |
| `layers` | `LinearsServed`, `RotatedRight`, `RequantNearest`, `WeightsAsStored`, `PaddingInvisible`, `StreamSound`, `PartialsOnce`, `ReadAsWritten` | a weight is read in the form it is held in, an activation in the form it was written in, and a partial sum is added up once; the combinations of kernels in which a weight or a pair is read otherwise are exactly those that `Misrouted` and `Misfed` name |
| `host` | `GraphAsEager`, `HeadsExact`, `RowsOnce`, `CacheSound`, `PatchedOnce` | captured passes read this pass's data and all ranks reach the same forward, a head that is scored is the head that was meant, every row is answered once, every file that was not cut short ends up patched once |
| `ar_mixed_grids` | `NoScratchRace` | violated: finding 1 |
| `gdn_lazy_jump` | `StartsFromContext` | violated: finding 2 |
| `rot_stream` | `StreamWhole` | violated: finding 3 |
| `patch_restart` | `AppliesTwice` | violated: finding 4 |
| `verify_adjusts` | `FastIsExact` | violated: finding 5 |

Every property of a passing run is violated by a named mutant of the code,
found by TLC under the same configuration; a property that speaks of several
modules has a mutant in each. Its parts are:

* `LinearsServed`: `LayoutAgrees`, `RowRefPresent` (MxLinear), `DecodeFits`,
  `ServesEveryBatch`;
* `WeightsAsStored`: `WeightsServed` (WeightHooks), `DenseServed` (DenseFp8),
  `ColumnsAsPartitioned` (EschaLoad), `AutoRoundServed` (AutoRound);
* `PaddingInvisible` (Tp3Pad): `ServedAsConfigured`, `HeadsKeepTheirPartners`,
  `ShardsAreWhole`, `ExponentsKept`, `CompleteLoads`;
* `StreamSound`: `ReducedOnce`, `PairsServed` (Fp8Stream), `StreamWhole`
  (RotStream);
* `PartialsOnce`: `SummedOnce`, `CounterClear` (SplitK), `OwnRowsOnce`
  (ArOverlap);
* `GraphAsEager`: `ReadsThisPass`, `OneForwardPerPass`, `CompiledBeforeCapture`,
  `RowsRoutedRight`;
* `HeadsExact`: `ScoresItsOwnHead`, `PackedOnce`, `FastIsExact`
  (CompressedHeads), `DrawnAsKept` (BlockDrafter);
* `RowsOnce`: `EveryQueryOnce`, `WideStreamsOnce` (UnifiedAttention),
  `AnsweredOnce` (R4dAttention), `RowsServedOnce` (GdnStep), `UpdatedOnce`,
  `BarrierOpens` (FusedUpdate);
* `CacheSound`: `CapacityBest` (KvGroups), `ContextIsText` (BlockDrafter);
* `PatchedOnce`: `AppliesTwice`, the text each file serves, and what the audit
  finds (SourcePatcher);
* `WidthEarned`: `NarrowedByItself`, `ClimbsBack` (DynWidth).

Four properties say where the code does not do what it means to, because nothing
in it refuses the case: `LayoutAgrees` and `RowRefPresent` hold but for the
calls they name, `PairsServed` but for the layers of `Misfed`, `Rendezvous`,
`DraftsAgree` and `LoopsEnd` until an exception strikes ranks apart, and
`PatchedOnce` but for a file that was cut short. Each says what happens there
as well, in both directions, so that a fault in another place, or the fault's
absence in that one, violates it. Section 5 has the cases.

### Bounds

* All-reduce: 2 ranks, 2 blocks, 4 calls of both kinds. A slot is reused after
  two calls and ranks are at most one call apart, so three calls show every
  reuse; the fourth shows the steady state after a call of the other kind. Two
  blocks are the least for which blocks of one call can be at different calls.
  With three ranks (`ar_dead_peer`) each has two regions and waits for two
  peers; one call there, since ranks that give up drift apart without bound.
  Safety holds for any number of ranks, blocks and calls by proof.
* Draft controller: three slots are the least with a first, a middle and a
  last; two confidences around the threshold 50 of 100 such that one, two or
  no low value spends it (60 * 60 < 50, 90 * 90 > 50, 90 * 60 > 50); a batch
  of two shows every influence of one request on another, since rows only meet
  in the conjunction that stops the loop. A second step, with what the first
  leaves to it, only where one request is alone (`Bounded`). Verify width: two
  requests, full width 2, both loops, up to two steps in flight, 7 steps and
  arrivals together: two observations narrow a list that four widen again with
  one more on the way. One request accepts as it likes, the other is always
  refused something (`Refused`), since requests only meet in the shared list and
  in the size of the batch. Wider lists and longer histories are in the proof.
* Engine: two ranks are enough for a rendezvous to fail; an exception at any
  slot of either of two steps, on one rank or both. Three clients let one arrive
  behind another's last step; prompts of 3 and 23 tokens, blocks of 4, cap 7,
  budget 8: the long prompt takes several steps of either kind and has a tail
  that fills a capped step, and with a chunk of another prompt before it more
  than the rest of one, so that a short request is passed over.
* Requests: four positions hold a match of length two that overlaps the
  suffix, two rows and requests every reshuffle, `Shift = 4` is the least that
  packs the positions. Lazy states: blocks of 4 with 3 drafts are the code's
  constraint (drafts fit a block) at its tightest, nine tokens cross two
  boundaries, prompts end before, behind and two past them, three blocks force
  recycling between a live request, its stash and the cache. Metadata: batches
  of up to three rows, two groups, two steps. The symmetry is sound: requests,
  tokens and blocks are only compared for equality.
* Layers: the linears of the served models as cut over one, two and three
  cards; batch sizes at every limit of a dispatch and one past it; streams
  three layers deep with at most one unfit linear in each, a placeholder or
  none; two and four splits over two launches; AutoRound checkpoints as served
  or with one thing changed; the switches as `serve-mxfp4.sh` forwards them,
  the ones that do not go together included (`ServingEnvs`: a split of K is
  forced only for the widest decode band, and shapes are taken from the folded
  kernels one way at a time; `StreamSwitches`: what leaves the stream out is
  taken with one setting of the rest).
* Host: two keys and five passes let one graph be warmed, captured and
  replayed around another; two ranks with a capture that fails on one. The
  block drafter has two slots and two passes, the least in which an entry
  outlives its pass. GDN steps: two requests, two turns, three steps, so that
  prefill, decode and draft rows mix in a step and follow one another. Grid
  barrier: two workgroups of two warps, two launches. Attention batches of up
  to three rows, one unsupported feature at a time; sampler requests with one
  thing out of the ordinary. The patched image is started three times: the
  third start is the first that finds everything in place after an interrupted
  second. A write may be cut behind any fragment; a cut within one is as if the
  fragment were not there.

### Fairness

* All-reduce: weak fairness of each block that the device holds and of each
  stream. Blocks that are resident keep being issued, and a stream moves on when
  its kernel has ended. A block that waits for its turn is sure to start only
  when it would be the only one, so the runs stand for devices that hold any
  number of a grid's blocks from one to `Resident`. In `ar_dead_peer` only the
  ranks in `Alive` are fair.
* Engine: each worker process runs, and a collective that all ranks have
  entered completes; the engine loop's thread runs and the GPU finishes what
  it was given. Nothing is assumed of clients.

The other runs check safety, and refinement of safety only.

CHECK_DEADLOCK is off in `draft`, `engine`, `layers` and `host`, where the
instances bound the number of steps: the model stops where the server would go
on. That nobody waits forever is in those runs the temporal properties
`LoopsEnd` and `PromptsFinish` and, for the grid barrier, the invariant
`BarrierOpens` (a launch under way can go on). The all-reduce and `requests` runs check
deadlock.

## 4. Proofs

| theorem | module | for every |
|---|---|---|
| `TypeCorrect` | OneShotAllReduceProofs | group size, call sequence, wrap, poll limit |
| `SumsCorrect`, `RaceFree`, `SkewCorrect`, `ParityCorrect`, `Refinement` | OneShotAllReduceProofs | group size and call sequence with one grid, no wrap, no spin that gives up |
| `TypeCorrect`, `AgreementCorrect`, `FrozenCorrect`, `OverlapRefines`, `PinCorrect` | DraftProofs | schedule, threshold, width, batch |
| `DraftsAreSolo`, `NoPassWasted` | DraftProofs | the same, and every confidence and answer of the matcher |
| `WidthsEarned` | DraftProofs | width, margin, floor, batch size, requests and steps, both engine loops |
| `DeferralIsInvisible` | DraftProofs | the composed specification of `draft` |
| `RendezvousCorrect`, `AgreementOfRanks` | RanksProofs | number of ranks, slots and steps, with an exception on any of the ranks, at any slot |
| `BigStepsAlone` | RanksProofs | clients, prompts and budgets, with SYNC |
| `ShortRequestsPass` | RanksProofs | clients, prompts and budgets, where the cap leaves room for the decode rows (`RoomForDecodes`) |
| `MirrorCorrect` | ContextMirror | number of rows, requests, tokens, lengths |
| `TextContinued` | RequestsProofs | the same, where no match is longer than the packed maximum has room for |
| `ResumesRight`, `ReplaysWhole`, `CheckpointsRight` | RequestsProofs | requests, blocks, block size, drafts, conversation and prompts, where a prefix hit is continued by one column |
| `GroupsBuiltRight` | RequestsProofs | groups, batches, order of steps |
| `RequestsRight` | RequestsProofs | the composed specification of `requests`, under the two conditions above |
| `SplitSums` | LayersProofs | number of slabs, blocks, threads and launches, each with its own split |
| `PartialsMeet` | LayersProofs | the same, and every number of calls, slices, streams' interleavings |
| `StreamsReduceOnce`, `StreamRotates` | LayersProofs | depth, mix of layers and switches, where every recurrent layer has its kernels (`HipEverywhere`) |
| `LinearsRotate` | LayersProofs | partitions whose inner ends are at whole blocks, tensors with one rotation for each partition (`RotLinearAssumption`), modes and rows |
| `GraphsReplayEager` | HostProofs | plan of passes, ranks, batches, captured sizes |
| `HeadsAreExact`, `TopTokensRight` | HostProofs | vocabulary, ranks, lanes, drafters, requests that do not change their row before sampling (`NoneAdjusts`) |
| `FusedUpdatesOnce` | HostProofs | workgroups, warps, heads, sequences and launches |
| `PatchesGoInOnce` | HostProofs | patches, files, image and launcher that the audit calls clear (`AuditClear`) and whose hunks put in the sentinels they look for and leave one another's alone (`Marked`); starts and stops |
| `GroupsHoldMost` | HostProofs | buckets of layers, blocks a layer costs, limit on groups, pool |
| `PagesHoldText`, `CacheIsSound` | HostProofs | page size, stride, attention window, blocks, slots, prompts, batches, how much of a draft the target accepts, what leaves the window and which blocks are given out; for `CacheIsSound` also those of `GroupsHoldMost` |
| `QueriesOnce` | HostProofs | batches, contexts, head geometries and cache dtypes |
| `TokensAnsweredOnce` | HostProofs | batches, captured graphs, sizes, heads and rows of a workgroup; models that ask only for features of a fixed list (`RaKnown`) |
| `LaunchesServe` | HostProofs | the composed specification of `host`: the constants of the two rows above and of `FusedUpdatesOnce`: all of `RowsOnce` but `RowsServedOnce` and `BarrierOpens` |
| `RegistryCorrect` | TiledRegistry | addresses, shapes, batches and limit |

Assumptions are the modules' named `ASSUME`s and the conditions in the
theorems' statements. These are necessary: dropping `UniformGrid` gives
finding 1; without `NoWrap` one call of a block goes through without waiting
after 2^32 calls (remarks); a spin that gives up (`SpinsOut`) reads whatever is
there;
`HitReach` of 2 gives finding 2; without `HipEverywhere` there is finding 3,
without `NoneAdjusts` finding 5; without `Marked`, which the served launcher
meets, there is finding 4; a match longer than `Shift` spills into the
position's neighbour, and a cap without `RoomForDecodes` lets a long prompt
starve a short one (remarks).

Where a model is composed (`MCDraft`, `MCRequests`, `MCLayers`, `MCHost`), a
behaviour of the composition is one of each component, and the theorem about
the composition follows from those about its parts. What is defined by
recursion over places or slots is proved with the least counterexample
(`HasLeast`, `NatSteps`): a set of numbers with 0 and the successor of each
member has all numbers. `StepByStep` (in HostProofs `Unrolls`) gives the
function that such a definition names.

*All-reduce.* The properties are not inductive. The invariant `SafeInv` adds:
counters agree with calls (`Counters`: a block's counter is the call's number
once it has started, and the number before until then), flags are counters
of the past (`FlagsCount`), what a block has heard of its peers (`Heard`), and
for the buffers: work lies in the block's chunk (`WorkInChunk`), a word that a
block of call k has pushed holds k (`Pushed`) and keeps holding it as long as
the receiver may read it (`PushedBefore`). The heart of the argument is
`Skew`: a rank in call k has heard from every peer in call k-1, so nobody is
two calls apart, so the slot of the other parity is the only one anybody
stores into. The refinement needs that blocks' chunks cover the message
(`ChunksCover`) and that a block that is done has reduced its chunk
(`DoneHasRead`).

*Draft controller.* `IInv` is the type invariant, the shape of the gate rows
by program counter, and `AgreementStops`. The overlapped controller refines
the inline one under a mapping that shows a deferred slot as not yet sampled;
`OInv` says which of `pending`, `pin` and `landed` go together. That a draft
is the one its request would have got alone is `SoloInv`: each row's record is
what a controller of that row alone holds after the slots that have been
decided (`RowIs`, over `InlineSlot`), whatever the other rows did; and as long
as the loop runs some row needs the pass (`Needs`), so no pass is one too many.

*Verify width.* `DwInv` says that the average of a request stays at the full
width until it was refused a draft, and what each number of whole lists in a row
has lifted it to (`EarnedOf`, `Climbed`). The first of four lists finds an
average of at least 100i - 100 hundredths; observed whole, two of them bring
it beyond 100i, so what is cut from then on is wider than i. A list that was
made before the evidence, in flight or next (`PipelineOf`), is as wide as the
streak asks for once what is before it has been observed (`Unseen`); four steps
a draft leave room for the two observations that are on the way. And a list is cut by nothing but
its own request's average (`CutByItself`), although all requests start from
one list of placeholders.

*Ranks.* `Lockstep` relates every two ranks: one that has not begun the others'
step stands before their first pass (`Lag`), two that are both in a step are in
the same pass (`SamePass`), nobody is past the reductions before all are
(`SameHalf`), and the latch that falls back to gathered logits has closed on
both or on neither, but for a rank on its way to find out (`SameLatch`,
`Decided`). What a rank found out follows from the fault alone (`Known`). All
this holds until an exception strikes some ranks and not others
(`StruckApart`). Where that was the local path, the ranks that were struck stand
in the gather of the logits and no other rank ever enters it (`Parted`), so the
step never ends on any of them. `TogetherOrApart` is the disjunction, and is
inductive.

*The engine's queue.* `AcInv` says that a request is in one queue once, and has
computed nothing before it runs (`QueuesApart`); that before its tail a prompt
has been computed in whole blocks (`Aligned`); and that two steps are in flight
at most, under SYNC the second of them capped (`FlightBounded`). Then a big
step finds nothing in flight because the budget and the hold count the same
queue. If a short request is passed over, the budget was spent before its place
(`AlongIs`, `GivenIs`); if no tail got any of it, it went in whole blocks and
decode rows (`ChunkIs`), and by `RoomForDecodes` these cannot add up to the cap
(`NotFilled`).

*Mirror.* `IInv` is `TypeOK /\ MirrorIsText`; the work is in `SyncedText`,
that copying only the columns after the remembered length suffices on every
row, whoever used it before.

*Lazy states.* The argument is about ownership. `LazyInv` says that what two
requests both hold is cached (`Disjoint`), that a cached block is in its place
in every table (`CachedInPlace`) and is exact (`CheckpointsExact`), that from
its running column on a request's blocks are its own (`OwnBlocks`), and what
they hold (`Contents`): the running block has all but the last `nacc - 1`
tokens, and the stash, under a header that names that block, has those. A block
a step writes is held by its request and is not cached, so neither the cache
nor another request reads it (`Frame`); what the request itself reads was left
by its own writes. The scheduler only puts into a table what was kept, what is
free, or the former stash (`ColumnsAre`). `ReplayComplete` and
`StartsFromContext` then follow from `Contents` at the step's two ends.

*Matcher.* The atomic maximum over packed keys finds the longest match, and of
those the latest, because packed keys are ordered as the pairs are while a
length fits below `Shift`; the maximum over a finite set exists (`MaxIs`).

*Metadata.* `GbInv`: the stash is a build of this step, of a batch with drafts
only; a group that is done holds what its own build would have given; and the
tensor that is handed round is never one a graph has captured.

*Split GEMM.* The invariant counts: the counter is the number of blocks of the
launch that have arrived, until the last one has taken it back to zero; a slab
whose block has arrived holds that launch's part; nobody reads before all have
arrived. Launches are ordered by the stream, each with its own split.

*Overlapped all-reduce.* The two queues and the events between them say, for
each slice, how far it is: being multiplied, waiting, being reduced, done. A
buffer's next use is queued behind the event of its last, in either order of
the streams and however far the host is ahead.

*Streams.* A hidden state counts its reductions. For the fp8 stream exactly one
of a layer's linear and the fused site behind it reduces (`OneReducer`) while
the installer is anywhere (`NotYetInstalled`, `HandedOn`), and what the
installer has opened follows from the model and the switches alone (`SitesOpen`,
with `ActSite`, `GnqSite`, `MidSite`, `InSite` for the four kinds of site): so a
pair reaches a linear that cannot read it in exactly the layers of `Misfed`. For
the rotated stream `OneRsReducer`
and `SitesFit` play these parts.

*Merged linears.* Runs are counted by their starts (`RunCounts`), and every
partition of a run has its start's rotation (`RunStarts`). The sums of the
runs' sizes are the sums over the partitions of all runs so far (`RunsEnd`), so
a partition lies within its run's copy (`InItsCopy`); it begins at a whole
block (`EvenStarts`), so no block that it is in reads another run's copy
(`CopyIs`).

*Captured passes.* A rank that holds a graph of a shape has used the shape
before, and so compiled it (`EagerBeforeGraph`), and each forward has read
what belongs to its own pass (`ReadOf`), whichever of the forms it took. For the padded
rows the count on the device is the host's copy of it at every read.

*Heads.* `HdInv` says by the stage of loading whose weights each head has and
how often it was packed. The block drafter's kept distribution survives because
what a pass keeps for one slot it erases in every other place
(`ErasedElsewhere`); and the candidates are right because a token among the
best of the vocabulary is among the best of its shard (`TopTokensRight`).

*Grid barrier.* `FuInv`: the counter is the number of workgroups that have
arrived until the last one resets it; the warps of a workgroup pass together;
and items are dealt out by residue, so each has one warp.

*Patches.* A hunk only looks at its own file (`ApplyIsLocal`), so `SpInv` speaks
of each file alone. One that no stop cut short is what the uninterrupted run
has in its place at some point of the launcher's list (`TextAt`, `Reached`);
the sentinels of the file's hunks before that point are in it (`MarksKept`),
and a start has not gone past that point (`Ahead`). So a hunk either finds its
sentinel or goes in as it would have gone in then. A file that was cut short
has lost its closing lines, and no hunk puts them back (`CutStaysCut`,
`TornCut`).

*Groups.* Cutting a bucket evenly into the groups that a size gives makes
groups of another size, which gives the same number of groups (`CutsIs`); this
is the size the search computes with, so every size has one among the
candidates that costs no more (`CheaperHolds`), and the search keeps the least
of what it looked at (`BestIs`).

*Drafter's pages.* The invariant (`CtInv`) is `ContextIsText` with three facts
about the table. Two entries name one block only if they are one entry
(`Owned`), or a step would overwrite another request's page. The page a text
ends in is resident unless the text ends with it (`LastResident`): without
this a request could be given a new block in the middle of a page, and the
text before it would be missing. And the fused K/V weight holds the layers'
own rows from the profiling pass on at the latest (`RowsKnown`).
The blocks a step gives out are distinct and nobody's (`GivenIs`,
`TablesAre`), so a place in the cache determines one request and one position
(`PositionIs`); what a step writes where a text position is placed is that
position, and only beyond the text that was there before (`WritesFollow`,
`TextKept`). Rejected rows stay behind the end of the text and are written
again before the text reaches them.

*Attention launches.* A block of the grid finds its sequence by the quotient
of the tokens before it. Quotients of parts add up to no more than the quotient
of the whole (`QuotientsAdd`), so the block of a sequence's last position lies
before the next sequence's first block and within the grid, and a block's
number determines its range of positions (`OneBlock`). The invariant (`UaInv`)
says that the grid was counted with the block width that the launch uses
(`Covers`): a width is left pending exactly while the selected call fills the
wide block. In the R4D backend a batch is cut into runs of equal query length.
A token of a run is in the row its distance from the run's first token says
(`WithinRun`), and every row with tokens is in one run (`EachInRun`). A replay
uses the plan of the graph's own batch; the padded batch has its tokens at the
same places (`SameToks`), so the plan answers them too (`ReplayAnswers`). The
scratch that was allocated is the largest any served launch wants
(`LaunchFits`).

*Registry.* At an address with a tensor the table has the shape of that tensor
if it is tiled, and nothing otherwise; at an address without one it has
nothing, since the consumer takes the entry out with the tensor.

Model-checked only: liveness (all of it), and `BarrierOpens`, which speaks of
ENABLED (`FusedUpdatesOnce` proves in its place that some warp's guard
holds); `LinearsServed`, `RequantNearest`, `WeightsAsStored` and
`PaddingInvisible`, which are case distinctions over the real shapes of the
served models that the runs exhaust; and of `RowsOnce` the recurrent layers'
`RowsServedOnce`, whose steps filter and flatten sequences.

## 5. Findings and remarks

1. `ar_mixed_grids`. The receive slot is the parity of a per-block counter,
   and a block counts only the calls whose grid includes it. When grids
   differ, blocks of one call use different slots, chunks overlap those of
   other blocks, and a store races a read. The comment that justifies the
   double buffer (rx10.patch:388-390) argues per rank, not per block. Sharing
   the counters between the exact and the fused kernel has the same effect
   when their grids differ.
2. `gdn_lazy_jump`. The migration returns when the column after the source is
   null (rx10.patch:1488), though a copy without replay needs no stash. After a
   prefix hit whose first step ends two or more columns on, the running block
   keeps what it held. The launcher's comment suspects the checkpoint
   (serve-mxfp4.sh:284-296); `ReplayComplete` and `CheckpointsExact` hold.
3. `rot_stream`. When a layer cannot be replaced after the one before it was
   told to leave its all-reduce out, the take-back
   (`radiance_paroquant.py:811-812`) clears the consumer's `_pq_ar_in`; the
   layer before keeps `reduce_results = False`, and its partial sum enters the
   next norm unreduced.
4. `patch_restart`. The sentinels of `patch_gdn_lazy.py` are a common one and a
   word more (line 65), which no inserted text contains. A container that is
   stopped and started inserts the helper again and then fails at the first
   hunk whose anchor is gone. `_patchlib.py:4` promises idempotence.
5. `verify_adjusts`. The gate of the verify head asks about temperature,
   `top_k`, `min_p`, logprobs and grammar (`radiance_verifyhead.py:153`), never
   about `logit_bias`, penalties, `allowed_token_ids` or `bad_words`, which the
   sampler applies first and which can lift a token that was not reranked.

Remarks without a run. About the all-reduce and the ranks:

* Flags are compared with `>=` on 32-bit numbers: after 2^32 calls of a block
  one call goes through without waiting. At some thousands of reductions a
  second that is a matter of days.
* The latch that degrades to gathered logits is local to the rank that raised
  (`radiance_draft.py:148`). An exception on some ranks only does take the
  serve down, against the comment at 46-48: they wait in the gather of the
  logits, their peers in the reduction of the statistics. When the matcher
  raises on some ranks only, they do not stop the loop where the others do.
  `Rendezvous` and `LoopsEnd` say so of just these faults.
* An exception in the middle of `radiance_gdnmerge.py`'s installation, or of
  the rotated stream's, leaves the layers before it without their all-reduce;
  the third stage of the rotated stream may also fail to set up on one rank
  only.

About recurrent state:

* The base check in the stash header, the invalidation at prefill and the
  header reset at migration are each redundant: the accepted count is 1 after
  each of these events, so nothing would be replayed.
* In lazy mode a step of plain decode rows takes the stock body, which does not
  replay the stash, where the comment at `radiance_gdn.py:104` says it must
  raise and never fall back; a batch that mixes drafts with a plain decode row
  raises. Whether this is what serve-mxfp4.sh:284-296 observed, the models do
  not say.
* The zero fill of pad rows that `EMPTY_OUT` and `STRIDED_GATES` promise
  (`radiance_gdn.py:22-23`) sits inside the guard of `ALL`
  (`patch_gdn_glue.py`): with `ALL` off and the others on, pad rows keep what
  the buffer held. `GdnStep` excludes that combination.
* The plan gives up the stash's owner before its checks of types: a step
  that is then declined leaves the owner's stash marked as valid.

About linears:

* `DECODE_KS=3` passes the divisibility test and overflows the check of the
  scratch; for AutoRound it launches a grid of three for a kernel compiled for
  four. On one card AutoRound's merged gate and up projection (34816 rows) is
  past the decode kernel's limit and always takes the prefill one. Its
  `in_proj_ba` is left in bf16 only because the pattern for `in_proj_b` is
  searched for, not matched.
* The launcher forwards switches of the linears that do not go together
  (serve-mxfp4.sh:601-612, 952, 1000-1007), and nothing refuses them. With the
  permuted layout, a lower limit of rows sends small batches of a permuted
  layer to aiter, and a shape kept for the per-block kernel reads it there; with
  hoisted quantisation or the stream, a shape that was left to aiter reaches
  the folded kernel, without the permutation and without a reference per row.
  `Misrouted` and `RowRefPresent` say which settings and which calls these are.
* `_linear_is_ours` takes any linear that has a reference of ours
  (`radiance_arnq.py:255`), a placeholder too, though its docstring wants the
  one the pair is read by (25-26, 260); a bf16 merged `in_proj` satisfies the
  guard `_rad_merged`, but the forward that is installed reads `_rad_ws`
  (`radiance_mxfp4.py:809`); and a row-parallel linear whose all-reduce is
  overlapped is handed pairs its op does not take. `Misfed` says in which
  layers.
* The offline quantiser rounds ties to the even code after taking the argmin,
  by halving the code (`quantize_dflash_mxfp4.py`), the online one by the
  first of two equal distances. The clamp of the exponent in the search for the
  least square error admits the byte -1.
* The w4 path with its limit set above 64 finds no band for the rows between;
  the w4a8 reference copy is kept by data pointer; the trellis kernels' scratch
  may grow after a graph was captured; the shortlist kernel of 2-bit heads
  needs K a multiple of 512, which the loader does not ask.

About drafting and serving:

* `radiance_adaptive_chunk.py` says an arrival waits for the rest of a big step
  plus its own, and that a second long prompt is floored to one block. A
  capped tail may still be scheduled behind a big step, and under MTP, with
  one recomputed block, a tail may fill a whole capped step, or what a chunk
  before it leaves of one. What holds is `PassedOverForTails`: a short
  request that is next in line waits for what is in flight, and then only for
  capped steps in which a tail gets on. It needs a cap that whole blocks and
  the decode rows do not fill (`RoomForDecodes`). The launcher's
  cap of 4096 leaves 1936 tokens beside a block of 2160, more than 16 rows of
  nine; with a cap that is a multiple of the block a prompt in the middle
  takes all of it and a short request waits for that prompt's end. `_check` only asks for
  0 < CAP < BIG.
* `_patchlib.py` writes a file in place. When the container is stopped in the
  middle of it, what is left counts as patched if the sentinel is in it, and
  a later start serves it unless another hunk needs text that was lost or the
  file no longer parses where it is imported. `PatchedOnce` leaves out just
  that file.
* A floor of 0 drafts with a margin of 0 would narrow a request to nothing for
  good, as lists without drafts are not observed; the model asks for at
  least one. The size of the batch is looked at when a list is made, not when
  it is verified.
* Under synchronous scheduling the verify width can narrow after a list that
  the grammar cut was accepted whole.
* The packed match key has 20 bits for the end position
  (`radiance_draft_gpu.py:37`): the limit of the served contexts is below it.
* The verify gate's flag stays set for later callers of `compute_logits` in the
  same step; with a vocabulary that is sharded in the way of version 0.29 the
  hook is skipped without a message. `_apply_head_lazy` would call itself if
  `_quantize_head_now` declined.
* `_cache_draft_logits_kernel` orders its erase before its write by running in
  one warp. With exactly one of the two upstream DFlash modules present,
  `install_modules` overwrites both.
* `audit_upgrade.py` counts only isolated failures in its summary and keeps the
  first lane's verdict where both report.
* `calibrate-kv.sh:220` keeps the backed-off pin only if it is above the
  profiled size. When just the first step served, backing off gives the
  profiled size, and the pin is stored without the margin its header promises.

## 6. What is not modelled

* Arithmetic: number formats beyond rounding to codes, matrix kernels,
  rotations, trellis decoding, the recurrence. It is over large tensors of
  floats; which kernel serves a call, and on what layout, is modelled.
* Launchers, templates, monitoring and offline tools keep no state that
  interleaves. `gpu-detect.sh` and `calibrate-kv.sh` are shell scripts around
  whole server starts.
* The asynchronous MoE lane is a switch that turns the controller off; the
  knobs of the all-reduce's geometry only change grids, which are a parameter.
* Patches that replace one place in a third-party source and have no state.
* Memory ordering below the level of "a store lands before the flag that is
  released after it": `Drain` is the hardware's promise about the
  wait-for-stores instruction.
* The compressed all-reduce (wht6) is a library unit outside the repository.
* Within modelled parts: `GdnStep` leaves out lazy steps with plain decode
  rows and the switches named above; `FusedUpdate` sequences without a slot and
  launches that abort; `MxLinear` the experts; `BlockDrafter` the clamps at the
  model's length, sampling noise and context parallelism; `SourcePatcher` the
  scripts beyond those that patch the recurrent layers; `AdaptiveChunk`
  and `DynWidth` preemption, the former paused sessions too. The notes in
  `PROJECT.json` name the rest.

## 7. Plan

What is left, in order of importance:

1. Lazy steps with plain decode rows, in `GdnLazy`, against the remark above.
2. `GdnLazy` against a specification that keeps every candidate's state (the
   eager mode); `DraftRanks` over the all-reduce's `CollectiveSum`.
3. Proofs: `RowsServedOnce` for any batch.
4. The all-reduce with loads and stores below program order.
5. KV calibration; context parallelism in the block drafter.
