-------------------------------- MODULE MCHost --------------------------------
(* What is arranged around the model: the graph the draft passes are replayed   *)
(* from and the padding of its rows, the drafter of whole blocks, the heads that *)
(* score drafts and verify steps, the launches of attention and of the recurrent  *)
(* layers, the grouping of the KV cache, and the patches all of it is installed  *)
(* by.  A behaviour exercises one component, focus, and the others stay in one   *)
(* initial state.                                                               *)
EXTENDS DraftGraph, PadRoute, BlockDrafter, CompressedHeads, UnifiedAttention,
        R4dAttention, GdnStep, FusedUpdate, KvGroups, SourcePatcher

-------------------------------------------------------------------------------
(* DraftGraph: batches of one and two requests, padded to five rows.             *)

GraphKeys == {<<1, 5>>, <<2, 5>>}

(* BlockDrafter: a checkpoint that drafts blocks, as it was trained and quantised *)
(* with a wider selector, and one that does not; two heads that agree on little.  *)

BlockEnv(arch, format, override, varies) ==
    [arch |-> arch, format |-> format, override |-> override, varies |-> varies]
BlockEnvs ==
    {BlockEnv("DFlash2DraftModel", "bf16", 0, "block"),
     BlockEnv("DFlash2DraftModel", "mxfp4", 3, "text"),
     BlockEnv("DFlashDraftModel", "fp8", 0, "text")}
BlockHeads == {<<<<5, 1, 4, 2, 3>>, <<1, 2, 3, 4, 5>>>>, <<<<1, 5, 2, 4, 3>>, <<2, 5, 1, 3, 4>>>>}

(* CompressedHeads: every lane and drafter; greedy and sampled                   *)
(* requests, of which at most one thing is out of the ordinary.                  *)

HeadModes == [lane : {"fast", "moe"}, drafter : {"mtp", "dflash"}, verify : BOOLEAN]

AllRequests ==
    {q \in [greedy : BOOLEAN, topk : {20, 64, 1000}, minp : BOOLEAN, logprobs : BOOLEAN,
            grammar : BOOLEAN, adjusts : BOOLEAN] :
        /\ q.greedy => q.topk = 1000
        /\ Cardinality({f \in {"minp", "logprobs", "grammar"} : q[f]}) <= 1
        /\ q.minp \/ q.logprobs \/ q.grammar => q.greedy \/ q.topk = 20}

\* Requests that leave the logits as the head computes them.
PlainRequests == {q \in AllRequests : ~q.adjusts}
\* Requests with a logit bias, a penalty or a list of allowed tokens as well.
AdjustingRequests == {q \in AllRequests : q.adjusts => ~q.minp /\ ~q.logprobs /\ ~q.grammar}
Slots == 1 .. 2

(* UnifiedAttention: decode and verify batches, prefill, batches at the limit of  *)
(* 128 rows, and the geometries of the served models.                             *)

AttnBatches ==
    UNION {[1 .. n -> {1, 2, 9, 10, 13}] : n \in 1 .. 3}
    \cup {<<256>>, <<300, 5>>} \cup {[i \in 1 .. 8 |-> 16], [i \in 1 .. 9 |-> 16]}
AttnShapes == [head : {256, 512}, ratio : {4, 6, 8}, kvHeads : {2}]
AttnEnv == [maxQ |-> 16, rows |-> 128, threshold |-> 16]

(* R4dAttention: batches of up to three rows, of which any may be padding, a      *)
(* decode, drafts, or one query more than a workgroup has rows for; models that   *)
(* ask for one thing more than the kernels compute.                               *)

R4dRows ==
    {[q |-> 1, ctx |-> 40], [q |-> 1, ctx |-> 200], [q |-> 3, ctx |-> 40],
     [q |-> 10, ctx |-> 100], [q |-> 11, ctx |-> 100], [q |-> 0, ctx |-> 0]}
R4dBatches ==
    {b \in UNION {[1 .. n -> R4dRows] : n \in 1 .. 3} : \E i \in DOMAIN b : b[i].q > 0}
R4dModels ==
    {{}} \cup {{f} : f \in {"soft cap", "sinks", "gqa", "sliding window", "context parallel",
                           "no library", "head size"}}
R4dGraphs == {<<2, 1>>, <<4, 1>>, <<2, 3>>}

(* GdnStep: the served setting and those that differ from it in one or two        *)
(* switches.                                                                      *)

Served ==
    [lib |-> "all", state |-> "fp32", geometry |-> TRUE, lazy |-> FALSE, fused |-> FALSE,
     emptyOut |-> TRUE]
StepEnvs ==
    {[Served EXCEPT !.fused = TRUE], [Served EXCEPT !.lazy = TRUE],
     [Served EXCEPT !.lazy = TRUE, !.geometry = FALSE],
     [Served EXCEPT !.lib = "fp32 only", !.state = "fp16"],
     [Served EXCEPT !.state = "fp16", !.emptyOut = FALSE]}

(* KvGroups: attention and recurrent layers in the served proportions, with a     *)
(* drafter's few layers, and buckets that no group size divides.                  *)

Bucket(l, b) == [layers |-> l, blocks |-> b]
KvModels ==
    {<<Bucket(a, 9), Bucket(b, c)>> : a \in {12, 24, 48}, b \in {4, 5, 16}, c \in {20, 160}}
    \cup {<<Bucket(48, 9), Bucket(16, 160), Bucket(d, 8)>> : d \in {1, 3, 5, 7}}
    \cup {<<Bucket(7, 3), Bucket(6, 4)>>, <<Bucket(5, 2)>>}
KvEnvs == [opt : BOOLEAN, forced : {0, 6}, config : BOOLEAN, maxGroups : {3, 24}]

(* SourcePatcher: the patches of the recurrent layers.  The lazy mode's is kept   *)
(* apart: it is off unless asked for.                                             *)

Baked == <<"r4d", "metadata">>
AtLaunch == <<"shared", "glue">>
AtLazyLaunch == <<"shared", "glue", "lazy">>
OldFiles == StockFiles("old")

-------------------------------------------------------------------------------
Components ==
    {"graph", "padding", "block drafter", "draft head", "verify head", "attention",
     "r4d attention", "gdn step", "fused update", "kv", "patches"}

CONSTANT Focus  \* the components this run exercises

VARIABLE focus

all == <<focus, dgVars, prVars, bdVars, hdVars, vhVars, uaVars, raVars, gsVars, fuVars, kgVars,
         spVars>>

AnyOf(S) == CHOOSE x \in S : TRUE

\* A component that is not in focus has one initial state.
MCInit ==
    /\ focus \in Focus
    /\ DgInit /\ PrInit /\ UaInit /\ FuInit /\ SpInit
    /\ BdInit /\ (focus = "block drafter" \/ bdEnv = AnyOf(BdEnvs))
    /\ RaInit /\ (focus = "r4d attention" \/ raModel = AnyOf(RaModels))
    /\ GsInit /\ (focus = "gdn step" \/ gsEnv = AnyOf(GsEnvs))
    /\ HdInit /\ (focus = "draft head" \/ hdMode = AnyOf(HdModes))
    /\ KgInit /\ (focus = "kv" \/ (kgEnv = AnyOf(KgEnvs) /\ kgModel = AnyOf(KgBuckets)))
    /\ VhInit /\ (focus = "verify head" \/ vhParams = [s \in VhSlots |-> AnyOf(VhRequests)])

MCNext ==
    /\ UNCHANGED focus
    /\ IF focus = "graph" THEN DgNext ELSE UNCHANGED dgVars
    /\ IF focus = "padding" THEN PrNext ELSE UNCHANGED prVars
    /\ IF focus = "block drafter" THEN BdNext ELSE UNCHANGED bdVars
    /\ IF focus = "draft head" THEN HdNext ELSE UNCHANGED hdVars
    /\ IF focus = "verify head" THEN VhNext ELSE UNCHANGED vhVars
    /\ IF focus = "attention" THEN UaNext ELSE UNCHANGED uaVars
    /\ IF focus = "r4d attention" THEN RaNext ELSE UNCHANGED raVars
    /\ IF focus = "gdn step" THEN GsNext ELSE UNCHANGED gsVars
    /\ IF focus = "fused update" THEN FuNext ELSE UNCHANGED fuVars
    /\ IF focus = "kv" THEN KgNext ELSE UNCHANGED kgVars
    /\ IF focus = "patches" THEN SpNext ELSE UNCHANGED spVars

MCSpec == MCInit /\ [][MCNext]_all

-------------------------------------------------------------------------------
(* What the components promise together                                        *)

\* A replayed pass is an eager one: it reads the tensors of this pass on every
\* rank, one forward runs for each, nothing is compiled inside a capture, and the
\* rows a graph is padded with leave the real rows' experts alone.
GraphAsEager ==
    ReadsThisPass /\ OneForwardPerPass /\ CompiledBeforeCapture /\ RowsRoutedRight

\* What stands for a head is exact: a packed head scores with the head it stands for, is
\* packed once, and serves nothing that the sampler could tell from the exact one; the
\* distribution kept of a drafted block is the one it was drawn from.
HeadsExact == ScoresItsOwnHead /\ PackedOnce /\ FastIsExact /\ DrawnAsKept

\* The KV cache is grouped for the most capacity, and a drafter's pages hold the text.
CacheSound == CapacityBest /\ ContextIsText

\* Every row of a batch is served once: of attention by one block of one launch that
\* reads its wide streams once, of a recurrent layer by the path its step takes, and in
\* its fused launch, whose barrier opens every time, from this launch's own q, k and v.
RowsOnce ==
    /\ EveryQueryOnce /\ WideStreamsOnce /\ AnsweredOnce
    /\ RowsServedOnce /\ UpdatedOnce /\ BarrierOpens
===============================================================================
