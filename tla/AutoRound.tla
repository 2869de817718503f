------------------------------ MODULE AutoRound ------------------------------
(***************************************************************************)
(* Int4 checkpoints of AutoRound (radiance_autoround.py, its module, and   *)
(* patch_autoround.py): a quantization config that has to be registered    *)
(* before vLLM resolves the checkpoint, claims what its kernel computes,   *)
(* and sends every module to the kernel or to the stock bf16 linear; then  *)
(* what loading leaves of a weight, and which kernel a call is given.      *)
(*                                                                         *)
(* A module is [root, leaf, sources, n, k]: where vLLM has it, its name    *)
(* there, the checkpoint's modules it is merged from, and its shard.       *)
(***************************************************************************)
EXTENDS Arith, FiniteSets

CONSTANTS
    AuEnvs,      \* [on, imports, decMax, forcedKs]: environment and image
    AuConfigs,   \* [bits, group, sym, blocks, held], and the zero point of the weights
    AuModules,   \* the linears of the model
    AuRows       \* rows of a call

VARIABLES
    auEnv, auConfig,
    auStage,    \* "import", "resolve", "build", "load", "profile", "capture", "serve" or "stopped"
    auFrom,     \* by module: "" until built, then "kernel" or "bf16"
    auOrder,    \* by module of the kernel: "" until loaded, "packed" or "rows" after
    auScratch,  \* rows the split-K scratch is sized for; 0 until it is registered
    auCall      \* the last call

auVars == <<auEnv, auConfig, auStage, auFrom, auOrder, auScratch, auCall>>

AuGroup == 128
AuTile == 16          \* DEC_MTILE
AuMaxTiles == 8       \* AR_DEC_MAX_TM
AuMaxN == 32768       \* _DEC_MAX_N
AuMaxKs == 4          \* _DEC_KS
AuNoCall == [m |-> 0, kernel |-> "", ks |-> 0, grid |-> 0, rows |-> 0, order |-> "", late |-> FALSE]

AuInit ==
    /\ auEnv \in AuEnvs /\ auConfig \in AuConfigs /\ auStage = "import"
    /\ auFrom = [x \in AuModules |-> ""] /\ auOrder = [x \in AuModules |-> ""]
    /\ auScratch = 0 /\ auCall = AuNoCall

\* The end of the quantization package's __init__; a failing import is swallowed.
Registered == auEnv.on /\ auEnv.imports

\* override_quantization_method, whose conditions from_config repeats.
Claims == auConfig.bits = 4 /\ auConfig.group = AuGroup /\ auConfig.sym

AuImport ==
    /\ auStage = "import" /\ auStage' = "resolve"
    /\ UNCHANGED <<auEnv, auConfig, auFrom, auOrder, auScratch, auCall>>

\* ModelConfig probes registered methods first; what none claims goes to vLLM's own
\* config for the format, which refuses to run here.
AuResolve ==
    /\ auStage = "resolve"
    /\ auStage' = IF Registered /\ Claims THEN "build" ELSE "stopped"
    /\ UNCHANGED <<auEnv, auConfig, auFrom, auOrder, auScratch, auCall>>

\* Mutant of InQuantizedBlock: vLLM's paths are compared with the checkpoint's.
InQuantizedBlockByName(x) == auConfig.blocks = {} \/ x.root \in auConfig.blocks

\* _in_quantized_block: a structural test, as the two name modules differently.
InQuantizedBlock(x) ==
    auConfig.blocks = {} \/ x.root \in {"model.language_model.layers", "language_model.model.layers", "mtp.layers"}

\* Mutant of FoundIn: the pattern has to be the whole name.
FoundInWhole(p) == {p}

\* re.search: the names a pattern of extra_config is found in.  in_proj_b is found in
\* the name of the merged projection, in_proj_a is not.
FoundIn(p) == IF p = "in_proj_b" THEN {"in_proj_b", "in_proj_ba"} ELSE {p}

\* get_quant_method
QuantMethod(x) ==
    IF ~InQuantizedBlock(x) \/ \E p \in auConfig.held : x.leaf \in FoundIn(p) THEN "bf16"
    ELSE "kernel"

\* get_quant_method and create_weights, which refuses a shard that cuts a group.
AuBuild(x) ==
    /\ auStage = "build" /\ auFrom[x] = ""
    /\ IF QuantMethod(x) = "kernel" /\ x.k % AuGroup # 0
       THEN auStage' = "stopped" /\ UNCHANGED auFrom
       ELSE /\ auFrom' = [auFrom EXCEPT ![x] = QuantMethod(x)]
            /\ auStage' = IF \E y \in AuModules \ {x} : auFrom[y] = "" THEN "build" ELSE "load"
    /\ UNCHANGED <<auEnv, auConfig, auOrder, auScratch, auCall>>

\* Mutant of Symmetric: what the configuration says is believed.
SymmetricAsSaid == auConfig.sym

\* Every word of qzeros is 0x77777777, GPTQ's eight.
Symmetric == auConfig.zero = 8

Unloaded == {x \in AuModules : auFrom[x] = "kernel" /\ auOrder[x] = ""}

\* process_weights_after_loading: the zero points are looked at before they are dropped,
\* and the weight is turned round once.
AuLoad(x) ==
    /\ auStage = "load" /\ x \in Unloaded
    /\ IF Symmetric
       THEN auOrder' = [auOrder EXCEPT ![x] = "rows"] /\ UNCHANGED auStage
       ELSE auStage' = "stopped" /\ UNCHANGED auOrder
    /\ UNCHANGED <<auEnv, auConfig, auFrom, auScratch, auCall>>

\* The engine's order: a profiling forward, graph captures, requests.
AuAdvance ==
    /\ \/ auStage = "load" /\ Unloaded = {} /\ auStage' = "profile"
       \/ auStage = "profile" /\ auCall.m > 0 /\ auStage' = "capture"
       \/ auStage = "capture" /\ auStage' = "serve"
    /\ UNCHANGED <<auEnv, auConfig, auFrom, auOrder, auScratch, auCall>>

\* Mutant of ScratchRows: the slab is sized for the default band.
ScratchRowsFixed == 64

\* _ensure_scratch
ScratchRows == Larger(64, auEnv.decMax)

\* split_k_for
SplitFor(n, m, k) ==
    LET blocks == CeilDiv(n, 128)
        narrow == IF blocks >= 128 THEN 1 ELSE IF blocks >= 64 THEN 2 ELSE AuMaxKs
    IN  IF auEnv.forcedKs # 0 THEN auEnv.forcedKs
        ELSE IF m > 64
        THEN IF blocks >= 48 THEN 1 ELSE IF m <= 112 THEN 2 ELSE IF k >= 6144 THEN AuMaxKs ELSE 1
        ELSE IF m > 48 /\ narrow > 1 THEN narrow \div 2 ELSE narrow

\* Mutant of Tiles: rows past the last full tile have none.
TilesFull(m) == Larger(1, m \div AuTile)

\* The smallest tile that covers the rows.
Tiles(m) == CeilDiv(m, AuTile)

\* decode_max_m
DecodeRows == IF auEnv.decMax = 0 THEN 64 ELSE auEnv.decMax

\* The guard of the decode kernel; what fails it goes to the prefill kernel.
DecodeTakesCall(x, m, scratch) ==
    LET ks == SplitFor(x.n, m, x.k)
    IN  /\ m <= DecodeRows /\ m <= AuTile * AuMaxTiles /\ x.n <= AuMaxN
        /\ ks = 1 \/ ks * m * x.n <= AuMaxKs * scratch * AuMaxN

\* The split the kernel is compiled for: 1, 2, or else 4.
CompiledKs(ks) == IF ks \in {1, 2} THEN ks ELSE 4

\* autoround_linear and launch; a bound: a profiling forward has the most rows.
AuApply(x, m) ==
    /\ auStage \in {"profile", "capture", "serve"} /\ auFrom[x] = "kernel"
    /\ auStage = "profile" => \A r \in AuRows : r <= m
    /\ auScratch' = IF auScratch = 0 THEN ScratchRows ELSE auScratch
    /\ auCall' =
         LET ks == SplitFor(x.n, m, x.k)
             small == DecodeTakesCall(x, m, auScratch')
         IN  [m |-> m, kernel |-> IF small THEN "decode" ELSE "prefill",
              ks |-> IF small THEN CompiledKs(ks) ELSE 1, grid |-> IF small THEN ks ELSE 1,
              rows |-> IF small THEN AuTile * Tiles(m) ELSE m, order |-> auOrder[x],
              late |-> auStage = "capture" /\ auScratch = 0]
    /\ UNCHANGED <<auEnv, auConfig, auStage, auFrom, auOrder>>

AuNext ==
    \/ AuImport \/ AuResolve \/ AuAdvance
    \/ \E x \in AuModules :
          AuBuild(x) \/ AuLoad(x) \/ \E m \in AuRows : AuApply(x, m)
AuSpec == AuInit /\ [][AuNext]_auVars

-----------------------------------------------------------------------------
(* Properties                                                              *)

\* What the checkpoint holds of a module: int4 in a block it quantised, unless it says
\* that a source of the module is kept.
StoredAs(x) ==
    IF x.root \in {"visual.blocks", "lm_head"} \/ x.sources \cap auConfig.held # {} THEN "bf16"
    ELSE "kernel"

\* A model that is served reads every module as the checkpoint holds it, with the zero
\* point folded into the kernel; a call finds its weight turned round, all of its rows in
\* a tile, as many blocks as its split adds up, the decode kernel if it is within its band,
\* and nothing is allocated inside a capture.
AutoRoundServed ==
    /\ auStage \in {"profile", "capture", "serve"} =>
          \A x \in AuModules :
             auFrom[x] = StoredAs(x) /\ (auFrom[x] = "kernel" => auConfig.zero = 8)
    /\ auCall.m > 0 =>
          /\ auCall.order = "rows" /\ ~auCall.late
          /\ auCall.rows >= auCall.m /\ auCall.ks = auCall.grid
          /\ auCall.m <= Smaller(DecodeRows, AuTile * AuMaxTiles) => auCall.kernel = "decode"
==============================================================================
