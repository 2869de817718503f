--------------------------- MODULE UnifiedAttention ---------------------------
(***************************************************************************)
(* The launch geometry of unified attention (radiance_kernels.py: the      *)
(* configuration hooks and the launch shim; patch_attn_3d_multiq.py: the   *)
(* other backend's choice of the split kernel).  A launch is a grid of     *)
(* query blocks; the kernel finds the sequence of a block from the prefix  *)
(* sums of the query lengths, so a block width that the grid, the kernel   *)
(* and the scratch do not agree on loses rows.                             *)
(***************************************************************************)
EXTENDS Arith, Sequences, FiniteSets, FiniteSetsExt, SequencesExt

CONSTANTS
    UaBatches,   \* query lengths, by sequence
    UaContexts,  \* the longest context of a batch
    UaShapes,    \* [head, ratio, kvHeads]: head size, queries per kv head, kv heads
    UaEnv        \* [maxQ, rows, threshold]: RADIANCE_ATTN_3D_MAX_Q and _TOKENS; seq_threshold_3D

VARIABLES
    uaPending,   \* pending_block_m; 0 for none
    uaStep,      \* a call has selected its configuration, or has been launched
    uaCall       \* [backend, batch, context, shape, kv, kernel, blockM, blockQ, blocks, tile, splits]

uaVars == <<uaPending, uaStep, uaCall>>

UaInit == uaPending = 0 /\ uaStep = "idle" /\ uaCall = <<>>

RoundUp(a, b) == (a + b - 1) \div b
Tokens(batch) == PartialSums(batch)[Len(batch)]
Longest(batch) == Max(ToSet(batch))
AtLeastOne(n) == IF n < 1 THEN 1 ELSE n

\* unified_attention: 16 rows to a block, and as many positions as fit.
StockRows == 16
StockPositions(shape) == AtLeastOne(StockRows \div shape.ratio)

\* A batch has sequences with queries; a kv head has no more queries than a block has rows.
ASSUME UnifiedAttentionAssumption ==
    /\ UaBatches \subseteq Seq(Nat \ {0}) \ {<<>>}
    /\ \A s \in UaShapes : s.ratio \in 1 .. StockRows
    /\ UaEnv.maxQ \in Nat /\ UaEnv.rows \in Nat /\ UaEnv.threshold \in Nat

\* _decode_3d_block_m: one block of 64 rows for a verify batch that fills it to 80 %.
Wide(batch, shape) ==
    LET rows == RoundUp(Tokens(batch), Len(batch)) * shape.ratio
    IN  shape.head = 256 /\ Longest(batch) > 1 /\ rows <= 64 /\ 10 * rows >= 8 * 64

TwoTo(n) == 2 ^ n
PowersOfTwo == {TwoTo(i) : i \in 0 .. 16}
UpToPower(n) == Min({p \in PowersOfTwo : p >= n})

\* The largest power of two up to 16 * cbrt(tiles / programs).
Wanted(tiles, programs) ==
    Max({1} \cup {p \in PowersOfTwo : p <= 128 /\ p * p * p * programs <= 4096 * tiles})

\* _decode_3d_splits.
Splits(context, tile, programs) ==
    LET tiles == AtLeastOne(RoundUp(context, tile))
    IN  Max({4, Min({128, Wanted(tiles, AtLeastOne(programs)), UpToPower(tiles)})})

StockBlocks(batch, positions) == (Tokens(batch) \div positions) + Len(batch)

\* Mutant of Narrowed: the wide block is not announced to the launch.
NarrowedNever(wide) == 0

\* What _s3 leaves for the launch of the same call.
Narrowed(wide) == IF wide THEN 64 ELSE 0

\* _s3: the split kernel of a decode or verify batch whose queries and cache are fp8.
SelectDecode ==
    /\ uaStep = "idle"
    /\ \E b \in UaBatches, c \in UaContexts, s \in UaShapes, kv \in {"fp8", "bf16"} :
          LET mine == kv = "fp8" /\ Longest(b) > 1 /\ s.head = 256
              wide == mine /\ Wide(b, s)
              tile == IF wide THEN 32 ELSE 16
              programs == IF wide THEN ((Tokens(b) \div (64 \div s.ratio)) + Len(b)) * s.kvHeads
                          ELSE StockBlocks(b, StockPositions(s)) * s.kvHeads
          IN  /\ uaPending' = Narrowed(wide)
              /\ uaCall' = [backend |-> "aiter", batch |-> b, context |-> c, shape |-> s, kv |-> kv,
                            kernel |-> "split", blockM |-> StockRows, blockQ |-> StockPositions(s),
                            blocks |-> StockBlocks(b, StockPositions(s)), tile |-> tile,
                            splits |-> IF mine THEN Splits(c, tile, programs) ELSE 8]
    /\ uaStep' = "selected"

\* Mutant of ShimBlocks: the sequences' last, partial blocks are not counted.
ShimBlocksWhole(batch, positions) == RoundUp(Tokens(batch), positions)

\* The grid of the shim.
ShimBlocks(batch, positions) == (Tokens(batch) \div positions) + Len(batch)

\* _Wide3D: the launch takes the block the selection left, and the grid that follows.
LaunchDecode ==
    /\ uaStep = "selected"
    /\ LET positions == AtLeastOne(uaPending \div uaCall.shape.ratio)
       IN  uaCall' = IF uaPending = 0 THEN uaCall
                     ELSE [uaCall EXCEPT !.blockM = uaPending, !.blockQ = positions,
                                         !.blocks = ShimBlocks(uaCall.batch, positions)]
    /\ uaPending' = 0 /\ uaStep' = "done"

\* Mutant of PrefillPositions: the positions stay the ones of the stock block.
PrefillPositionsStock(rows, shape) == AtLeastOne(64 \div shape.ratio)

\* The positions of a prefill block of that many rows.
PrefillPositions(rows, shape) == AtLeastOne(rows \div shape.ratio)

\* _s2: large prefill; 32 rows to a block at head size 512, upstream's 64 otherwise.
Prefill ==
    /\ uaStep = "idle"
    /\ \E b \in UaBatches, s \in UaShapes, kv \in {"fp8", "bf16"} :
          LET tuned == kv = "fp8" /\ Longest(b) >= 256 /\ s.head = 512
              rows == IF tuned THEN 32 ELSE 64
              positions == IF tuned THEN PrefillPositions(rows, s) ELSE AtLeastOne(64 \div s.ratio)
          IN  uaCall' = [backend |-> "aiter", batch |-> b, context |-> 0, shape |-> s, kv |-> kv,
                         kernel |-> "whole", blockM |-> rows, blockQ |-> positions,
                         blocks |-> StockBlocks(b, positions), tile |-> 16, splits |-> 1]
    /\ uaStep' = "done" /\ UNCHANGED uaPending

\* Mutant of SplitFits: the scratch is counted in sequences.
SplitFitsSequences(batch) == Longest(batch) <= UaEnv.maxQ /\ Len(batch) <= UaEnv.threshold

\* The other backend: the split kernel takes short queries whose tokens fit its scratch.
SplitFits(batch) ==
    /\ Longest(batch) <= UaEnv.maxQ
    /\ Longest(batch) > 1 => Tokens(batch) <= Max({UaEnv.threshold, UaEnv.rows})
    /\ Len(batch) <= UaEnv.threshold

TritonAttention ==
    /\ uaStep = "idle"
    /\ \E b \in UaBatches, s \in UaShapes :
          uaCall' = [backend |-> "triton", batch |-> b, context |-> 0, shape |-> s, kv |-> "fp8",
                     kernel |-> IF SplitFits(b) THEN "split" ELSE "whole",
                     blockM |-> StockRows, blockQ |-> StockPositions(s),
                     blocks |-> StockBlocks(b, StockPositions(s)), tile |-> 16, splits |-> 16]
    /\ uaStep' = "done" /\ UNCHANGED uaPending

\* The kernel has run.
Return == uaStep = "done" /\ uaStep' = "idle" /\ uaCall' = <<>> /\ UNCHANGED uaPending

UaNext == SelectDecode \/ LaunchDecode \/ Prefill \/ TritonAttention \/ Return
UaSpec == UaInit /\ [][UaNext]_uaVars

-----------------------------------------------------------------------------
(* Properties                                                              *)

\* The first block of sequence i, the way the kernel's search finds it.
FirstBlock(call, i) == (PartialSums(call.batch)[i - 1] \div call.blockQ) + i - 1

\* The blocks of the grid that compute position p of sequence i: the block must be one
\* that the kernel gives to sequence i, and have a row for the position.
BlocksFor(call, i, p) ==
    {b \in FirstBlock(call, i) .. FirstBlock(call, i + 1) - 1 :
        LET start == (b - FirstBlock(call, i)) * call.blockQ
        IN  /\ b < call.blocks
            /\ start <= p /\ p < start + call.blockQ
            /\ (p - start + 1) * call.shape.ratio <= call.blockM}

\* Every query of every sequence is computed by exactly one block, whatever block width
\* was chosen for the call; the split kernel has a row of scratch for each of them; and no
\* block width is left over for a later call.
EveryQueryOnce ==
    uaStep = "done" =>
        /\ \A i \in DOMAIN uaCall.batch : \A p \in 0 .. uaCall.batch[i] - 1 :
              Cardinality(BlocksFor(uaCall, i, p)) = 1
        /\ uaCall.backend = "triton" /\ uaCall.kernel = "split" =>
              Tokens(uaCall.batch) <= Max({UaEnv.threshold, UaEnv.rows})
        /\ uaPending = 0

\* A verify batch in which every sequence brings the same queries streams each
\* sequence's cache once if the wide block holds them and is at least 80 % full.
WideStreamsOnce ==
    uaStep = "done" /\ uaCall.backend = "aiter" /\ uaCall.kernel = "split" /\ uaCall.kv = "fp8" =>
        LET n == Longest(uaCall.batch)
        IN  /\ uaCall.shape.head = 256 /\ n > 1
            /\ \A i \in DOMAIN uaCall.batch : uaCall.batch[i] = n
            /\ n * uaCall.shape.ratio \in 52 .. 64
            => uaCall.blockQ >= n
=============================================================================
