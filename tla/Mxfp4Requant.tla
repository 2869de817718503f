----------------------------- MODULE Mxfp4Requant -----------------------------
(***************************************************************************)
(* Linears that a checkpoint keeps in another format and the server turns  *)
(* into MXFP4 as it loads them (radiance_nvfp4.py), and the offline        *)
(* quantiser of the drafter (quantize_dflash_mxfp4.py).                    *)
(*                                                                         *)
(* Magnitudes and block scales are natural numbers of one unit, a scale    *)
(* being a power of two of it, so that every comparison of the rounding is *)
(* exact.  A layer is [kind, head, widths, divisors, rows]: a row is one   *)
(* block [codes, scales], with half as many scales as codes; merged        *)
(* projections are partitions of rows, each with its own global divisor.   *)
(***************************************************************************)
EXTENDS Integers, Sequences, FiniteSets, FiniteSetsExt, SequencesExt

CONSTANTS
    RqEnvs,     \* [on, fp8, bf16, head, exp, built]: RADIANCE_NVFP4_*; built: vLLM has the classes
    RqLayers,   \* layers of checkpoints
    RqChunk     \* ROW_CHUNK

VARIABLES
    rqEnv,
    rqLayer,
    rqScheme,   \* "nvfp4", "fp8", "bf16", "head": a scheme of the loader; "stock"; "offline"
    rqWeight    \* the processed weight: <<[scale, codes]>>, or <<>>

rqVars == <<rqEnv, rqLayer, rqScheme, rqWeight>>

RqInit == rqEnv \in RqEnvs /\ rqLayer = <<>> /\ rqScheme = "" /\ rqWeight = <<>>

\* _E2M1, in halves, by magnitude code.
E2M1 == <<0, 1, 2, 3, 4, 6, 8, 12>>
Half(code) == E2M1[code + 1]

\* torch.round of n / d.
RoundEven(n, d) ==
    LET q == n \div d
        r == n % d
    IN  IF 2 * r < d \/ (2 * r = d /\ q % 2 = 0) THEN q ELSE q + 1

Clamped(w, s) == IF w > 6 * s THEN 6 * s ELSE w

\* Mutant of Index: torch.round on the value doubled, all the way up.
IndexCoarse(w, s) ==
    LET c == Clamped(w, s)
    IN  IF c < 2 * s THEN RoundEven(2 * c, s)
        ELSE IF c < 4 * s THEN (c \div s) + 2 ELSE (c \div (2 * s)) + 4

\* e2m1_index of w / s: the three steps of the grid.
Index(w, s) ==
    LET c == Clamped(w, s)
    IN  IF c < 2 * s THEN RoundEven(2 * c, s)
        ELSE IF c < 4 * s THEN RoundEven(c, s) + 2 ELSE RoundEven(c, 2 * s) + 4

Distance(w, s, code) == IF Half(code) * s > 2 * w THEN Half(code) * s - 2 * w
                        ELSE 2 * w - Half(code) * s

\* The codes nearest to w / s.
Nearest(w, s) == LET c == Clamped(w, s)
                 IN  {i \in 0 .. 7 : \A j \in 0 .. 7 : Distance(c, s, i) <= Distance(c, s, j)}

\* quantize_mxfp4 of the offline tool: the first of the nearest codes, and for a tie that
\* code rounded down to an even one.
OfflineIndex(w, s) ==
    LET first == Min(Nearest(w, s))
    IN  IF Cardinality(Nearest(w, s)) > 1 THEN (first \div 2) * 2 ELSE first

Scales == {2 ^ i : i \in 0 .. 8}
ScaleOne == 16

\* _block_exponent: the largest magnitude lands in [4, 8) or in (3, 6].
BlockScale(amax, mode) ==
    IF amax = 0 THEN ScaleOne
    ELSE IF mode = "ocp" THEN Max({s \in Scales : 4 * s <= amax})
    ELSE Min({s \in Scales : amax <= 6 * s})

SquareError(block, s) ==
    FoldLeft(LAMBDA sum, w : sum + Distance(w, s, Index(w, s)) * Distance(w, s, Index(w, s)),
             0, block)

\* Mutant of Finer: the finer grid whenever it does not lose.
FinerAlways(block, s) == TRUE

\* "mse": the next finer grid, if the squared error is smaller.
Finer(block, s) == SquareError(block, s \div 2) < SquareError(block, s)

\* quant_mxfp4 of one block of magnitudes.
ScaleFor(block, mode) ==
    LET s == BlockScale(Max(ToSet(block)), mode)
    IN  IF mode = "mse" /\ Finer(block, s) THEN s \div 2 ELSE s

Encoded(block, mode) ==
    LET s == ScaleFor(block, mode)
    IN  [scale |-> s, codes |-> [k \in DOMAIN block |-> Index(block[k], s)]]

\* dequant_nvfp4: a code, the scale of its group, the divisor of its partition (1, 2 or 4).
Decoded(row, divisor) ==
    [k \in DOMAIN row.codes |->
        Half(row.codes[k]) * row.scales[(k + 1) \div 2] * (16 \div divisor)]

\* Mutant of PartitionOf: the rows of a merged linear share the first divisor.
PartitionOfFirst(widths, r) == 1

\* The partition that row r belongs to.
PartitionOf(widths, r) ==
    Min({p \in DOMAIN widths :
            r <= FoldLeft(LAMBDA a, b : a + b, 0, SubSeq(widths, 1, p))})

\* _get_scheme_from_parts, as patch_nvfp4_mxfp4.py leaves it.
Scheme(env, layer) ==
    IF layer.kind = "drafter" THEN "offline"
    ELSE IF ~env.on \/ ~env.built THEN "stock"
    ELSE CASE layer.kind = "nvfp4" -> "nvfp4"
           [] layer.kind = "fp8" /\ layer.head ->
                 IF env.head = "bf16" THEN "head" ELSE "stock"
           [] layer.kind = "fp8" /\ ~layer.head ->
                 IF env.fp8 = "mxfp4" THEN "fp8" ELSE "stock"
           [] OTHER -> IF env.bf16 /\ layer.named THEN "bf16" ELSE "stock"

ChooseScheme ==
    /\ rqLayer = <<>>
    /\ \E l \in RqLayers : rqLayer' = l /\ rqScheme' = Scheme(rqEnv, l)
    /\ UNCHANGED <<rqEnv, rqWeight>>

\* Mutant of ChunkRows: the rows of the last, partial chunk stay behind.
ChunkRowsWhole(n) == [i \in 1 .. n \div RqChunk |-> (i - 1) * RqChunk + 1 .. i * RqChunk]

\* Rows go RqChunk at a time; torch.cat puts the chunks back together.
ChunkRows(n) == [i \in 1 .. ((n + RqChunk - 1) \div RqChunk) |->
                    (i - 1) * RqChunk + 1 .. (IF i * RqChunk < n THEN i * RqChunk ELSE n)]

RowsInOrder(n) == FoldLeft(LAMBDA rows, c : rows \o SetToSortSeq(c, LAMBDA a, b : a < b),
                           <<>>, ChunkRows(n))

\* process_weights_after_loading of the schemes that end in the MXFP4 kernel.
Requantise ==
    /\ rqScheme \in {"nvfp4", "fp8", "bf16"} /\ rqWeight = <<>>
    /\ LET rows == RowsInOrder(Len(rqLayer.rows))
       IN  rqWeight' = [i \in DOMAIN rows |->
              Encoded(Decoded(rqLayer.rows[rows[i]],
                              rqLayer.divisors[PartitionOf(rqLayer.widths, rows[i])]),
                      rqEnv.exp)]
    /\ UNCHANGED <<rqEnv, rqLayer, rqScheme>>

\* The offline tool, which knows the first rule for the scale alone.
QuantiseOffline ==
    /\ rqScheme = "offline" /\ rqWeight = <<>>
    /\ rqWeight' = [r \in DOMAIN rqLayer.rows |->
          LET block == Decoded(rqLayer.rows[r], 1)
              s == BlockScale(Max(ToSet(block)), "ocp")
          IN  [scale |-> s, codes |-> [k \in DOMAIN block |-> OfflineIndex(block[k], s)]]]
    /\ UNCHANGED <<rqEnv, rqLayer, rqScheme>>

RqNext == ChooseScheme \/ Requantise \/ QuantiseOffline
RqSpec == RqInit /\ [][RqNext]_rqVars

-----------------------------------------------------------------------------
(* Properties                                                              *)

\* What the checkpoint says a row is: its own partition's divisor.
Meant(r) ==
    LET p == CHOOSE p \in DOMAIN rqLayer.widths :
                /\ FoldLeft(LAMBDA a, b : a + b, 0, SubSeq(rqLayer.widths, 1, p - 1)) < r
                /\ r <= FoldLeft(LAMBDA a, b : a + b, 0, SubSeq(rqLayer.widths, 1, p))
    IN  Decoded(rqLayer.rows[r], rqLayer.divisors[p])

Near(r, k) == Nearest(Meant(r)[k], rqWeight[r].scale)

\* A row's codes are nearest to its values, and the even one of two.
NearestEven(r) ==
    \A k \in DOMAIN Meant(r) :
        /\ rqWeight[r].codes[k] \in Near(r, k)
        /\ Cardinality(Near(r, k)) > 1 => rqWeight[r].codes[k] % 2 = 0

\* Every row of a requantised layer holds, for the value the checkpoint gave it, the
\* nearest code and the even one of two, at a scale that loses no more in squares than
\* either of the other rules would; the head is never among those layers.  The offline
\* tool's rows hold the nearest code wherever there is one.
RequantNearest ==
    rqWeight # <<>> =>
        /\ ~rqLayer.head
        /\ Len(rqWeight) = Len(rqLayer.rows)
        /\ \A r \in DOMAIN rqWeight :
              IF rqScheme = "offline"
              THEN \A k \in DOMAIN Meant(r) :
                       Cardinality(Near(r, k)) = 1 => rqWeight[r].codes[k] \in Near(r, k)
              ELSE /\ NearestEven(r)
                   /\ rqEnv.exp = "mse" =>
                         \A rule \in {"ocp", "noclip"} :
                             SquareError(Meant(r), rqWeight[r].scale) <=
                                 SquareError(Meant(r), BlockScale(Max(ToSet(Meant(r))), rule))
=============================================================================
