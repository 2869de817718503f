------------------------------- MODULE DenseFp8 -------------------------------
(***************************************************************************)
(* The mixture-of-experts lane's dense layers and experts                  *)
(* (moe-densefp8/radiance_moe_densefp8.py, moe-w4a8/radiance_moe_w4a8.py). *)
(* When a model has loaded, the target's bf16 linears move into one arena  *)
(* as fp8; a self-check then runs every kernel variant a call may need, so *)
(* that none is compiled while a graph is captured.                        *)
(*                                                                         *)
(* A layer is [name, n, k, bytes, class]; class is "convert", "keep" or    *)
(* "other", by the two patterns on its prefix.                             *)
(***************************************************************************)
EXTENDS Integers, Sequences, FiniteSets

CONSTANTS
    DfModels,    \* [class, layers]: the type name and the linears, in module order
    DfRows,      \* rows of a call
    DfAlign,     \* the alignment of a weight in the arena
    DfPlan,      \* _PLAN: shapes with a measured dispatch
    DfLanes      \* [forceAll, minTokens]: the switches of the expert kernels

VARIABLES
    dfLoaded,    \* models converted so far, in order
    dfFatal,     \* a check raised: the server does not start
    dfArena,     \* layer -> [at, scaleAt] of the layers that were converted
    dfVariants,  \* kernel variants that have been run
    dfCaptured,  \* graphs are captured from now on
    dfCall       \* the last call: [layer, m, variant, capturing]

dfVars == <<dfLoaded, dfFatal, dfArena, dfVariants, dfCaptured, dfCall>>

NoDense == [layer |-> <<>>, m |-> 0, variant |-> <<>>, capturing |-> FALSE]

DfInit ==
    /\ dfLoaded = <<>> /\ dfFatal = FALSE /\ dfArena = [l \in {} |-> {}]
    /\ dfVariants = {} /\ dfCaptured = FALSE /\ dfCall = NoDense

\* _is_drafter.
DrafterClass(model) == model.class \in {"MTP", "Eagle", "DFlash", "Draft"}

Chosen(model) == SelectSeq(model.layers, LAMBDA l : l.class = "convert")

AlignedUp(n) == ((n + DfAlign - 1) \div DfAlign) * DfAlign

\* Mutant of OffsetOf: the scales of every layer start where the first one's do.
OffsetOfWeights(todo, i) ==
    LET f[j \in 0 .. i] == IF j = 0 THEN 0 ELSE f[j - 1] + AlignedUp(todo[j].bytes)
    IN  [at |-> f[i - 1], scaleAt |-> 0]

\* Pass 1: where layer i's weight and scales go.
OffsetOf(todo, i) ==
    LET f[j \in 0 .. i] == IF j = 0 THEN 0 ELSE f[j - 1] + AlignedUp(todo[j].bytes)
        g[j \in 0 .. i] == IF j = 0 THEN 0 ELSE g[j - 1] + todo[j].n
    IN  [at |-> f[i - 1], scaleAt |-> g[i - 1]]

SmallRows == {1, 2, 3, 4, 5, 8, 10, 16}

\* Mutant of Variant: rows go to the bucket below.
VariantBelow(shape, m) ==
    IF m <= 16 THEN <<shape, "small", CHOOSE x \in SmallRows :
                         x <= m /\ \A y \in SmallRows : y <= m => y <= x>>
    ELSE IF m <= 80 THEN <<shape, "tri", IF m < 32 THEN 32 ELSE IF m < 64 THEN 64 ELSE 128>>
    ELSE <<shape, "w8a8", 0>>

\* _route: up to 16 rows by the nearest measured count above, up to 80 by bucket, then
\* the library's matrix product.
Variant(shape, m) ==
    IF m <= 16 THEN <<shape, "small", CHOOSE x \in SmallRows :
                         x >= m /\ \A y \in SmallRows : y >= m => y >= x>>
    ELSE IF m <= 80 THEN <<shape, "tri", IF m <= 32 THEN 32 ELSE IF m <= 64 THEN 64 ELSE 128>>
    ELSE <<shape, "w8a8", 0>>

\* Mutant of CheckedRows: the rows of a graph's sizes, up to the lane's 16 sequences.
CheckedRowsSmall == {1, 2, 3, 4, 5, 6, 8, 9, 10, 12, 16, 512}

\* The rows _self_check_dense tries.
CheckedRows == {1, 2, 3, 4, 5, 6, 8, 9, 10, 12, 16, 20, 33, 40, 50, 65, 80, 81, 512}

Shape(l) == <<l.n, l.k>>

\* Mutant of Converts: every model whose conversion was asked for.
ConvertsEach(model) == TRUE

\* convert, with RADIANCE_MOE_DENSE_FP8=1.
Converts(model) == ~DrafterClass(model)

\* process_weights_after_loading of a whole model.
ConvertModel ==
    /\ ~dfCaptured /\ ~dfFatal
    /\ Len(dfLoaded) < Len(DfModels)
    /\ LET model == DfModels[Len(dfLoaded) + 1]
           todo == Chosen(model)
           fatal == \/ todo = <<>>
                    \/ \E i \in DOMAIN todo : Shape(todo[i]) \notin DfPlan
       IN  /\ dfLoaded' = Append(dfLoaded, model)
           /\ dfFatal' = (Converts(model) /\ fatal)
           /\ IF Converts(model) /\ ~fatal
              THEN /\ dfArena' = [l \in {todo[i] : i \in DOMAIN todo} |->
                                     OffsetOf(todo, CHOOSE i \in DOMAIN todo : todo[i] = l)]
                   /\ dfVariants' = {Variant(Shape(todo[i]), m) :
                                        i \in DOMAIN todo, m \in CheckedRows}
              ELSE UNCHANGED <<dfArena, dfVariants>>
    /\ UNCHANGED <<dfCaptured, dfCall>>

\* All models are loaded: graphs are captured at every size a decode step may have.
StartCapture ==
    /\ Len(dfLoaded) = Len(DfModels) /\ ~dfFatal /\ ~dfCaptured
    /\ dfCaptured' = TRUE
    /\ UNCHANGED <<dfLoaded, dfFatal, dfArena, dfVariants, dfCall>>

\* A call of a converted layer, in a graph or eagerly.
DenseCall ==
    /\ dfCaptured
    /\ \E l \in DOMAIN dfArena, m \in DfRows, capturing \in BOOLEAN :
          dfCall' = [layer |-> l, m |-> m, variant |-> Variant(Shape(l), m),
                     capturing |-> capturing]
    /\ UNCHANGED <<dfLoaded, dfFatal, dfArena, dfVariants, dfCaptured>>

\* The routing's block_m for a batch of tokens (AITER).
BlockM(tokens) == IF tokens > 2048 THEN 128 ELSE IF tokens > 1024 THEN 64
                  ELSE IF tokens > 512 THEN 32 ELSE 16

\* CFG13 and CFG2: the tile configurations by block_m.
Tiles13(lane) == IF lane.forceAll THEN {16, 32, 64, 128} ELSE {64, 128}
Tiles2(lane) == IF lane.forceAll THEN {16, 32, 64, 128} ELSE {64, 128}

\* Mutant of ExpertsSupported: a prefill that is captured may take the kernels too.
ExpertsSupportedAlways(lane, tokens, capturing) ==
    tokens >= lane.minTokens /\ BlockM(tokens) \in Tiles13(lane)

\* supported: the fp8 experts are for large calls outside a capture.
ExpertsSupported(lane, tokens, capturing) ==
    /\ tokens >= lane.minTokens /\ BlockM(tokens) \in Tiles13(lane)
    /\ ~capturing

\* A call of a layer's experts; their reference exponents are built on its first call.
ExpertCall ==
    /\ dfCaptured
    /\ \E lane \in DfLanes, tokens \in DfRows, capturing \in BOOLEAN :
          dfCall' = [layer |-> lane, m |-> tokens, capturing |-> capturing,
                     variant |-> IF ExpertsSupported(lane, tokens, capturing)
                                 THEN <<"w4a8", BlockM(tokens)>> ELSE <<"a16w4">>]
    /\ UNCHANGED <<dfLoaded, dfFatal, dfArena, dfVariants, dfCaptured>>

DfNext == ConvertModel \/ StartCapture \/ DenseCall \/ ExpertCall
DfSpec == DfInit /\ [][DfNext]_dfVars

-----------------------------------------------------------------------------
(* Properties                                                              *)

\* No two weights share a byte of the arena, nor two layers a scale, and every weight is
\* aligned; what was converted is the target's.
ArenaDisjoint ==
    \A a, b \in DOMAIN dfArena :
        /\ dfArena[a].at % DfAlign = 0
        /\ a # b =>
            /\ \/ dfArena[a].at + a.bytes <= dfArena[b].at
               \/ dfArena[b].at + b.bytes <= dfArena[a].at
            /\ \/ dfArena[a].scaleAt + a.n <= dfArena[b].scaleAt
               \/ dfArena[b].scaleAt + b.n <= dfArena[a].scaleAt
        /\ \A i \in DOMAIN dfLoaded :
              DrafterClass(dfLoaded[i]) =>
                  \A j \in DOMAIN dfLoaded[i].layers : dfLoaded[i].layers[j] # a

\* Nothing is compiled or built for the first time while a graph is captured: a dense
\* call runs a variant the self-check has run, an expert call stays off the kernels that
\* build their reference on first use and has a tile configuration in both passes.
NothingCompiledInCapture ==
    dfCall.m > 0 =>
        IF dfCall.variant[1] = "w4a8"
        THEN ~dfCall.capturing /\ dfCall.variant[2] \in Tiles2(dfCall.layer)
        ELSE dfCall.capturing /\ dfCall.variant[1] # "a16w4" =>
                dfCall.variant \in dfVariants /\ dfCall.variant[3] \in {0} \cup dfCall.m .. 128

\* What the lane asks of its dense layers.
DenseServed == ArenaDisjoint /\ NothingCompiledInCapture
=============================================================================
