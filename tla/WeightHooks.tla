----------------------------- MODULE WeightHooks -----------------------------
(***************************************************************************)
(* The hooks a linear passes through when its weight has been read         *)
(* (radiance_w4.py, radiance_kernels.py), and the kernel that later reads  *)
(* it.  One hook packs the drafter's linears to four bits, one shuffles    *)
(* what is left of the block-fp8 ones; neither is told which model a layer *)
(* belongs to.  patch_dflash_w4.py brackets the load of the drafter.       *)
(*                                                                         *)
(* A layer is [model, type, n, k, scaled]; what it holds is [form, rows,   *)
(* cols, out], out being the width that _radiance_N or weight.shape gives. *)
(***************************************************************************)
EXTENDS Integers, Sequences, FiniteSets, SequencesExt

CONSTANTS
    WhLayers,     \* the layers of all the models this process loads
    WhMeasured,   \* _CFG: <<n, k>> of the shapes with a configuration
    WhRows,       \* rows of a call
    WhMaxRows,    \* _MAX_M, the rows a packed call takes
    WhInstalls    \* calls of install_all; bounds the model

VARIABLES
    whHooks,      \* the wrappers around process_weights_after_loading, innermost first
    whInstalled,  \* calls of install_all so far
    whBracket,    \* _LOADING_DRAFT
    whLoading,    \* layers of the model being loaded that have not been processed
    whHeld,       \* what the layers of the loaded models hold
    whCall        \* the last call: [layer, m, reads, chunks, out]

whVars == <<whHooks, whInstalled, whBracket, whLoading, whHeld, whCall>>

Idle == {}
NoWeights == [l \in {} |-> {}]
NoUse == [layer |-> {}, m |-> 0, reads |-> "", chunks |-> <<>>, out |-> 0]

Model(l) == l.model

WhInit ==
    /\ whHooks = <<>> /\ whInstalled = 0
    /\ whBracket = FALSE /\ whLoading = Idle /\ whHeld = NoWeights /\ whCall = NoUse

\* Mutant of HookOrder: the shuffle hook is installed first.
HookOrderShuffleFirst == <<"shuffle", "pack">>

\* install_all: each installer wraps the method as it finds it, unless it has done so.
HookOrder == <<"pack", "shuffle">>

InstallHooks ==
    /\ whLoading = Idle /\ whHeld = NoWeights
    /\ whInstalled < WhInstalls
    /\ whInstalled' = whInstalled + 1
    /\ whHooks' = whHooks \o SelectSeq(HookOrder, LAMBDA h : h \notin ToSet(whHooks))
    /\ UNCHANGED <<whBracket, whLoading, whHeld, whCall>>

Plain(l, fails) == [form |-> l.type, rows |-> l.n, cols |-> l.k, out |-> l.n, raised |-> fails]

\* maybe_convert and maybe_convert_bf16; a conversion that raises leaves the layer alone.
Packed(w) ==
    IF /\ whBracket /\ ~w.raised
       /\ w.rows % 16 = 0 /\ w.cols % 128 = 0 /\ <<w.rows, w.cols>> \in WhMeasured
    THEN [w EXCEPT !.form = "packed", !.rows = 0, !.cols = 0, !.out = w.rows]
    ELSE w

\* The shuffle hook; only a weight scaled in blocks of 128 by 128.
Shuffled(l, w) ==
    IF /\ w.form = "fp8"
       /\ w.rows % 128 = 0 /\ w.cols % 128 = 0
       /\ l.scaled
    THEN [w EXCEPT !.form = "shuffled", !.rows = w.rows \div 16, !.cols = w.cols * 16,
                   !.out = w.rows]
    ELSE w

\* The outer wrapper calls the one it found before it does its own work.
Processed(l, fails) ==
    LET f[i \in 0 .. Len(whHooks)] ==
          IF i = 0 THEN Plain(l, fails)
          ELSE IF whHooks[i] = "pack" THEN Packed(f[i - 1])
          ELSE IF l.type = "fp8" THEN Shuffled(l, f[i - 1]) ELSE f[i - 1]
    IN  f[Len(whHooks)]

\* get_model: the bracket is raised around the drafter's.
BeginLoad ==
    /\ whInstalled = WhInstalls /\ whLoading = Idle
    /\ \E model \in {Model(l) : l \in WhLayers} \ {Model(l) : l \in DOMAIN whHeld} :
          /\ whLoading' = {l \in WhLayers : Model(l) = model}
          /\ whBracket' = IF model = "drafter" THEN TRUE ELSE whBracket
    /\ UNCHANGED <<whHooks, whInstalled, whHeld, whCall>>

\* The weight of one layer is complete; after the last one get_model returns.
LayerLoaded ==
    /\ \E l \in whLoading, fails \in BOOLEAN :
          /\ whHeld' = [x \in DOMAIN whHeld \cup {l} |->
                           IF x = l THEN Processed(l, fails) ELSE whHeld[x]]
          /\ whLoading' = whLoading \ {l}
          /\ whBracket' = (whBracket /\ whLoading # {l})
    /\ UNCHANGED <<whHooks, whInstalled, whCall>>

\* Mutant of AfterFailure: without the finally, the flag outlives the load.
AfterFailureKept == whBracket

\* The flag after a load that raised.
AfterFailure == FALSE

\* The load raises; what it had loaded goes with it, and the process may load again.
LoadFails ==
    /\ whLoading # Idle
    /\ \E l \in whLoading :
          whHeld' = [x \in {y \in DOMAIN whHeld : Model(y) # Model(l)} |-> whHeld[x]]
    /\ whLoading' = Idle /\ whBracket' = AfterFailure
    /\ UNCHANGED <<whHooks, whInstalled, whCall>>

\* Mutant of Fp8Kernel: the row limit is tested before the shape.
Fp8KernelFewFirst(w, k, m) == IF m > 8 /\ w.cols = k * 16 THEN "shuffled" ELSE "fp8"

\* block_scaled_mm tells a shuffled weight by its shape alone; the other two kernels,
\* for at most 8 rows and for more, read the weight as it was.
Fp8Kernel(w, k, m) == IF w.cols = k * 16 THEN "shuffled" ELSE "fp8"

\* Mutant of Chunks: the rows past the last full chunk are dropped.
ChunksFull(m) ==
    IF m <= WhMaxRows THEN <<[first |-> 1, count |-> m]>>
    ELSE [i \in 1 .. (m \div WhMaxRows) |->
             [first |-> (i - 1) * WhMaxRows + 1, count |-> WhMaxRows]]

\* _W4LinearMethod.apply: rows past the band of the kernel go in chunks.
Chunks(m) ==
    IF m <= WhMaxRows THEN <<[first |-> 1, count |-> m]>>
    ELSE [i \in 1 .. ((m + WhMaxRows - 1) \div WhMaxRows) |->
             LET first == (i - 1) * WhMaxRows + 1
             IN  [first |-> first,
                  count |-> IF first + WhMaxRows - 1 <= m THEN WhMaxRows ELSE m - first + 1]]

WholeBatch(m) == <<[first |-> 1, count |-> m]>>

\* A forward of a loaded model.
Apply ==
    /\ whLoading = Idle
    /\ \E l \in DOMAIN whHeld, m \in WhRows :
          LET w == whHeld[l]
          IN  whCall' = [layer |-> l, m |-> m, out |-> w.out,
                         chunks |-> IF w.form = "packed" THEN Chunks(m) ELSE WholeBatch(m),
                         reads |-> IF w.form \in {"packed", "bf16"} THEN w.form
                                   ELSE Fp8Kernel(w, l.k, m)]
    /\ UNCHANGED <<whHooks, whInstalled, whBracket, whLoading, whHeld>>

WhNext == InstallHooks \/ BeginLoad \/ LayerLoaded \/ LoadFails \/ Apply
WhSpec == WhInit /\ [][WhNext]_whVars

-----------------------------------------------------------------------------
(* Properties                                                              *)

\* Every call reads its layer's weight in the form the hooks left it in, answers with
\* the layer's full width, and answers each of its rows once and in order.
WeightReadAsHeld ==
    whCall.m > 0 =>
        /\ whCall.reads = whHeld[whCall.layer].form
        /\ whCall.out = whCall.layer.n
        /\ LET f[i \in 0 .. Len(whCall.chunks)] ==
                 IF i = 0 THEN <<>>
                 ELSE f[i - 1] \o [j \in 1 .. whCall.chunks[i].count |->
                                      whCall.chunks[i].first + j - 1]
           IN  f[Len(whCall.chunks)] = [j \in 1 .. whCall.m |-> j]

\* The drafter's measured layers are packed and no other, whichever hook was installed
\* first, and whether or not an earlier load failed.
OnlyTheDrafterIsPacked ==
    \A l \in DOMAIN whHeld :
        whHeld[l].form = "packed" <=>
            /\ Model(l) = "drafter" /\ ~whHeld[l].raised
            /\ <<l.n, l.k>> \in WhMeasured

\* What a server asks of its weights.
WeightsServed == WeightReadAsHeld /\ OnlyTheDrafterIsPacked
=============================================================================
