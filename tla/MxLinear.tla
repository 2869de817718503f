------------------------------- MODULE MxLinear -------------------------------
(***************************************************************************)
(* One MXFP4 linear layer (radiance_mxfp4.py) and the host code that picks *)
(* a kernel for it (launch_impl of radiance_mxfp4_fp8.hip): what the       *)
(* loader leaves in the layer - the order of the weight's bytes, and the   *)
(* row reference whose element count says which kernel may serve it - and  *)
(* which kernel a call of M rows then reaches with it.                     *)
(*                                                                         *)
(* An environment is a record of the process's switches.  Sizes are the    *)
(* real ones: the choices depend on their divisors.                        *)
(***************************************************************************)
EXTENDS Arith

CONSTANTS
    MlEnvs,       \* the environments a process may be started with
    MlShapes(_),  \* <<N, K>> of the layers such a process loads
    MlRows        \* the numbers of rows (M) its calls have

VARIABLES
    mlPhase,   \* "import", "load", "serve"; "refused" at start, "fault" in a call
    mlEnv,     \* the switches
    mlLayer,   \* [n, k, layout, ref]; <<>> before it is loaded
    mlScratch, \* [elems, blocks]: split-K slab and block counters of the decode kernel
    mlCall     \* the last call: [m, ahead, kernel, ks, bk]; ahead: the activation came
               \* quantised, from the traced graph or from the fp8 stream

mlVars == <<mlPhase, mlEnv, mlLayer, mlScratch, mlCall>>

NoCall == [m |-> 0, ahead |-> FALSE, kernel |-> "none", ks |-> 0, bk |-> 0]
NoScratch == [elems |-> 0, blocks |-> 0]

-----------------------------------------------------------------------------
(* The decode kernel's tiling                                              *)

\* Mutant of DecMaxN: the widest layer of two cards.
DecMaxNTwoCards == 32768
DecMaxN == 36864
DecKs == 4
DecMaxRows == 16 * 8

\* The smallest split of K whose grid fills the machine.
SplitKFor(forced, nblk, m) ==
    LET fill == IF m <= 24 THEN 110 ELSE 78
    IN  IF forced # 0 THEN forced
        ELSE IF nblk >= fill THEN 1
        ELSE IF nblk * 2 >= fill THEN 2 ELSE DecKs

\* Split and slab by shape, before the slab has to divide K; slab 0 is open.
DecodeCell(forced, nblk, m, k) ==
    IF m <= 64 THEN [ks |-> SplitKFor(forced, nblk, m), bk |-> 0]
    ELSE IF nblk >= 110 THEN [ks |-> 1, bk |-> 64]
    ELSE IF nblk >= 48 THEN [ks |-> 1, bk |-> 128]
    ELSE IF nblk <= 8 THEN [ks |-> DecKs, bk |-> 128]
    ELSE IF k < 6144 THEN [ks |-> 1, bk |-> 128]
    ELSE IF m <= 80 THEN [ks |-> 2, bk |-> 128] ELSE [ks |-> DecKs, bk |-> 64]

\* Mutant of DecodePlan: a slab of 128 whatever K is.
DecodePlanWide(forced, m, n, k) ==
    LET cell == DecodeCell(forced, CeilDiv(n, 128), m, k)
    IN  [cell EXCEPT !.bk = IF @ # 0 THEN @
                            ELSE IF CeilDiv(m, 16) = 4 /\ cell.ks = 1 THEN 64 ELSE 128]

\* The kernel reads whole slabs without a bound on K: where 128 does not divide
\* it, slabs of 64, which exist for splits 1 and 4.
DecodePlan(forced, m, n, k) ==
    LET cell == DecodeCell(forced, CeilDiv(n, 128), m, k)
        narrow == [ks |-> IF cell.ks = 2 THEN DecKs ELSE cell.ks, bk |-> 64]
        open == IF CeilDiv(m, 16) = 4 /\ cell.ks = 1 THEN 64 ELSE 128
    IN  IF k % 128 # 0 THEN narrow
        ELSE [cell EXCEPT !.bk = IF @ = 0 THEN open ELSE @]

HaveScratch(p, m, n) == mlScratch.elems # 0 /\ p.ks * m * n <= mlScratch.elems

DecodeServes(e, p, m, n) ==
    /\ 0 < m /\ m <= e.decMax /\ m <= DecMaxRows /\ n <= DecMaxN
    /\ p.ks = 1 \/ HaveScratch(p, m, n)

-----------------------------------------------------------------------------
(* Start-up                                                                *)

\* Import-time refusals, and the switch that needs another one.
Refuses(e) ==
    \/ e.atMin # 0 /\ e.atMin <= Larger(512, e.decMax)
    \/ e.r4dMax > 0 /\ ~e.wperm
    \/ e.hoist /\ e.minM > 0

MlImport ==
    /\ mlPhase = "import"
    /\ \E e \in MlEnvs :
          /\ mlEnv' = e
          /\ mlPhase' = IF Refuses(e) THEN "refused" ELSE "load"
    /\ UNCHANGED <<mlLayer, mlScratch, mlCall>>

\* layer_is_supported and the bisecting switches.
Supported(e, n, k) == k % 64 = 0 /\ n \notin e.kernelNot

\* One reference per row for the folded kernels, two elements for the per-block
\* kernel, one for a layer that only aiter can serve.
RowRef(e, n, k) ==
    IF ~Supported(e, n, k) THEN "one"
    ELSE IF n \in e.perBlock THEN "two" ELSE "row"

\* Mutant of Permutes: every layer is permuted.
PermutesAll(e, n, k) == e.wperm

\* The weight is permuted in place for layers the kernel serves.
Permutes(e, n, k) == e.wperm /\ Supported(e, n, k)

\* Slab and counters of the decode kernel, allocated with the first layer.
ScratchFor(e) ==
    LET maxN == IF e.tp = 1 THEN 36864 ELSE 32768
    IN  IF e.decMax = 0 THEN NoScratch
        ELSE [elems |-> 4 * Larger(64, e.decMax) * maxN, blocks |-> maxN \div 128 + 8]

\* process_weights_after_loading
MlLoad ==
    /\ mlPhase = "load"
    /\ \E s \in MlShapes(mlEnv) :
          LET n == s[1]
              k == s[2]
          IN  IF Permutes(mlEnv, n, k) /\ (n % 16 # 0 \/ k % 16 # 0)
              THEN mlPhase' = "refused" /\ UNCHANGED <<mlLayer, mlScratch>>
              ELSE /\ mlLayer' = [n |-> n, k |-> k, ref |-> RowRef(mlEnv, n, k),
                                  layout |-> IF Permutes(mlEnv, n, k)
                                             THEN "fragment" ELSE "checkpoint"]
                   /\ mlScratch' = ScratchFor(mlEnv)
                   /\ mlPhase' = "serve"
    /\ UNCHANGED <<mlEnv, mlCall>>

-----------------------------------------------------------------------------
(* A call                                                                  *)

\* launch: the per-block kernel without a reference, otherwise the decode
\* kernel in its band and the folded one above it.
Launch(call, folded) ==
    LET p == DecodePlan(mlEnv.forcedKs, call.m, mlLayer.n, mlLayer.k)
    IN  IF mlLayer.k % 64 # 0 THEN mlPhase' = "fault" /\ UNCHANGED mlCall
        ELSE /\ mlCall' = IF ~folded THEN [call EXCEPT !.kernel = "perblock"]
                          ELSE IF DecodeServes(mlEnv, p, call.m, mlLayer.n)
                          THEN [call EXCEPT !.kernel = "decode", !.ks = p.ks, !.bk = p.bk]
                          ELSE [call EXCEPT !.kernel = "folded"]
             /\ UNCHANGED mlPhase

\* Mutant of Folded: anything but the one-element placeholder.
FoldedIfAny(ref) == ref # "one"

\* The element count of the reference selects the folded kernels.
Folded(ref) == ref = "row"

\* mxfp4_linear owns the dispatch of an activation that is not quantised yet.
MxLinearRaw(m) ==
    LET folded == Folded(mlLayer.ref)
        call == [NoCall EXCEPT !.m = m]
    IN  IF mlLayer.ref = "one" \/ m <= mlEnv.minM
        THEN mlCall' = [call EXCEPT !.kernel = "aiter"] /\ UNCHANGED mlPhase
        ELSE IF folded /\ m <= mlEnv.r4dMax /\ mlLayer.n % 16 = 0 /\ mlLayer.k % 32 = 0
        THEN mlCall' = [call EXCEPT !.kernel = "r4d"] /\ UNCHANGED mlPhase
        ELSE Launch(call, folded)

\* a_tiled_wanted: the producers of the fp8 stream write whole fragments.
TiledWanted(m) == mlEnv.atMin > 0 /\ m >= mlEnv.atMin

\* mxfp4_linear_pq takes any reference for one per row.
MxLinearPq(m, tiled) ==
    LET call == [NoCall EXCEPT !.m = m, !.ahead = TRUE]
    IN  IF ~tiled THEN Launch(call, TRUE)
        ELSE IF mlLayer.k % 128 # 0 THEN mlPhase' = "fault" /\ UNCHANGED mlCall
        ELSE mlCall' = [call EXCEPT !.kernel = "atiled"] /\ UNCHANGED mlPhase

\* apply_weights with an ordinary activation: quantised in the traced graph if
\* the quantisation is hoisted.
MlApply ==
    /\ mlPhase = "serve"
    /\ \E m \in MlRows : IF mlEnv.hoist THEN MxLinearPq(m, FALSE) ELSE MxLinearRaw(m)
    /\ UNCHANGED <<mlEnv, mlLayer, mlScratch>>

\* apply_weights with a pair from the fp8 stream.
MlApplyPair ==
    /\ mlPhase = "serve" /\ mlEnv.stream
    /\ \E m \in MlRows : MxLinearPq(m, TiledWanted(m))
    /\ UNCHANGED <<mlEnv, mlLayer, mlScratch>>

MlInit ==
    /\ mlPhase = "import" /\ mlEnv = <<>> /\ mlLayer = <<>>
    /\ mlScratch = NoScratch /\ mlCall = NoCall

MlNext == MlImport \/ MlLoad \/ MlApply \/ MlApplyPair

MlSpec == MlInit /\ [][MlNext]_mlVars

-----------------------------------------------------------------------------
(* Properties                                                              *)

\* The order of the weight's bytes that a kernel reads.
ReadsLayout(kernel) ==
    IF kernel \in {"aiter", "perblock"} THEN "checkpoint"
    ELSE IF kernel = "r4d" \/ mlEnv.wperm THEN "fragment" ELSE "checkpoint"

Called == mlCall.kernel # "none"

\* The switches that are not refused and yet send a layer to a kernel of another layout,
\* all under the permuted layout: an activation quantised ahead reaches a layer that was
\* left in the checkpoint's order, or an ordinary one reaches the per-block kernel, or, in
\* a batch of at most minM rows, aiter, with a layer that was permuted.
Misrouted ==
    /\ mlEnv.wperm
    /\ IF mlCall.ahead THEN mlLayer.ref = "one"
       ELSE mlLayer.ref = "two" \/ (mlLayer.ref = "row" /\ mlCall.m <= mlEnv.minM)

\* "An aiter fallback layer must keep the layout aiter expects": over every combination of
\* the switches and the rows, the kernel reads the weight in the order the loader left it
\* in, save for the calls of Misrouted, each of which reads it in the other order.
LayoutAgrees ==
    Called => (ReadsLayout(mlCall.kernel) = mlLayer.layout <=> ~Misrouted)

\* A kernel that folds the exponents finds one reference per row, save where an activation
\* quantised ahead reaches a layer whose reference is the placeholder of another kernel.
RowRefPresent ==
    Called =>
        (mlCall.kernel \in {"r4d", "decode", "folded", "atiled"} /\ mlLayer.ref # "row"
            <=> mlCall.ahead /\ mlLayer.ref # "row")

\* A decode launch is one of the compiled instances, its slabs end where a row
\* ends, and the partial sums and the counters of every block fit what was
\* allocated before the first call.
DecodeFits ==
    mlCall.kernel = "decode" =>
        /\ <<mlCall.bk, mlCall.ks>> \in {<<64, 1>>, <<128, 1>>, <<128, 2>>, <<64, 4>>, <<128, 4>>}
        /\ mlLayer.k % mlCall.bk = 0
        /\ mlCall.ks > 1 => /\ mlCall.ks * mlCall.m * mlLayer.n <= mlScratch.elems
                            /\ CeilDiv(mlLayer.n, 128) <= mlScratch.blocks

\* A process that has come up serves every batch: no call reaches a kernel that
\* throws, and the decode band never falls to the prefill kernel's tile because
\* its partial sums do not fit.
ServesEveryBatch ==
    /\ mlPhase # "fault"
    /\ mlCall.kernel = "folded" => mlCall.m > mlEnv.decMax \/ mlCall.m > DecMaxRows

=============================================================================
