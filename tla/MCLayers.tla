------------------------------- MODULE MCLayers -------------------------------
(* The path of a linear layer from the checkpoint to its output on one card:   *)
(* loading, padding, requantisation and packing of weights, the kernels that    *)
(* serve them, and the streams of activations between the layers.  The parts    *)
(* hand each other finished tensors, so a behaviour exercises one of them,      *)
(* focus, and the others stay in one initial state.                             *)
EXTENDS MxLinear, WeightHooks, DenseFp8, EschaLoad, RotLinear, Mxfp4Requant, Tp3Pad,
        Fp8Stream, RotStream, ArOverlap, TiledRegistry, SplitK, AutoRound

-------------------------------------------------------------------------------
(* MxLinear: the shapes of the model by the number of cards, and the switches  *)
(* of the launcher.                                                            *)

Switches ==
    [tp : {1, 2, 3}, minM : {0, 256}, decMax : {0, 64, 128}, atMin : {0, 513},
     wperm : BOOLEAN, r4dMax : {0, 16}, hoist : BOOLEAN, stream : BOOLEAN,
     kernelNot : {{}, {48, 36, 96}}, perBlock : {{}, {5120}}, forcedKs : {0, 1, 2, 4}]

\* Three cards serve the padded geometry, for which the launcher turns the
\* permuted layout and the fp8 stream off.
Launched(e) == e.tp = 3 => ~e.wperm /\ ~e.stream

\* Bound: a split of K is forced only for the widest decode batches, and shapes are taken
\* from the folded kernels, one way at a time, only in the default decode band.
ServingEnvs ==
    {e \in Switches :
        /\ Launched(e)
        /\ e.forcedKs # 0 => e.decMax = 128 /\ e.atMin = 0
        /\ e.perBlock = {} \/ e.kernelNot = {}
        /\ e.perBlock \cup e.kernelNot # {} => e.decMax = 64}

\* gate_up, down, qkvz, qkv, out and ba
Shapes(e) ==
    IF e.tp = 1 THEN {<<34816, 5120>>, <<5120, 17408>>, <<16384, 5120>>, <<5120, 6144>>, <<96, 5120>>}
    ELSE IF e.tp = 2 THEN {<<17408, 5120>>, <<5120, 8704>>, <<8192, 5120>>, <<7168, 5120>>,
                           <<5120, 3072>>, <<48, 5120>>}
    ELSE {<<11648, 5120>>, <<5120, 5824>>, <<5120, 2304>>, <<36, 5120>>}

\* Every limit of a dispatch, and the number past it.
LinearRows == {1, 8, 16, 17, 24, 25, 56, 64, 65, 80, 81, 128, 129, 512, 513, 2048}

(* WeightHooks: scaled and plain fp8, bf16, too deep for the packer; measured or not. *)

HookLayers ==
    {[model |-> m, type |-> t, n |-> 3072, k |-> 5120, scaled |-> TRUE] :
        m \in {"target", "drafter"}, t \in {"fp8", "bf16"}}
    \cup {[model |-> "drafter", type |-> "fp8", n |-> 5120, k |-> 25600, scaled |-> TRUE],
          [model |-> "target", type |-> "fp8", n |-> 5120, k |-> 2048, scaled |-> FALSE]}
Measured == {<<3072, 5120>>, <<5120, 2048>>}

(* DenseFp8: a target with layers that are kept, and a drafter that shares a shape. *)

Dense(nm, n, k, b, c) == [name |-> nm, n |-> n, k |-> k, bytes |-> b, class |-> c]
DenseModels ==
    << [class |-> "Qwen",
        layers |-> << Dense("qkvz", 12, 2, 25, "convert"), Dense("ba", 1, 2, 2, "keep"),
                      Dense("o", 2, 4, 8, "convert"), Dense("qkv", 9, 2, 18, "convert"),
                      Dense("head", 99, 2, 30, "other") >>],
       [class |-> "MTP", layers |-> << Dense("mtp qkv", 9, 2, 18, "convert") >>] >>
DensePlan == {<<12, 2>>, <<2, 4>>, <<9, 2>>}
ExpertLanes == [forceAll : BOOLEAN, minTokens : {1, 1025}]

(* EschaLoad: one source, several of equal and unequal width, split by rows. *)

EschaLayers ==
    {[ic |-> 8, row |-> FALSE, sources |-> << <<8>>, <<8>> >>],
     [ic |-> 8, row |-> FALSE, sources |-> << <<4, 4, 12>>, <<12>> >>],
     [ic |-> 8, row |-> FALSE, sources |-> << <<8>>, <<4>>, <<4>> >>],
     [ic |-> 8, row |-> FALSE, sources |-> << <<6>> >>],
     [ic |-> 8, row |-> TRUE, sources |-> << <<6>> >>],
     [ic |-> 6, row |-> TRUE, sources |-> << <<6>> >>]}

(* RotLinear: shared, distinct and interleaved rotations; sizes in blocks of 64. *)

Rotation(a, b) == [theta |-> a, scales |-> b]
Rotated(s, r) == [slots |-> s, rotation |-> r]
RotShapes ==
    {[sizes |-> <<4>>, tensors |-> {Rotated({1}, Rotation(1, 1))}],
     [sizes |-> <<4, 2, 2>>, tensors |-> {Rotated({1}, Rotation(1, 1)),
          Rotated({2}, Rotation(1, 2)), Rotated({3}, Rotation(2, 1))}],
     [sizes |-> <<2, 2, 4, 3>>, tensors |-> {Rotated({1, 2, 3}, Rotation(1, 1)),
          Rotated({4}, Rotation(2, 2))}],
     [sizes |-> <<2, 2, 2, 2>>, tensors |-> {Rotated({1}, Rotation(1, 1)),
          Rotated({2}, Rotation(2, 1)), Rotated({3}, Rotation(1, 1)),
          Rotated({4}, Rotation(2, 1))}],
     [sizes |-> <<3, 3>>, tensors |-> {Rotated({1}, Rotation(1, 1)),
          Rotated({2}, Rotation(2, 2))}]}
RotModes ==
    [method : {"int4"}, decodeMax : {64}, group : BOOLEAN, tiles : BOOLEAN, token : BOOLEAN,
     tileMin : {0}]
    \cup [method : {"mxfp4"}, decodeMax : {64}, group : {FALSE}, tiles : {FALSE},
          token : {FALSE}, tileMin : {0, 513}]

(* Mxfp4Requant: every mode of the exponent, rows at and off the grid. *)

RequantEnvs ==
    [on : {TRUE}, fp8 : {"mxfp4"}, bf16 : {TRUE}, head : {"bf16"},
     exp : {"ocp", "noclip", "mse"}, built : {TRUE}]
    \cup [on : BOOLEAN, fp8 : {"fp8"}, bf16 : {FALSE}, head : {"fp8"}, exp : {"mse"},
          built : BOOLEAN]
FirstRows == [codes : [1 .. 4 -> {0, 3, 6, 7}], scales : {<<1, 1>>, <<3, 1>>}]
OtherRows == {[codes |-> <<7, 5, 2, 1>>, scales |-> <<2, 5>>],
              [codes |-> <<0, 0, 0, 0>>, scales |-> <<1, 1>>]}
RequantLayers ==
    [kind : {"nvfp4"}, head : {FALSE}, named : {FALSE}, widths : {<<1, 2>>},
     divisors : {<<1, 2>>, <<4, 1>>}, rows : {<<a, b, b>> : a \in FirstRows, b \in OtherRows}]
    \cup {l \in [kind : {"fp8", "bf16", "drafter"}, head : BOOLEAN, named : BOOLEAN,
                 widths : {<<2>>}, divisors : {<<1>>},
                 rows : {<<a, b>> : a \in OtherRows, b \in OtherRows}] :
             l.head => l.kind = "fp8"}

(* Tp3Pad: the launcher's settings for one to three cards, checkpoints with a    *)
(* tensor whose name no rule knows.                                              *)

PadEnvs ==
    {e \in [tp : {1, 2, 3}, pad : BOOLEAN, inter : {17408, 17472}, padDrafter : BOOLEAN,
            strict : BOOLEAN] :
        /\ e.tp = 3 => e.pad /\ e.inter = 17472 /\ e.padDrafter
        /\ e.tp = 2 => e.inter = 17408}
PadModels ==
    {[spec |-> "target", full |-> 1, lin |-> l, mtp |-> m] : l \in {0, 3}, m \in {0, 1}}
    \cup {[spec |-> "drafter", full |-> 5, lin |-> 0, mtp |-> 0]}
Renamed == {"", "q_proj", "down_proj", "in_proj_qkv", "A_log"}

(* Fp8Stream and RotStream: layers of which one linear at most is unfit. *)

Refs == {"row", "one", "none"}
Linears == {"in", "out", "up", "down"}
Kept(kind, in, special) ==
    [kind |-> kind, in |-> in, out |-> "row", up |-> "row", down |-> "row", special |-> special]
StreamLayers ==
    {r \in [kind : {"linear", "full"}, in : Refs, out : Refs, up : Refs, down : Refs,
            special : {"plain"}] :
        \A a, b \in Linears : a # b => r[a] = "row" \/ r[b] = "row"}
    \cup {Kept("linear", "bf16", "plain"), Kept("linear", "row", "scale"),
          Kept("full", "row", "scale")}
\* Bound: switches that leave the stream out, and one card, are taken with one setting
\* of the others.
StreamSwitches ==
    {s \in [tp : {1, 2}, pp : {1}, taps : {FALSE}, stream : BOOLEAN, streamTp1 : {TRUE},
            merge : BOOLEAN, overlap : BOOLEAN, gnq : BOOLEAN] :
        /\ s.stream \/ s.merge
        /\ ~s.stream \/ ~s.merge => s.tp = 2 /\ s.overlap /\ s.gnq
        /\ s.tp = 1 => ~s.overlap /\ s.gnq}

RotLayers ==
    {r \in [kind : {"gdn", "attn"}, in : BOOLEAN, mid : BOOLEAN, row : BOOLEAN,
            down : BOOLEAN, hip : {TRUE}, plain : BOOLEAN] :
        \A a, b \in {"in", "mid", "row", "down", "plain"} : a # b => r[a] \/ r[b]}
\* A layer whose kernels did not load, the others whole.
LayersWithoutHip ==
    RotLayers \cup [kind : {"gdn"}, in : {TRUE}, mid : {TRUE}, row : {TRUE}, down : {TRUE},
                    hip : {FALSE}, plain : {TRUE}]
RotSwitches == [two : BOOLEAN, three : BOOLEAN, gdn : BOOLEAN]

(* TiledRegistry: hidden, intermediate and the gated norm's activations. *)

Sites == {[k |-> 5120, tiles |-> TRUE], [k |-> 8704, tiles |-> TRUE],
          [k |-> 5120, tiles |-> FALSE]}

(* AutoRound: two cards, the checkpoint as it is and with everything that can    *)
(* differ from it once; a merged projection one of whose names is inside the     *)
(* other's, and a tower whose width no group divides.                            *)

Module(root, leaf, sources, n, k) ==
    [root |-> root, leaf |-> leaf, sources |-> sources, n |-> n, k |-> k]
RoundModules ==
    {Module("language_model.model.layers", "gate_up_proj", {"gate_proj", "up_proj"}, 17408, 5120),
     Module("language_model.model.layers", "o_proj", {"o_proj"}, 5120, 3072),
     Module("mtp.layers", "down_proj", {"down_proj"}, 5120, 8704),
     Module("language_model.model.layers", "in_proj_ba", {"in_proj_a", "in_proj_b"}, 48, 5120),
     Module("visual.blocks", "proj", {"proj"}, 1152, 576)}
RoundConfigs ==
    LET quantised == {"model.language_model.layers", "mtp.layers"}
        asServed == [bits |-> 4, group |-> 128, sym |-> TRUE, zero |-> 8, blocks |-> quantised,
                     held |-> {"in_proj_a", "in_proj_b"}]
    IN  {asServed, [asServed EXCEPT !.held = @ \cup {"down_proj"}], [asServed EXCEPT !.bits = 8],
         [asServed EXCEPT !.sym = FALSE], [asServed EXCEPT !.zero = 7],
         [asServed EXCEPT !.blocks = {}]}
RoundEnvs ==
    {e \in [on : BOOLEAN, imports : BOOLEAN, decMax : {0, 128}, forcedKs : {0, 1, 2, 4}] :
        (e.on /\ e.imports) \/ (e.decMax = 0 /\ e.forcedKs = 0)}

-------------------------------------------------------------------------------
Components == {"linear", "hooks", "dense", "escha", "rotation", "requant", "padding",
          "fp8 stream", "rotated stream", "overlap", "tiles", "split",
          "autoround"}

CONSTANT Focus  \* the parts this run exercises

VARIABLE focus

all == <<focus, mlVars, whVars, dfVars, esVars, rlVars, rqVars, tpVars, fsVars, rsVars,
         aoVars, trVars, skVars, auVars>>

AnyOf(S) == CHOOSE x \in S : TRUE

\* A part that is not in focus has one initial state.
MCInit ==
    /\ focus \in Focus
    /\ MlInit /\ WhInit /\ DfInit /\ RlInit /\ FsInit /\ RsInit /\ AoInit /\ SkInit
    /\ TrInit /\ (focus = "tiles" \/ trM = AnyOf(TrRows))
    /\ AuInit
    /\ focus = "autoround" \/ (auEnv = AnyOf(AuEnvs) /\ auConfig = AnyOf(AuConfigs))
    /\ RqInit /\ (focus = "requant" \/ rqEnv = AnyOf(RqEnvs))
    /\ EsInit
    /\ focus = "escha" \/ (esRank = 0 /\ esLayer = AnyOf(EsLayers) /\ esLeft = Stream)
    /\ TpInit
    /\ focus = "padding" \/ (tpEnv = AnyOf(TpEnvs) /\ tpModel = AnyOf(TpModels) /\ tpBad = "")

MCNext ==
    /\ UNCHANGED focus
    /\ IF focus = "linear" THEN MlNext ELSE UNCHANGED mlVars
    /\ IF focus = "hooks" THEN WhNext ELSE UNCHANGED whVars
    /\ IF focus = "dense" THEN DfNext ELSE UNCHANGED dfVars
    /\ IF focus = "escha" THEN EsNext ELSE UNCHANGED esVars
    /\ IF focus = "rotation" THEN RlNext ELSE UNCHANGED rlVars
    /\ IF focus = "requant" THEN RqNext ELSE UNCHANGED rqVars
    /\ IF focus = "padding" THEN TpNext ELSE UNCHANGED tpVars
    /\ IF focus = "fp8 stream" THEN FsNext ELSE UNCHANGED fsVars
    /\ IF focus = "rotated stream" THEN RsNext ELSE UNCHANGED rsVars
    /\ IF focus = "overlap" THEN AoNext ELSE UNCHANGED aoVars
    /\ IF focus = "tiles" THEN TrNext ELSE UNCHANGED trVars
    /\ IF focus = "split" THEN SkNext ELSE UNCHANGED skVars
    /\ IF focus = "autoround" THEN AuNext ELSE UNCHANGED auVars

MCSpec == MCInit /\ [][MCNext]_all

-------------------------------------------------------------------------------
(* What the parts promise together                                             *)

\* Whatever its shape, its batch and the switches, a call of an mxfp4 linear finds a
\* kernel that takes its rows and a scratch it fits into; and it finds its weights in the
\* layout that kernel reads and a row reference where one is folded, but for the calls
\* that Misrouted and RowRefPresent single out, whose switches nothing refuses.
LinearsServed == LayoutAgrees /\ RowRefPresent /\ DecodeFits /\ ServesEveryBatch

\* However loaders wrap one another and whatever fails between, each layer reads
\* its weights in the form they are held in, all of them and each row once.
WeightsAsStored == WeightsServed /\ DenseServed /\ ColumnsAsPartitioned /\ AutoRoundServed

\* Padding to three cards changes no result: what is loaded is what the
\* configuration says, a head stays with its partners, shards are whole, padded
\* exponents are kept and no tensor is left out.
PaddingInvisible ==
    /\ ServedAsConfigured /\ HeadsKeepTheirPartners /\ ShardsAreWhole
    /\ ExponentsKept /\ CompleteLoads

\* Whichever layers can be fused and whatever else is switched on, partial sums are
\* reduced exactly once between their producer and their reader, which are fused in
\* pairs or not at all; and the form an activation is handed on in can be read where it
\* arrives, but in the layers that Misfed names, which nothing refuses.
StreamSound == ReducedOnce /\ PairsServed /\ StreamWhole

\* Partial products meet once: slabs in the block that arrives last, slices of
\* rows in their own call.
PartialsOnce == SummedOnce /\ CounterClear /\ OwnRowsOnce
===============================================================================
