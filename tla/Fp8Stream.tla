------------------------------ MODULE Fp8Stream ------------------------------
(***************************************************************************)
(* Who reduces, and in which form, along the decoder layers: the installers*)
(* that run once after the weights are loaded (merge_model of              *)
(* radiance_gdnmerge.py, which calls install of radiance_aroverlap.py and  *)
(* of radiance_arnq.py), and the forward they leave behind.                *)
(*                                                                         *)
(* A layer is what the installers ask of it: its kind, and of each of its  *)
(* linears whether it carries a row reference ("row"), the placeholder of  *)
(* a layer the kernel cannot serve ("one") or is no radiance linear        *)
(* ("none"; "bf16" for the input projections of a recurrent layer that are *)
(* plain matrices).  The two-element reference of a bisection is left to   *)
(* MxLinear.  The hidden state between layers is a sum over the ranks that *)
(* has been taken ("whole"), not yet ("partial") or once too often         *)
(* ("twice").                                                              *)
(***************************************************************************)
EXTENDS Integers

CONSTANTS
    FsDepth,     \* number of decoder layers
    FsLayers,    \* the layers a model may be built from
    FsSwitches   \* [tp, pp, taps, stream, streamTp1, merge, overlap, gnq]

\* "scale" stands for layer_scale and sequence parallelism, for which the installer
\* leaves a layer stock; no decoder layer is built with the expert gate it also asks for.
ASSUME FsAssumption ==
    /\ FsDepth \in Nat \ {0}
    /\ \A l \in FsLayers :
          /\ l.special \in {"plain", "scale"} /\ l.kind \in {"linear", "full"}
          /\ {l.in, l.out, l.up, l.down} \subseteq {"row", "one", "none", "bf16"}
          /\ "bf16" \notin {l.out, l.up, l.down} /\ (l.in = "bf16" => l.kind = "linear")

Layers == 1 .. FsDepth

VARIABLES
    fsPhase,   \* "load", "overlap", "merge", "install", "forward", "done"
    fsKnobs,   \* the switches of this process
    fsModel,   \* by layer: [kind, in, out, up, down, special]
    fsFlags,   \* by layer: what the installers have set
    fsAt,      \* the layer being installed or run
    fsHidden,  \* the hidden state handed to the next layer
    fsFault    \* the first thing that went wrong in the forward

fsVars == <<fsPhase, fsKnobs, fsModel, fsFlags, fsAt, fsHidden, fsFault>>

\* As loaded: row-parallel linears reduce, nothing is fused.
Stock == [merged |-> FALSE, rowReduces |-> TRUE, downReduces |-> TRUE,
          rowOverlap |-> FALSE, downOverlap |-> FALSE,
          fp8In |-> FALSE, fp8Mid |-> FALSE, act |-> FALSE, gnq |-> FALSE]

FsInit ==
    /\ fsPhase = "load" /\ fsKnobs = <<>> /\ fsModel = <<>>
    /\ fsFlags = [i \in Layers |-> Stock]
    /\ fsAt = 1 /\ fsHidden = "whole" /\ fsFault = "none"

FsLoad ==
    /\ fsPhase = "load"
    /\ fsKnobs' \in FsSwitches
    /\ fsModel' \in [Layers -> FsLayers]
    /\ fsPhase' = "overlap"
    /\ UNCHANGED <<fsFlags, fsAt, fsHidden, fsFault>>

-----------------------------------------------------------------------------
(* The installers                                                          *)

\* aroverlap.install: every reducing linear of the kernel reduces inside its op.
InstallOverlap ==
    /\ fsPhase = "overlap"
    /\ LET on == fsKnobs.overlap /\ fsKnobs.tp > 1
       IN  fsFlags' = [i \in Layers |->
              LET row == on /\ fsModel[i].out = "row"
                  down == on /\ fsModel[i].down = "row"
              IN  [fsFlags[i] EXCEPT !.rowOverlap = row, !.rowReduces = ~row,
                                     !.downOverlap = down, !.downReduces = ~down]]
    /\ fsPhase' = "merge"
    /\ UNCHANGED <<fsKnobs, fsModel, fsAt, fsHidden, fsFault>>

\* _merge_one on every GDN layer; without the merge no stream is installed.
MergeInProj ==
    /\ fsPhase = "merge"
    /\ fsFlags' = [i \in Layers |->
          [fsFlags[i] EXCEPT !.merged = /\ fsKnobs.merge
                                        /\ fsModel[i].kind = "linear"
                                        /\ fsModel[i].in \in {"row", "bf16"}]]
    /\ LET skip == \/ ~fsKnobs.merge \/ ~fsKnobs.stream
                   \/ fsKnobs.tp = 1 /\ ~fsKnobs.streamTp1
                   \/ fsKnobs.pp > 1 \/ fsKnobs.taps
       IN  fsPhase' = IF skip THEN "forward" ELSE "install"
    /\ UNCHANGED <<fsKnobs, fsModel, fsAt, fsHidden, fsFault>>

\* _linear_is_ours asks for the attribute, which a placeholder also is.
Ours(ref) == ref # "none"

\* Mutant of ConsumersOk: the attention's projection is not looked at.
ConsumersOkMlp(i) == Ours(fsModel[i].up)

\* Every linear that would receive a pair is on the kernel.
ConsumersOk(i) ==
    /\ IF fsModel[i].kind = "linear" THEN fsFlags[i].merged ELSE Ours(fsModel[i].in)
    /\ Ours(fsModel[i].up)

\* Mutant of MidOk: a sum that its own linear has overlapped is reduced again.
MidOkOverlapped(i) == ConsumersOk(i) /\ Ours(fsModel[i].out)

MidOk(i) == ConsumersOk(i) /\ Ours(fsModel[i].out) /\ fsFlags[i].rowReduces

\* Mutant of DownOk: the last layer hands on a partial sum as well.
DownOkLast(i) ==
    /\ Ours(fsModel[i].down) /\ fsFlags[i].downReduces
    /\ i < FsDepth => ConsumersOk(i + 1) /\ fsModel[i + 1].special # "scale"

\* Mutant of DownOk: whoever comes next finishes the sum.
DownOkAnyNext(i) ==
    i < FsDepth /\ Ours(fsModel[i].down) /\ fsFlags[i].downReduces

\* The next layer finishes this one's sum, if it can take a pair; never on the
\* last layer, whose output the final norm and the drafter read.
DownOk(i) ==
    /\ i < FsDepth /\ Ours(fsModel[i].down) /\ fsFlags[i].downReduces
    /\ ConsumersOk(i + 1) /\ fsModel[i + 1].special # "scale"

\* A layer with layer_scale or sequence parallelism stays stock.
InstallSkips ==
    /\ fsPhase = "install" /\ fsAt \in Layers /\ fsModel[fsAt].special # "plain"
    /\ fsFlags' = [fsFlags EXCEPT ![fsAt].fp8In = FALSE, ![fsAt].fp8Mid = FALSE]
    /\ fsAt' = fsAt + 1
    /\ UNCHANGED <<fsPhase, fsKnobs, fsModel, fsHidden, fsFault>>

\* One layer of install: its own middle site, its sum handed to the next layer,
\* and the two epilogues that only change the form of an input.
InstallLayer ==
    /\ fsPhase = "install" /\ fsAt \in Layers /\ fsModel[fsAt].special = "plain"
    /\ LET i == fsAt
           mid == MidOk(i)
           down == DownOk(i)
       IN  fsFlags' = [j \in Layers |->
              IF j = i THEN
                 [fsFlags[i] EXCEPT
                    !.fp8Mid = mid, !.rowReduces = @ /\ ~mid, !.downReduces = @ /\ ~down,
                    !.act = Ours(fsModel[i].down),
                    !.gnq = fsKnobs.gnq /\ fsModel[i].kind = "linear" /\ Ours(fsModel[i].out)]
              ELSE IF j = i + 1 /\ down THEN [fsFlags[j] EXCEPT !.fp8In = TRUE]
              ELSE fsFlags[j]]
    /\ fsAt' = fsAt + 1
    /\ UNCHANGED <<fsPhase, fsKnobs, fsModel, fsHidden, fsFault>>

Installed ==
    /\ fsPhase = "install" /\ fsAt > FsDepth
    /\ fsPhase' = "forward"
    /\ fsAt' = 1
    /\ UNCHANGED <<fsKnobs, fsModel, fsFlags, fsHidden, fsFault>>

-----------------------------------------------------------------------------
(* The forward                                                             *)

\* What a site makes of a sum: its own all-reduce, or none.
Reduced(sum) == IF sum = "partial" THEN "whole" ELSE "twice"

\* A row-parallel linear's output.
RowOutput(overlap, reduces) == IF overlap \/ reduces THEN "whole" ELSE "partial"

\* The overlapped op takes no pair; the pre-quantised one reads a row reference.
TakesPair(ref, overlap) == ref = "row" /\ ~overlap

\* _stream_forward of layer i with the sum h: [out, fault].
LayerForward(i, h) ==
    LET f == fsFlags[i]
        m == fsModel[i]
        in == IF f.fp8In /\ i > 1 THEN Reduced(h) ELSE h
        attn == RowOutput(f.rowOverlap, f.rowReduces)
        mid == IF f.fp8Mid THEN Reduced(attn) ELSE attn
        pairs == /\ f.fp8In /\ i > 1 => TakesPair(m.in, FALSE)
                 /\ f.gnq => TakesPair(m.out, f.rowOverlap)
                 /\ f.fp8Mid => TakesPair(m.up, FALSE)
                 /\ f.act => TakesPair(m.down, f.downOverlap)
    IN  [out |-> RowOutput(f.downOverlap, f.downReduces),
         fault |-> IF "whole" # in THEN in ELSE IF "whole" # mid THEN mid
                   ELSE IF ~pairs THEN "pair" ELSE "none"]

ForwardLayer ==
    /\ fsPhase = "forward" /\ fsAt \in Layers
    /\ LET r == LayerForward(fsAt, fsHidden)
       IN  /\ fsHidden' = r.out
           /\ fsFault' = IF fsFault = "none" THEN r.fault ELSE fsFault
    /\ fsAt' = fsAt + 1
    /\ UNCHANGED <<fsPhase, fsKnobs, fsModel, fsFlags>>

\* model.norm and the drafter read the last layer's output.
FinalNorm ==
    /\ fsPhase = "forward" /\ fsAt > FsDepth
    /\ fsPhase' = "done"
    /\ fsFault' = IF fsFault = "none" /\ fsHidden # "whole" THEN fsHidden ELSE fsFault
    /\ UNCHANGED <<fsKnobs, fsModel, fsFlags, fsAt, fsHidden>>

FsNext ==
    \/ FsLoad \/ InstallOverlap \/ MergeInProj \/ InstallSkips \/ InstallLayer
    \/ Installed \/ ForwardLayer \/ FinalNorm

FsSpec == FsInit /\ [][FsNext]_fsVars

-----------------------------------------------------------------------------
(* Properties                                                              *)

\* Whatever mixture of layers the installers meet, each partial sum is reduced
\* exactly once on its way, and none reaches a norm or the drafter unreduced.
ReducedOnce == fsFault \notin {"partial", "twice"}

\* The stream is installed.
Streaming ==
    /\ fsKnobs.merge /\ fsKnobs.stream /\ (fsKnobs.tp = 1 => fsKnobs.streamTp1)
    /\ ~(fsKnobs.pp > 1) /\ ~fsKnobs.taps

\* A row-parallel linear whose all-reduce is overlapped.
Overlapped(ref) == fsKnobs.overlap /\ fsKnobs.tp > 1 /\ ref = "row"

\* The inputs of a layer come from its norms in one form, which both its readers take.
Fusable(m) == m.in # "none" /\ (m.kind = "linear" => m.in # "one") /\ m.up # "none"

\* An epilogue of the layer hands a pair to a linear that the installer takes for the
\* kernel's and that cannot read it: a placeholder of another kernel, the merge of two
\* plain matrices, or a linear whose all-reduce is overlapped.
Misfed(i) ==
    LET m == fsModel[i]
        misread(ref) == ref = "one" \/ Overlapped(ref)
    IN  /\ Streaming /\ m.special = "plain"
        /\ \/ misread(m.down)
           \/ fsKnobs.gnq /\ m.kind = "linear" /\ misread(m.out)
           \/ /\ Fusable(m) /\ m.up = "one"
              /\ m.out # "none" /\ ~Overlapped(m.out)
           \/ /\ Fusable(m) /\ m.in # "row" /\ i > 1
              /\ fsModel[i - 1].special = "plain"
              /\ fsModel[i - 1].down # "none" /\ ~Overlapped(fsModel[i - 1].down)

\* A pair of codes and scales arrives at a linear whose op cannot read it in exactly the
\* layers that Misfed names: beside a linear that is not the kernel's at all, layers
\* fall back to plain activations, whatever their neighbours are.
PairsServed ==
    fsPhase \in {"forward", "done"} =>
        (fsFault = "pair" <=> \E i \in 1 .. fsAt - 1 : Misfed(i))

=============================================================================
