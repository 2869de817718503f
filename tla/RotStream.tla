------------------------------ MODULE RotStream ------------------------------
(***************************************************************************)
(* The rotation stream: install_stream of paroquant/radiance_paroquant.py  *)
(* and the decoder layers it leaves behind.  Norms, activations and gates  *)
(* hand their linear an input that is already rotated and quantised (a     *)
(* tuple), and under ROT_STREAM3 they also finish the all-reduce that a    *)
(* row-parallel linear was told to leave out.                              *)
(*                                                                         *)
(* Of a layer the installer asks its kind, which of its four linears have  *)
(* rotations (in, mid, row, down), whether a GDN layer's forward is the    *)
(* one it knows how to replace (hip), and whether it is built in a way the *)
(* stream does not cover (plain = FALSE).  A hidden state counts the       *)
(* all-reduces it has been through.                                        *)
(***************************************************************************)
EXTENDS Integers

CONSTANTS
    RsDepth,     \* decoder layers
    RsLayers,    \* the layers a model may be built from
    RsSwitches   \* [two, three, gdn]: ROT_STREAM2, ROT_STREAM3 with its buffers, GDN kernels

ASSUME RsAssumption == RsDepth \in Nat \ {0} /\ \A l \in RsLayers : l.mid \in BOOLEAN

RsLayer == 1 .. RsDepth

VARIABLES
    rsPhase,   \* "load", "install", "forward", "done"
    rsKnobs,
    rsModel,   \* by layer: [kind, in, mid, row, down, hip, plain]
    rsSites,   \* by layer: the sites the installer has set
    rsAt,      \* the layer being installed or run
    rsSum,     \* all-reduces the hidden state between two layers has been through
    rsFault    \* the first thing that went wrong in the forward

rsVars == <<rsPhase, rsKnobs, rsModel, rsSites, rsAt, rsSum, rsFault>>

\* As loaded: row-parallel linears reduce, every site is stock.
RsStock == [rotIn |-> FALSE, rotMid |-> FALSE, arIn |-> FALSE, arMid |-> FALSE,
            gdn |-> FALSE, patched |-> FALSE, act |-> FALSE, gate |-> FALSE,
            rowReduces |-> TRUE, downReduces |-> TRUE]

RsInit ==
    /\ rsPhase = "load" /\ rsKnobs = <<>> /\ rsModel = <<>>
    /\ rsSites = [i \in RsLayer |-> RsStock]
    /\ rsAt = 1 /\ rsSum = 1 /\ rsFault = "none"

RsLoad ==
    /\ rsPhase = "load"
    /\ rsKnobs' \in RsSwitches
    /\ rsModel' \in [RsLayer -> RsLayers]
    /\ rsPhase' = "install"
    /\ UNCHANGED <<rsSites, rsAt, rsSum, rsFault>>

-----------------------------------------------------------------------------
(* install_stream                                                          *)

\* The input projection can take a tuple, as far as the installer's own patch goes.
InputTakes(i) ==
    /\ rsModel[i].in
    /\ rsModel[i].kind = "gdn" => rsKnobs.gdn /\ rsModel[i].hip

\* This layer's row-parallel output is reduced by its own mid epilogue.
MidReduces(i) == rsKnobs.three /\ rsModel[i].mid /\ rsModel[i].row /\ rsSites[i].rowReduces

\* Mutant of NextReduces: the last layer hands on a partial sum as well.
NextReducesLast(i) == rsKnobs.three /\ rsModel[i].down /\ rsSites[i].downReduces

\* This layer's down_proj is reduced by the next layer's input epilogue.  Never on the
\* last layer, whose output model.norm and the drafter read.
NextReduces(i) ==
    /\ rsKnobs.three /\ i < RsDepth /\ rsModel[i].down /\ rsSites[i].downReduces
    /\ rsModel[i + 1].plain /\ rsModel[i + 1].in
    /\ rsModel[i + 1].kind = "gdn" => rsKnobs.gdn

\* Mutant of Fresh: a layer's flags are reset when its turn comes.
FreshAtTurn(site) == [site EXCEPT !.arIn = FALSE]

\* The flags were reset in a pass of their own before the first layer.
Fresh(site) == site

\* A layer with layer_scale, sequence parallelism or an expert gate stays stock.
SkipStream ==
    /\ rsPhase = "install" /\ rsAt \in RsLayer /\ ~rsModel[rsAt].plain
    /\ rsAt' = rsAt + 1
    /\ UNCHANGED <<rsPhase, rsKnobs, rsModel, rsSites, rsSum, rsFault>>

\* One turn of the installer's loop.
InstallStream ==
    /\ rsPhase = "install" /\ rsAt \in RsLayer /\ rsModel[rsAt].plain
    /\ LET i == rsAt
           m == rsModel[i]
           mid == MidReduces(i)
           next == NextReduces(i)
       IN  rsSites' = [j \in RsLayer |->
              IF j = i THEN
                 [Fresh(rsSites[i]) EXCEPT
                    !.rotIn = InputTakes(i), !.gdn = InputTakes(i) /\ m.kind = "gdn",
                    !.rotMid = m.mid, !.patched = TRUE,
                    !.arMid = mid, !.rowReduces = @ /\ ~mid, !.downReduces = @ /\ ~next,
                    !.act = rsKnobs.two /\ m.down, !.gate = rsKnobs.two /\ m.row]
              ELSE IF j = i + 1 /\ next THEN [rsSites[j] EXCEPT !.arIn = TRUE]
              ELSE rsSites[j]]
    /\ rsAt' = rsAt + 1
    /\ UNCHANGED <<rsPhase, rsKnobs, rsModel, rsSum, rsFault>>

\* A down stream that was granted to a layer without an input epilogue is undone.
UndoGrants ==
    /\ rsPhase = "install" /\ rsAt > RsDepth
    /\ rsSites' = [i \in RsLayer |-> [rsSites[i] EXCEPT !.arIn = @ /\ rsSites[i].rotIn]]
    /\ rsPhase' = "forward" /\ rsAt' = 1
    /\ UNCHANGED <<rsKnobs, rsModel, rsSum, rsFault>>

-----------------------------------------------------------------------------
(* The forward                                                             *)

Output(reduces) == IF reduces THEN 1 ELSE 0

\* A linear without rotations has no use for a tuple, and a GDN layer unpacks one only
\* in the forward the installer gave it.
TupleTaken(i) ==
    /\ rsSites[i].rotIn /\ i > 1 =>
          /\ rsModel[i].in
          /\ rsModel[i].kind = "gdn" => rsSites[i].gdn
    /\ rsSites[i].rotMid => rsModel[i].mid
    /\ rsSites[i].act => rsModel[i].down
    /\ rsSites[i].gate => rsModel[i].row

\* _rot_layer_forward or the stock forward: the sums its two norms read.  The first
\* layer has no residual yet and takes the plain norm.
InputSum(i, h) ==
    h + (IF rsSites[i].patched /\ i > 1 /\ rsSites[i].rotIn /\ rsSites[i].arIn THEN 1 ELSE 0)

MidSum(i) == Output(rsSites[i].rowReduces) + (IF rsSites[i].rotMid /\ rsSites[i].arMid THEN 1 ELSE 0)

RunLayer ==
    /\ rsPhase = "forward" /\ rsAt \in RsLayer
    /\ rsFault' = IF rsFault # "none" THEN rsFault
                  ELSE IF InputSum(rsAt, rsSum) # 1 THEN "input"
                  ELSE IF MidSum(rsAt) # 1 THEN "mid"
                  ELSE IF ~TupleTaken(rsAt) THEN "tuple" ELSE "none"
    /\ rsSum' = Output(rsSites[rsAt].downReduces)
    /\ rsAt' = rsAt + 1
    /\ UNCHANGED <<rsPhase, rsKnobs, rsModel, rsSites>>

RunNorm ==
    /\ rsPhase = "forward" /\ rsAt > RsDepth
    /\ rsFault' = IF rsFault = "none" /\ rsSum # 1 THEN "norm" ELSE rsFault
    /\ rsPhase' = "done"
    /\ UNCHANGED <<rsKnobs, rsModel, rsSites, rsAt, rsSum>>

RsNext == RsLoad \/ SkipStream \/ InstallStream \/ UndoGrants \/ RunLayer \/ RunNorm
RsSpec == RsInit /\ [][RsNext]_rsVars

-----------------------------------------------------------------------------
(* Properties                                                              *)

\* Whichever layers the guards leave stock, every norm reads a sum that has been through
\* exactly one all-reduce, and a tuple only reaches a linear that can take it.
StreamWhole == rsFault = "none"
=============================================================================
