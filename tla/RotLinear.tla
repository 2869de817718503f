------------------------------ MODULE RotLinear ------------------------------
(***************************************************************************)
(* A linear whose activations are rotated before they are quantised        *)
(* (paroquant/radiance_paroquant.py, paroquant/radiance_paroquant_mxfp4.py)*)
(* from its checkpoint tensors to a call.  A merged linear is a row of     *)
(* partitions, each with the rotation its projection was trained with;     *)
(* adjacent partitions with one rotation become one run, and a block of    *)
(* columns reads the copy of the activations its run was rotated for.      *)
(*                                                                         *)
(* A rotation is [theta, scales]; sizes are in half blocks of 64 columns.  *)
(* What a call hands its GEMM is a layout ("row" or "tile"), the grain of  *)
(* its scales ("group" or "token"), and whether anyone has written it.     *)
(***************************************************************************)
EXTENDS Arith, Sequences, FiniteSets

CONSTANTS
    RlModes,   \* [method, decodeMax, group, tiles, token, tileMin]: the switches
    RlShapes,  \* [sizes, tensors]: a tensor is [slots, rotation]
    RlRows     \* rows of a call

VARIABLES
    rlPhase,   \* "create", "load", "serve"; "refused"
    rlMode,
    rlShape,
    rlSlots,   \* theta, pairs and channel_scales, by partition
    rlLeft,    \* tensors of the checkpoint that are still to come
    rlRuns,    \* what process_weights_after_loading keeps: <<[rotation, size]>>
    rlCall     \* the last call: [written, read], each [layout, grain, filled]

rlVars == <<rlPhase, rlMode, rlShape, rlSlots, rlLeft, rlRuns, rlCall>>

\* The projections of a linear have columns, and the checkpoint has one rotation for each.
ASSUME RotLinearAssumption ==
    /\ \A m \in RlModes : m.decodeMax \in Nat /\ m.tileMin \in Nat
    /\ RlRows \subseteq Nat
    /\ \A s \in RlShapes :
          /\ s.sizes \in Seq(Nat \ {0}) /\ s.sizes # <<>>
          /\ \A t \in s.tensors : t.slots \subseteq DOMAIN s.sizes
          /\ \A i \in DOMAIN s.sizes : \E t \in s.tensors : i \in t.slots
          /\ \A t, u \in s.tensors : t # u => t.slots \cap u.slots = {}

NoRotation == [theta |-> 0, scales |-> 0]
NotCalled == [written |-> <<>>, read |-> <<>>]

RlInit ==
    /\ rlPhase = "create" /\ rlMode = <<>> /\ rlShape = <<>> /\ rlSlots = <<>>
    /\ rlLeft = {} /\ rlRuns = <<>> /\ rlCall = NotCalled

\* Mutant of Aligned: a boundary anywhere will do.
AlignedAnywhere(sizes) == TRUE

\* No block of 128 columns straddles two partitions.
Aligned(sizes) == \A i \in 1 .. Len(sizes) - 1 : sizes[i] % 2 = 0

\* create_weights: a slot for the rotation of every partition.
CreateLinear ==
    /\ rlPhase = "create"
    /\ \E m \in RlModes, s \in RlShapes :
          /\ rlMode' = m /\ rlShape' = s
          /\ rlSlots' = [i \in DOMAIN s.sizes |-> NoRotation]
          /\ rlLeft' = s.tensors
          /\ rlPhase' = IF Aligned(s.sizes) THEN "load" ELSE "refused"
    /\ UNCHANGED <<rlRuns, rlCall>>

\* Mutant of Indices: a tensor for several projections goes to the first of them.
IndicesFirst(slots) == {CHOOSE i \in slots : \A j \in slots : i <= j}

\* One index, or all of a tuple.
Indices(slots) == slots

\* _rotation_weight_loader, in whatever order the checkpoint is read.
LoadRotation ==
    /\ rlPhase = "load"
    /\ \E t \in rlLeft :
          /\ rlSlots' = [i \in DOMAIN rlSlots |->
                            IF i \in Indices(t.slots) THEN t.rotation ELSE rlSlots[i]]
          /\ rlLeft' = rlLeft \ {t}
    /\ UNCHANGED <<rlPhase, rlMode, rlShape, rlRuns, rlCall>>

\* Mutant of Same: equal angles make an equal rotation.
SameAngles(a, b) == a.theta = b.theta

Same(a, b) == a = b

\* Partition i starts a run unless it has the rotation of the run before it.
Starts(i) == i = 1 \/ ~Same(rlSlots[i], rlSlots[i - 1])

RunOf(i) == Cardinality({j \in 1 .. i : Starts(j)})

SizeOfRun(p) ==
    PartialSums([i \in DOMAIN rlSlots |-> IF RunOf(i) = p THEN rlShape.sizes[i] ELSE 0])[Len(rlSlots)]

Runs == [p \in 1 .. RunOf(Len(rlSlots)) |->
            [rotation |-> rlSlots[CHOOSE i \in DOMAIN rlSlots : RunOf(i) = p /\ Starts(i)],
             size |-> SizeOfRun(p)]]

\* process_weights_after_loading: the kernels tell three runs apart.
ProcessRotations ==
    /\ rlPhase = "load" /\ rlLeft = {}
    /\ rlRuns' = Runs
    /\ rlPhase' = IF Len(Runs) > 3 THEN "refused" ELSE "serve"
    /\ UNCHANGED <<rlMode, rlShape, rlSlots, rlLeft, rlCall>>

-----------------------------------------------------------------------------
(* A call                                                                  *)

Codes(layout, grain, filled) == [layout |-> layout, grain |-> grain, filled |-> filled]

\* The bands of int4's _linear_impl; with PG the scales are per group at every width.
GroupTiled(m) == rlMode.group /\ rlMode.tiles /\ m > rlMode.decodeMax
PerToken(m) == rlMode.token /\ m > rlMode.decodeMax /\ ~rlMode.group
Tiled4(m) == GroupTiled(m) \/ (PerToken(m) /\ rlMode.tiles)

\* A fused norm fills its tuple inside the decode band only (pq_add_rms_rot, pq_ew_rot).
StreamTuple4(m) == Codes("row", "group", m <= rlMode.decodeMax)

\* Mutant of UsesTuple: the tuple is left alone only on the per-token path.
UsesTupleUnlessToken(m) == ~PerToken(m) /\ ~GroupTiled(m)

\* above the band the tuple is allocated but untouched
UsesTuple(m) == m <= rlMode.decodeMax

Written4(m, stream) ==
    IF stream /\ UsesTuple(m) THEN StreamTuple4(m)
    ELSE Codes(IF Tiled4(m) THEN "tile" ELSE "row", IF PerToken(m) THEN "token" ELSE "group", TRUE)

\* launch_gemm_at or launch_gemm, with the flag that names the grain.
Read4(m) == Codes(IF Tiled4(m) THEN "tile" ELSE "row", IF PerToken(m) THEN "token" ELSE "group", TRUE)

\* Mutant of TiledX: the consumer's own idea of where the band starts.
TiledXStrict(m) == rlMode.tileMin > 0 /\ m > rlMode.tileMin

\* _tiled: the producers of the mxfp4 method and its GEMM decide from the row count.
TiledX(m) == rlMode.tileMin > 0 /\ m >= rlMode.tileMin

\* pqm_add_rms_rot and pqm_ew_rot fill their tuple at every width.
WrittenX(m) == Codes(IF rlMode.tileMin > 0 /\ m >= rlMode.tileMin THEN "tile" ELSE "row", "token", TRUE)
ReadX(m) == Codes(IF TiledX(m) THEN "tile" ELSE "row", "token", TRUE)

CallLinear ==
    /\ rlPhase = "serve"
    /\ \E m \in RlRows, stream \in BOOLEAN :
          rlCall' = IF rlMode.method = "mxfp4" THEN [written |-> WrittenX(m), read |-> ReadX(m)]
                    ELSE [written |-> Written4(m, stream), read |-> Read4(m)]
    /\ UNCHANGED <<rlPhase, rlMode, rlShape, rlSlots, rlLeft, rlRuns>>

RlNext == CreateLinear \/ LoadRotation \/ ProcessRotations \/ CallLinear
RlSpec == RlInit /\ [][RlNext]_rlVars

-----------------------------------------------------------------------------
(* Properties                                                              *)

Before(sizes, i) == PartialSums(sizes)[i]

\* pq_pb1 and pq_pb2: the copy that the block starting at half block h reads.
CopyRead(h) ==
    LET sizes == [p \in DOMAIN rlRuns |-> rlRuns[p].size]
    IN  CHOOSE p \in DOMAIN rlRuns : Before(sizes, p - 1) <= h /\ (h < Before(sizes, p) \/ p = Len(rlRuns))

\* The rotation the checkpoint trained partition i with.
Trained(i) == (CHOOSE t \in rlShape.tensors : i \in t.slots).rotation

\* Every column is multiplied by activations in its own projection's rotation, whatever
\* order the tensors came in and however the partitions were merged into runs.
ColumnsRotated ==
    rlPhase = "serve" =>
        \A i \in DOMAIN rlShape.sizes :
            \A h \in Before(rlShape.sizes, i - 1) .. Before(rlShape.sizes, i) - 1 :
                rlRuns[CopyRead(h - (h % 2))].rotation = Trained(i)

\* The GEMM of a call reads codes somebody has written, in the layout and with the grain
\* of scales they were written with, on both sides of every width threshold.
RotatedRight == ColumnsRotated /\ rlCall.read = rlCall.written
=============================================================================
