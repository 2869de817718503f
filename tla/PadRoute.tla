------------------------------- MODULE PadRoute -------------------------------
(***************************************************************************)
(* Padded graph rows take row 0's experts                                  *)
(* (moe-padroute/radiance_moe_padroute.py and the call sites               *)
(* patch_moe_padroute.py adds).  The number of real rows reaches a captured*)
(* kernel as a device value that eager code writes before each forward, and*)
(* writes only when the host's copy of it differs.                         *)
(***************************************************************************)
EXTENDS Integers

CONSTANTS
    PrRows,    \* real rows a forward may have
    PrSizes    \* sizes graphs are captured at

VARIABLES
    prChecked,   \* _checked: the self-check has run and allocated the count
    prHost,      \* _last
    prDevice,    \* the count the kernels read
    prPadded,    \* _padded
    prGraphs,    \* sizes captured so far
    prRouted     \* the last forward: [n, size, rows]; rows by row, the row whose experts it took

prVars == <<prChecked, prHost, prDevice, prPadded, prGraphs, prRouted>>

BigCount == 1024   \* _BIG: more rows than any forward has

ASSUME PadRouteAssumption == PrRows \cup PrSizes \subseteq 0 .. BigCount

NoForward == [n |-> 0, size |-> 0, rows |-> <<>>]

PrInit ==
    /\ prChecked = FALSE /\ prHost = BigCount /\ prDevice = BigCount /\ prPadded = FALSE
    /\ prGraphs = {} /\ prRouted = NoForward

\* What the kernel does to the logits of a forward of that size.
Fixed(size, count) == [r \in 0 .. size - 1 |-> IF r >= count THEN 0 ELSE r]
OwnRoutes(size) == [r \in 0 .. size - 1 |-> r]

\* vLLM's profile run, eager and unpadded: the self-check compiles the kernel, tries
\* it on a count of its own and allocates the one the graphs will read.
Profile ==
    /\ ~prChecked
    /\ prChecked' = TRUE
    /\ UNCHANGED <<prHost, prDevice, prPadded, prGraphs, prRouted>>

\* A graph is captured: the kernel is always part of it, nothing is routed.
CaptureGraph ==
    /\ prChecked
    /\ \E s \in PrSizes \ prGraphs : prGraphs' = prGraphs \cup {s}
    /\ UNCHANGED <<prChecked, prHost, prDevice, prPadded, prRouted>>

\* Mutant of Padding: a forward that fills its graph leaves the count as it was.
PaddingKeeps(n, size) == IF n < size THEN n ELSE prHost

\* The count set_real writes.
Padding(n, size) == IF 0 < n /\ n < size THEN n ELSE BigCount

\* Mutant of Written: the comparison is with the flag of the last forward.
WrittenIfFlag(v) == IF prPadded THEN prDevice ELSE v

\* A write is queued on the model's stream if the host's copy differs.
Written(v) == IF v # prHost THEN v ELSE prDevice

\* set_real at one of its three sites, then the forward: the graph of that size, which
\* runs the kernel with the count on the device, or eager code, which launches it for
\* a padded forward alone.  A forward of one row is left alone.
PrForward ==
    /\ prChecked /\ prGraphs = PrSizes
    /\ \E n \in PrRows, size \in PrRows \cup PrSizes, graph \in BOOLEAN :
          /\ n <= size /\ (graph => size \in PrSizes)
          /\ LET v == Padding(n, size)
                 device == Written(v)
                 padded == 0 < n /\ n < size
             IN  /\ prHost' = v /\ prDevice' = device /\ prPadded' = padded
                 /\ prRouted' = [n |-> n, size |-> size,
                                 rows |-> IF size >= 2 /\ (graph \/ padded)
                                          THEN Fixed(size, device) ELSE OwnRoutes(size)]
    /\ UNCHANGED <<prChecked, prGraphs>>

PrNext == Profile \/ CaptureGraph \/ PrForward
PrSpec == PrInit /\ [][PrNext]_prVars

-----------------------------------------------------------------------------
(* Properties                                                              *)

\* In every forward, replayed or eager, each real row keeps its own experts and each
\* padded row takes row 0's, whatever the forward before it was padded to.
RowsRoutedRight == prRouted.n > 0 => prRouted.rows = Fixed(prRouted.size, prRouted.n)
=============================================================================
