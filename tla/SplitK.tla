-------------------------------- MODULE SplitK --------------------------------
(***************************************************************************)
(* The decode kernel's fused split-K reduction (radiance_mxfp4_fp8.hip,    *)
(* radiance_mxfp4_fp8_gemm_decode).  The blocks that cover one range of    *)
(* columns each accumulate a part of K, leave their partial sums in a slab *)
(* that outlives the launch, and race on a counter that outlives it too;   *)
(* the last to arrive adds the parts up.  Launches of one stream run one   *)
(* after the other, with another split each, and nothing clears the slab   *)
(* or the counter in between.                                              *)
(*                                                                         *)
(* One range of columns is modelled, with one thread per column; the       *)
(* ranges share nothing but the kernel's code.  A partial sum is the launch*)
(* it belongs to and the set of K slabs it has added up.                   *)
(***************************************************************************)
EXTENDS Arith

CONSTANTS
    SkThreads,   \* the threads of a block; thread 0 takes part
    SkSplits,    \* splits of K the launcher may choose (> 1: a split of 1 has no slab)
    SkSlabs,     \* numbers of slabs K may have
    SkLaunches   \* bound: launches

ASSUME SkAssumption ==
    /\ 0 \in SkThreads /\ SkThreads \subseteq Nat
    /\ SkSplits \subseteq Nat \ {0, 1} /\ SkSlabs \subseteq Nat /\ SkLaunches \in Nat

VARIABLES
    skRun,     \* [no, ks, slabs] of the launch under way; ks = 0 between launches
    skPc,      \* by block and thread: "acc", "sync", "arrive", "wait", "reset", "sum", "done"
    skPart,    \* the slab as every block sees it: by split and column
    skOwn,     \* stores of a block that no fence has published yet
    skCnt,     \* the counter
    skLast,    \* by block: s_last
    skOut      \* by column: the sums the output has been given in this launch

skVars == <<skRun, skPc, skPart, skOwn, skCnt, skLast, skOut>>

Blocks == 0 .. (skRun.ks - 1)
AllBlocks == UNION {0 .. (k - 1) : k \in SkSplits}
Nothing == [no |-> 0, slabs |-> {}]

SkInit ==
    /\ skRun = [no |-> 0, ks |-> 0, slabs |-> 0]
    /\ skPc = [b \in AllBlocks |-> [t \in SkThreads |-> "done"]]
    /\ skPart = [b \in AllBlocks |-> [t \in SkThreads |-> Nothing]]
    /\ skOwn = skPart
    /\ skCnt = 0
    /\ skLast = [b \in AllBlocks |-> FALSE]
    /\ skOut = [t \in SkThreads |-> {}]

SkLaunch ==
    /\ skRun.ks = 0 /\ skRun.no < SkLaunches
    /\ \E ks \in SkSplits, slabs \in SkSlabs :
          skRun' = [no |-> skRun.no + 1, ks |-> ks, slabs |-> slabs]
    /\ skPc' = [b \in AllBlocks |->
                  [t \in SkThreads |-> IF b < skRun'.ks THEN "acc" ELSE "done"]]
    /\ skOut' = [t \in SkThreads |-> {}]
    /\ UNCHANGED <<skPart, skOwn, skCnt, skLast>>

\* Mutant of SlabsOf: the share is rounded down.
SlabsOfFloor(ks, slabs, b) ==
    LET spb == slabs \div ks IN {s \in 0 .. slabs - 1 : s >= b * spb /\ s < (b + 1) * spb}

\* The slabs of K that block b accumulates; the last blocks may have none.
SlabsOf(ks, slabs, b) ==
    LET spb == CeilDiv(slabs, ks) IN {s \in 0 .. slabs - 1 : s >= b * spb /\ s < (b + 1) * spb}

At(b, t, pc) == b \in Blocks /\ skPc[b][t] = pc
Go(b, t, pc) == skPc' = [skPc EXCEPT ![b][t] = pc]

\* The accumulator goes to the partial buffer; no other block sees it yet.
StorePartial(b, t) ==
    /\ At(b, t, "acc")
    /\ skOwn' = [skOwn EXCEPT ![b][t] = [no |-> skRun.no, slabs |-> SlabsOf(skRun.ks, skRun.slabs, b)]]
    /\ Go(b, t, "sync")
    /\ UNCHANGED <<skRun, skPart, skCnt, skLast, skOut>>

\* Mutant of Stored: the barrier before the arrival is gone.
StoredOwn(b, t) == skPc[b][t] = "sync"

\* __syncthreads: every thread of the block has stored.
Stored(b, t) == \A u \in SkThreads : skPc[b][u] # "acc"

PassBarrier(b, t) ==
    /\ At(b, t, "sync") /\ Stored(b, t)
    /\ Go(b, t, IF t = 0 THEN "arrive" ELSE "wait")
    /\ UNCHANGED <<skRun, skPart, skOwn, skCnt, skLast, skOut>>

\* Mutant of IsLast: every split is taken for the widest.
IsLastFour(before) == before = 3

\* atomicAdd's return value.
IsLast(before) == before = skRun.ks - 1

\* Mutant of Published: nothing is fenced.
PublishedNothing(b) == skPart

\* __threadfence by thread 0, after the barrier, publishes the block's stores.
Published(b) == [skPart EXCEPT ![b] = skOwn[b]]

\* Thread 0 fences and takes a number.
Arrive(b) ==
    /\ At(b, 0, "arrive")
    /\ skPart' = Published(b)
    /\ skLast' = [skLast EXCEPT ![b] = IsLast(skCnt)]
    /\ skCnt' = skCnt + 1
    /\ Go(b, 0, "wait")
    /\ UNCHANGED <<skRun, skOwn, skOut>>

\* __syncthreads: every thread has stored and thread 0 has its number.
LeaveBarrier(b, t) ==
    /\ At(b, t, "wait") /\ \A u \in SkThreads : skPc[b][u] \notin {"acc", "sync", "arrive"}
    /\ Go(b, t, IF ~skLast[b] THEN "done" ELSE IF t = 0 THEN "reset" ELSE "sum")
    /\ UNCHANGED <<skRun, skPart, skOwn, skCnt, skLast, skOut>>

\* Mutant of Cleared: the counter is left where it is.
ClearedNever == skCnt

\* What the last block leaves in the counter for the next launch.
Cleared == 0

ResetCounter(b) ==
    /\ At(b, 0, "reset")
    /\ skCnt' = Cleared
    /\ Go(b, 0, "sum")
    /\ UNCHANGED <<skRun, skPart, skOwn, skLast, skOut>>

\* The last block adds up its column over all splits.
SumColumn(b, t) ==
    /\ At(b, t, "sum")
    /\ skOut' = [skOut EXCEPT ![t] = @ \cup {[k \in Blocks |-> skPart[k][t]]}]
    /\ Go(b, t, "done")
    /\ UNCHANGED <<skRun, skPart, skOwn, skCnt, skLast>>

Finished == skRun.ks # 0 /\ \A b \in Blocks, t \in SkThreads : skPc[b][t] = "done"

\* The stream moves on.
SkEnd ==
    /\ Finished
    /\ skRun' = [skRun EXCEPT !.ks = 0]
    /\ UNCHANGED <<skPc, skPart, skOwn, skCnt, skLast, skOut>>

SkNext ==
    \/ SkLaunch \/ SkEnd
    \/ \E b \in AllBlocks : Arrive(b) \/ ResetCounter(b)
    \/ \E b \in AllBlocks, t \in SkThreads :
          StorePartial(b, t) \/ PassBarrier(b, t) \/ LeaveBarrier(b, t) \/ SumColumn(b, t)

SkSpec == SkInit /\ [][SkNext]_skVars

-----------------------------------------------------------------------------
(* Properties                                                              *)

\* Exactly the parts of this launch that make up K, whatever the slab held.
WholeSum(sum) ==
    /\ \A k \in Blocks : sum[k].no = skRun.no
    /\ UNION {sum[k].slabs : k \in Blocks} = 0 .. skRun.slabs - 1

\* When a launch has finished, every column has been summed, from the partial
\* sums of this launch alone, over all of K: a block that arrives early, a
\* part left by an earlier launch with another split, or a counter that is not
\* where the last launch should have left it would lose or repeat a column.
SummedOnce ==
    Finished => \A t \in SkThreads :
                   skOut[t] # {} /\ \A sum \in skOut[t] : WholeSum(sum)

\* Between launches the counter is where the next launch expects it.
CounterClear == skRun.ks = 0 => skCnt = 0
=============================================================================
