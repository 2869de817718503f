----------------------------- MODULE FusedUpdate -----------------------------
(***************************************************************************)
(* The fused decode step of a recurrent layer: the convolution and the     *)
(* recurrent update in one launch, with a barrier over the whole grid in   *)
(* between (r4d_gdn_fused_update_kernel).  The barrier's counter outlives  *)
(* the launch and nothing clears it but the launch itself.                 *)
(*                                                                         *)
(* A step is one item of one warp; q, k and v are the number of the launch *)
(* that wrote them.  Blocks start when the device has room, in order.      *)
(* Every sequence has a slot; one without would be skipped by both phases. *)
(* RADIANCE_GDN_FUSED_MAX_ITEMS says how many items a step may bring here  *)
(* (UsesFused of GdnStep); the launch itself takes any number.             *)
(***************************************************************************)
EXTENDS Arith, FiniteSets

CONSTANTS
    FuSeqs,      \* numbers of sequences of a launch
    FuH, FuHg,   \* v heads and k heads of a rank
    FuWarps,     \* warps of a workgroup, 8 in the code
    FuMaxWG,     \* FU_MAXWG
    FuResident,  \* workgroups the device can hold
    FuPads,      \* rows that a batch may be padded by
    FuLaunches   \* bound: launches

ASSUME FusedUpdateAssumption ==
    /\ FuH \in Nat \ {0} /\ FuHg \in Nat \ {0} /\ FuH % FuHg = 0
    /\ FuWarps \in Nat \ {0} /\ FuResident \in Nat /\ FuMaxWG \in 1 .. FuResident
    /\ FuSeqs \subseteq Nat \ {0} /\ \E n \in FuSeqs : \A m \in FuSeqs : m <= n
    /\ FuPads \subseteq Nat

VARIABLES
    fuRun,    \* [no, n, wg, pad] of the launch under way; wg = 0 between launches
    fuPc,     \* by workgroup and warp
    fuItem,   \* by workgroup and warp: the loop variable of its phase
    fuOwn,    \* items whose q, k or v a warp has stored and not fenced
    fuQkv,    \* by item of the first phase: the launch whose value all can see
    fuBar,    \* the counter
    fuOut,    \* by item of the second phase and warp: "none", "own" or "bad"
    fuZero    \* pad rows that have been zeroed

fuVars == <<fuRun, fuPc, fuItem, fuOwn, fuQkv, fuBar, fuOut, fuZero>>

FuWarp == 0 .. FuWarps - 1
Units == 2 * FuHg + FuH
MostSeqs == CHOOSE n \in FuSeqs : \A m \in FuSeqs : m <= n
AllGroups == 0 .. MostSeqs * FuH - 1
Groups == 0 .. fuRun.wg - 1
OfWarps(x) == [b \in AllGroups |-> [w \in FuWarp |-> x]]

FuInit ==
    /\ fuRun = [no |-> 0, n |-> 0, wg |-> 0, pad |-> 0]
    /\ fuPc = OfWarps("done") /\ fuItem = OfWarps(0) /\ fuOwn = OfWarps({})
    /\ fuQkv = [i \in 0 .. MostSeqs * Units - 1 |-> 0]
    /\ fuBar = 0 /\ fuZero = {}
    /\ fuOut = [x \in (0 .. MostSeqs * FuH - 1) \X FuWarp |-> "none"]

\* Mutant of GridSize: a workgroup for every head, however many there are.
GridSizeOfHeads(n) == n * FuH

\* fu_launch: capped, so that all of them are on the device at once.
GridSize(n) == Larger(1, Smaller(n * FuH, FuMaxWG))

FuLaunch ==
    /\ fuRun.wg = 0 /\ fuRun.no < FuLaunches
    /\ \E n \in FuSeqs, pad \in FuPads :
          fuRun' = [no |-> fuRun.no + 1, n |-> n, wg |-> GridSize(n), pad |-> pad]
    /\ fuPc' = [b \in AllGroups |-> [w \in FuWarp |-> IF b < fuRun'.wg THEN "queued" ELSE "done"]]
    /\ fuOut' = [x \in DOMAIN fuOut |-> "none"] /\ fuZero' = {}
    /\ UNCHANGED <<fuItem, fuOwn, fuQkv, fuBar>>

At(b, w, pc) == b \in Groups /\ fuPc[b][w] = pc
Go(b, w, pc) == fuPc' = [fuPc EXCEPT ![b][w] = pc]
Queued == {b \in Groups : fuPc[b][0] = "queued"}
OnDevice == {b \in Groups \ Queued : \E w \in FuWarp : fuPc[b][w] # "done"}

\* Mutant of FirstItem: every warp of a workgroup takes the same items.
FirstItemOfGroup(b, w) == b

\* The first phase's items go round the warps of all workgroups.
FirstItem(b, w) == b * FuWarps + w

StartGroup(b) ==
    /\ b \in Queued /\ \A c \in Queued : b <= c
    /\ Cardinality(OnDevice) < FuResident
    /\ fuPc' = [fuPc EXCEPT ![b] = [w \in FuWarp |-> "conv"]]
    /\ fuItem' = [fuItem EXCEPT ![b] = [w \in FuWarp |-> FirstItem(b, w)]]
    /\ UNCHANGED <<fuRun, fuOwn, fuQkv, fuBar, fuOut, fuZero>>

\* One (sequence, unit): its q, k or v.
Convolve(b, w) ==
    /\ At(b, w, "conv") /\ fuItem[b][w] < fuRun.n * Units
    /\ fuOwn' = [fuOwn EXCEPT ![b][w] = @ \cup {fuItem[b][w]}]
    /\ fuItem' = [fuItem EXCEPT ![b][w] = @ + fuRun.wg * FuWarps]
    /\ UNCHANGED <<fuRun, fuPc, fuQkv, fuBar, fuOut, fuZero>>

\* Mutant of Fenced: a warp goes to the barrier with its stores under way.
FencedNothing(b, w) == fuQkv

\* __threadfence publishes what the warp has stored.
Fenced(b, w) == [i \in DOMAIN fuQkv |-> IF i \in fuOwn[b][w] THEN fuRun.no ELSE fuQkv[i]]

Fence(b, w) ==
    /\ At(b, w, "conv") /\ fuItem[b][w] >= fuRun.n * Units
    /\ fuQkv' = Fenced(b, w)
    /\ fuOwn' = [fuOwn EXCEPT ![b][w] = {}]
    /\ Go(b, w, "sync")
    /\ UNCHANGED <<fuRun, fuItem, fuBar, fuOut, fuZero>>

\* Mutant of GroupHasFenced: the workgroup's first warp arrives on its own account.
GroupHasFencedFirst(b) == fuPc[b][0] # "conv"

\* __syncthreads before the arrival.
GroupHasFenced(b) == \A w \in FuWarp : fuPc[b][w] # "conv"

\* Mutant of LastArrival: the count of a grid that is not capped.
LastArrivalOfHeads(before) == before = fuRun.n * FuH - 1

LastArrival(before) == before = fuRun.wg - 1

\* Thread 0 arrives: the last to do so is to reset, the others wait for it.
Arrive(b) ==
    /\ At(b, 0, "sync") /\ GroupHasFenced(b)
    /\ fuBar' = fuBar + 1
    /\ Go(b, 0, IF LastArrival(fuBar) THEN "reset" ELSE "spin")
    /\ UNCHANGED <<fuRun, fuItem, fuOwn, fuQkv, fuOut, fuZero>>

ResetBarrier(b) ==
    /\ At(b, 0, "reset")
    /\ fuBar' = 0
    /\ Go(b, 0, "passed")
    /\ UNCHANGED <<fuRun, fuItem, fuOwn, fuQkv, fuOut, fuZero>>

\* Mutant of Opened: the counter is waited for as the last arrival leaves it.
OpenedAtCount == fuBar = fuRun.wg

\* Spun for: the counter is zero once more.
Opened == fuBar = 0

StopSpinning(b) ==
    /\ At(b, 0, "spin") /\ Opened
    /\ Go(b, 0, "passed")
    /\ UNCHANGED <<fuRun, fuItem, fuOwn, fuQkv, fuBar, fuOut, fuZero>>

\* __syncthreads behind the barrier; the warps turn to the second phase together.
LeaveBarrier(b) ==
    /\ At(b, 0, "passed") /\ \A w \in FuWarp \ {0} : fuPc[b][w] = "sync"
    /\ fuPc' = [fuPc EXCEPT ![b] = [w \in FuWarp |-> "recur"]]
    /\ fuItem' = [fuItem EXCEPT ![b] = [w \in FuWarp |-> b]]
    /\ UNCHANGED <<fuRun, fuOwn, fuQkv, fuBar, fuOut, fuZero>>

\* The items of the first phase that a head reads: q and k of its group, its own v.
Inputs(item) ==
    LET n == item \div FuH
        hv == item % FuH
        hk == hv \div (FuH \div FuHg)
    IN  {n * Units + hk, n * Units + FuHg + hk, n * Units + 2 * FuHg + hv}

\* One (sequence, head), of which a warp has its rows of the state and the output.
Recur(b, w) ==
    /\ At(b, w, "recur") /\ fuItem[b][w] < fuRun.n * FuH
    /\ LET x == <<fuItem[b][w], w>>
       IN  fuOut' = [fuOut EXCEPT ![x] =
               IF @ = "none" /\ \A i \in Inputs(x[1]) : fuQkv[i] = fuRun.no THEN "own" ELSE "bad"]
    /\ fuItem' = [fuItem EXCEPT ![b][w] = @ + fuRun.wg]
    /\ UNCHANGED <<fuRun, fuPc, fuOwn, fuQkv, fuBar, fuZero>>

\* The third phase: pad rows, strided over the workgroups.
ZeroPads(b, w) ==
    /\ At(b, w, "recur") /\ fuItem[b][w] >= fuRun.n * FuH
    /\ fuZero' = fuZero \cup {<<r, w>> : r \in {s \in 0 .. fuRun.pad - 1 : s % fuRun.wg = b}}
    /\ Go(b, w, "done")
    /\ UNCHANGED <<fuRun, fuItem, fuOwn, fuQkv, fuBar, fuOut>>

FuFinished == fuRun.wg # 0 /\ \A b \in Groups, w \in FuWarp : fuPc[b][w] = "done"

\* The stream moves on.
FuEnd ==
    /\ FuFinished
    /\ fuRun' = [fuRun EXCEPT !.wg = 0]
    /\ UNCHANGED <<fuPc, fuItem, fuOwn, fuQkv, fuBar, fuOut, fuZero>>

GroupStep(b) ==
    \/ StartGroup(b) \/ Arrive(b) \/ ResetBarrier(b) \/ StopSpinning(b) \/ LeaveBarrier(b)
    \/ \E w \in FuWarp : Convolve(b, w) \/ Fence(b, w) \/ Recur(b, w) \/ ZeroPads(b, w)

FuNext == FuLaunch \/ FuEnd \/ \E b \in AllGroups : GroupStep(b)
FuSpec == FuInit /\ [][FuNext]_fuVars

-----------------------------------------------------------------------------
(* Properties                                                              *)

\* When a launch has finished, every head of every sequence has been updated once, by all
\* of its workgroup and from the q, k and v of this launch, and every pad row is zero.
UpdatedOnce ==
    FuFinished =>
        /\ \A x \in (0 .. fuRun.n * FuH - 1) \X FuWarp : fuOut[x] = "own"
        /\ fuZero = (0 .. fuRun.pad - 1) \X FuWarp

\* A launch under way can go on, wherever its workgroups are, and the counter is back at
\* zero before the next one starts.
BarrierOpens ==
    /\ fuRun.wg # 0 => ENABLED FuNext
    /\ fuRun.wg = 0 => fuBar = 0
==============================================================================
