----------------------------- MODULE LayersProofs -----------------------------
(***************************************************************************)
(* Theorems about the parts of MCLayers in which a sum is finished by      *)
(* another actor than the one that began it: the blocks of a split GEMM,   *)
(* the slices of an overlapped all-reduce, the epilogues of the fp8 stream *)
(* and of the rotation stream; and about the merged linears, whose columns *)
(* read the copy of the activations that was rotated for them.             *)
(***************************************************************************)
EXTENDS MCLayers, FiniteSetTheorems, SequenceTheorems, WellFoundedInduction, TLAPS

-----------------------------------------------------------------------------
(* SplitK: the last block to arrive adds all slabs                         *)

SkPcs == {"acc", "sync", "arrive", "wait", "reset", "sum", "done"}
SkParts == [no : Nat, slabs : SUBSET Nat]

SkTypeOK ==
    /\ skRun \in [no : Nat, ks : SkSplits \cup {0}, slabs : Nat]
    /\ skPc \in [AllBlocks -> [SkThreads -> SkPcs]]
    /\ skPart \in [AllBlocks -> [SkThreads -> SkParts]]
    /\ skOwn \in [AllBlocks -> [SkThreads -> SkParts]]
    /\ skCnt \in Nat
    /\ skLast \in [AllBlocks -> BOOLEAN]
    /\ DOMAIN skOut = SkThreads

\* The blocks whose thread 0 has taken its number.
Arrived == {b \in Blocks : skPc[b][0] \notin {"acc", "sync", "arrive"}}

\* The block that arrived last.
IsTheLast(b) == b \in Arrived /\ skLast[b]

\* The part of this launch that block b accumulates.
Mine(b) == [no |-> skRun.no, slabs |-> SlabsOf(skRun.ks, skRun.slabs, b)]

\* Whoever says that it is the last is, and nobody else says so; when all have
\* arrived, somebody does.
OneLast ==
    /\ \A b \in Blocks : IsTheLast(b) => Arrived = Blocks
    /\ \A b, c \in Blocks : IsTheLast(b) /\ IsTheLast(c) => b = c
    /\ Blocks # {} /\ Arrived = Blocks => \E b \in Blocks : IsTheLast(b)

\* The counter holds the number of blocks that have arrived until the last resets it.
CounterCounts ==
    /\ (\A b \in Blocks : IsTheLast(b) => skPc[b][0] \in {"wait", "reset"}) =>
          skCnt = Cardinality(Arrived)
    /\ \A b \in Blocks : IsTheLast(b) /\ skPc[b][0] \in {"sum", "done"} => skCnt = 0

\* What the barriers of a block order.
Ordered(b, t) ==
    /\ t # 0 => skPc[b][t] \notin {"arrive", "reset"}
    /\ skPc[b][t] \notin {"acc", "sync"} => \A u \in SkThreads : skPc[b][u] # "acc"
    /\ skPc[b][t] \in {"reset", "sum", "done"} =>
          \A u \in SkThreads : skPc[b][u] \notin {"acc", "sync", "arrive"}
    /\ skPc[b][t] \in {"reset", "sum"} => skLast[b]

\* What a block has stored, and published once it has arrived, is its part.
PartsInPlace(b) ==
    /\ \A t \in SkThreads : skPc[b][t] # "acc" => skOwn[b][t] = Mine(b)
    /\ b \in Arrived => \A t \in SkThreads : skPart[b][t] = Mine(b)

\* A column is given this launch's parts and nothing else, by the time the last block
\* is done with it.
ColumnsRight ==
    /\ \A t \in SkThreads : \A sum \in skOut[t] : sum = [k \in Blocks |-> Mine(k)]
    /\ \A b \in Blocks, t \in SkThreads :
          IsTheLast(b) /\ skPc[b][t] = "done" => skOut[t] # {}

SkInv ==
    /\ SkTypeOK
    /\ \A b \in AllBlocks \ Blocks, t \in SkThreads : skPc[b][t] = "done"
    /\ skRun.ks = 0 => skCnt = 0
    /\ skRun.ks # 0 =>
         /\ OneLast /\ CounterCounts /\ ColumnsRight
         /\ \A b \in Blocks : PartsInPlace(b) /\ \A t \in SkThreads : Ordered(b, t)

LEMMA SkBlocks ==
    ASSUME SkTypeOK
    PROVE  /\ Blocks \subseteq AllBlocks /\ Blocks \subseteq Nat
           /\ IsFiniteSet(Blocks) /\ Cardinality(Blocks) = skRun.ks
           /\ skRun.ks \in Nat /\ skRun.no \in Nat /\ skRun.slabs \in Nat
<1>1. skRun.ks \in SkSplits \cup {0} /\ skRun.ks \in Nat /\ skRun.no \in Nat /\ skRun.slabs \in Nat
  BY SkAssumption DEF SkTypeOK
<1>2. Blocks \subseteq Nat
  BY <1>1 DEF Blocks
<1>3. IsFiniteSet(Blocks) /\ Cardinality(Blocks) = skRun.ks
  <2>1. 0 \in Int /\ skRun.ks - 1 \in Int /\ skRun.ks >= 0
    BY <1>1
  <2>2. /\ IsFiniteSet(0 .. (skRun.ks - 1))
        /\ Cardinality(0 .. (skRun.ks - 1)) = IF 0 > skRun.ks - 1 THEN 0 ELSE (skRun.ks - 1) - 0 + 1
    BY <2>1, FS_Interval
  <2>3. (IF 0 > skRun.ks - 1 THEN 0 ELSE (skRun.ks - 1) - 0 + 1) = skRun.ks
    BY <2>1, <1>1
  <2>. QED  BY <2>2, <2>3 DEF Blocks
<1>4. CASE skRun.ks = 0
  BY <1>1, <1>2, <1>3, <1>4 DEF Blocks
<1>5. CASE skRun.ks \in SkSplits
  BY <1>1, <1>2, <1>3, <1>5 DEF Blocks, AllBlocks
<1>. QED  BY <1>1, <1>4, <1>5

LEMMA SlabsTyped ==
    ASSUME NEW ks, NEW slabs \in Nat, NEW b
    PROVE  SlabsOf(ks, slabs, b) \in SUBSET Nat
BY DEF SlabsOf

\* One thread's program counter moves.
LEMMA GoMoves ==
    ASSUME SkTypeOK, NEW b \in AllBlocks, NEW t \in SkThreads, NEW pc \in SkPcs, Go(b, t, pc)
    PROVE  /\ skPc' \in [AllBlocks -> [SkThreads -> SkPcs]]
           /\ \A c \in AllBlocks, u \in SkThreads :
                 skPc'[c][u] = IF c = b /\ u = t THEN pc ELSE skPc[c][u]
BY DEF SkTypeOK, Go

LEMMA SkInitOK == SkInit => SkInv
<1>. SUFFICES ASSUME SkInit PROVE SkInv
  OBVIOUS
<1>. USE DEF SkInit
<1>1. Nothing \in SkParts /\ "done" \in SkPcs
  BY DEF Nothing, SkParts, SkPcs
<1>2. SkTypeOK
  BY <1>1 DEF SkTypeOK
<1>. QED  BY <1>2 DEF SkInv

LEMMA LaunchKeepsSk ==
    ASSUME SkInv, SkLaunch
    PROVE  SkInv'
<1>. USE DEF SkInv
<1>1. PICK ks \in SkSplits, slabs \in SkSlabs :
          skRun' = [no |-> skRun.no + 1, ks |-> ks, slabs |-> slabs]
  BY DEF SkLaunch
<1>2. /\ skRun'.ks = ks /\ ks \in Nat /\ ks > 1 /\ slabs \in Nat /\ skCnt = 0 /\ skCnt' = 0
      /\ skPart' = skPart /\ skOwn' = skOwn /\ skLast' = skLast
  BY <1>1, SkAssumption DEF SkLaunch
<1>3. Blocks' = 0 .. (ks - 1) /\ Blocks' \subseteq AllBlocks
  BY <1>2 DEF Blocks, AllBlocks
<1>4. \A c \in AllBlocks, u \in SkThreads : skPc'[c][u] = IF c < ks THEN "acc" ELSE "done"
  BY <1>2 DEF SkLaunch
<1>5. SkTypeOK'
  <2>1. skPc' \in [AllBlocks -> [SkThreads -> SkPcs]]
    BY DEF SkLaunch, SkPcs
  <2>2. skRun' \in [no : Nat, ks : SkSplits \cup {0}, slabs : Nat]
    BY <1>1, <1>2 DEF SkTypeOK
  <2>3. DOMAIN skOut' = SkThreads
    BY DEF SkLaunch
  <2>. QED  BY <1>2, <2>1, <2>2, <2>3 DEF SkTypeOK
<1>6. \A c \in AllBlocks : c \in Nat
  BY SkAssumption DEF AllBlocks
<1>7. \A c \in AllBlocks \ Blocks', u \in SkThreads : skPc'[c][u] = "done"
  <2>. SUFFICES ASSUME NEW c \in AllBlocks \ Blocks', NEW u \in SkThreads
                PROVE  skPc'[c][u] = "done"
    OBVIOUS
  <2>1. c \in Nat /\ ~(c < ks)
    BY <1>2, <1>3, <1>6
  <2>. QED  BY <1>4, <2>1
<1>8. \A c \in Blocks', u \in SkThreads : skPc'[c][u] = "acc"
  <2>1. \A c \in Blocks' : c \in AllBlocks /\ c < ks
    BY <1>2, <1>3
  <2>. QED  BY <1>4, <2>1
<1>9. Arrived' = {} /\ 0 \in Blocks' /\ 0 \in SkThreads
  BY <1>2, <1>3, <1>8, SkAssumption DEF Arrived
<1>10. \A c \in Blocks' : ~IsTheLast(c)'
  BY <1>9 DEF IsTheLast
<1>11. OneLast'
  BY <1>9, <1>10 DEF OneLast
<1>12. CounterCounts'
  BY <1>2, <1>9, <1>10, FS_EmptySet DEF CounterCounts
<1>13. ColumnsRight'
  BY <1>10 DEF ColumnsRight, SkLaunch
<1>14. \A c \in Blocks' : PartsInPlace(c)'
  BY <1>8, <1>9 DEF PartsInPlace
<1>15. \A c \in Blocks', u \in SkThreads : Ordered(c, u)'
  BY <1>8 DEF Ordered
<1>. QED  BY <1>2, <1>5, <1>7, <1>11, <1>12, <1>13, <1>14, <1>15

LEMMA EndKeepsSk ==
    ASSUME SkInv, SkEnd
    PROVE  SkInv'
<1>. USE DEF SkInv
<1>1. /\ skRun.ks # 0 /\ skRun'.ks = 0 /\ skPc' = skPc /\ skCnt' = skCnt
      /\ \A b \in Blocks, t \in SkThreads : skPc[b][t] = "done"
  BY DEF SkEnd, Finished, SkTypeOK
<1>2. Blocks' = {}
  BY <1>1 DEF Blocks
<1>3. \A b \in AllBlocks, t \in SkThreads : skPc'[b][t] = "done"
  BY <1>1
<1>4. SkTypeOK'
  BY DEF SkTypeOK, SkEnd
<1>5. 0 \in Blocks /\ 0 \in SkThreads
  BY <1>1, SkBlocks, SkAssumption DEF Blocks
<1>6. Arrived = Blocks
  BY <1>1, <1>5 DEF Arrived
<1>7. \E b \in Blocks : IsTheLast(b)
  BY <1>1, <1>5, <1>6 DEF OneLast
<1>8. skCnt = 0
  BY <1>1, <1>5, <1>7 DEF CounterCounts
<1>. QED  BY <1>1, <1>2, <1>3, <1>4, <1>8

\* A move of one thread that is neither its block's arrival nor a step of the last block
\* leaves who has arrived as it was.
LEMMA SameArrivals ==
    ASSUME SkInv, NEW b \in Blocks, NEW t \in SkThreads, NEW pc \in SkPcs, Go(b, t, pc),
           UNCHANGED <<skRun, skLast>>,
           t = 0 => (skPc[b][0] \in {"acc", "sync", "arrive"}) = (pc \in {"acc", "sync", "arrive"})
    PROVE  /\ Blocks' = Blocks /\ Arrived' = Arrived
           /\ \A c \in Blocks : IsTheLast(c)' = IsTheLast(c) /\ Mine(c)' = Mine(c)
           /\ OneLast => OneLast'
<1>. USE DEF SkInv
<1>1. Blocks' = Blocks /\ Blocks \subseteq AllBlocks /\ 0 \in SkThreads
  BY SkBlocks, SkAssumption DEF Blocks
<1>2. \A c \in Blocks : (skPc'[c][0] \in {"acc", "sync", "arrive"}) = (skPc[c][0] \in {"acc", "sync", "arrive"})
  BY <1>1, GoMoves
<1>3. Arrived' = Arrived
  BY <1>1, <1>2 DEF Arrived
<1>4. \A c \in Blocks : IsTheLast(c)' = IsTheLast(c) /\ Mine(c)' = Mine(c)
  BY <1>3 DEF IsTheLast, Mine
<1>5. OneLast => OneLast'
  BY <1>1, <1>3, <1>4 DEF OneLast
<1>. QED  BY <1>1, <1>3, <1>4, <1>5

LEMMA StoreKeepsSk ==
    ASSUME SkInv, NEW b \in AllBlocks, NEW t \in SkThreads, StorePartial(b, t)
    PROVE  SkInv'
<1>. USE DEF SkInv
<1>1. /\ b \in Blocks /\ skPc[b][t] = "acc" /\ Go(b, t, "sync") /\ skRun.ks # 0
      /\ UNCHANGED <<skRun, skPart, skCnt, skLast, skOut>>
      /\ skOwn' = [skOwn EXCEPT ![b][t] = Mine(b)]
  BY SkBlocks DEF StorePartial, At, Mine, Blocks
<1>2. /\ "sync" \in SkPcs /\ 0 \in SkThreads /\ Blocks \subseteq AllBlocks /\ Mine(b) \in SkParts
  BY SkBlocks, SlabsTyped, SkAssumption DEF SkPcs, Mine, SkParts
<1>3. /\ Blocks' = Blocks /\ Arrived' = Arrived /\ OneLast'
      /\ \A c \in Blocks : IsTheLast(c)' = IsTheLast(c) /\ Mine(c)' = Mine(c)
  BY <1>1, <1>2, SameArrivals
<1>4. /\ skPc' \in [AllBlocks -> [SkThreads -> SkPcs]]
      /\ \A c \in AllBlocks, u \in SkThreads :
            skPc'[c][u] = IF c = b /\ u = t THEN "sync" ELSE skPc[c][u]
  BY <1>1, <1>2, GoMoves
<1>5. \A c \in AllBlocks, u \in SkThreads :
         skOwn'[c][u] = IF c = b /\ u = t THEN Mine(b) ELSE skOwn[c][u]
  BY <1>1 DEF SkTypeOK
<1>6. SkTypeOK'
  BY <1>1, <1>2, <1>4 DEF SkTypeOK
<1>7. Ordered(b, t) /\ OneLast /\ CounterCounts /\ ColumnsRight /\ PartsInPlace(b)
  BY <1>1
\* Nobody in the block is past the barrier.
<1>8. \A u \in SkThreads : skPc[b][u] \in {"acc", "sync"}
  BY <1>1, <1>2 DEF Ordered, SkTypeOK
<1>9. \A c \in Blocks, u \in SkThreads : Ordered(c, u)'
  <2>. SUFFICES ASSUME NEW c \in Blocks, NEW u \in SkThreads PROVE Ordered(c, u)'
    OBVIOUS
  <2>1. CASE c = b
    BY <1>2, <1>4, <1>8, <2>1 DEF Ordered
  <2>2. CASE c # b
    <3>1. Ordered(c, u)
      BY <1>1
    <3>. QED  BY <1>1, <1>2, <1>4, <2>2, <3>1 DEF Ordered
  <2>. QED  BY <2>1, <2>2
<1>10. \A c \in Blocks : PartsInPlace(c)'
  <2>. SUFFICES ASSUME NEW c \in Blocks PROVE PartsInPlace(c)'
    OBVIOUS
  <2>1. PartsInPlace(c)
    BY <1>1
  <2>. QED  BY <1>1, <1>2, <1>3, <1>4, <1>5, <2>1 DEF PartsInPlace
<1>11. CounterCounts'
  <2>1. \A c \in Blocks : c \in Arrived => skPc'[c][0] = skPc[c][0]
    BY <1>1, <1>2, <1>4, <1>8 DEF Arrived
  <2>. QED  BY <1>1, <1>3, <1>7, <2>1 DEF CounterCounts, IsTheLast
<1>12. ColumnsRight'
  <2>1. \A c \in Blocks, u \in SkThreads : skPc'[c][u] = "done" => skPc[c][u] = "done"
    BY <1>2, <1>4
  <2>. QED  BY <1>1, <1>2, <1>3, <1>7, <2>1 DEF ColumnsRight
<1>13. \A c \in AllBlocks \ Blocks, u \in SkThreads : skPc'[c][u] = "done"
  BY <1>1, <1>4
<1>. QED  BY <1>1, <1>3, <1>6, <1>9, <1>10, <1>11, <1>12, <1>13

LEMMA PassKeepsSk ==
    ASSUME SkInv, NEW b \in AllBlocks, NEW t \in SkThreads, PassBarrier(b, t)
    PROVE  SkInv'
<1>. USE DEF SkInv
<1>. DEFINE next == IF t = 0 THEN "arrive" ELSE "wait"
<1>1. /\ b \in Blocks /\ skPc[b][t] = "sync" /\ Go(b, t, next) /\ skRun.ks # 0
      /\ UNCHANGED <<skRun, skPart, skOwn, skCnt, skLast, skOut>>
      /\ \A u \in SkThreads : skPc[b][u] # "acc"
  BY SkBlocks DEF PassBarrier, At, Blocks, Stored
<1>2. /\ next \in SkPcs /\ 0 \in SkThreads /\ Blocks \subseteq AllBlocks
  BY SkBlocks, SkAssumption DEF SkPcs
<1>3. /\ Blocks' = Blocks /\ Arrived' = Arrived /\ OneLast'
      /\ \A c \in Blocks : IsTheLast(c)' = IsTheLast(c) /\ Mine(c)' = Mine(c)
  BY <1>1, <1>2, SameArrivals
<1>4. /\ skPc' \in [AllBlocks -> [SkThreads -> SkPcs]]
      /\ \A c \in AllBlocks, u \in SkThreads :
            skPc'[c][u] = IF c = b /\ u = t THEN next ELSE skPc[c][u]
  BY <1>1, <1>2, GoMoves
<1>6. SkTypeOK'
  BY <1>1, <1>2, <1>4 DEF SkTypeOK
<1>7. OneLast /\ CounterCounts /\ ColumnsRight /\ PartsInPlace(b) /\ \A u \in SkThreads : Ordered(b, u)
  BY <1>1
<1>9. \A c \in Blocks, u \in SkThreads : Ordered(c, u)'
  <2>. SUFFICES ASSUME NEW c \in Blocks, NEW u \in SkThreads PROVE Ordered(c, u)'
    OBVIOUS
  <2>1. CASE c = b
    \* t is before its second barrier, so nobody is beyond it.
    <3>1. \A v \in SkThreads : skPc[b][v] \notin {"reset", "sum", "done"}
      BY <1>1, <1>7 DEF Ordered
    <3>2. \A v \in SkThreads : skPc'[b][v] \notin {"acc", "reset", "sum", "done"}
      BY <1>1, <1>4, <3>1
    <3>. QED  BY <1>4, <1>7, <2>1, <3>2 DEF Ordered
  <2>2. CASE c # b
    <3>1. Ordered(c, u)
      BY <1>1
    <3>. QED  BY <1>1, <1>2, <1>4, <2>2, <3>1 DEF Ordered
  <2>. QED  BY <2>1, <2>2
<1>10. \A c \in Blocks : PartsInPlace(c)'
  <2>. SUFFICES ASSUME NEW c \in Blocks PROVE PartsInPlace(c)'
    OBVIOUS
  <2>1. PartsInPlace(c)
    BY <1>1
  <2>2. \A u \in SkThreads : skPc'[c][u] # "acc" => skPc[c][u] # "acc"
    BY <1>1, <1>2, <1>4
  <2>. QED  BY <1>1, <1>2, <1>3, <2>1, <2>2 DEF PartsInPlace
<1>11. CounterCounts'
  <2>1. \A c \in Blocks : c \in Arrived => skPc'[c][0] = skPc[c][0]
    BY <1>1, <1>2, <1>4 DEF Arrived
  <2>. QED  BY <1>1, <1>3, <1>7, <2>1 DEF CounterCounts, IsTheLast
<1>12. ColumnsRight'
  <2>1. \A c \in Blocks, u \in SkThreads : skPc'[c][u] = "done" => skPc[c][u] = "done"
    BY <1>2, <1>4
  <2>. QED  BY <1>1, <1>2, <1>3, <1>7, <2>1 DEF ColumnsRight
<1>13. \A c \in AllBlocks \ Blocks, u \in SkThreads : skPc'[c][u] = "done"
  BY <1>1, <1>4
<1>. QED  BY <1>1, <1>3, <1>6, <1>9, <1>10, <1>11, <1>12, <1>13

LEMMA LeaveKeepsSk ==
    ASSUME SkInv, NEW b \in AllBlocks, NEW t \in SkThreads, LeaveBarrier(b, t)
    PROVE  SkInv'
<1>. USE DEF SkInv
<1>. DEFINE next == IF ~skLast[b] THEN "done" ELSE IF t = 0 THEN "reset" ELSE "sum"
<1>1. /\ b \in Blocks /\ skPc[b][t] = "wait" /\ Go(b, t, next) /\ skRun.ks # 0
      /\ UNCHANGED <<skRun, skPart, skOwn, skCnt, skLast, skOut>>
      /\ \A u \in SkThreads : skPc[b][u] \notin {"acc", "sync", "arrive"}
  BY SkBlocks DEF LeaveBarrier, At, Blocks
<1>2. /\ next \in SkPcs /\ 0 \in SkThreads /\ Blocks \subseteq AllBlocks
      /\ next \notin {"acc", "sync", "arrive"}
  BY SkBlocks, SkAssumption DEF SkPcs
<1>3. /\ Blocks' = Blocks /\ Arrived' = Arrived /\ OneLast'
      /\ \A c \in Blocks : IsTheLast(c)' = IsTheLast(c) /\ Mine(c)' = Mine(c)
  BY <1>1, <1>2, SameArrivals
<1>4. /\ skPc' \in [AllBlocks -> [SkThreads -> SkPcs]]
      /\ \A c \in AllBlocks, u \in SkThreads :
            skPc'[c][u] = IF c = b /\ u = t THEN next ELSE skPc[c][u]
  BY <1>1, <1>2, GoMoves
<1>6. SkTypeOK'
  BY <1>1, <1>2, <1>4 DEF SkTypeOK
<1>7. OneLast /\ CounterCounts /\ ColumnsRight /\ PartsInPlace(b) /\ \A u \in SkThreads : Ordered(b, u)
  BY <1>1
<1>8. b \in Arrived
  BY <1>1, <1>2 DEF Arrived
<1>9. \A c \in Blocks, u \in SkThreads : Ordered(c, u)'
  <2>. SUFFICES ASSUME NEW c \in Blocks, NEW u \in SkThreads PROVE Ordered(c, u)'
    OBVIOUS
  <2>1. CASE c = b
    <3>1. \A v \in SkThreads : skPc'[b][v] \notin {"acc", "sync", "arrive"}
      BY <1>1, <1>2, <1>4
    <3>2. next \in {"reset", "sum"} => skLast'[b]
      BY <1>1
    <3>3. t # 0 => next # "reset"
      OBVIOUS
    <3>4. CASE u = t
      BY <1>4, <2>1, <3>1, <3>2, <3>3, <3>4 DEF Ordered
    <3>5. CASE u # t
      BY <1>1, <1>4, <1>7, <2>1, <3>1, <3>5 DEF Ordered
    <3>. QED  BY <3>4, <3>5
  <2>2. CASE c # b
    <3>1. Ordered(c, u)
      BY <1>1
    <3>. QED  BY <1>1, <1>2, <1>4, <2>2, <3>1 DEF Ordered
  <2>. QED  BY <2>1, <2>2
<1>10. \A c \in Blocks : PartsInPlace(c)'
  <2>. SUFFICES ASSUME NEW c \in Blocks PROVE PartsInPlace(c)'
    OBVIOUS
  <2>1. PartsInPlace(c)
    BY <1>1
  <2>2. \A u \in SkThreads : skPc'[c][u] # "acc" => skPc[c][u] # "acc"
    BY <1>1, <1>2, <1>4
  <2>. QED  BY <1>1, <1>2, <1>3, <2>1, <2>2 DEF PartsInPlace
<1>11. CounterCounts'
  \* b is the last only if it takes the way of the last.
  <2>1. \A c \in Blocks : IsTheLast(c) =>
           /\ skPc[c][0] \in {"wait", "reset"} => skPc'[c][0] \in {"wait", "reset"}
           /\ skPc'[c][0] \in {"sum", "done"} => skPc[c][0] \in {"sum", "done"}
           /\ skPc'[c][0] \in {"wait", "reset"} => skPc[c][0] \in {"wait", "reset"}
    BY <1>1, <1>2, <1>4 DEF IsTheLast
  <2>. QED  BY <1>1, <1>3, <1>7, <2>1 DEF CounterCounts
<1>12. ColumnsRight'
  <2>1. \A c \in Blocks, u \in SkThreads :
           IsTheLast(c) /\ skPc'[c][u] = "done" => skPc[c][u] = "done"
    BY <1>2, <1>4 DEF IsTheLast
  <2>. QED  BY <1>1, <1>2, <1>3, <1>7, <2>1 DEF ColumnsRight
<1>13. \A c \in AllBlocks \ Blocks, u \in SkThreads : skPc'[c][u] = "done"
  BY <1>1, <1>4
<1>. QED  BY <1>1, <1>3, <1>6, <1>9, <1>10, <1>11, <1>12, <1>13

\* While some block has not arrived nobody is the last, and the counter holds how many have.
LEMMA NobodyYet ==
    ASSUME SkInv, skRun.ks # 0, NEW b \in Blocks, b \notin Arrived
    PROVE  /\ \A c \in Blocks : ~IsTheLast(c)
           /\ skCnt = Cardinality(Arrived)
BY DEF SkInv, OneLast, CounterCounts

LEMMA ArriveKeepsSk ==
    ASSUME SkInv, NEW b \in AllBlocks, Arrive(b)
    PROVE  SkInv'
<1>. USE DEF SkInv
<1>1. /\ b \in Blocks /\ skPc[b][0] = "arrive" /\ Go(b, 0, "wait") /\ skRun.ks # 0
      /\ UNCHANGED <<skRun, skOwn, skOut>>
      /\ skPart' = [skPart EXCEPT ![b] = skOwn[b]]
      /\ skLast' = [skLast EXCEPT ![b] = (skCnt = skRun.ks - 1)]
      /\ skCnt' = skCnt + 1
  BY SkBlocks DEF Arrive, At, Blocks, Published, IsLast
<1>2. /\ "wait" \in SkPcs /\ 0 \in SkThreads /\ Blocks \subseteq AllBlocks /\ Blocks' = Blocks
      /\ IsFiniteSet(Blocks) /\ Cardinality(Blocks) = skRun.ks
  BY <1>1, SkBlocks, SkAssumption DEF SkPcs, Blocks
<1>3. /\ skPc' \in [AllBlocks -> [SkThreads -> SkPcs]]
      /\ \A c \in AllBlocks, u \in SkThreads :
            skPc'[c][u] = IF c = b /\ u = 0 THEN "wait" ELSE skPc[c][u]
  BY <1>1, <1>2, GoMoves
<1>4. /\ \A c \in AllBlocks : skPart'[c] = IF c = b THEN skOwn[b] ELSE skPart[c]
      /\ \A c \in AllBlocks : skLast'[c] = IF c = b THEN skCnt = skRun.ks - 1 ELSE skLast[c]
  BY <1>1 DEF SkTypeOK
<1>5. SkTypeOK'
  <2>1. skPart' \in [AllBlocks -> [SkThreads -> SkParts]]
    BY <1>1 DEF SkTypeOK
  <2>2. skLast' \in [AllBlocks -> BOOLEAN]
    <3>. DEFINE last == skCnt = skRun.ks - 1
    <3>1. last \in BOOLEAN
      OBVIOUS
    <3>. HIDE DEF last
    <3>. QED  BY <1>1, <3>1 DEF SkTypeOK, last
  <2>3. skCnt' \in Nat
    BY <1>1 DEF SkTypeOK
  <2>. QED  BY <1>1, <1>3, <2>1, <2>2, <2>3 DEF SkTypeOK
<1>6. OneLast /\ CounterCounts /\ ColumnsRight /\ PartsInPlace(b) /\ \A u \in SkThreads : Ordered(b, u)
  BY <1>1
<1>7. b \notin Arrived /\ Arrived' = Arrived \cup {b}
  BY <1>1, <1>2, <1>3 DEF Arrived
<1>8. /\ \A c \in Blocks : ~IsTheLast(c)
      /\ skCnt = Cardinality(Arrived)
  BY <1>1, <1>7, NobodyYet
<1>9. Arrived \subseteq Blocks /\ IsFiniteSet(Arrived) /\ Arrived' \subseteq Blocks /\ IsFiniteSet(Arrived')
  BY <1>1, <1>2, <1>7, FS_Subset DEF Arrived
<1>10. Cardinality(Arrived') = skCnt + 1
  BY <1>7, <1>8, <1>9, FS_AddElement
<1>11. Arrived' = Blocks <=> skCnt = skRun.ks - 1
  <2>1. Cardinality(Arrived') = skRun.ks => Arrived' = Blocks
    BY <1>2, <1>9, FS_Subset
  <2>2. skCnt \in Nat /\ skRun.ks \in Nat
    BY SkBlocks DEF SkTypeOK
  <2>. QED  BY <1>2, <1>10, <2>1, <2>2
<1>12. \A c \in Blocks : IsTheLast(c)' <=> c = b /\ skCnt = skRun.ks - 1
  BY <1>2, <1>4, <1>7, <1>8 DEF IsTheLast
<1>13. OneLast'
  BY <1>1, <1>2, <1>11, <1>12 DEF OneLast
<1>14. CounterCounts'
  BY <1>1, <1>2, <1>3, <1>10, <1>12 DEF CounterCounts
<1>15. \A c \in Blocks : Mine(c)' = Mine(c)
  BY <1>1 DEF Mine
<1>16. \A u \in SkThreads : skPc[b][u] \notin {"acc", "reset", "sum", "done"}
  BY <1>1, <1>2, <1>6 DEF Ordered
<1>17. \A c \in Blocks, u \in SkThreads : Ordered(c, u)'
  <2>. SUFFICES ASSUME NEW c \in Blocks, NEW u \in SkThreads PROVE Ordered(c, u)'
    OBVIOUS
  <2>1. CASE c = b
    <3>1. \A v \in SkThreads : skPc'[b][v] \notin {"acc", "reset", "sum", "done"}
      BY <1>2, <1>3, <1>16
    <3>2. u # 0 => skPc'[b][u] # "arrive"
      BY <1>2, <1>3, <1>6 DEF Ordered
    <3>. QED  BY <2>1, <3>1, <3>2 DEF Ordered
  <2>2. CASE c # b
    <3>1. Ordered(c, u) /\ skLast'[c] = skLast[c]
      BY <1>1, <1>2, <1>4, <2>2
    <3>. QED  BY <1>2, <1>3, <2>2, <3>1 DEF Ordered
  <2>. QED  BY <2>1, <2>2
<1>18. \A c \in Blocks : PartsInPlace(c)'
  <2>. SUFFICES ASSUME NEW c \in Blocks PROVE PartsInPlace(c)'
    OBVIOUS
  <2>1. PartsInPlace(c)
    BY <1>1
  <2>2. \A u \in SkThreads : skPc'[c][u] # "acc" => skPc[c][u] # "acc"
    BY <1>1, <1>2, <1>3
  <2>3. \A u \in SkThreads : skPc'[c][u] # "acc" => skOwn'[c][u] = Mine(c)'
    BY <1>1, <1>15, <2>1, <2>2 DEF PartsInPlace
  <2>4. ASSUME c \in Arrived' PROVE \A u \in SkThreads : skPart'[c][u] = Mine(c)'
    <3>1. CASE c = b
      BY <1>2, <1>4, <1>6, <1>15, <1>16, <3>1 DEF PartsInPlace
    <3>2. CASE c # b
      BY <1>2, <1>4, <1>7, <1>15, <2>1, <2>4, <3>2 DEF PartsInPlace
    <3>. QED  BY <3>1, <3>2
  <2>. QED  BY <2>3, <2>4 DEF PartsInPlace
<1>19. ColumnsRight'
  <2>1. \A u \in SkThreads : skPc'[b][u] # "done"
    BY <1>2, <1>3, <1>16
  <2>. QED  BY <1>1, <1>2, <1>6, <1>12, <1>15, <2>1 DEF ColumnsRight
<1>20. \A c \in AllBlocks \ Blocks, u \in SkThreads : skPc'[c][u] = "done"
  BY <1>1, <1>3
<1>. QED  BY <1>1, <1>2, <1>5, <1>13, <1>14, <1>17, <1>18, <1>19, <1>20

LEMMA ResetKeepsSk ==
    ASSUME SkInv, NEW b \in AllBlocks, ResetCounter(b)
    PROVE  SkInv'
<1>. USE DEF SkInv
<1>1. /\ b \in Blocks /\ skPc[b][0] = "reset" /\ Go(b, 0, "sum") /\ skRun.ks # 0
      /\ UNCHANGED <<skRun, skPart, skOwn, skLast, skOut>> /\ skCnt' = 0
  BY SkBlocks DEF ResetCounter, At, Blocks, Cleared
<1>2. /\ "sum" \in SkPcs /\ 0 \in SkThreads /\ Blocks \subseteq AllBlocks
  BY SkBlocks, SkAssumption DEF SkPcs
<1>3. /\ Blocks' = Blocks /\ Arrived' = Arrived /\ OneLast'
      /\ \A c \in Blocks : IsTheLast(c)' = IsTheLast(c) /\ Mine(c)' = Mine(c)
  BY <1>1, <1>2, SameArrivals
<1>4. /\ skPc' \in [AllBlocks -> [SkThreads -> SkPcs]]
      /\ \A c \in AllBlocks, u \in SkThreads :
            skPc'[c][u] = IF c = b /\ u = 0 THEN "sum" ELSE skPc[c][u]
  BY <1>1, <1>2, GoMoves
<1>5. SkTypeOK'
  BY <1>1, <1>2, <1>4 DEF SkTypeOK
<1>6. OneLast /\ CounterCounts /\ ColumnsRight /\ PartsInPlace(b) /\ \A u \in SkThreads : Ordered(b, u)
  BY <1>1
<1>7. skLast[b] /\ IsTheLast(b)
  BY <1>1, <1>2, <1>6 DEF Ordered, IsTheLast, Arrived
<1>8. \A c \in Blocks : IsTheLast(c) => c = b
  BY <1>1, <1>6, <1>7 DEF OneLast
<1>9. CounterCounts'
  BY <1>1, <1>2, <1>3, <1>4, <1>7, <1>8 DEF CounterCounts
<1>10. \A c \in Blocks, u \in SkThreads : Ordered(c, u)'
  <2>. SUFFICES ASSUME NEW c \in Blocks, NEW u \in SkThreads PROVE Ordered(c, u)'
    OBVIOUS
  <2>1. Ordered(c, u)
    BY <1>1
  <2>2. CASE c = b
    <3>1. Ordered(b, 0)
      BY <1>2, <1>6
    <3>2. \A v \in SkThreads : skPc'[b][v] \notin {"acc", "sync", "arrive"}
      BY <1>1, <1>2, <1>4, <3>1 DEF Ordered
    <3>. QED  BY <1>1, <1>4, <1>7, <2>1, <2>2, <3>2 DEF Ordered
  <2>3. CASE c # b
    BY <1>1, <1>2, <1>4, <2>1, <2>3 DEF Ordered
  <2>. QED  BY <2>2, <2>3
<1>11. \A c \in Blocks : PartsInPlace(c)'
  <2>. SUFFICES ASSUME NEW c \in Blocks PROVE PartsInPlace(c)'
    OBVIOUS
  <2>1. PartsInPlace(c)
    BY <1>1
  <2>2. \A u \in SkThreads : skPc'[c][u] # "acc" => skPc[c][u] # "acc"
    BY <1>1, <1>2, <1>4
  <2>. QED  BY <1>1, <1>2, <1>3, <2>1, <2>2 DEF PartsInPlace
<1>12. ColumnsRight'
  <2>1. \A c \in Blocks, u \in SkThreads : skPc'[c][u] = "done" => skPc[c][u] = "done"
    BY <1>2, <1>4
  <2>. QED  BY <1>1, <1>2, <1>3, <1>6, <2>1 DEF ColumnsRight
<1>13. \A c \in AllBlocks \ Blocks, u \in SkThreads : skPc'[c][u] = "done"
  BY <1>1, <1>4
<1>. QED  BY <1>1, <1>3, <1>5, <1>9, <1>10, <1>11, <1>12, <1>13

LEMMA SumKeepsSk ==
    ASSUME SkInv, NEW b \in AllBlocks, NEW t \in SkThreads, SumColumn(b, t)
    PROVE  SkInv'
<1>. USE DEF SkInv
<1>. DEFINE sum == [k \in Blocks |-> skPart[k][t]]
<1>1. /\ b \in Blocks /\ skPc[b][t] = "sum" /\ Go(b, t, "done") /\ skRun.ks # 0
      /\ UNCHANGED <<skRun, skPart, skOwn, skCnt, skLast>>
      /\ skOut' = [skOut EXCEPT ![t] = @ \cup {sum}]
  BY SkBlocks DEF SumColumn, At, Blocks
<1>2. /\ "done" \in SkPcs /\ 0 \in SkThreads /\ Blocks \subseteq AllBlocks
  BY SkBlocks, SkAssumption DEF SkPcs
<1>3. OneLast /\ CounterCounts /\ ColumnsRight /\ PartsInPlace(b) /\ \A u \in SkThreads : Ordered(b, u)
  BY <1>1
<1>4. \A u \in SkThreads : skPc[b][u] \notin {"acc", "sync", "arrive"}
  BY <1>1, <1>3 DEF Ordered
<1>5. IsTheLast(b) /\ Arrived = Blocks
  BY <1>1, <1>2, <1>3, <1>4 DEF Ordered, IsTheLast, Arrived, OneLast
<1>6. /\ Blocks' = Blocks /\ Arrived' = Arrived /\ OneLast'
      /\ \A c \in Blocks : IsTheLast(c)' = IsTheLast(c) /\ Mine(c)' = Mine(c)
  BY <1>1, <1>2, <1>3, <1>4, SameArrivals
<1>7. /\ skPc' \in [AllBlocks -> [SkThreads -> SkPcs]]
      /\ \A c \in AllBlocks, u \in SkThreads :
            skPc'[c][u] = IF c = b /\ u = t THEN "done" ELSE skPc[c][u]
  BY <1>1, <1>2, GoMoves
<1>8. SkTypeOK'
  BY <1>1, <1>2, <1>7 DEF SkTypeOK
<1>9. CounterCounts'
  <2>1. \A c \in Blocks : IsTheLast(c) =>
           /\ skPc'[c][0] \in {"wait", "reset"} <=> skPc[c][0] \in {"wait", "reset"}
           /\ skPc'[c][0] \in {"sum", "done"} <=> skPc[c][0] \in {"sum", "done"}
    BY <1>1, <1>2, <1>7
  <2>. QED  BY <1>1, <1>3, <1>6, <2>1 DEF CounterCounts
<1>10. \A c \in Blocks, u \in SkThreads : Ordered(c, u)'
  <2>. SUFFICES ASSUME NEW c \in Blocks, NEW u \in SkThreads PROVE Ordered(c, u)'
    OBVIOUS
  <2>1. Ordered(c, u)
    BY <1>1
  <2>2. CASE c = b
    <3>1. \A v \in SkThreads : skPc'[b][v] \notin {"acc", "sync", "arrive"}
      BY <1>2, <1>4, <1>7
    <3>. QED  BY <1>1, <1>5, <1>7, <2>1, <2>2, <3>1 DEF Ordered, IsTheLast
  <2>3. CASE c # b
    BY <1>1, <1>2, <1>7, <2>1, <2>3 DEF Ordered
  <2>. QED  BY <2>2, <2>3
<1>11. \A c \in Blocks : PartsInPlace(c)'
  <2>. SUFFICES ASSUME NEW c \in Blocks PROVE PartsInPlace(c)'
    OBVIOUS
  <2>1. PartsInPlace(c)
    BY <1>1
  <2>2. \A u \in SkThreads : skPc'[c][u] # "acc" => skPc[c][u] # "acc"
    BY <1>1, <1>2, <1>7
  <2>. QED  BY <1>1, <1>2, <1>6, <2>1, <2>2 DEF PartsInPlace
<1>12. ColumnsRight'
  <2>1. sum = [k \in Blocks |-> Mine(k)]
    <3>1. \A k \in Blocks : skPart[k][t] = Mine(k)
      BY <1>1, <1>5 DEF PartsInPlace
    <3>. QED  BY <3>1
  <2>2. \A u \in SkThreads : skOut'[u] = IF u = t THEN skOut[t] \cup {sum} ELSE skOut[u]
    BY <1>1 DEF SkTypeOK
  <2>3. [k \in Blocks |-> Mine(k)]' = [k \in Blocks |-> Mine(k)]
    BY <1>6
  <2>4. \A u \in SkThreads : \A x \in skOut'[u] : x = [k \in Blocks |-> Mine(k)]
    <3>. DEFINE right == [k \in Blocks |-> Mine(k)]
    <3>1. \A u \in SkThreads : \A x \in skOut[u] : x = right
      BY <1>3 DEF ColumnsRight
    <3>2. sum = right
      BY <2>1
    <3>. HIDE DEF right, sum
    <3>3. \A u \in SkThreads : \A x \in skOut'[u] : x = right
      BY <2>2, <3>1, <3>2
    <3>. QED  BY <3>3 DEF right
  <2>5. ASSUME NEW c \in Blocks, NEW u \in SkThreads, IsTheLast(c), skPc'[c][u] = "done"
        PROVE  skOut'[u] # {}
    <3>1. c = b
      BY <1>1, <1>3, <1>5, <2>5 DEF OneLast
    <3>2. CASE u = t
      BY <2>2, <3>2
    <3>3. CASE u # t
      BY <1>1, <1>2, <1>3, <1>7, <2>2, <2>5, <3>1, <3>3 DEF ColumnsRight
    <3>. QED  BY <3>2, <3>3
  <2>. QED  BY <1>6, <2>3, <2>4, <2>5 DEF ColumnsRight
<1>13. \A c \in AllBlocks \ Blocks, u \in SkThreads : skPc'[c][u] = "done"
  BY <1>1, <1>7
<1>. QED  BY <1>1, <1>6, <1>8, <1>9, <1>10, <1>11, <1>12, <1>13

LEMMA SkInvariant == SkSpec => []SkInv
<1>1. SkInv /\ [SkNext]_skVars => SkInv'
  <2>. SUFFICES ASSUME SkInv, [SkNext]_skVars PROVE SkInv'
    OBVIOUS
  <2>1. CASE SkNext
    BY <2>1, LaunchKeepsSk, EndKeepsSk, StoreKeepsSk, PassKeepsSk, ArriveKeepsSk,
       LeaveKeepsSk, ResetKeepsSk, SumKeepsSk DEF SkNext
  <2>2. CASE UNCHANGED skVars
    BY <2>2 DEF skVars, SkInv, SkTypeOK, OneLast, CounterCounts, ColumnsRight, PartsInPlace,
       Ordered, IsTheLast, Arrived, Blocks, Mine
  <2>. QED  BY <2>1, <2>2
<1>. QED  BY <1>1, SkInitOK, PTL DEF SkSpec

\* The shares of the blocks make up K.
LEMMA SlabsCover ==
    ASSUME NEW ks \in Nat \ {0}, NEW slabs \in Nat
    PROVE  UNION {SlabsOf(ks, slabs, k) : k \in 0 .. (ks - 1)} = 0 .. (slabs - 1)
<1>. DEFINE spb == CeilDiv(slabs, ks)
<1>1. spb \in Nat /\ spb * ks >= slabs
  <2>1. \A n \in Nat, d \in Nat \ {0} : (n + d - 1) \div d \in Nat /\ ((n + d - 1) \div d) * d >= n
    OBVIOUS
  <2>. QED  BY <2>1 DEF CeilDiv
<1>2. ASSUME NEW s \in 0 .. (slabs - 1)
      PROVE  \E k \in 0 .. (ks - 1) : s \in SlabsOf(ks, slabs, k)
  <2>1. spb \in Nat \ {0}
    BY <1>1, <1>2
  <2>. DEFINE k == s \div spb
  <2>2. k \in Nat /\ k * spb <= s /\ s < (k + 1) * spb
    <3>1. \A n \in Nat, d \in Nat \ {0} :
             n \div d \in Nat /\ (n \div d) * d <= n /\ n < (n \div d + 1) * d
      OBVIOUS
    <3>. HIDE DEF spb
    <3>. QED  BY <2>1, <3>1
  <2>3. k < ks
    <3>. HIDE DEF spb, k
    <3>1. \A a, b \in Nat : a >= b => a * spb >= b * spb
      BY <2>1
    <3>. QED  BY <1>1, <1>2, <2>1, <2>2, <3>1
  <2>4. s \in SlabsOf(ks, slabs, k)
    BY <2>2 DEF SlabsOf
  <2>. QED  BY <2>2, <2>3, <2>4
<1>3. \A k \in 0 .. (ks - 1) : SlabsOf(ks, slabs, k) \subseteq 0 .. (slabs - 1)
  BY DEF SlabsOf
<1>. QED  BY <1>2, <1>3

LEMMA SummedFromInv == SkInv => SummedOnce /\ CounterClear
<1>. SUFFICES ASSUME SkInv PROVE SummedOnce /\ CounterClear
  OBVIOUS
<1>1. CounterClear
  BY DEF SkInv, CounterClear
<1>2. ASSUME Finished, NEW t \in SkThreads
      PROVE  skOut[t] # {} /\ \A sum \in skOut[t] : WholeSum(sum)
  <2>1. /\ skRun.ks # 0 /\ OneLast /\ ColumnsRight /\ SkTypeOK
        /\ \A b \in Blocks, u \in SkThreads : skPc[b][u] = "done"
    BY <1>2 DEF SkInv, Finished
  <2>2. skRun.ks \in Nat \ {0} /\ skRun.slabs \in Nat /\ 0 \in Blocks /\ 0 \in SkThreads
    BY <2>1, SkBlocks, SkAssumption DEF Blocks
  <2>3. Arrived = Blocks
    BY <2>1, <2>2 DEF Arrived
  <2>4. skOut[t] # {}
    BY <2>1, <2>2, <2>3 DEF OneLast, ColumnsRight
  <2>5. ASSUME NEW sum \in skOut[t] PROVE WholeSum(sum)
    <3>1. sum = [k \in Blocks |-> Mine(k)]
      BY <2>1 DEF ColumnsRight
    <3>2. \A k \in Blocks : sum[k].no = skRun.no /\ sum[k].slabs = SlabsOf(skRun.ks, skRun.slabs, k)
      BY <3>1 DEF Mine
    <3>3. {sum[k].slabs : k \in Blocks} = {SlabsOf(skRun.ks, skRun.slabs, k) : k \in 0 .. (skRun.ks - 1)}
      BY <3>2 DEF Blocks
    <3>. QED  BY <2>2, <3>2, <3>3, SlabsCover DEF WholeSum
  <2>. QED  BY <2>4, <2>5
<1>. QED  BY <1>1, <1>2 DEF SummedOnce

\* For any number of threads and slabs and any sequence of launches, the kernel's output
\* is the sum of every slab of its own launch, none from an earlier one and none twice,
\* and the counter is zero when the next launch begins.
THEOREM SplitSums == SkSpec => [](SummedOnce /\ CounterClear)
BY SkInvariant, SummedFromInv, PTL

-----------------------------------------------------------------------------
(* ArOverlap: the slices of a call meet in its own output                  *)

Calls == 1 .. Len(aoM)
SliceNos == 0 .. AoSlices - 1
InSlices(c) == aoM[c] >= AoMinM

Quant(c) == Do("quant", c, 0, 0 .. aoM[c] - 1)
Mark(c) == Do("record", c, Ready, {})
WaitReady(c) == Do("wait", c, Ready, {})
Wait(c, i) == Do("wait", c, i, {})
Reduce(c, i) == Do("reduce", c, i, SliceRows(aoM[c], i))
Gemm(c, i) == Do("gemm", c, i, SliceRows(aoM[c], i))
Signal(c, i) == Do("record", c, i, {})
PlainOp(c) == Do("plain", c, 0, 0 .. aoM[c] - 1)

\* What call c puts on the two streams.
MainOf(c) ==
    IF InSlices(c) THEN {Quant(c), Mark(c)} \cup {Wait(c, i) : i \in SliceNos}
                      \cup {Reduce(c, i) : i \in SliceNos}
    ELSE {PlainOp(c)}
CommOf(c) ==
    IF InSlices(c) THEN {WaitReady(c)} \cup {Gemm(c, i) : i \in SliceNos}
                      \cup {Signal(c, i) : i \in SliceNos}
    ELSE {}

\* Where an operation stands among those of its call.
MainStep(o) ==
    CASE o.op = "quant" -> 0 [] o.op = "plain" -> 0 [] o.op = "record" -> 1
      [] o.op = "wait" -> 2 + 2 * o.slice [] o.op = "reduce" -> 3 + 2 * o.slice
CommStep(o) ==
    CASE o.op = "wait" -> 0 [] o.op = "gemm" -> 1 + 2 * o.slice [] o.op = "record" -> 2 + 2 * o.slice

MainBefore(o, p) == o.call < p.call \/ (o.call = p.call /\ MainStep(o) < MainStep(p))
CommBefore(o, p) == o.call < p.call \/ (o.call = p.call /\ CommStep(o) < CommStep(p))

\* P holds the operations M of one call, each once, in the order of their steps.
MainFilled(P, M) ==
    /\ \A k \in 1 .. Len(P) : P[k] \in M /\ MainStep(P[k]) = k - 1
    /\ \A o \in M : \E k \in 1 .. Len(P) : P[k] = o
CommFilled(P, M) ==
    /\ \A k \in 1 .. Len(P) : P[k] \in M /\ CommStep(P[k]) = k - 1
    /\ \A o \in M : \E k \in 1 .. Len(P) : P[k] = o

InMain(o) == \E k \in 1 .. Len(aoMain) : aoMain[k] = o
InComm(o) == \E k \in 1 .. Len(aoComm) : aoComm[k] = o

\* A stream holds, in the order of the calls and of their steps, all that is left from
\* some operation on.
MainQueue ==
    /\ \A k \in 1 .. Len(aoMain) : \E c \in Calls : aoMain[k] \in MainOf(c)
    /\ \A j, k \in 1 .. Len(aoMain) : j < k => MainBefore(aoMain[j], aoMain[k])
    /\ \A k \in 1 .. Len(aoMain), c \in Calls : \A o \in MainOf(c) :
          MainBefore(aoMain[k], o) => InMain(o)
CommQueue ==
    /\ \A k \in 1 .. Len(aoComm) : \E c \in Calls : aoComm[k] \in CommOf(c)
    /\ \A j, k \in 1 .. Len(aoComm) : j < k => CommBefore(aoComm[j], aoComm[k])
    /\ \A k \in 1 .. Len(aoComm), c \in Calls : \A o \in CommOf(c) :
          CommBefore(aoComm[k], o) => InComm(o)

\* An event has fired only if it was recorded, and a wait is over only if its event fired.
Fired ==
    /\ \A e \in aoEvents : e[1] \in Calls
    /\ \A c \in Calls : InSlices(c) =>
         /\ <<c, Ready>> \in aoEvents => ~InMain(Mark(c))
         /\ \A i \in SliceNos : <<c, i>> \in aoEvents => ~InComm(Signal(c, i))
Waited ==
    \A c \in Calls : InSlices(c) =>
       /\ InComm(WaitReady(c)) \/ <<c, Ready>> \in aoEvents
       /\ \A i \in SliceNos : InMain(Wait(c, i)) \/ <<c, i>> \in aoEvents

\* The scratch buffers hold what the last call to write them wrote.
Quantised ==
    \A c \in Calls :
       InSlices(c) /\ ~InMain(Quant(c)) /\ (\A d \in Calls : d > c /\ InSlices(d) => InMain(Quant(d))) =>
          \A r \in 0 .. aoM[c] - 1 : aoX8[r] = c
Multiplied ==
    \A c \in Calls, i \in SliceNos :
       InSlices(c) /\ ~InComm(Gemm(c, i)) /\ (\A d \in Calls : d > c /\ InSlices(d) => InComm(WaitReady(d))) =>
          \A r \in SliceRows(aoM[c], i) : aoY[r] = <<c, r>>

\* A row is reduced exactly when the operation that reduces it has run.
OnceIf(c, r, queued) == aoOut[c][r] = IF queued THEN <<>> ELSE <<<<c, r>>>>
ReducedSoFar ==
    \A c \in Calls :
       IF InSlices(c)
       THEN \A i \in SliceNos : \A r \in SliceRows(aoM[c], i) : OnceIf(c, r, InMain(Reduce(c, i)))
       ELSE \A r \in 0 .. aoM[c] - 1 : OnceIf(c, r, InMain(PlainOp(c)))

AoOps == [op : {"quant", "plain", "record", "wait", "gemm", "reduce"}, call : Nat, slice : Int,
          rows : SUBSET Int]
AoTypeOK ==
    /\ aoM \in Seq(AoRows)
    /\ aoMain \in Seq(AoOps) /\ aoComm \in Seq(AoOps)
    /\ aoX8 \in [AllRows -> Nat] /\ aoY \in [AllRows -> Nat \X Int]
    /\ aoOut \in Seq(UNION {[0 .. m - 1 -> Seq(Nat \X Int)] : m \in AoRows})
    /\ Len(aoOut) = Len(aoM)
    /\ \A c \in Calls : DOMAIN aoOut[c] = 0 .. aoM[c] - 1

AoInv ==
    /\ AoTypeOK /\ MainQueue /\ CommQueue /\ Fired /\ Waited
    /\ Quantised /\ Multiplied /\ ReducedSoFar

\* Taking the head off a sequence without repetitions takes off that element alone.
LEMMA TailMembers ==
    ASSUME NEW S, NEW q \in Seq(S), q # <<>>,
           \A j, k \in 1 .. Len(q) : j < k => q[j] # q[k]
    PROVE  /\ Len(q) \in Nat \ {0} /\ Head(q) = q[1] /\ Tail(q) \in Seq(S)
           /\ Len(Tail(q)) = Len(q) - 1
           /\ \A k \in 1 .. Len(q) - 1 : Tail(q)[k] = q[k + 1]
           /\ \A o : (\E k \in 1 .. Len(Tail(q)) : Tail(q)[k] = o)
                    <=> (\E k \in 1 .. Len(q) : q[k] = o) /\ o # q[1]
<1>1. Len(q) \in Nat \ {0} /\ Head(q) = q[1]
  BY EmptySeq
<1>2. /\ Tail(q) \in Seq(S) /\ Len(Tail(q)) = Len(q) - 1
      /\ \A k \in 1 .. Len(q) - 1 : Tail(q)[k] = q[k + 1]
  BY HeadTailProperties
<1>3. ASSUME NEW o, NEW k \in 1 .. Len(Tail(q)), Tail(q)[k] = o
      PROVE  (\E j \in 1 .. Len(q) : q[j] = o) /\ o # q[1]
  BY <1>1, <1>2, <1>3
<1>4. ASSUME NEW k \in 1 .. Len(q), q[k] # q[1]
      PROVE  \E j \in 1 .. Len(Tail(q)) : Tail(q)[j] = q[k]
  <2>1. k - 1 \in 1 .. Len(Tail(q)) /\ Tail(q)[k - 1] = q[k]
    BY <1>1, <1>2, <1>4
  <2>. QED  BY <2>1
<1>. QED  BY <1>1, <1>2, <1>3, <1>4

\* The operations of a call, told apart by what they are and where they stand.
LEMMA OpFacts ==
    ASSUME NEW c, NEW i
    PROVE  /\ Quant(c).op = "quant" /\ Quant(c).call = c /\ MainStep(Quant(c)) = 0
           /\ PlainOp(c).op = "plain" /\ PlainOp(c).call = c /\ MainStep(PlainOp(c)) = 0
           /\ Mark(c).op = "record" /\ Mark(c).call = c /\ MainStep(Mark(c)) = 1
           /\ Wait(c, i).op = "wait" /\ Wait(c, i).call = c /\ Wait(c, i).slice = i
           /\ MainStep(Wait(c, i)) = 2 + 2 * i
           /\ Reduce(c, i).op = "reduce" /\ Reduce(c, i).call = c /\ Reduce(c, i).slice = i
           /\ MainStep(Reduce(c, i)) = 3 + 2 * i
           /\ WaitReady(c).op = "wait" /\ WaitReady(c).call = c /\ CommStep(WaitReady(c)) = 0
           /\ Gemm(c, i).op = "gemm" /\ Gemm(c, i).call = c /\ Gemm(c, i).slice = i
           /\ CommStep(Gemm(c, i)) = 1 + 2 * i
           /\ Signal(c, i).op = "record" /\ Signal(c, i).call = c /\ Signal(c, i).slice = i
           /\ CommStep(Signal(c, i)) = 2 + 2 * i
<1>. USE DEF Quant, PlainOp, Mark, Wait, Reduce, WaitReady, Gemm, Signal, Do, MainStep, CommStep
<1>1. Quant(c).op = "quant" /\ Quant(c).call = c /\ MainStep(Quant(c)) = 0
  OBVIOUS
<1>2. PlainOp(c).op = "plain" /\ PlainOp(c).call = c /\ MainStep(PlainOp(c)) = 0
  OBVIOUS
<1>3. Mark(c).op = "record" /\ Mark(c).call = c /\ MainStep(Mark(c)) = 1
  OBVIOUS
<1>4. /\ Wait(c, i).op = "wait" /\ Wait(c, i).call = c /\ Wait(c, i).slice = i
      /\ MainStep(Wait(c, i)) = 2 + 2 * i
  OBVIOUS
<1>5. /\ Reduce(c, i).op = "reduce" /\ Reduce(c, i).call = c /\ Reduce(c, i).slice = i
      /\ MainStep(Reduce(c, i)) = 3 + 2 * i
  OBVIOUS
<1>6. WaitReady(c).op = "wait" /\ WaitReady(c).call = c /\ CommStep(WaitReady(c)) = 0
  OBVIOUS
<1>7. /\ Gemm(c, i).op = "gemm" /\ Gemm(c, i).call = c /\ Gemm(c, i).slice = i
      /\ CommStep(Gemm(c, i)) = 1 + 2 * i
  OBVIOUS
<1>8. /\ Signal(c, i).op = "record" /\ Signal(c, i).call = c /\ Signal(c, i).slice = i
      /\ CommStep(Signal(c, i)) = 2 + 2 * i
  OBVIOUS
<1>. QED  BY <1>1, <1>2, <1>3, <1>4, <1>5, <1>6, <1>7, <1>8

\* What is known of any operation of a call.
LEMMA MainOps ==
    ASSUME NEW c, NEW o \in MainOf(c)
    PROVE  o.call = c /\ MainStep(o) \in Nat
<1>1. CASE InSlices(c)
  BY <1>1, OpFacts, AoAssumption DEF MainOf, SliceNos
<1>2. CASE ~InSlices(c)
  BY <1>2 DEF MainOf, PlainOp, Do, MainStep
<1>. QED  BY <1>1, <1>2

LEMMA CommOps ==
    ASSUME NEW c, NEW o \in CommOf(c)
    PROVE  InSlices(c) /\ o.call = c /\ CommStep(o) \in Nat
BY OpFacts, AoAssumption DEF CommOf, SliceNos

LEMMA MainHead ==
    ASSUME AoInv, RunMain
    PROVE  LET h == aoMain[1] IN
           /\ Perform(h) /\ aoM' = aoM /\ aoComm' = aoComm
           /\ aoMain' \in Seq(AoOps) /\ InMain(h)
           /\ \E c \in Calls : h \in MainOf(c)
           /\ \A o : InMain(o)' <=> InMain(o) /\ o # h
           /\ \A c \in Calls : \A o \in MainOf(c) : MainBefore(h, o) => InMain(o)'
           /\ \A o : InMain(o) /\ o # h => MainBefore(h, o)
           /\ MainQueue'
<1>. DEFINE h == aoMain[1]
<1>1. aoMain \in Seq(AoOps) /\ aoMain # <<>> /\ MainQueue
  BY DEF AoInv, AoTypeOK, RunMain
<1>2. Len(aoMain) \in Nat \ {0}
  BY <1>1, EmptySeq
<1>3. \A k \in 1 .. Len(aoMain) : aoMain[k].call \in Nat /\ MainStep(aoMain[k]) \in Nat
  <2>1. Calls \subseteq Nat
    BY DEF Calls
  <2>. QED  BY <1>1, <2>1, MainOps DEF MainQueue
<1>4. \A j, k \in 1 .. Len(aoMain) : j < k => aoMain[j] # aoMain[k]
  BY <1>1, <1>3 DEF MainQueue, MainBefore
<1>5. /\ Head(aoMain) = h /\ aoMain' = Tail(aoMain) /\ Perform(h) /\ aoM' = aoM /\ aoComm' = aoComm
      /\ aoMain' \in Seq(AoOps) /\ Len(aoMain') = Len(aoMain) - 1
      /\ \A k \in 1 .. Len(aoMain) - 1 : aoMain'[k] = aoMain[k + 1]
      /\ \A o : InMain(o)' <=> InMain(o) /\ o # h
  <2>1. /\ Head(aoMain) = h /\ Tail(aoMain) \in Seq(AoOps) /\ Len(Tail(aoMain)) = Len(aoMain) - 1
        /\ \A k \in 1 .. Len(aoMain) - 1 : Tail(aoMain)[k] = aoMain[k + 1]
        /\ \A o : (\E k \in 1 .. Len(Tail(aoMain)) : Tail(aoMain)[k] = o)
                 <=> (\E k \in 1 .. Len(aoMain) : aoMain[k] = o) /\ o # h
    BY <1>1, <1>4, TailMembers
  <2>2. /\ aoMain' = Tail(aoMain) /\ Perform(Head(aoMain)) /\ aoM' = aoM /\ aoComm' = aoComm
    BY DEF RunMain
  <2>3. \A o : InMain(o)' <=> InMain(o) /\ o # h
    BY <2>1, <2>2 DEF InMain
  <2>4. Perform(h)
    BY <2>1, <2>2
  <2>. QED  BY <2>1, <2>2, <2>3, <2>4
<1>6. InMain(h) /\ \E c \in Calls : h \in MainOf(c)
  BY <1>1, <1>2 DEF InMain, MainQueue
<1>7. \A o : InMain(o) /\ o # h => MainBefore(h, o)
  BY <1>1, <1>2 DEF InMain, MainQueue
<1>8. \A c \in Calls : \A o \in MainOf(c) : MainBefore(h, o) => InMain(o) /\ o # h
  <2>1. ~MainBefore(h, h)
    BY <1>2, <1>3 DEF MainBefore
  <2>. QED  BY <1>1, <1>2, <2>1 DEF MainQueue
<1>9. Calls' = Calls /\ \A c : MainOf(c)' = MainOf(c)
  BY <1>5 DEF Calls, MainOf, InSlices, Quant, Mark, PlainOp, Wait, Reduce
<1>10. MainQueue'
  <2>1. \A k \in 1 .. Len(aoMain') : k + 1 \in 1 .. Len(aoMain) /\ aoMain'[k] = aoMain[k + 1]
    BY <1>2, <1>5
  <2>2. \A k \in 1 .. Len(aoMain') : \E c \in Calls' : aoMain'[k] \in MainOf(c)'
    BY <1>1, <1>9, <2>1 DEF MainQueue
  <2>3. \A j, k \in 1 .. Len(aoMain') : j < k => MainBefore(aoMain'[j], aoMain'[k])
    <3>. SUFFICES ASSUME NEW j \in 1 .. Len(aoMain'), NEW k \in 1 .. Len(aoMain'), j < k
                  PROVE  MainBefore(aoMain'[j], aoMain'[k])
      OBVIOUS
    <3>1. j + 1 < k + 1
      OBVIOUS
    <3>. QED  BY <1>1, <2>1, <3>1 DEF MainQueue
  <2>4. ASSUME NEW k \in 1 .. Len(aoMain'), NEW c \in Calls, NEW o \in MainOf(c),
               MainBefore(aoMain'[k], o)
        PROVE  InMain(o)'
    <3>1. InMain(o)
      BY <1>1, <2>1, <2>4 DEF MainQueue
    <3>2. MainBefore(h, aoMain[k + 1])
      BY <1>1, <1>2, <2>1 DEF MainQueue
    <3>3. /\ aoMain'[k] = aoMain[k + 1] /\ k + 1 \in 1 .. Len(aoMain)
          /\ h.call \in Nat /\ MainStep(h) \in Nat
          /\ aoMain[k + 1].call \in Nat /\ MainStep(aoMain[k + 1]) \in Nat
          /\ o.call \in Nat /\ MainStep(o) \in Nat
      BY <1>2, <1>3, <2>1, MainOps DEF Calls
    <3>4. o # h
      BY SMTT(30), <2>4, <3>2, <3>3 DEF MainBefore
    <3>. QED  BY <1>5, <3>1, <3>4
  <2>. QED  BY <1>9, <2>2, <2>3, <2>4 DEF MainQueue, MainBefore, MainStep
<1>. QED  BY <1>5, <1>6, <1>7, <1>8, <1>10

LEMMA CommHead ==
    ASSUME AoInv, RunComm
    PROVE  LET h == aoComm[1] IN
           /\ Perform(h) /\ aoM' = aoM /\ aoMain' = aoMain
           /\ aoComm' \in Seq(AoOps) /\ InComm(h)
           /\ \E c \in Calls : h \in CommOf(c)
           /\ \A o : InComm(o)' <=> InComm(o) /\ o # h
           /\ \A c \in Calls : \A o \in CommOf(c) : CommBefore(h, o) => InComm(o)'
           /\ \A o : InComm(o) /\ o # h => CommBefore(h, o)
           /\ CommQueue'
<1>. DEFINE h == aoComm[1]
<1>1. aoComm \in Seq(AoOps) /\ aoComm # <<>> /\ CommQueue
  BY DEF AoInv, AoTypeOK, RunComm
<1>2. Len(aoComm) \in Nat \ {0}
  BY <1>1, EmptySeq
<1>3. \A k \in 1 .. Len(aoComm) : aoComm[k].call \in Nat /\ CommStep(aoComm[k]) \in Nat
  <2>1. Calls \subseteq Nat
    BY DEF Calls
  <2>. QED  BY <1>1, <2>1, CommOps DEF CommQueue
<1>4. \A j, k \in 1 .. Len(aoComm) : j < k => aoComm[j] # aoComm[k]
  BY <1>1, <1>3 DEF CommQueue, CommBefore
<1>5. /\ Head(aoComm) = h /\ aoComm' = Tail(aoComm) /\ Perform(h) /\ aoM' = aoM /\ aoMain' = aoMain
      /\ aoComm' \in Seq(AoOps) /\ Len(aoComm') = Len(aoComm) - 1
      /\ \A k \in 1 .. Len(aoComm) - 1 : aoComm'[k] = aoComm[k + 1]
      /\ \A o : InComm(o)' <=> InComm(o) /\ o # h
  <2>1. /\ Head(aoComm) = h /\ Tail(aoComm) \in Seq(AoOps) /\ Len(Tail(aoComm)) = Len(aoComm) - 1
        /\ \A k \in 1 .. Len(aoComm) - 1 : Tail(aoComm)[k] = aoComm[k + 1]
        /\ \A o : (\E k \in 1 .. Len(Tail(aoComm)) : Tail(aoComm)[k] = o)
                 <=> (\E k \in 1 .. Len(aoComm) : aoComm[k] = o) /\ o # h
    BY <1>1, <1>4, TailMembers
  <2>2. /\ aoComm' = Tail(aoComm) /\ Perform(Head(aoComm)) /\ aoM' = aoM /\ aoMain' = aoMain
    BY DEF RunComm
  <2>3. \A o : InComm(o)' <=> InComm(o) /\ o # h
    BY <2>1, <2>2 DEF InComm
  <2>4. Perform(h)
    BY <2>1, <2>2
  <2>. QED  BY <2>1, <2>2, <2>3, <2>4
<1>6. InComm(h) /\ \E c \in Calls : h \in CommOf(c)
  BY <1>1, <1>2 DEF InComm, CommQueue
<1>7. \A o : InComm(o) /\ o # h => CommBefore(h, o)
  BY <1>1, <1>2 DEF InComm, CommQueue
<1>8. \A c \in Calls : \A o \in CommOf(c) : CommBefore(h, o) => InComm(o) /\ o # h
  <2>1. ~CommBefore(h, h)
    BY <1>2, <1>3 DEF CommBefore
  <2>. QED  BY <1>1, <1>2, <2>1 DEF CommQueue
<1>9. Calls' = Calls /\ \A c : CommOf(c)' = CommOf(c)
  BY <1>5 DEF Calls, CommOf, InSlices, WaitReady, Gemm, Signal
<1>10. CommQueue'
  <2>1. \A k \in 1 .. Len(aoComm') : k + 1 \in 1 .. Len(aoComm) /\ aoComm'[k] = aoComm[k + 1]
    BY <1>2, <1>5
  <2>2. \A k \in 1 .. Len(aoComm') : \E c \in Calls' : aoComm'[k] \in CommOf(c)'
    BY <1>1, <1>9, <2>1 DEF CommQueue
  <2>3. \A j, k \in 1 .. Len(aoComm') : j < k => CommBefore(aoComm'[j], aoComm'[k])
    <3>. SUFFICES ASSUME NEW j \in 1 .. Len(aoComm'), NEW k \in 1 .. Len(aoComm'), j < k
                  PROVE  CommBefore(aoComm'[j], aoComm'[k])
      OBVIOUS
    <3>1. j + 1 < k + 1
      OBVIOUS
    <3>. QED  BY <1>1, <2>1, <3>1 DEF CommQueue
  <2>4. ASSUME NEW k \in 1 .. Len(aoComm'), NEW c \in Calls, NEW o \in CommOf(c),
               CommBefore(aoComm'[k], o)
        PROVE  InComm(o)'
    <3>1. InComm(o)
      BY <1>1, <2>1, <2>4 DEF CommQueue
    <3>2. CommBefore(h, aoComm[k + 1])
      BY <1>1, <1>2, <2>1 DEF CommQueue
    <3>3. /\ aoComm'[k] = aoComm[k + 1] /\ k + 1 \in 1 .. Len(aoComm)
          /\ h.call \in Nat /\ CommStep(h) \in Nat
          /\ aoComm[k + 1].call \in Nat /\ CommStep(aoComm[k + 1]) \in Nat
          /\ o.call \in Nat /\ CommStep(o) \in Nat
      BY <1>2, <1>3, <2>1, CommOps DEF Calls
    <3>4. o # h
      BY <2>4, <3>2, <3>3 DEF CommBefore
    <3>. QED  BY <1>5, <3>1, <3>4
  <2>. QED  BY <1>9, <2>2, <2>3, <2>4 DEF CommQueue, CommBefore, CommStep
<1>. QED  BY <1>5, <1>6, <1>7, <1>8, <1>10

LEMMA AppendFirst == \A x : Append(<<>>, x) = <<x>>
OBVIOUS

LEMMA AllRowsFacts ==
    /\ AllRows \subseteq Nat
    /\ \A m \in AoRows : m \in Nat \ {0} /\ 0 .. m - 1 \subseteq AllRows
BY AoAssumption DEF AllRows

\* A quotient, by its two bounds.
LEMMA QuotientBounds ==
    ASSUME NEW n \in Nat, NEW d \in Nat \ {0}
    PROVE  n \div d \in Nat /\ (n \div d) * d <= n /\ n < (n \div d) * d + d
OBVIOUS

\* The slices part the rows.
LEMMA SlicesPart ==
    ASSUME NEW m \in AoRows
    PROVE  /\ \A i \in SliceNos : SliceRows(m, i) \subseteq 0 .. m - 1
           /\ \A i, j \in SliceNos : i < j => SliceRows(m, i) \cap SliceRows(m, j) = {}
           /\ \A r \in 0 .. m - 1 : \E i \in SliceNos : r \in SliceRows(m, i)
<1>1. m \in Nat \ {0} /\ AoSlices \in Nat \ {0} /\ AllRows \subseteq Nat /\ 0 .. m - 1 \subseteq AllRows
  BY AllRowsFacts, AoAssumption
<1>. DEFINE bound(i) == (i * m) \div AoSlices
<1>2. \A i \in Nat : i * m \in Nat
  BY <1>1
<1>3. \A i \in Nat : bound(i) \in Nat /\ bound(i) * AoSlices <= i * m /\ i * m < bound(i) * AoSlices + AoSlices
  BY <1>1, <1>2, QuotientBounds
<1>4. \A i \in Nat : SliceRows(m, i) = {r \in AllRows : bound(i) <= r /\ r < bound(i + 1)}
  BY DEF SliceRows
<1>. HIDE DEF bound
\* bound is monotonic
<1>5. ASSUME NEW i \in Nat, NEW j \in Nat, i <= j PROVE bound(i) <= bound(j)
  <2>1. i * m <= j * m
    BY <1>1, <1>5
  <2>. DEFINE x == bound(i)  y == bound(j)
  <2>3. /\ x \in Nat /\ y \in Nat /\ i * m \in Nat /\ j * m \in Nat
        /\ x * AoSlices <= i * m /\ j * m < y * AoSlices + AoSlices
    BY <1>2, <1>3
  <2>. HIDE DEF x, y
  <2>6. x * AoSlices \in Nat /\ y * AoSlices \in Nat
    BY <1>1, <2>3
  <2>2. x * AoSlices < y * AoSlices + AoSlices
    BY <1>1, <2>1, <2>3, <2>6
  <2>4. x * AoSlices < (y + 1) * AoSlices
    BY <1>1, <2>2, <2>3
  <2>5. ~(x >= y + 1)
    <3>. SUFFICES ASSUME x >= y + 1 PROVE FALSE
      OBVIOUS
    <3>1. x * AoSlices >= (y + 1) * AoSlices
      BY <1>1, <2>3
    <3>. QED  BY <1>1, <2>3, <2>4, <3>1
  <2>7. x <= y
    BY <2>3, <2>5
  <2>. QED  BY <2>7 DEF x, y
<1>6. bound(AoSlices) = m
  <2>1. AoSlices * m = m * AoSlices
    BY <1>1
  <2>2. (m * AoSlices) \div AoSlices = m
    BY <1>1
  <2>. QED  BY <2>1, <2>2 DEF bound
<1>7. \A i \in SliceNos : i \in Nat /\ i + 1 \in Nat /\ i + 1 <= AoSlices
  BY <1>1 DEF SliceNos
<1>8. ASSUME NEW i \in SliceNos PROVE SliceRows(m, i) \subseteq 0 .. m - 1
  <2>1. bound(i + 1) <= m
    BY <1>1, <1>5, <1>6, <1>7
  <2>2. bound(i + 1) \in Nat
    BY <1>3, <1>7
  <2>3. \A r \in SliceRows(m, i) : r \in Nat /\ r < bound(i + 1)
    BY <1>1, <1>4, <1>7
  <2>4. \A r \in SliceRows(m, i) : r \in Nat /\ r < m
    <3>. DEFINE b == bound(i + 1)
    <3>. HIDE DEF b
    <3>1. b \in Nat /\ b <= m /\ \A r \in SliceRows(m, i) : r \in Nat /\ r < b
      BY <2>1, <2>2, <2>3 DEF b
    <3>. QED  BY <1>1, <3>1
  <2>. QED  BY <1>1, <2>4
<1>9. ASSUME NEW i \in SliceNos, NEW j \in SliceNos, i < j
      PROVE  SliceRows(m, i) \cap SliceRows(m, j) = {}
  <2>1. i \in Nat /\ j \in Nat /\ i + 1 \in Nat /\ i + 1 <= j
    BY <1>7, <1>9
  <2>2. bound(i + 1) <= bound(j) /\ bound(i + 1) \in Nat /\ bound(j) \in Nat
    BY <1>3, <1>5, <2>1
  <2>3. \A r \in SliceRows(m, i) : r \in Nat /\ r < bound(i + 1)
    BY <1>1, <1>4, <2>1
  <2>4. \A r \in SliceRows(m, j) : bound(j) <= r
    BY <1>4, <2>1
  <2>. DEFINE b == bound(i + 1)  d == bound(j)
  <2>. HIDE DEF b, d
  <2>5. /\ b \in Nat /\ d \in Nat /\ b <= d
        /\ \A r \in SliceRows(m, i) : r \in Nat /\ r < b
        /\ \A r \in SliceRows(m, j) : d <= r
    BY <2>2, <2>3, <2>4 DEF b, d
  <2>. QED  BY <2>5
<1>10. ASSUME NEW r \in 0 .. m - 1 PROVE \E i \in SliceNos : r \in SliceRows(m, i)
  <2>. DEFINE n == (r + 1) * AoSlices - 1
              i == n \div m
  <2>1. r + 1 \in Nat /\ r + 1 <= m
    BY <1>1
  <2>2. n \in Nat /\ n < m * AoSlices
    <3>1. (r + 1) * AoSlices <= m * AoSlices /\ (r + 1) * AoSlices >= AoSlices
      BY <1>1, <2>1
    <3>. QED  BY <1>1, <2>1, <3>1
  <2>3. i \in Nat /\ i * m <= n /\ n < i * m + m
    BY <1>1, <2>2, QuotientBounds
  <2>. HIDE DEF i
  <2>4. (i + 1) * m = i * m + m /\ i * m \in Nat
    BY <1>1, <2>3
  <2>5. i < AoSlices
    <3>. SUFFICES ASSUME i >= AoSlices PROVE FALSE
      BY <1>1, <2>3
    <3>1. i * m >= AoSlices * m
      BY <1>1, <2>3
    <3>. HIDE DEF n
    <3>. QED  BY <1>1, <2>2, <2>3, <3>1
  <2>6. bound(i) <= r
    <3>. DEFINE x == bound(i)
    <3>1. x \in Nat /\ x * AoSlices <= i * m
      BY <1>3, <2>3
    <3>. HIDE DEF x
    <3>2. x * AoSlices < (r + 1) * AoSlices
      BY <1>1, <2>1, <2>3, <2>4, <3>1
    <3>3. ~(x >= r + 1)
      <4>. SUFFICES ASSUME x >= r + 1 PROVE FALSE
        OBVIOUS
      <4>1. x * AoSlices >= (r + 1) * AoSlices
        BY <1>1, <2>1, <3>1
      <4>. QED  BY <1>1, <2>1, <3>1, <3>2, <4>1
    <3>4. x <= r
      BY <3>1, <3>3
    <3>. QED  BY <3>4 DEF x
  <2>7. r < bound(i + 1)
    <3>. DEFINE x == bound(i + 1)
    <3>1. x \in Nat /\ i * m + m < x * AoSlices + AoSlices
      BY <1>3, <2>3, <2>4
    <3>. HIDE DEF x
    <3>2. (r + 1) * AoSlices < (x + 1) * AoSlices
      BY <1>1, <2>1, <2>3, <2>4, <3>1
    <3>3. ~(r + 1 >= x + 1)
      <4>. SUFFICES ASSUME r + 1 >= x + 1 PROVE FALSE
        OBVIOUS
      <4>1. (r + 1) * AoSlices >= (x + 1) * AoSlices
        BY <1>1, <2>1, <3>1
      <4>. QED  BY <1>1, <2>1, <3>1, <3>2, <4>1
    <3>4. r < x
      BY <2>1, <3>1, <3>3
    <3>. QED  BY <3>4 DEF x
  <2>8. i \in SliceNos
    BY <1>1, <2>3, <2>5 DEF SliceNos
  <2>. QED  BY <1>1, <1>4, <2>3, <2>6, <2>7, <2>8
<1>. QED  BY <1>8, <1>9, <1>10

\* The operations of a call are among those its streams are given.
LEMMA Members ==
    ASSUME NEW c \in Calls, NEW i \in SliceNos
    PROVE  /\ c \in Nat /\ i \in Nat /\ AoSlices - 1 \in SliceNos /\ i <= AoSlices - 1
           /\ InSlices(c) =>
                /\ {Quant(c), Mark(c), Wait(c, i), Reduce(c, i)} \subseteq MainOf(c)
                /\ {WaitReady(c), Gemm(c, i), Signal(c, i)} \subseteq CommOf(c)
           /\ ~InSlices(c) => PlainOp(c) \in MainOf(c)
BY AoAssumption DEF Calls, SliceNos, MainOf, CommOf

\* What comes after an operation in a stream is still there when that operation is.
LEMMA MainKept ==
    ASSUME AoInv, NEW o, InMain(o), NEW c \in Calls, NEW p \in MainOf(c), MainBefore(o, p)
    PROVE  InMain(p)
BY DEF AoInv, MainQueue, InMain

LEMMA CommKept ==
    ASSUME AoInv, NEW o, InComm(o), NEW c \in Calls, NEW p \in CommOf(c), CommBefore(o, p)
    PROVE  InComm(p)
BY DEF AoInv, CommQueue, InComm

\* While a slice of a call is not multiplied, no later call is quantised.
LEMMA NoLaterQuant ==
    ASSUME AoInv, NEW c \in Calls, InSlices(c), NEW i \in SliceNos, InComm(Gemm(c, i)),
           NEW d \in Calls, d > c, InSlices(d)
    PROVE  InMain(Quant(d))
<1>. DEFINE last == AoSlices - 1
<1>1. c \in Nat /\ d \in Nat /\ last \in SliceNos /\ last \in Nat /\ i \in Nat /\ i <= last
  BY Members, AoAssumption
<1>2. /\ Signal(c, last) \in CommOf(c) /\ CommBefore(Gemm(c, i), Signal(c, last))
      /\ Quant(d) \in MainOf(d) /\ MainBefore(Wait(c, last), Quant(d))
  BY <1>1, Members, OpFacts DEF CommBefore, MainBefore
<1>3. InComm(Signal(c, last))
  BY <1>2, CommKept
<1>4. <<c, last>> \notin aoEvents
  BY <1>1, <1>3 DEF AoInv, Fired
<1>5. InMain(Wait(c, last))
  BY <1>1, <1>4 DEF AoInv, Waited
<1>. QED  BY <1>2, <1>5, MainKept

\* While a slice of a call is not reduced, no later call multiplies.
LEMMA NoLaterGemm ==
    ASSUME AoInv, NEW c \in Calls, InSlices(c), NEW i \in SliceNos, InMain(Reduce(c, i)),
           NEW d \in Calls, d > c, InSlices(d)
    PROVE  InComm(WaitReady(d))
<1>1. c \in Nat /\ d \in Nat
  BY Members
<1>2. Mark(d) \in MainOf(d) /\ MainBefore(Reduce(c, i), Mark(d))
  BY <1>1, Members, OpFacts DEF MainBefore
<1>3. InMain(Mark(d))
  BY <1>2, MainKept
<1>. QED  BY <1>3 DEF AoInv, Fired, Waited

\* A stream whose head an operation is has done what comes before it.
LEMMA BeforeHead ==
    ASSUME AoInv, NEW c \in Calls, InSlices(c), NEW i \in SliceNos
    PROVE  /\ ~InComm(WaitReady(c)) => ~InMain(Quant(c))
           /\ ~InMain(Wait(c, i)) => ~InComm(Gemm(c, i))
<1>1. c \in Nat /\ i \in Nat
  BY Members
<1>2. /\ Mark(c) \in MainOf(c) /\ MainBefore(Quant(c), Mark(c))
      /\ Signal(c, i) \in CommOf(c) /\ CommBefore(Gemm(c, i), Signal(c, i))
  BY <1>1, Members, OpFacts DEF MainBefore, CommBefore
<1>3. ~InComm(WaitReady(c)) => ~InMain(Mark(c))
  BY DEF AoInv, Fired, Waited
<1>4. ~InMain(Wait(c, i)) => ~InComm(Signal(c, i))
  BY DEF AoInv, Fired, Waited
<1>. QED  BY <1>2, <1>3, <1>4, MainKept, CommKept

\* What performing an operation does.
LEMMA Performed ==
    ASSUME NEW o, Perform(o)
    PROVE  /\ o.op = "wait" => <<o.call, o.slice>> \in aoEvents /\ UNCHANGED <<aoEvents, aoX8, aoY, aoOut>>
           /\ o.op = "record" => /\ aoEvents' = aoEvents \cup {<<o.call, o.slice>>}
                                 /\ UNCHANGED <<aoX8, aoY, aoOut>>
           /\ o.op = "quant" => /\ aoX8' = [r \in AllRows |-> IF r \in o.rows THEN o.call ELSE aoX8[r]]
                                /\ UNCHANGED <<aoEvents, aoY, aoOut>>
           /\ o.op = "gemm" => /\ aoY' = [r \in AllRows |-> IF r \in o.rows THEN <<aoX8[r], r>> ELSE aoY[r]]
                               /\ UNCHANGED <<aoEvents, aoX8, aoOut>>
           /\ o.op = "reduce" =>
                /\ aoOut' = [aoOut EXCEPT ![o.call] =
                               [r \in DOMAIN @ |-> IF r \in o.rows THEN Append(@[r], aoY[r]) ELSE @[r]]]
                /\ UNCHANGED <<aoEvents, aoX8, aoY>>
           /\ o.op = "plain" =>
                /\ aoOut' = [aoOut EXCEPT ![o.call] = [r \in DOMAIN @ |-> Append(@[r], <<o.call, r>>)]]
                /\ UNCHANGED <<aoEvents, aoX8, aoY>>
<1>1. ASSUME o.op = "wait" PROVE <<o.call, o.slice>> \in aoEvents /\ UNCHANGED <<aoEvents, aoX8, aoY, aoOut>>
  BY <1>1 DEF Perform
<1>2. ASSUME o.op = "record"
      PROVE  aoEvents' = aoEvents \cup {<<o.call, o.slice>>} /\ UNCHANGED <<aoX8, aoY, aoOut>>
  BY <1>2 DEF Perform
<1>3. ASSUME o.op = "quant"
      PROVE  /\ aoX8' = [r \in AllRows |-> IF r \in o.rows THEN o.call ELSE aoX8[r]]
             /\ UNCHANGED <<aoEvents, aoY, aoOut>>
  BY <1>3 DEF Perform
<1>4. ASSUME o.op = "gemm"
      PROVE  /\ aoY' = [r \in AllRows |-> IF r \in o.rows THEN <<aoX8[r], r>> ELSE aoY[r]]
             /\ UNCHANGED <<aoEvents, aoX8, aoOut>>
  BY <1>4 DEF Perform
<1>5. ASSUME o.op = "reduce"
      PROVE  /\ aoOut' = [aoOut EXCEPT ![o.call] =
                            [r \in DOMAIN @ |-> IF r \in o.rows THEN Append(@[r], aoY[r]) ELSE @[r]]]
             /\ UNCHANGED <<aoEvents, aoX8, aoY>>
  BY <1>5 DEF Perform
<1>6. ASSUME o.op = "plain"
      PROVE  /\ aoOut' = [aoOut EXCEPT ![o.call] = [r \in DOMAIN @ |-> Append(@[r], <<o.call, r>>)]]
             /\ UNCHANGED <<aoEvents, aoX8, aoY>>
  BY <1>6 DEF Perform
<1>. QED  BY <1>1, <1>2, <1>3, <1>4, <1>5, <1>6

\* The head of the main stream is one of the operations of a call.
LEMMA MainCases ==
    ASSUME NEW c, NEW h \in MainOf(c)
    PROVE  \/ InSlices(c) /\ h = Quant(c)
           \/ InSlices(c) /\ h = Mark(c)
           \/ InSlices(c) /\ \E i \in SliceNos : h = Wait(c, i)
           \/ InSlices(c) /\ \E i \in SliceNos : h = Reduce(c, i)
           \/ ~InSlices(c) /\ h = PlainOp(c)
BY DEF MainOf

LEMMA CommCases ==
    ASSUME NEW c, NEW h \in CommOf(c)
    PROVE  /\ InSlices(c)
           /\ \/ h = WaitReady(c)
              \/ \E i \in SliceNos : h = Gemm(c, i) \/ h = Signal(c, i)
BY DEF CommOf

\* The operations of the calls stay what they are while no call is added.
LEMMA SameOps ==
    ASSUME aoM' = aoM
    PROVE  /\ Calls' = Calls
           /\ \A c : /\ InSlices(c)' = InSlices(c) /\ Quant(c)' = Quant(c) /\ Mark(c)' = Mark(c)
                     /\ WaitReady(c)' = WaitReady(c) /\ PlainOp(c)' = PlainOp(c)
           /\ \A c, i : /\ Wait(c, i)' = Wait(c, i) /\ Reduce(c, i)' = Reduce(c, i)
                        /\ Gemm(c, i)' = Gemm(c, i) /\ Signal(c, i)' = Signal(c, i)
<1>1. Calls' = Calls
  BY DEF Calls
<1>2. \A c : /\ InSlices(c)' = InSlices(c) /\ Quant(c)' = Quant(c) /\ Mark(c)' = Mark(c)
             /\ WaitReady(c)' = WaitReady(c) /\ PlainOp(c)' = PlainOp(c)
  BY DEF InSlices, Quant, Mark, WaitReady, PlainOp
<1>3. \A c, i : /\ Wait(c, i)' = Wait(c, i) /\ Reduce(c, i)' = Reduce(c, i)
                /\ Gemm(c, i)' = Gemm(c, i) /\ Signal(c, i)' = Signal(c, i)
  BY DEF Wait, Reduce, Gemm, Signal
<1>. QED  BY <1>1, <1>2, <1>3

\* What is in the main stream, once its head has run.
LEMMA MainLeft ==
    ASSUME aoM' = aoM, NEW h, \A o : InMain(o)' <=> InMain(o) /\ o # h
    PROVE  \A c : /\ InMain(Quant(c))' <=> InMain(Quant(c)) /\ Quant(c) # h
                  /\ InMain(Mark(c))' <=> InMain(Mark(c)) /\ Mark(c) # h
                  /\ InMain(PlainOp(c))' <=> InMain(PlainOp(c)) /\ PlainOp(c) # h
                  /\ \A i : InMain(Wait(c, i))' <=> InMain(Wait(c, i)) /\ Wait(c, i) # h
                  /\ \A i : InMain(Reduce(c, i))' <=> InMain(Reduce(c, i)) /\ Reduce(c, i) # h
<1>1. \A o : (\E k \in 1 .. Len(aoMain') : aoMain'[k] = o) <=> InMain(o) /\ o # h
  BY DEF InMain
<1>. SUFFICES ASSUME NEW c
     PROVE  /\ InMain(Quant(c))' <=> InMain(Quant(c)) /\ Quant(c) # h
            /\ InMain(Mark(c))' <=> InMain(Mark(c)) /\ Mark(c) # h
            /\ InMain(PlainOp(c))' <=> InMain(PlainOp(c)) /\ PlainOp(c) # h
            /\ \A i : InMain(Wait(c, i))' <=> InMain(Wait(c, i)) /\ Wait(c, i) # h
            /\ \A i : InMain(Reduce(c, i))' <=> InMain(Reduce(c, i)) /\ Reduce(c, i) # h
  OBVIOUS
<1>2. \A o : (\E k \in 1 .. Len(aoMain') : aoMain'[k] = o) <=> (\E k \in 1 .. Len(aoMain) : aoMain[k] = o) /\ o # h
  BY <1>1 DEF InMain
<1>3. InMain(Quant(c))' <=> InMain(Quant(c)) /\ Quant(c) # h
  BY <1>2, SameOps DEF InMain
<1>4. InMain(Mark(c))' <=> InMain(Mark(c)) /\ Mark(c) # h
  BY <1>2, SameOps DEF InMain
<1>5. InMain(PlainOp(c))' <=> InMain(PlainOp(c)) /\ PlainOp(c) # h
  BY <1>2, SameOps DEF InMain
<1>6. ASSUME NEW i PROVE InMain(Wait(c, i))' <=> InMain(Wait(c, i)) /\ Wait(c, i) # h
  BY <1>2, SameOps DEF InMain
<1>7. ASSUME NEW i PROVE InMain(Reduce(c, i))' <=> InMain(Reduce(c, i)) /\ Reduce(c, i) # h
  BY <1>2, SameOps DEF InMain
<1>. QED  BY <1>3, <1>4, <1>5, <1>6, <1>7

LEMMA CommLeft ==
    ASSUME aoM' = aoM, NEW h, \A o : InComm(o)' <=> InComm(o) /\ o # h
    PROVE  \A c : /\ InComm(WaitReady(c))' <=> InComm(WaitReady(c)) /\ WaitReady(c) # h
                  /\ \A i : InComm(Gemm(c, i))' <=> InComm(Gemm(c, i)) /\ Gemm(c, i) # h
                  /\ \A i : InComm(Signal(c, i))' <=> InComm(Signal(c, i)) /\ Signal(c, i) # h
<1>. SUFFICES ASSUME NEW c
     PROVE  /\ InComm(WaitReady(c))' <=> InComm(WaitReady(c)) /\ WaitReady(c) # h
            /\ \A i : InComm(Gemm(c, i))' <=> InComm(Gemm(c, i)) /\ Gemm(c, i) # h
            /\ \A i : InComm(Signal(c, i))' <=> InComm(Signal(c, i)) /\ Signal(c, i) # h
  OBVIOUS
<1>2. \A o : (\E k \in 1 .. Len(aoComm') : aoComm'[k] = o) <=> (\E k \in 1 .. Len(aoComm) : aoComm[k] = o) /\ o # h
  BY DEF InComm
<1>3. InComm(WaitReady(c))' <=> InComm(WaitReady(c)) /\ WaitReady(c) # h
  BY <1>2, SameOps DEF InComm
<1>4. ASSUME NEW i PROVE InComm(Gemm(c, i))' <=> InComm(Gemm(c, i)) /\ Gemm(c, i) # h
  BY <1>2, SameOps DEF InComm
<1>5. ASSUME NEW i PROVE InComm(Signal(c, i))' <=> InComm(Signal(c, i)) /\ Signal(c, i) # h
  BY <1>2, SameOps DEF InComm
<1>. QED  BY <1>3, <1>4, <1>5

\* Operations that differ in kind, call or slice are different.
LEMMA OpsDiffer ==
    \A c, d, i, j :
       /\ Quant(c) = Quant(d) => c = d
       /\ PlainOp(c) = PlainOp(d) => c = d
       /\ Mark(c) = Mark(d) => c = d
       /\ WaitReady(c) = WaitReady(d) => c = d
       /\ Wait(c, i) = Wait(d, j) => c = d /\ i = j
       /\ Reduce(c, i) = Reduce(d, j) => c = d /\ i = j
       /\ Gemm(c, i) = Gemm(d, j) => c = d /\ i = j
       /\ Signal(c, i) = Signal(d, j) => c = d /\ i = j
       /\ Quant(c) \notin {PlainOp(d), Mark(d), Wait(d, j), Reduce(d, j)}
       /\ PlainOp(c) \notin {Mark(d), Wait(d, j), Reduce(d, j)}
       /\ Mark(c) \notin {Wait(d, j), Reduce(d, j)}
       /\ Wait(c, i) # Reduce(d, j)
       /\ WaitReady(c) \notin {Gemm(d, j), Signal(d, j)}
       /\ Gemm(c, i) # Signal(d, j)
<1>. SUFFICES ASSUME NEW c, NEW d, NEW i, NEW j
     PROVE  /\ Quant(c) = Quant(d) => c = d
            /\ PlainOp(c) = PlainOp(d) => c = d
            /\ Mark(c) = Mark(d) => c = d
            /\ WaitReady(c) = WaitReady(d) => c = d
            /\ Wait(c, i) = Wait(d, j) => c = d /\ i = j
            /\ Reduce(c, i) = Reduce(d, j) => c = d /\ i = j
            /\ Gemm(c, i) = Gemm(d, j) => c = d /\ i = j
            /\ Signal(c, i) = Signal(d, j) => c = d /\ i = j
            /\ Quant(c) \notin {PlainOp(d), Mark(d), Wait(d, j), Reduce(d, j)}
            /\ PlainOp(c) \notin {Mark(d), Wait(d, j), Reduce(d, j)}
            /\ Mark(c) \notin {Wait(d, j), Reduce(d, j)}
            /\ Wait(c, i) # Reduce(d, j)
            /\ WaitReady(c) \notin {Gemm(d, j), Signal(d, j)}
            /\ Gemm(c, i) # Signal(d, j)
  OBVIOUS
<1>1. /\ Quant(c) = Quant(d) => c = d
      /\ PlainOp(c) = PlainOp(d) => c = d
      /\ Mark(c) = Mark(d) => c = d
      /\ WaitReady(c) = WaitReady(d) => c = d
  BY DEF Quant, PlainOp, Mark, WaitReady, Do
<1>2. /\ Wait(c, i) = Wait(d, j) => c = d /\ i = j
      /\ Reduce(c, i) = Reduce(d, j) => c = d /\ i = j
      /\ Gemm(c, i) = Gemm(d, j) => c = d /\ i = j
      /\ Signal(c, i) = Signal(d, j) => c = d /\ i = j
  BY DEF Wait, Reduce, Gemm, Signal, Do
<1>3. /\ Quant(c) \notin {PlainOp(d), Mark(d), Wait(d, j), Reduce(d, j)}
      /\ PlainOp(c) \notin {Mark(d), Wait(d, j), Reduce(d, j)}
      /\ Mark(c) \notin {Wait(d, j), Reduce(d, j)}
      /\ Wait(c, i) # Reduce(d, j)
      /\ WaitReady(c) \notin {Gemm(d, j), Signal(d, j)}
      /\ Gemm(c, i) # Signal(d, j)
  BY DEF Quant, PlainOp, Mark, WaitReady, Wait, Reduce, Gemm, Signal, Do
<1>. QED  BY <1>1, <1>2, <1>3

LEMMA MainRuns ==
    ASSUME AoInv, RunMain
    PROVE  AoInv'
<1>. DEFINE h == aoMain[1]
<1>1. /\ Perform(h) /\ aoM' = aoM /\ aoComm' = aoComm
      /\ aoMain' \in Seq(AoOps) /\ InMain(h)
      /\ \A o : InMain(o)' <=> InMain(o) /\ o # h
      /\ \A c \in Calls : \A o \in MainOf(c) : MainBefore(h, o) => InMain(o)'
      /\ \A o : InMain(o) /\ o # h => MainBefore(h, o)
      /\ MainQueue'
  BY MainHead
<1>2. PICK c \in Calls : h \in MainOf(c)
  BY MainHead
<1>. HIDE DEF h
<1>3. /\ AoTypeOK /\ CommQueue /\ Fired /\ Waited /\ Quantised /\ Multiplied /\ ReducedSoFar
  BY DEF AoInv
<1>4. CommQueue'
  <2>1. Calls' = Calls /\ \A d : CommOf(d)' = CommOf(d)
    BY <1>1 DEF Calls, CommOf, InSlices, WaitReady, Gemm, Signal
  <2>. QED  BY <1>1, <1>3, <2>1 DEF CommQueue, InComm
<1>5. /\ Calls' = Calls /\ \A d : InSlices(d)' = InSlices(d)
      /\ \A d : aoM'[d] = aoM[d]
  BY <1>1, SameOps
<1>6. \A d : /\ InMain(Quant(d))' <=> InMain(Quant(d)) /\ Quant(d) # h
             /\ InMain(Mark(d))' <=> InMain(Mark(d)) /\ Mark(d) # h
             /\ InMain(PlainOp(d))' <=> InMain(PlainOp(d)) /\ PlainOp(d) # h
             /\ \A i : InMain(Wait(d, i))' <=> InMain(Wait(d, i)) /\ Wait(d, i) # h
             /\ \A i : InMain(Reduce(d, i))' <=> InMain(Reduce(d, i)) /\ Reduce(d, i) # h
  BY <1>1, MainLeft
<1>7. \A d : /\ InComm(WaitReady(d))' = InComm(WaitReady(d))
             /\ \A i : InComm(Gemm(d, i))' = InComm(Gemm(d, i)) /\ InComm(Signal(d, i))' = InComm(Signal(d, i))
  BY <1>1 DEF InComm, WaitReady, Gemm, Signal
<1>8. c \in Nat /\ Calls \subseteq Nat /\ c \in 1 .. Len(aoM) /\ aoM[c] \in AoRows /\ aoM \in Seq(AoRows)
  BY <1>3 DEF Calls, AoTypeOK
<1>9. CASE InSlices(c) /\ h = Quant(c)
  <2>1. /\ aoX8' = [r \in AllRows |-> IF r \in 0 .. aoM[c] - 1 THEN c ELSE aoX8[r]]
        /\ UNCHANGED <<aoEvents, aoY, aoOut>>
    <3>1. h.op = "quant" /\ h.call = c /\ h.rows = 0 .. aoM[c] - 1
      BY <1>9 DEF Quant, Do
    <3>. QED  BY ZenonT(60), <1>1, <3>1, Performed
  <2>2. AoTypeOK'
    BY <1>1, <1>3, <1>5, <1>8, <2>1 DEF AoTypeOK
  <2>3. Fired'
    BY <1>3, <1>5, <1>6, <1>7, <2>1 DEF Fired
  <2>4. Waited'
    BY <1>3, <1>5, <1>6, <1>7, <1>9, <2>1, OpsDiffer DEF Waited
  <2>5. Quantised'
    <3>. SUFFICES ASSUME NEW d \in Calls, InSlices(d), ~InMain(Quant(d))',
                         \A e \in Calls : e > d /\ InSlices(e) => InMain(Quant(e))',
                         NEW r \in 0 .. aoM[d] - 1
                  PROVE  aoX8'[r] = d
      BY <1>5 DEF Quantised
    <3>1. d \in Nat /\ aoM[d] \in AoRows /\ r \in AllRows
      <4>1. d \in 1 .. Len(aoM) /\ d \in Nat
        BY DEF Calls
      <4>2. aoM[d] \in AoRows
        BY <1>8, <4>1
      <4>. QED  BY <4>1, <4>2, AllRowsFacts
    <3>2. ~(d < c)
      BY <1>6, <1>8, <1>9, <3>1
    <3>3. ~(d > c)
      <4>. SUFFICES ASSUME d > c PROVE FALSE
        OBVIOUS
      <4>1. Quant(d) \in MainOf(d) /\ MainBefore(h, Quant(d)) /\ Quant(d) # h
        <5>1. Quant(d) \in MainOf(d)
          BY DEF MainOf
        <5>2. MainBefore(h, Quant(d))
          BY <1>9, OpFacts DEF MainBefore
        <5>3. Quant(d) # h
          BY <1>8, <1>9, <3>1, OpsDiffer
        <5>. QED  BY <5>1, <5>2, <5>3
      <4>2. InMain(Quant(d))
        BY <1>1, <4>1
      <4>. QED  BY <1>6, <4>1, <4>2
    <3>4. d = c
      BY <1>8, <3>1, <3>2, <3>3
    <3>. QED  BY <2>1, <3>1, <3>4
  <2>6. Multiplied'
    BY <1>3, <1>5, <1>7, <2>1 DEF Multiplied
  <2>7. ReducedSoFar'
    <3>1. \A d, i : /\ InMain(Reduce(d, i))' <=> InMain(Reduce(d, i))
                    /\ InMain(PlainOp(d))' <=> InMain(PlainOp(d))
      BY <1>6, <1>9, OpsDiffer
    <3>. QED  BY <1>3, <1>5, <2>1, <3>1 DEF ReducedSoFar, OnceIf
  <2>. QED  BY <1>1, <1>4, <2>2, <2>3, <2>4, <2>5, <2>6, <2>7 DEF AoInv
<1>10. CASE InSlices(c) /\ h = Mark(c)
  <2>1. aoEvents' = aoEvents \cup {<<c, Ready>>} /\ UNCHANGED <<aoX8, aoY, aoOut>>
    <3>1. h.op = "record" /\ h.call = c /\ h.slice = Ready
      BY <1>10 DEF Mark, Do
    <3>. QED  BY <1>1, <3>1, Performed
  <2>2. AoTypeOK'
    BY <1>1, <1>3, <1>5, <2>1 DEF AoTypeOK
  <2>3. \A d, i : /\ InMain(Quant(d))' <=> InMain(Quant(d))
                  /\ InMain(Reduce(d, i))' <=> InMain(Reduce(d, i))
                  /\ InMain(Wait(d, i))' <=> InMain(Wait(d, i))
                  /\ InMain(PlainOp(d))' <=> InMain(PlainOp(d))
    BY <1>6, <1>10, OpsDiffer
  <2>4. Fired'
    <3>1. \A e \in aoEvents' : e[1] \in Calls
      BY <1>3, <2>1 DEF Fired
    <3>2. ASSUME NEW d \in Calls, InSlices(d), <<d, Ready>> \in aoEvents' PROVE ~InMain(Mark(d))'
      <4>1. CASE d = c
        BY <1>6, <1>10, <4>1
      <4>2. CASE d # c
        BY <1>3, <1>6, <2>1, <3>2, <4>2 DEF Fired
      <4>. QED  BY <4>1, <4>2
    <3>3. ASSUME NEW d \in Calls, InSlices(d), NEW i \in SliceNos, <<d, i>> \in aoEvents'
          PROVE  ~InComm(Signal(d, i))'
      <4>1. i # Ready
        BY DEF SliceNos, Ready
      <4>. QED  BY <1>3, <1>7, <2>1, <3>3, <4>1 DEF Fired
    <3>. QED  BY <1>5, <3>1, <3>2, <3>3 DEF Fired
  <2>5. Waited'
    BY <1>3, <1>5, <1>7, <2>1, <2>3 DEF Waited
  <2>6. Quantised'
    BY <1>3, <1>5, <2>1, <2>3 DEF Quantised
  <2>7. Multiplied'
    BY <1>3, <1>5, <1>7, <2>1 DEF Multiplied
  <2>8. ReducedSoFar'
    BY <1>3, <1>5, <2>1, <2>3 DEF ReducedSoFar, OnceIf
  <2>. QED  BY <1>1, <1>4, <2>2, <2>4, <2>5, <2>6, <2>7, <2>8 DEF AoInv
<1>11. CASE InSlices(c) /\ \E i \in SliceNos : h = Wait(c, i)
  <2>. PICK i \in SliceNos : h = Wait(c, i)
    BY <1>11
  <2>1. <<c, i>> \in aoEvents /\ UNCHANGED <<aoEvents, aoX8, aoY, aoOut>>
    <3>1. h.op = "wait" /\ h.call = c /\ h.slice = i
      BY DEF Wait, Do
    <3>. QED  BY <1>1, <3>1, Performed
  <2>2. AoTypeOK'
    BY <1>1, <1>3, <1>5, <2>1 DEF AoTypeOK
  <2>3. \A d, j : /\ InMain(Quant(d))' <=> InMain(Quant(d))
                  /\ InMain(Reduce(d, j))' <=> InMain(Reduce(d, j))
                  /\ InMain(Mark(d))' <=> InMain(Mark(d))
                  /\ InMain(PlainOp(d))' <=> InMain(PlainOp(d))
    BY <1>6, OpsDiffer
  <2>4. Fired'
    BY <1>3, <1>5, <1>7, <2>1, <2>3 DEF Fired
  <2>5. Waited'
    <3>1. \A d, j : InMain(Wait(d, j))' \/ (d = c /\ j = i) \/ ~InMain(Wait(d, j))
      BY <1>6, OpsDiffer
    <3>. QED  BY <1>3, <1>5, <1>7, <2>1, <3>1 DEF Waited
  <2>6. Quantised'
    BY <1>3, <1>5, <2>1, <2>3 DEF Quantised
  <2>7. Multiplied'
    BY <1>3, <1>5, <1>7, <2>1 DEF Multiplied
  <2>8. ReducedSoFar'
    BY <1>3, <1>5, <2>1, <2>3 DEF ReducedSoFar, OnceIf
  <2>. QED  BY <1>1, <1>4, <2>2, <2>4, <2>5, <2>6, <2>7, <2>8 DEF AoInv
<1>12. CASE InSlices(c) /\ \E i \in SliceNos : h = Reduce(c, i)
  <2>. PICK i \in SliceNos : h = Reduce(c, i)
    BY <1>12
  <2>1. /\ aoOut' = [aoOut EXCEPT ![c] =
                       [r \in DOMAIN @ |-> IF r \in SliceRows(aoM[c], i) THEN Append(@[r], aoY[r]) ELSE @[r]]]
        /\ UNCHANGED <<aoEvents, aoX8, aoY>>
    <3>1. h.op = "reduce" /\ h.call = c /\ h.rows = SliceRows(aoM[c], i)
      BY DEF Reduce, Do
    <3>2. /\ aoOut' = [aoOut EXCEPT ![h.call] =
                         [r \in DOMAIN @ |-> IF r \in h.rows THEN Append(@[r], aoY[r]) ELSE @[r]]]
          /\ UNCHANGED <<aoEvents, aoX8, aoY>>
      BY <1>1, <3>1 DEF Perform
    <3>. QED  BY <3>1, <3>2, Zenon
  <2>2. \A d, j : /\ InMain(Quant(d))' <=> InMain(Quant(d))
                  /\ InMain(Wait(d, j))' <=> InMain(Wait(d, j))
                  /\ InMain(Mark(d))' <=> InMain(Mark(d))
                  /\ InMain(PlainOp(d))' <=> InMain(PlainOp(d))
                  /\ InMain(Reduce(d, j))' <=> InMain(Reduce(d, j)) /\ ~(d = c /\ j = i)
    BY <1>6, OpsDiffer
  \* The slice is there, and has not been overwritten.
  <2>3. \A r \in SliceRows(aoM[c], i) : aoY[r] = <<c, r>>
    <3>1. ~InComm(Gemm(c, i))
      <4>1. MainBefore(Wait(c, i), h)
        BY <1>8, OpFacts, Members DEF MainBefore
      <4>2. ~MainBefore(h, Wait(c, i)) /\ Wait(c, i) # h
        BY <1>8, OpFacts, OpsDiffer, Members DEF MainBefore
      <4>3. ~InMain(Wait(c, i))
        BY <1>1, <4>2
      <4>. QED  BY <1>12, <4>3, BeforeHead
    <3>2. \A d \in Calls : d > c /\ InSlices(d) => InComm(WaitReady(d))
      BY <1>1, <1>12, NoLaterGemm
    <3>. QED  BY <1>3, <1>12, <3>1, <3>2 DEF Multiplied
  <2>4. /\ \A d \in Calls : d # c => aoOut'[d] = aoOut[d]
        /\ aoOut'[c] = [r \in 0 .. aoM[c] - 1 |->
              IF r \in SliceRows(aoM[c], i) THEN Append(aoOut[c][r], aoY[r]) ELSE aoOut[c][r]]
    <3>1. DOMAIN aoOut = Calls /\ DOMAIN aoOut[c] = 0 .. aoM[c] - 1
      BY <1>3 DEF AoTypeOK, Calls
    <3>. QED  BY <2>1, <3>1
  <2>5. \A r \in SliceRows(aoM[c], i) : r \in 0 .. aoM[c] - 1 /\ aoOut[c][r] = <<>>
    BY <1>1, <1>3, <1>8, <1>12, SlicesPart DEF ReducedSoFar, OnceIf
  <2>6. \A r \in SliceRows(aoM[c], i) : aoOut'[c][r] = <<<<c, r>>>>
    <3>1. \A r \in SliceRows(aoM[c], i) : aoOut'[c][r] = Append(<<>>, <<c, r>>)
      BY <2>3, <2>4, <2>5
    <3>. QED  BY <3>1, AppendFirst
  <2>7. AoTypeOK'
    <3>. DEFINE outs == UNION {[0 .. m - 1 -> Seq(Nat \X Int)] : m \in AoRows}
    <3>1. aoOut'[c] \in [0 .. aoM[c] - 1 -> Seq(Nat \X Int)]
      <4>1. aoOut[c] \in [0 .. aoM[c] - 1 -> Seq(Nat \X Int)]
        <5>1. c \in 1 .. Len(aoOut) /\ aoOut \in Seq(outs) /\ DOMAIN aoOut[c] = 0 .. aoM[c] - 1
          BY <1>3, <1>8 DEF AoTypeOK, Calls
        <5>2. aoOut[c] \in outs
          <6>. HIDE DEF outs
          <6>. QED  BY <5>1, ElementOfSeq
        <5>3. PICK m \in AoRows : aoOut[c] \in [0 .. m - 1 -> Seq(Nat \X Int)]
          BY <5>2
        <5>4. 0 .. m - 1 = 0 .. aoM[c] - 1
          BY <5>1, <5>3
        <5>. QED  BY <5>3, <5>4
      <4>2. \A r \in 0 .. aoM[c] - 1 : aoY[r] \in Nat \X Int
        BY <1>3, <1>8, AllRowsFacts DEF AoTypeOK
      <4>3. \A r \in 0 .. aoM[c] - 1 : Append(aoOut[c][r], aoY[r]) \in Seq(Nat \X Int)
        BY <4>1, <4>2, AppendProperties
      <4>. QED  BY <2>4, <4>1, <4>3
    <3>2. aoOut' \in Seq(outs) /\ Len(aoOut') = Len(aoOut) /\ DOMAIN aoOut'[c] = 0 .. aoM[c] - 1
      <4>1. aoOut \in Seq(outs) /\ c \in 1 .. Len(aoOut) /\ aoOut'[c] \in outs
        BY <1>3, <1>8, <3>1 DEF AoTypeOK
      <4>2. aoOut' = [aoOut EXCEPT ![c] = aoOut'[c]]
        BY <2>1, <4>1
      <4>. HIDE DEF outs
      <4>. QED  BY <2>4, <4>1, <4>2, ExceptSeq
    <3>. QED  BY <1>1, <1>3, <1>5, <2>1, <2>4, <3>2 DEF AoTypeOK
  <2>8. Fired'
    BY <1>3, <1>5, <1>7, <2>1, <2>2 DEF Fired
  <2>9. Waited'
    BY <1>3, <1>5, <1>7, <2>1, <2>2 DEF Waited
  <2>10. Quantised'
    BY <1>3, <1>5, <2>1, <2>2 DEF Quantised
  <2>11. Multiplied'
    BY <1>3, <1>5, <1>7, <2>1 DEF Multiplied
  <2>12. ReducedSoFar'
    <3>1. ASSUME NEW d \in Calls, InSlices(d), NEW j \in SliceNos, NEW r \in SliceRows(aoM[d], j)
          PROVE  aoOut'[d][r] = IF InMain(Reduce(d, j))' THEN <<>> ELSE <<<<d, r>>>>
      <4>1. aoOut[d][r] = IF InMain(Reduce(d, j)) THEN <<>> ELSE <<<<d, r>>>>
        BY <1>3, <3>1 DEF ReducedSoFar, OnceIf
      <4>2. CASE d # c
        BY <2>2, <2>4, <4>1, <4>2
      <4>3. CASE d = c /\ j = i
        BY <2>2, <2>6, <4>3
      <4>4. CASE d = c /\ j # i
        <5>1. r \in 0 .. aoM[c] - 1 /\ r \notin SliceRows(aoM[c], i)
          <6>1. j \in Nat /\ i \in Nat
            BY DEF SliceNos
          <6>2. j < i \/ i < j
            BY <4>4, <6>1
          <6>. QED  BY <1>8, <4>4, <6>2, SlicesPart
        <5>. QED  BY <2>2, <2>4, <4>1, <4>4, <5>1
      <4>. QED  BY <4>2, <4>3, <4>4
    <3>2. ASSUME NEW d \in Calls, ~InSlices(d), NEW r \in 0 .. aoM[d] - 1
          PROVE  aoOut'[d][r] = IF InMain(PlainOp(d))' THEN <<>> ELSE <<<<d, r>>>>
      BY <1>3, <1>12, <2>2, <2>4, <3>2 DEF ReducedSoFar, OnceIf
    <3>. QED  BY <1>5, <3>1, <3>2 DEF ReducedSoFar, OnceIf
  <2>. QED  BY <1>1, <1>4, <2>7, <2>8, <2>9, <2>10, <2>11, <2>12 DEF AoInv
<1>13. CASE ~InSlices(c) /\ h = PlainOp(c)
  <2>1. /\ aoOut' = [aoOut EXCEPT ![c] = [r \in DOMAIN @ |-> Append(@[r], <<c, r>>)]]
        /\ UNCHANGED <<aoEvents, aoX8, aoY>>
    <3>1. h.op = "plain" /\ h.call = c
      BY <1>13 DEF PlainOp, Do
    <3>2. /\ aoOut' = [aoOut EXCEPT ![h.call] = [r \in DOMAIN @ |-> Append(@[r], <<h.call, r>>)]]
          /\ UNCHANGED <<aoEvents, aoX8, aoY>>
      BY <1>1, <3>1, Performed
    <3>. QED  BY <3>1, <3>2, Zenon
  <2>2. \A d, j : /\ InMain(Quant(d))' <=> InMain(Quant(d))
                  /\ InMain(Wait(d, j))' <=> InMain(Wait(d, j))
                  /\ InMain(Mark(d))' <=> InMain(Mark(d))
                  /\ InMain(Reduce(d, j))' <=> InMain(Reduce(d, j))
                  /\ InMain(PlainOp(d))' <=> InMain(PlainOp(d)) /\ d # c
    BY <1>6, <1>13, OpsDiffer
  <2>3. /\ \A d \in Calls : d # c => aoOut'[d] = aoOut[d]
        /\ aoOut'[c] = [r \in 0 .. aoM[c] - 1 |-> Append(aoOut[c][r], <<c, r>>)]
    <3>1. DOMAIN aoOut = Calls /\ DOMAIN aoOut[c] = 0 .. aoM[c] - 1
      BY <1>3 DEF AoTypeOK, Calls
    <3>. QED  BY <2>1, <3>1
  <2>4. \A r \in 0 .. aoM[c] - 1 : aoOut[c][r] = <<>>
    BY <1>1, <1>3, <1>13 DEF ReducedSoFar, OnceIf
  <2>5. \A r \in 0 .. aoM[c] - 1 : aoOut'[c][r] = <<<<c, r>>>>
    <3>1. \A r \in 0 .. aoM[c] - 1 : aoOut'[c][r] = Append(<<>>, <<c, r>>)
      BY <2>3, <2>4
    <3>. QED  BY <3>1, AppendFirst
  <2>6. AoTypeOK'
    <3>. DEFINE outs == UNION {[0 .. m - 1 -> Seq(Nat \X Int)] : m \in AoRows}
    <3>1. aoOut'[c] \in [0 .. aoM[c] - 1 -> Seq(Nat \X Int)]
      <4>1. aoOut[c] \in [0 .. aoM[c] - 1 -> Seq(Nat \X Int)]
        <5>1. c \in 1 .. Len(aoOut) /\ aoOut \in Seq(outs) /\ DOMAIN aoOut[c] = 0 .. aoM[c] - 1
          BY <1>3, <1>8 DEF AoTypeOK, Calls
        <5>2. aoOut[c] \in outs
          <6>. HIDE DEF outs
          <6>. QED  BY <5>1, ElementOfSeq
        <5>3. PICK m \in AoRows : aoOut[c] \in [0 .. m - 1 -> Seq(Nat \X Int)]
          BY <5>2
        <5>4. 0 .. m - 1 = 0 .. aoM[c] - 1
          BY <5>1, <5>3
        <5>. QED  BY <5>3, <5>4
      <4>2. \A r \in 0 .. aoM[c] - 1 : <<c, r>> \in Nat \X Int
        BY <1>8
      <4>3. \A r \in 0 .. aoM[c] - 1 : Append(aoOut[c][r], <<c, r>>) \in Seq(Nat \X Int)
        BY <4>1, <4>2, AppendProperties
      <4>. QED  BY <2>3, <4>1, <4>3
    <3>2. aoOut' \in Seq(outs) /\ Len(aoOut') = Len(aoOut) /\ DOMAIN aoOut'[c] = 0 .. aoM[c] - 1
      <4>1. aoOut \in Seq(outs) /\ c \in 1 .. Len(aoOut) /\ aoOut'[c] \in outs
        BY <1>3, <1>8, <3>1 DEF AoTypeOK
      <4>2. aoOut' = [aoOut EXCEPT ![c] = aoOut'[c]]
        BY <2>1, <4>1
      <4>. HIDE DEF outs
      <4>. QED  BY <2>3, <4>1, <4>2, ExceptSeq
    <3>. QED  BY <1>1, <1>3, <1>5, <2>1, <2>3, <3>2 DEF AoTypeOK
  <2>7. Fired'
    BY <1>3, <1>5, <1>7, <2>1, <2>2 DEF Fired
  <2>8. Waited'
    BY <1>3, <1>5, <1>7, <2>1, <2>2 DEF Waited
  <2>9. Quantised'
    BY <1>3, <1>5, <2>1, <2>2 DEF Quantised
  <2>10. Multiplied'
    BY <1>3, <1>5, <1>7, <2>1 DEF Multiplied
  <2>11. ReducedSoFar'
    <3>1. ASSUME NEW d \in Calls, InSlices(d), NEW j \in SliceNos, NEW r \in SliceRows(aoM[d], j)
          PROVE  aoOut'[d][r] = IF InMain(Reduce(d, j))' THEN <<>> ELSE <<<<d, r>>>>
      BY <1>3, <1>13, <2>2, <2>3, <3>1 DEF ReducedSoFar, OnceIf
    <3>2. ASSUME NEW d \in Calls, ~InSlices(d), NEW r \in 0 .. aoM[d] - 1
          PROVE  aoOut'[d][r] = IF InMain(PlainOp(d))' THEN <<>> ELSE <<<<d, r>>>>
      BY ZenonT(60), <1>3, <2>2, <2>3, <2>5, <3>2 DEF ReducedSoFar, OnceIf
    <3>. QED  BY <1>5, <3>1, <3>2 DEF ReducedSoFar, OnceIf
  <2>. QED  BY <1>1, <1>4, <2>6, <2>7, <2>8, <2>9, <2>10, <2>11 DEF AoInv
<1>. QED  BY <1>2, <1>9, <1>10, <1>11, <1>12, <1>13, MainCases

LEMMA CommRuns ==
    ASSUME AoInv, RunComm
    PROVE  AoInv'
<1>. DEFINE h == aoComm[1]
<1>1. /\ Perform(h) /\ aoM' = aoM /\ aoMain' = aoMain
      /\ aoComm' \in Seq(AoOps) /\ InComm(h)
      /\ \A o : InComm(o)' <=> InComm(o) /\ o # h
      /\ \A c \in Calls : \A o \in CommOf(c) : CommBefore(h, o) => InComm(o)'
      /\ \A o : InComm(o) /\ o # h => CommBefore(h, o)
      /\ CommQueue'
  BY CommHead
<1>2. PICK c \in Calls : h \in CommOf(c)
  BY CommHead
<1>. HIDE DEF h
<1>3. /\ AoTypeOK /\ MainQueue /\ Fired /\ Waited /\ Quantised /\ Multiplied /\ ReducedSoFar
  BY DEF AoInv
<1>4. MainQueue'
  <2>1. Calls' = Calls /\ \A d : MainOf(d)' = MainOf(d)
    BY <1>1 DEF Calls, MainOf, InSlices, Quant, Mark, PlainOp, Wait, Reduce
  <2>. QED  BY <1>1, <1>3, <2>1 DEF MainQueue, InMain
<1>5. /\ Calls' = Calls /\ \A d : InSlices(d)' = InSlices(d)
      /\ \A d : aoM'[d] = aoM[d]
  BY <1>1, SameOps
<1>6. \A d : /\ InComm(WaitReady(d))' <=> InComm(WaitReady(d)) /\ WaitReady(d) # h
             /\ \A i : InComm(Gemm(d, i))' <=> InComm(Gemm(d, i)) /\ Gemm(d, i) # h
             /\ \A i : InComm(Signal(d, i))' <=> InComm(Signal(d, i)) /\ Signal(d, i) # h
  BY <1>1, CommLeft
<1>7. \A d : /\ InMain(Quant(d))' <=> InMain(Quant(d))
             /\ InMain(Mark(d))' <=> InMain(Mark(d))
             /\ InMain(PlainOp(d))' <=> InMain(PlainOp(d))
             /\ \A i : InMain(Wait(d, i))' <=> InMain(Wait(d, i))
             /\ \A i : InMain(Reduce(d, i))' <=> InMain(Reduce(d, i))
  BY <1>1 DEF InMain, Quant, Mark, PlainOp, Wait, Reduce
<1>8. c \in Nat /\ Calls \subseteq Nat /\ c \in 1 .. Len(aoM) /\ aoM[c] \in AoRows /\ aoM \in Seq(AoRows)
  BY <1>3 DEF Calls, AoTypeOK
<1>9. InSlices(c)
  BY <1>2, CommCases
<1>10. CASE h = WaitReady(c)
  <2>1. <<c, Ready>> \in aoEvents /\ UNCHANGED <<aoEvents, aoX8, aoY, aoOut>>
    <3>1. h.op = "wait" /\ h.call = c /\ h.slice = Ready
      BY <1>10 DEF WaitReady, Do
    <3>. QED  BY <1>1, <3>1, Performed
  <2>2. AoTypeOK'
    BY <1>1, <1>3, <1>5, <2>1 DEF AoTypeOK
  <2>3. \A d, i : /\ InComm(Gemm(d, i))' <=> InComm(Gemm(d, i))
                  /\ InComm(Signal(d, i))' <=> InComm(Signal(d, i))
                  /\ InComm(WaitReady(d))' <=> InComm(WaitReady(d)) /\ d # c
    BY <1>6, <1>10, OpsDiffer
  <2>4. Fired'
    BY <1>3, <1>5, <1>7, <2>1, <2>3 DEF Fired
  <2>5. Waited'
    BY <1>3, <1>5, <1>7, <2>1, <2>3 DEF Waited
  <2>6. Quantised'
    BY <1>3, <1>5, <1>7, <2>1 DEF Quantised
  <2>7. Multiplied'
    BY <1>3, <1>5, <2>1, <2>3 DEF Multiplied
  <2>8. ReducedSoFar'
    BY <1>3, <1>5, <1>7, <2>1 DEF ReducedSoFar, OnceIf
  <2>. QED  BY <1>1, <1>4, <2>2, <2>4, <2>5, <2>6, <2>7, <2>8 DEF AoInv
<1>11. CASE \E i \in SliceNos : h = Signal(c, i)
  <2>. PICK i \in SliceNos : h = Signal(c, i)
    BY <1>11
  <2>1. aoEvents' = aoEvents \cup {<<c, i>>} /\ UNCHANGED <<aoX8, aoY, aoOut>>
    <3>1. h.op = "record" /\ h.call = c /\ h.slice = i
      BY DEF Signal, Do
    <3>. QED  BY <1>1, <3>1, Performed
  <2>2. AoTypeOK'
    BY <1>1, <1>3, <1>5, <2>1 DEF AoTypeOK
  <2>3. \A d, j : /\ InComm(Gemm(d, j))' <=> InComm(Gemm(d, j))
                  /\ InComm(WaitReady(d))' <=> InComm(WaitReady(d))
                  /\ InComm(Signal(d, j))' <=> InComm(Signal(d, j)) /\ ~(d = c /\ j = i)
    BY <1>6, OpsDiffer
  <2>4. Fired'
    <3>1. \A e \in aoEvents' : e[1] \in Calls
      BY <1>3, <2>1 DEF Fired
    <3>2. ASSUME NEW d \in Calls, InSlices(d), <<d, Ready>> \in aoEvents' PROVE ~InMain(Mark(d))'
      <4>1. i # Ready
        BY DEF SliceNos, Ready
      <4>. QED  BY <1>3, <1>7, <2>1, <3>2, <4>1 DEF Fired
    <3>3. ASSUME NEW d \in Calls, InSlices(d), NEW j \in SliceNos, <<d, j>> \in aoEvents'
          PROVE  ~InComm(Signal(d, j))'
      <4>1. CASE d = c /\ j = i
        BY <2>3, <4>1
      <4>2. CASE ~(d = c /\ j = i)
        BY <1>3, <2>1, <2>3, <3>3, <4>2 DEF Fired
      <4>. QED  BY <4>1, <4>2
    <3>. QED  BY <1>5, <3>1, <3>2, <3>3 DEF Fired
  <2>5. Waited'
    BY <1>3, <1>5, <1>7, <2>1, <2>3 DEF Waited
  <2>6. Quantised'
    BY <1>3, <1>5, <1>7, <2>1 DEF Quantised
  <2>7. Multiplied'
    BY <1>3, <1>5, <2>1, <2>3 DEF Multiplied
  <2>8. ReducedSoFar'
    BY <1>3, <1>5, <1>7, <2>1 DEF ReducedSoFar, OnceIf
  <2>. QED  BY <1>1, <1>4, <2>2, <2>4, <2>5, <2>6, <2>7, <2>8 DEF AoInv
<1>12. CASE \E i \in SliceNos : h = Gemm(c, i)
  <2>. PICK i \in SliceNos : h = Gemm(c, i)
    BY <1>12
  <2>1. /\ aoY' = [r \in AllRows |-> IF r \in SliceRows(aoM[c], i) THEN <<aoX8[r], r>> ELSE aoY[r]]
        /\ UNCHANGED <<aoEvents, aoX8, aoOut>>
    <3>1. h.op = "gemm" /\ h.rows = SliceRows(aoM[c], i)
      BY DEF Gemm, Do
    <3>2. /\ aoY' = [r \in AllRows |-> IF r \in h.rows THEN <<aoX8[r], r>> ELSE aoY[r]]
          /\ UNCHANGED <<aoEvents, aoX8, aoOut>>
      BY <1>1, <3>1 DEF Perform
    <3>. QED  BY <3>1, <3>2, Zenon
  <2>2. AoTypeOK'
    <3>1. aoY' \in [AllRows -> Nat \X Int]
      BY <1>3, <2>1, AllRowsFacts DEF AoTypeOK
    <3>. QED  BY <1>1, <1>3, <1>5, <2>1, <3>1 DEF AoTypeOK
  <2>3. \A d, j : /\ InComm(Signal(d, j))' <=> InComm(Signal(d, j))
                  /\ InComm(WaitReady(d))' <=> InComm(WaitReady(d))
                  /\ InComm(Gemm(d, j))' <=> InComm(Gemm(d, j)) /\ ~(d = c /\ j = i)
    BY <1>6, OpsDiffer
  \* The activation is there, and no later call has overwritten it.
  <2>4. ~InComm(WaitReady(c))
    <3>1. ~CommBefore(h, WaitReady(c)) /\ WaitReady(c) # h
      BY <1>8, OpFacts, OpsDiffer, Members DEF CommBefore
    <3>. QED  BY <1>1, <3>1
  <2>5. \A r \in 0 .. aoM[c] - 1 : aoX8[r] = c
    <3>1. ~InMain(Quant(c))
      BY <1>9, <2>4, BeforeHead
    <3>2. \A d \in Calls : d > c /\ InSlices(d) => InMain(Quant(d))
      BY <1>1, <1>9, NoLaterQuant
    <3>. QED  BY <1>3, <1>9, <3>1, <3>2 DEF Quantised
  <2>6. Multiplied'
    <3>. SUFFICES ASSUME NEW d \in Calls, NEW j \in SliceNos, InSlices(d), ~InComm(Gemm(d, j))',
                         \A e \in Calls : e > d /\ InSlices(e) => InComm(WaitReady(e))',
                         NEW r \in SliceRows(aoM[d], j)
                  PROVE  aoY'[r] = <<d, r>>
      BY <1>5 DEF Multiplied
    <3>1. d \in Nat /\ aoM[d] \in AoRows /\ r \in AllRows /\ r \in 0 .. aoM[d] - 1
      <4>1. d \in 1 .. Len(aoM) /\ d \in Nat
        BY DEF Calls
      <4>2. aoM[d] \in AoRows
        BY <1>8, <4>1
      <4>3. r \in 0 .. aoM[d] - 1
        BY <4>2, SlicesPart
      <4>. QED  BY <4>1, <4>2, <4>3, AllRowsFacts
    <3>2. ~(c > d)
      BY <1>9, <2>3, <2>4
    <3>3. ~(d > c)
      <4>. SUFFICES ASSUME d > c PROVE FALSE
        OBVIOUS
      <4>1. Gemm(d, j) \in CommOf(d)
        BY DEF CommOf
      <4>2. CommBefore(h, Gemm(d, j))
        BY OpFacts DEF CommBefore
      <4>3. InComm(Gemm(d, j))
        BY <1>1, <4>1, <4>2, CommKept
      <4>. QED  BY <1>8, <2>3, <3>1, <4>3
    <3>4. d = c
      BY <1>8, <3>1, <3>2, <3>3
    <3>5. CASE j = i
      BY <2>1, <2>5, <3>1, <3>4, <3>5
    <3>6. CASE j # i
      <4>1. j \in Nat /\ i \in Nat
        BY DEF SliceNos
      <4>2. j < i \/ i < j
        BY <3>6, <4>1
      <4>3. r \notin SliceRows(aoM[c], i)
        BY <3>1, <3>4, <4>2, SlicesPart
      <4>4. aoY[r] = <<c, r>>
        BY <1>3, <1>9, <2>3, <3>4, <3>6 DEF Multiplied
      <4>. QED  BY <2>1, <3>1, <3>4, <4>3, <4>4
    <3>. QED  BY <3>5, <3>6
  <2>7. Fired'
    BY <1>3, <1>5, <1>7, <2>1, <2>3 DEF Fired
  <2>8. Waited'
    BY <1>3, <1>5, <1>7, <2>1, <2>3 DEF Waited
  <2>9. Quantised'
    BY <1>3, <1>5, <1>7, <2>1 DEF Quantised
  <2>10. ReducedSoFar'
    BY <1>3, <1>5, <1>7, <2>1 DEF ReducedSoFar, OnceIf
  <2>. QED  BY <1>1, <1>4, <2>2, <2>6, <2>7, <2>8, <2>9, <2>10 DEF AoInv
<1>. QED  BY <1>2, <1>10, <1>11, <1>12, CommCases

\* The calls and their operations, once call c has been added.
LEMMA CallAdded ==
    ASSUME AoTypeOK, NEW m \in AoRows, NEW c, c = Len(aoM) + 1, aoM' = Append(aoM, m)
    PROVE  /\ c \in Nat /\ c \notin Calls /\ \A d \in Calls : d \in Nat /\ d < c
           /\ Calls' = Calls \cup {c} /\ aoM' \in Seq(AoRows) /\ Len(aoM') = c /\ aoM'[c] = m
           /\ \A d \in Calls :
                /\ aoM'[d] = aoM[d] /\ (InSlices(d)' <=> InSlices(d))
                /\ Quant(d)' = Quant(d) /\ Mark(d)' = Mark(d)
                /\ WaitReady(d)' = WaitReady(d) /\ PlainOp(d)' = PlainOp(d)
                /\ \A i : /\ Wait(d, i)' = Wait(d, i) /\ Reduce(d, i)' = Reduce(d, i)
                          /\ Gemm(d, i)' = Gemm(d, i) /\ Signal(d, i)' = Signal(d, i)
                /\ MainOf(d)' = MainOf(d) /\ CommOf(d)' = CommOf(d)
<1>1. aoM \in Seq(AoRows) /\ Len(aoM) \in Nat
  BY DEF AoTypeOK
<1>2. /\ c \in Nat /\ c \notin Calls /\ \A d \in Calls : d \in Nat /\ d < c
  BY <1>1 DEF Calls
<1>3. aoM' \in Seq(AoRows) /\ Len(aoM') = c /\ aoM'[c] = m /\ \A d \in 1 .. Len(aoM) : aoM'[d] = aoM[d]
  BY <1>1, AppendProperties
<1>4. Calls' = Calls \cup {c}
  BY <1>1, <1>3 DEF Calls
<1>5. ASSUME NEW d \in Calls
      PROVE  /\ aoM'[d] = aoM[d] /\ (InSlices(d)' <=> InSlices(d))
             /\ Quant(d)' = Quant(d) /\ Mark(d)' = Mark(d)
             /\ WaitReady(d)' = WaitReady(d) /\ PlainOp(d)' = PlainOp(d)
             /\ \A i : /\ Wait(d, i)' = Wait(d, i) /\ Reduce(d, i)' = Reduce(d, i)
                       /\ Gemm(d, i)' = Gemm(d, i) /\ Signal(d, i)' = Signal(d, i)
             /\ MainOf(d)' = MainOf(d) /\ CommOf(d)' = CommOf(d)
  <2>1. aoM'[d] = aoM[d]
    BY <1>3 DEF Calls
  <2>2. InSlices(d)' <=> InSlices(d)
    BY <2>1 DEF InSlices
  <2>3. /\ Quant(d)' = Quant(d) /\ Mark(d)' = Mark(d)
        /\ WaitReady(d)' = WaitReady(d) /\ PlainOp(d)' = PlainOp(d)
    BY <2>1 DEF Quant, Mark, WaitReady, PlainOp
  <2>4. \A i : /\ Wait(d, i)' = Wait(d, i) /\ Reduce(d, i)' = Reduce(d, i)
               /\ Gemm(d, i)' = Gemm(d, i) /\ Signal(d, i)' = Signal(d, i)
    BY <2>1 DEF Wait, Reduce, Gemm, Signal
  <2>5. MainOf(d)' = MainOf(d) /\ CommOf(d)' = CommOf(d)
    BY <2>2, <2>3, <2>4 DEF MainOf, CommOf
  <2>. QED  BY <2>1, <2>2, <2>3, <2>4, <2>5
<1>. QED  BY <1>2, <1>3, <1>4, <1>5

\* The main stream, once the operations P of a new call follow what it held.
LEMMA MainAdded ==
    ASSUME AoInv, NEW m \in AoRows, NEW c, c = Len(aoM) + 1, aoM' = Append(aoM, m),
           NEW P \in Seq(AoOps), aoMain' = aoMain \o P,
           NEW M, M = MainOf(c)', MainFilled(P, M)
    PROVE  /\ aoMain' \in Seq(AoOps) /\ MainQueue'
           /\ \A o : (\E k \in 1 .. Len(aoMain') : aoMain'[k] = o) <=> InMain(o) \/ o \in M
<1>0. /\ \A k \in 1 .. Len(P) : P[k] \in M /\ MainStep(P[k]) = k - 1
      /\ \A o \in M : \E k \in 1 .. Len(P) : P[k] = o
  BY DEF MainFilled
<1>. USE <1>0
<1>1. AoTypeOK /\ MainQueue /\ aoMain \in Seq(AoOps) /\ Len(aoMain) \in Nat /\ Len(P) \in Nat
  BY DEF AoInv, AoTypeOK
<1>2. /\ aoMain' \in Seq(AoOps) /\ Len(aoMain') = Len(aoMain) + Len(P)
      /\ \A k \in 1 .. Len(aoMain) : aoMain'[k] = aoMain[k]
      /\ \A k \in Len(aoMain) + 1 .. Len(aoMain') : k - Len(aoMain) \in 1 .. Len(P) /\ aoMain'[k] = P[k - Len(aoMain)]
  <2>1. /\ aoMain \o P \in Seq(AoOps) /\ Len(aoMain \o P) = Len(aoMain) + Len(P)
        /\ \A k \in 1 .. Len(aoMain) + Len(P) :
              (aoMain \o P)[k] = IF k <= Len(aoMain) THEN aoMain[k] ELSE P[k - Len(aoMain)]
    BY <1>1, ConcatProperties
  <2>. QED  BY <1>1, <2>1
<1>3. \A o : (\E k \in 1 .. Len(aoMain') : aoMain'[k] = o) <=> InMain(o) \/ o \in M
  <2>1. ASSUME NEW k \in 1 .. Len(aoMain') PROVE InMain(aoMain'[k]) \/ aoMain'[k] \in M
    <3>1. CASE k <= Len(aoMain)
      BY <1>1, <1>2, <3>1 DEF InMain
    <3>2. CASE ~(k <= Len(aoMain))
      BY <1>1, <1>2, <3>2
    <3>. QED  BY <3>1, <3>2
  <2>2. ASSUME NEW o, InMain(o) PROVE \E k \in 1 .. Len(aoMain') : aoMain'[k] = o
    BY <1>1, <1>2, <2>2 DEF InMain
  <2>3. ASSUME NEW o \in M PROVE \E k \in 1 .. Len(aoMain') : aoMain'[k] = o
    <3>1. PICK k \in 1 .. Len(P) : P[k] = o
      OBVIOUS
    <3>2. Len(aoMain) + k \in 1 .. Len(aoMain') /\ aoMain'[Len(aoMain) + k] = o
      BY <1>1, <1>2, <3>1
    <3>. QED  BY <3>2
  <2>. QED  BY <2>1, <2>2, <2>3
<1>4. /\ c \in Nat /\ \A d \in Calls : d \in Nat /\ d < c /\ MainOf(d)' = MainOf(d)
      /\ Calls' = Calls \cup {c}
  BY <1>1, CallAdded
\* Where an element of the stream comes from.
<1>5. \A k \in 1 .. Len(aoMain') : \E d \in Calls' : aoMain'[k] \in MainOf(d)'
  <2>. SUFFICES ASSUME NEW k \in 1 .. Len(aoMain') PROVE \E d \in Calls' : aoMain'[k] \in MainOf(d)'
    OBVIOUS
  <2>1. CASE k <= Len(aoMain)
    <3>1. PICK d \in Calls : aoMain[k] \in MainOf(d)
      BY <1>1, <2>1 DEF MainQueue
    <3>. QED  BY <1>1, <1>2, <1>4, <2>1, <3>1
  <2>2. CASE ~(k <= Len(aoMain))
    <3>1. k - Len(aoMain) \in 1 .. Len(P) /\ aoMain'[k] = P[k - Len(aoMain)]
      BY <1>1, <1>2, <2>2
    <3>2. aoMain'[k] \in MainOf(c)'
      BY <3>1
    <3>. QED  BY <1>4, <3>2
  <2>. QED  BY <2>1, <2>2
\* Old operations are of old calls, the new ones of the new call.
<1>6. \A k \in 1 .. Len(aoMain) : aoMain[k].call \in Nat /\ aoMain[k].call < c
  BY <1>1, <1>4, MainOps DEF MainQueue
<1>7. \A o \in M : o.call = c
  BY MainOps DEF MainOf, Quant, Mark, Wait, Reduce, PlainOp, Do
<1>8. \A k \in Len(aoMain) + 1 .. Len(aoMain') :
         aoMain'[k].call = c /\ aoMain'[k] \in M /\ MainStep(aoMain'[k]) = k - Len(aoMain) - 1
  BY <1>1, <1>2, <1>7
<1>9. \A j, k \in 1 .. Len(aoMain') : j < k => MainBefore(aoMain'[j], aoMain'[k])
  <2>. SUFFICES ASSUME NEW j \in 1 .. Len(aoMain'), NEW k \in 1 .. Len(aoMain'), j < k
                PROVE  MainBefore(aoMain'[j], aoMain'[k])
    OBVIOUS
  <2>1. CASE k <= Len(aoMain)
    <3>1. j \in 1 .. Len(aoMain) /\ k \in 1 .. Len(aoMain)
      BY <1>1, <1>2, <2>1
    <3>. QED  BY <1>1, <1>2, <3>1 DEF MainQueue
  <2>2. CASE j <= Len(aoMain) /\ ~(k <= Len(aoMain))
    <3>1. j \in 1 .. Len(aoMain) /\ k \in Len(aoMain) + 1 .. Len(aoMain')
      BY <1>1, <1>2, <2>2
    <3>. QED  BY <1>2, <1>6, <1>8, <3>1 DEF MainBefore
  <2>3. CASE ~(j <= Len(aoMain))
    <3>1. j \in Len(aoMain) + 1 .. Len(aoMain') /\ k \in Len(aoMain) + 1 .. Len(aoMain')
      BY <1>1, <1>2, <2>3
    <3>2. j - Len(aoMain) - 1 < k - Len(aoMain) - 1
      BY <1>1
    <3>. QED  BY <1>4, <1>8, <3>1, <3>2 DEF MainBefore
  <2>. QED  BY <2>1, <2>2, <2>3
<1>10. ASSUME NEW k \in 1 .. Len(aoMain'), NEW d \in Calls', NEW o \in MainOf(d)', MainBefore(aoMain'[k], o)
       PROVE  \E j \in 1 .. Len(aoMain') : aoMain'[j] = o
  <2>1. CASE d = c
    BY <1>3, <2>1
  <2>2. CASE d # c
    <3>1. d \in Calls /\ o \in MainOf(d) /\ o.call = d /\ d < c /\ d \in Nat
      BY <1>4, <2>2, MainOps
    <3>2. k <= Len(aoMain)
      <4>. SUFFICES ASSUME ~(k <= Len(aoMain)) PROVE FALSE
        OBVIOUS
      <4>1. aoMain'[k].call = c
        BY <1>1, <1>2, <1>8
      <4>. QED  BY <1>4, <1>10, <3>1, <4>1 DEF MainBefore
    <3>3. k \in 1 .. Len(aoMain) /\ aoMain'[k] = aoMain[k]
      BY <1>1, <1>2, <3>2
    <3>4. InMain(o)
      BY <1>1, <1>10, <3>1, <3>3 DEF MainQueue
    <3>. QED  BY <1>3, <3>4
  <2>. QED  BY <2>1, <2>2
<1>11. MainQueue'
  BY <1>5, <1>9, <1>10 DEF MainQueue, MainBefore, MainStep, InMain
<1>. QED  BY <1>2, <1>3, <1>11

LEMMA CommAdded ==
    ASSUME AoInv, NEW m \in AoRows, NEW c, c = Len(aoM) + 1, aoM' = Append(aoM, m),
           NEW P \in Seq(AoOps), aoComm' = aoComm \o P,
           NEW M, M = CommOf(c)', CommFilled(P, M)
    PROVE  /\ aoComm' \in Seq(AoOps) /\ CommQueue'
           /\ \A o : (\E k \in 1 .. Len(aoComm') : aoComm'[k] = o) <=> InComm(o) \/ o \in M
<1>0. /\ \A k \in 1 .. Len(P) : P[k] \in M /\ CommStep(P[k]) = k - 1
      /\ \A o \in M : \E k \in 1 .. Len(P) : P[k] = o
  BY DEF CommFilled
<1>. USE <1>0
<1>1. AoTypeOK /\ CommQueue /\ aoComm \in Seq(AoOps) /\ Len(aoComm) \in Nat /\ Len(P) \in Nat
  BY DEF AoInv, AoTypeOK
<1>2. /\ aoComm' \in Seq(AoOps) /\ Len(aoComm') = Len(aoComm) + Len(P)
      /\ \A k \in 1 .. Len(aoComm) : aoComm'[k] = aoComm[k]
      /\ \A k \in Len(aoComm) + 1 .. Len(aoComm') : k - Len(aoComm) \in 1 .. Len(P) /\ aoComm'[k] = P[k - Len(aoComm)]
  <2>1. /\ aoComm \o P \in Seq(AoOps) /\ Len(aoComm \o P) = Len(aoComm) + Len(P)
        /\ \A k \in 1 .. Len(aoComm) + Len(P) :
              (aoComm \o P)[k] = IF k <= Len(aoComm) THEN aoComm[k] ELSE P[k - Len(aoComm)]
    BY <1>1, ConcatProperties
  <2>. QED  BY <1>1, <2>1
<1>3. \A o : (\E k \in 1 .. Len(aoComm') : aoComm'[k] = o) <=> InComm(o) \/ o \in M
  <2>1. ASSUME NEW k \in 1 .. Len(aoComm') PROVE InComm(aoComm'[k]) \/ aoComm'[k] \in M
    <3>1. CASE k <= Len(aoComm)
      BY <1>1, <1>2, <3>1 DEF InComm
    <3>2. CASE ~(k <= Len(aoComm))
      BY <1>1, <1>2, <3>2
    <3>. QED  BY <3>1, <3>2
  <2>2. ASSUME NEW o, InComm(o) PROVE \E k \in 1 .. Len(aoComm') : aoComm'[k] = o
    BY <1>1, <1>2, <2>2 DEF InComm
  <2>3. ASSUME NEW o \in M PROVE \E k \in 1 .. Len(aoComm') : aoComm'[k] = o
    <3>1. PICK k \in 1 .. Len(P) : P[k] = o
      OBVIOUS
    <3>2. Len(aoComm) + k \in 1 .. Len(aoComm') /\ aoComm'[Len(aoComm) + k] = o
      BY <1>1, <1>2, <3>1
    <3>. QED  BY <3>2
  <2>. QED  BY <2>1, <2>2, <2>3
<1>4. /\ c \in Nat /\ \A d \in Calls : d \in Nat /\ d < c /\ CommOf(d)' = CommOf(d)
      /\ Calls' = Calls \cup {c}
  BY <1>1, CallAdded
\* Where an element of the stream comes from.
<1>5. \A k \in 1 .. Len(aoComm') : \E d \in Calls' : aoComm'[k] \in CommOf(d)'
  <2>. SUFFICES ASSUME NEW k \in 1 .. Len(aoComm') PROVE \E d \in Calls' : aoComm'[k] \in CommOf(d)'
    OBVIOUS
  <2>1. CASE k <= Len(aoComm)
    <3>1. PICK d \in Calls : aoComm[k] \in CommOf(d)
      BY <1>1, <2>1 DEF CommQueue
    <3>. QED  BY <1>1, <1>2, <1>4, <2>1, <3>1
  <2>2. CASE ~(k <= Len(aoComm))
    <3>1. k - Len(aoComm) \in 1 .. Len(P) /\ aoComm'[k] = P[k - Len(aoComm)]
      BY <1>1, <1>2, <2>2
    <3>2. aoComm'[k] \in CommOf(c)'
      BY <3>1
    <3>. QED  BY <1>4, <3>2
  <2>. QED  BY <2>1, <2>2
\* Old operations are of old calls, the new ones of the new call.
<1>6. \A k \in 1 .. Len(aoComm) : aoComm[k].call \in Nat /\ aoComm[k].call < c
  BY <1>1, <1>4, CommOps DEF CommQueue
<1>7. \A o \in M : o.call = c
  BY CommOps DEF CommOf, WaitReady, Gemm, Signal, Do
<1>8. \A k \in Len(aoComm) + 1 .. Len(aoComm') :
         aoComm'[k].call = c /\ aoComm'[k] \in M /\ CommStep(aoComm'[k]) = k - Len(aoComm) - 1
  BY <1>1, <1>2, <1>7
<1>9. \A j, k \in 1 .. Len(aoComm') : j < k => CommBefore(aoComm'[j], aoComm'[k])
  <2>. SUFFICES ASSUME NEW j \in 1 .. Len(aoComm'), NEW k \in 1 .. Len(aoComm'), j < k
                PROVE  CommBefore(aoComm'[j], aoComm'[k])
    OBVIOUS
  <2>1. CASE k <= Len(aoComm)
    <3>1. j \in 1 .. Len(aoComm) /\ k \in 1 .. Len(aoComm)
      BY <1>1, <1>2, <2>1
    <3>. QED  BY <1>1, <1>2, <3>1 DEF CommQueue
  <2>2. CASE j <= Len(aoComm) /\ ~(k <= Len(aoComm))
    <3>1. j \in 1 .. Len(aoComm) /\ k \in Len(aoComm) + 1 .. Len(aoComm')
      BY <1>1, <1>2, <2>2
    <3>. QED  BY <1>2, <1>6, <1>8, <3>1 DEF CommBefore
  <2>3. CASE ~(j <= Len(aoComm))
    <3>1. j \in Len(aoComm) + 1 .. Len(aoComm') /\ k \in Len(aoComm) + 1 .. Len(aoComm')
      BY <1>1, <1>2, <2>3
    <3>2. j - Len(aoComm) - 1 < k - Len(aoComm) - 1
      BY <1>1
    <3>. QED  BY <1>4, <1>8, <3>1, <3>2 DEF CommBefore
  <2>. QED  BY <2>1, <2>2, <2>3
<1>10. ASSUME NEW k \in 1 .. Len(aoComm'), NEW d \in Calls', NEW o \in CommOf(d)', CommBefore(aoComm'[k], o)
       PROVE  \E j \in 1 .. Len(aoComm') : aoComm'[j] = o
  <2>1. CASE d = c
    BY <1>3, <2>1
  <2>2. CASE d # c
    <3>1. d \in Calls /\ o \in CommOf(d) /\ o.call = d /\ d < c /\ d \in Nat
      BY <1>4, <2>2, CommOps
    <3>2. k <= Len(aoComm)
      <4>. SUFFICES ASSUME ~(k <= Len(aoComm)) PROVE FALSE
        OBVIOUS
      <4>1. aoComm'[k].call = c
        BY <1>1, <1>2, <1>8
      <4>. QED  BY <1>4, <1>10, <3>1, <4>1 DEF CommBefore
    <3>3. k \in 1 .. Len(aoComm) /\ aoComm'[k] = aoComm[k]
      BY <1>1, <1>2, <3>2
    <3>4. InComm(o)
      BY <1>1, <1>10, <3>1, <3>3 DEF CommQueue
    <3>. QED  BY <1>3, <3>4
  <2>. QED  BY <2>1, <2>2
<1>11. CommQueue'
  BY <1>5, <1>9, <1>10 DEF CommQueue, CommBefore, CommStep, InComm
<1>. QED  BY <1>2, <1>3, <1>11

\* Adding a call whose operations are all queued disturbs nothing.
LEMMA AddKeeps ==
    ASSUME AoInv, NEW m \in AoRows, NEW c, c = Len(aoM) + 1, aoM' = Append(aoM, m),
           aoOut' = Append(aoOut, [r \in 0 .. m - 1 |-> <<>>]),
           UNCHANGED <<aoEvents, aoX8, aoY>>,
           aoMain' \in Seq(AoOps), aoComm' \in Seq(AoOps), MainQueue', CommQueue',
           NEW M, M = MainOf(c)', NEW K, K = CommOf(c)',
           \A o : (\E k \in 1 .. Len(aoMain') : aoMain'[k] = o) <=> InMain(o) \/ o \in M,
           \A o : (\E k \in 1 .. Len(aoComm') : aoComm'[k] = o) <=> InComm(o) \/ o \in K
    PROVE  AoInv'
<1>1. /\ AoTypeOK /\ Fired /\ Waited /\ Quantised /\ Multiplied /\ ReducedSoFar
  BY DEF AoInv
<1>2. /\ c \in Nat /\ c \notin Calls /\ \A d \in Calls : d \in Nat /\ d < c
      /\ Calls' = Calls \cup {c} /\ aoM' \in Seq(AoRows) /\ Len(aoM') = c /\ aoM'[c] = m
      /\ \A d \in Calls :
           /\ aoM'[d] = aoM[d] /\ (InSlices(d)' <=> InSlices(d))
           /\ Quant(d)' = Quant(d) /\ Mark(d)' = Mark(d)
           /\ WaitReady(d)' = WaitReady(d) /\ PlainOp(d)' = PlainOp(d)
           /\ \A i : /\ Wait(d, i)' = Wait(d, i) /\ Reduce(d, i)' = Reduce(d, i)
                     /\ Gemm(d, i)' = Gemm(d, i) /\ Signal(d, i)' = Signal(d, i)
  BY <1>1, CallAdded
<1>3. /\ \A o \in M : o.call = c
      /\ \A o \in K : o.call = c
  BY MainOps, CommOps DEF MainOf, CommOf, Quant, Mark, Wait, Reduce, PlainOp, WaitReady, Gemm, Signal, Do
<1>4. \A d \in Calls :
        /\ InMain(Quant(d))' <=> InMain(Quant(d))
        /\ InMain(Mark(d))' <=> InMain(Mark(d))
        /\ InMain(PlainOp(d))' <=> InMain(PlainOp(d))
        /\ \A i : InMain(Wait(d, i))' <=> InMain(Wait(d, i))
        /\ \A i : InMain(Reduce(d, i))' <=> InMain(Reduce(d, i))
  <2>. SUFFICES ASSUME NEW d \in Calls, NEW i
                PROVE  /\ InMain(Quant(d))' <=> InMain(Quant(d))
                       /\ InMain(Mark(d))' <=> InMain(Mark(d))
                       /\ InMain(PlainOp(d))' <=> InMain(PlainOp(d))
                       /\ InMain(Wait(d, i))' <=> InMain(Wait(d, i))
                       /\ InMain(Reduce(d, i))' <=> InMain(Reduce(d, i))
    OBVIOUS
  <2>1. {Quant(d), Mark(d), PlainOp(d), Wait(d, i), Reduce(d, i)} \cap M = {}
    <3>1. \A o \in {Quant(d), Mark(d), PlainOp(d), Wait(d, i), Reduce(d, i)} : o.call = d
      BY DEF Quant, Mark, PlainOp, Wait, Reduce, Do
    <3>. QED  BY <1>2, <1>3, <3>1
  <2>2. \A o \in {Quant(d), Mark(d), PlainOp(d), Wait(d, i), Reduce(d, i)} :
           (\E k \in 1 .. Len(aoMain') : aoMain'[k] = o) <=> InMain(o)
    BY <2>1
  <2>3. InMain(Quant(d))' <=> InMain(Quant(d))
    BY <1>2, <2>2 DEF InMain
  <2>4. InMain(Mark(d))' <=> InMain(Mark(d))
    BY <1>2, <2>2 DEF InMain
  <2>5. InMain(PlainOp(d))' <=> InMain(PlainOp(d))
    BY <1>2, <2>2 DEF InMain
  <2>6. InMain(Wait(d, i))' <=> InMain(Wait(d, i))
    BY <1>2, <2>2 DEF InMain
  <2>7. InMain(Reduce(d, i))' <=> InMain(Reduce(d, i))
    BY <1>2, <2>2 DEF InMain
  <2>. QED  BY <2>3, <2>4, <2>5, <2>6, <2>7
<1>5. \A d \in Calls :
        /\ InComm(WaitReady(d))' <=> InComm(WaitReady(d))
        /\ \A i : InComm(Gemm(d, i))' <=> InComm(Gemm(d, i))
        /\ \A i : InComm(Signal(d, i))' <=> InComm(Signal(d, i))
  <2>. SUFFICES ASSUME NEW d \in Calls, NEW i
                PROVE  /\ InComm(WaitReady(d))' <=> InComm(WaitReady(d))
                       /\ InComm(Gemm(d, i))' <=> InComm(Gemm(d, i))
                       /\ InComm(Signal(d, i))' <=> InComm(Signal(d, i))
    OBVIOUS
  <2>1. {WaitReady(d), Gemm(d, i), Signal(d, i)} \cap K = {}
    <3>1. \A o \in {WaitReady(d), Gemm(d, i), Signal(d, i)} : o.call = d
      BY DEF WaitReady, Gemm, Signal, Do
    <3>. QED  BY <1>2, <1>3, <3>1
  <2>2. \A o \in {WaitReady(d), Gemm(d, i), Signal(d, i)} :
           (\E k \in 1 .. Len(aoComm') : aoComm'[k] = o) <=> InComm(o)
    BY <2>1
  <2>3. InComm(WaitReady(d))' <=> InComm(WaitReady(d))
    BY <1>2, <2>2 DEF InComm
  <2>4. InComm(Gemm(d, i))' <=> InComm(Gemm(d, i))
    BY <1>2, <2>2 DEF InComm
  <2>5. InComm(Signal(d, i))' <=> InComm(Signal(d, i))
    BY <1>2, <2>2 DEF InComm
  <2>. QED  BY <2>3, <2>4, <2>5
\* All of the new call is queued.
<1>6. ASSUME NEW i \in SliceNos, InSlices(c)'
      PROVE  /\ InMain(Quant(c))' /\ InMain(Wait(c, i))' /\ InMain(Reduce(c, i))'
             /\ InComm(WaitReady(c))' /\ InComm(Gemm(c, i))'
  <2>1. /\ {Quant(c)', Wait(c, i)', Reduce(c, i)'} \subseteq M
        /\ {WaitReady(c)', Gemm(c, i)'} \subseteq K
    BY <1>6 DEF MainOf, CommOf, SliceNos
  <2>2. InMain(Quant(c))'
    BY <2>1 DEF InMain
  <2>3. InMain(Wait(c, i))'
    BY <2>1 DEF InMain
  <2>4. InMain(Reduce(c, i))'
    BY <2>1 DEF InMain
  <2>5. InComm(WaitReady(c))'
    BY <2>1 DEF InComm
  <2>6. InComm(Gemm(c, i))'
    BY <2>1 DEF InComm
  <2>. QED  BY <2>2, <2>3, <2>4, <2>5, <2>6
<1>7. ASSUME ~InSlices(c)' PROVE InMain(PlainOp(c))'
  <2>1. PlainOp(c)' \in M
    BY <1>7 DEF MainOf
  <2>. QED  BY <2>1 DEF InMain
<1>8. 0 \in SliceNos
  BY AoAssumption DEF SliceNos
<1>. DEFINE outs == UNION {[0 .. n - 1 -> Seq(Nat \X Int)] : n \in AoRows}
            new == [r \in 0 .. m - 1 |-> <<>>]
<1>9. /\ aoOut' \in Seq(outs) /\ Len(aoOut') = c /\ aoOut'[c] = new
      /\ \A d \in Calls : aoOut'[d] = aoOut[d]
  <2>1. new \in outs
    <3>1. <<>> \in Seq(Nat \X Int)
      BY EmptySeq
    <3>2. new \in [0 .. m - 1 -> Seq(Nat \X Int)]
      BY <3>1
    <3>. QED  BY <3>2
  <2>2. aoOut \in Seq(outs) /\ Len(aoOut) + 1 = c /\ Len(aoOut) = Len(aoM)
    BY <1>1 DEF AoTypeOK
  <2>. HIDE DEF outs, new
  <2>3. aoOut' = Append(aoOut, new)
    BY DEF new
  <2>. QED  BY <2>1, <2>2, <2>3, AppendProperties DEF Calls
<1>10. AoTypeOK'
  <2>1. \A d \in Calls' : DOMAIN aoOut'[d] = 0 .. aoM'[d] - 1
    <3>1. DOMAIN aoOut'[c] = 0 .. aoM'[c] - 1
      BY <1>2, <1>9
    <3>2. ASSUME NEW d \in Calls PROVE DOMAIN aoOut'[d] = 0 .. aoM'[d] - 1
      <4>1. aoOut'[d] = aoOut[d] /\ aoM'[d] = aoM[d] /\ DOMAIN aoOut[d] = 0 .. aoM[d] - 1
        BY <1>1, <1>2, <1>9 DEF AoTypeOK
      <4>. QED  BY <4>1
    <3>. QED  BY <1>2, <3>1, <3>2
  <2>. QED  BY <1>1, <1>2, <1>9, <2>1 DEF AoTypeOK
<1>11. Fired'
  <2>1. \A i : <<c, i>> \notin aoEvents
    BY <1>1, <1>2 DEF Fired
  <2>. QED  BY <1>1, <1>2, <1>4, <1>5, <2>1 DEF Fired
<1>12. Waited'
  <2>1. ASSUME NEW d \in Calls, InSlices(d)
        PROVE  /\ InComm(WaitReady(d))' \/ <<d, Ready>> \in aoEvents'
               /\ \A i \in SliceNos : InMain(Wait(d, i))' \/ <<d, i>> \in aoEvents'
    BY <1>1, <1>4, <1>5, <2>1 DEF Waited
  <2>2. ASSUME InSlices(c)'
        PROVE  InComm(WaitReady(c))' /\ \A i \in SliceNos : InMain(Wait(c, i))'
    BY <1>6, <1>8, <2>2
  <2>. QED  BY <1>2, <2>1, <2>2 DEF Waited
<1>13. Quantised'
  <2>. SUFFICES ASSUME NEW d \in Calls', InSlices(d)', ~InMain(Quant(d))',
                       \A e \in Calls' : e > d /\ InSlices(e)' => InMain(Quant(e))',
                       NEW r \in 0 .. aoM'[d] - 1
                PROVE  aoX8'[r] = d
    BY DEF Quantised
  <2>1. d # c
    BY <1>6, <1>8
  <2>2. d \in Calls
    BY <1>2, <2>1
  <2>. QED  BY <1>1, <1>2, <1>4, <2>2 DEF Quantised
<1>14. Multiplied'
  <2>. SUFFICES ASSUME NEW d \in Calls', NEW i \in SliceNos, InSlices(d)', ~InComm(Gemm(d, i))',
                       \A e \in Calls' : e > d /\ InSlices(e)' => InComm(WaitReady(e))',
                       NEW r \in SliceRows(aoM'[d], i)
                PROVE  aoY'[r] = <<d, r>>
    BY DEF Multiplied
  <2>1. d # c
    BY <1>6
  <2>2. d \in Calls
    BY <1>2, <2>1
  <2>3. InSlices(d) /\ ~InComm(Gemm(d, i)) /\ r \in SliceRows(aoM[d], i)
    BY <1>2, <1>5, <2>2
  <2>4. \A e \in Calls : e > d /\ InSlices(e) => InComm(WaitReady(e))
    BY <1>2, <1>5
  <2>. QED  BY <1>1, <2>2, <2>3, <2>4 DEF Multiplied
<1>15. ReducedSoFar'
  <2>1. ASSUME NEW d \in Calls', InSlices(d)', NEW i \in SliceNos, NEW r \in SliceRows(aoM'[d], i)
        PROVE  aoOut'[d][r] = IF InMain(Reduce(d, i))' THEN <<>> ELSE <<<<d, r>>>>
    <3>1. CASE d = c
      BY <1>2, <1>6, <1>9, <2>1, <3>1, SlicesPart
    <3>2. CASE d # c
      <4>1. d \in Calls /\ InSlices(d) /\ r \in SliceRows(aoM[d], i)
        BY <1>2, <2>1, <3>2
      <4>2. aoOut[d][r] = IF InMain(Reduce(d, i)) THEN <<>> ELSE <<<<d, r>>>>
        BY <1>1, <4>1 DEF ReducedSoFar, OnceIf
      <4>3. InMain(Reduce(d, i))' <=> InMain(Reduce(d, i))
        BY <1>4, <4>1
      <4>4. aoOut'[d] = aoOut[d]
        BY <1>9, <4>1
      <4>. QED  BY <4>2, <4>3, <4>4
    <3>. QED  BY <3>1, <3>2
  <2>2. ASSUME NEW d \in Calls', ~InSlices(d)', NEW r \in 0 .. aoM'[d] - 1
        PROVE  aoOut'[d][r] = IF InMain(PlainOp(d))' THEN <<>> ELSE <<<<d, r>>>>
    <3>1. CASE d = c
      BY <1>2, <1>7, <1>9, <2>2, <3>1
    <3>2. CASE d # c
      <4>1. d \in Calls /\ ~InSlices(d) /\ r \in 0 .. aoM[d] - 1
        BY <1>2, <2>2, <3>2
      <4>2. aoOut[d][r] = IF InMain(PlainOp(d)) THEN <<>> ELSE <<<<d, r>>>>
        BY <1>1, <4>1 DEF ReducedSoFar, OnceIf
      <4>3. InMain(PlainOp(d))' <=> InMain(PlainOp(d))
        BY <1>4, <4>1
      <4>4. aoOut'[d] = aoOut[d]
        BY <1>9, <4>1
      <4>. QED  BY <4>2, <4>3, <4>4
    <3>. QED  BY <3>1, <3>2
  <2>. QED  BY <2>1, <2>2 DEF ReducedSoFar, OnceIf
<1>. QED  BY <1>10, <1>11, <1>12, <1>13, <1>14, <1>15 DEF AoInv

LEMMA PlainKeeps ==
    ASSUME AoInv, NEW m \in AoRows, m < AoMinM, EnqueuePlain(m)
    PROVE  AoInv'
<1>. DEFINE n == Len(aoM) + 1
<1>1. PICK c : c = n
  OBVIOUS
<1>. DEFINE P == <<Do("plain", c, 0, 0 .. m - 1)>>
<1>2. AoTypeOK /\ m \in Nat \ {0} /\ AoMinM \in Nat
  BY AllRowsFacts, AoAssumption DEF AoInv
<1>3. /\ aoM' = Append(aoM, m) /\ aoMain' = Append(aoMain, Do("plain", c, 0, 0 .. m - 1))
      /\ aoOut' = Append(aoOut, [r \in 0 .. m - 1 |-> <<>>])
      /\ UNCHANGED <<aoComm, aoEvents, aoX8, aoY>>
  BY <1>1 DEF EnqueuePlain
<1>4. c \in Nat /\ Calls' = Calls \cup {c} /\ aoM'[c] = m
  BY <1>1, <1>2, <1>3, CallAdded
<1>5. /\ Do("plain", c, 0, 0 .. m - 1) \in AoOps /\ P \in Seq(AoOps) /\ Len(P) = 1
      /\ P[1] = Do("plain", c, 0, 0 .. m - 1)
  BY <1>4 DEF Do, AoOps
<1>6. aoMain' = aoMain \o P
  BY <1>2, <1>3, <1>5, AppendIsConcat DEF AoTypeOK
<1>7. ~InSlices(c)' /\ PlainOp(c)' = Do("plain", c, 0, 0 .. m - 1)
  BY <1>2, <1>4 DEF InSlices, PlainOp
<1>8. MainOf(c)' = {P[1]} /\ CommOf(c)' = {}
  BY <1>5, <1>7 DEF MainOf, CommOf
<1>9. PICK M : M = MainOf(c)'
  OBVIOUS
<1>10. PICK K : K = CommOf(c)'
  OBVIOUS
<1>11. MainStep(P[1]) = 0
  BY <1>5 DEF MainStep, Do
<1>. HIDE DEF P
<1>12. /\ \A k \in 1 .. Len(P) : P[k] \in M /\ MainStep(P[k]) = k - 1
       /\ \A o \in M : \E k \in 1 .. Len(P) : P[k] = o
  BY <1>5, <1>8, <1>9, <1>11
<1>13. /\ aoMain' \in Seq(AoOps) /\ MainQueue'
       /\ \A o : (\E k \in 1 .. Len(aoMain') : aoMain'[k] = o) <=> InMain(o) \/ o \in M
  <2>1. PICK R : R = P
    OBVIOUS
  <2>2. c = Len(aoM) + 1 /\ aoM' = Append(aoM, m) /\ R \in Seq(AoOps) /\ aoMain' = aoMain \o R
    BY <1>1, <1>3, <1>5, <1>6, <2>1
  <2>3. MainFilled(R, M)
    BY <1>12, <2>1 DEF MainFilled
  <2>. QED  BY <1>9, <2>2, <2>3, MainAdded
<1>14. aoComm' = aoComm \o <<>> /\ <<>> \in Seq(AoOps) /\ Len(<<>>) = 0
  BY <1>2, <1>3, EmptySeq, ConcatEmptySeq DEF AoTypeOK
<1>15. /\ aoComm' \in Seq(AoOps) /\ CommQueue'
       /\ \A o : (\E k \in 1 .. Len(aoComm') : aoComm'[k] = o) <=> InComm(o) \/ o \in K
  <2>1. PICK Q : Q = <<>>
    OBVIOUS
  <2>2. Q \in Seq(AoOps) /\ Len(Q) = 0 /\ aoComm' = aoComm \o Q /\ K = {}
    BY <1>8, <1>10, <1>14, <2>1
  <2>3. CommFilled(Q, K)
    BY <2>2 DEF CommFilled
  <2>. QED  BY <1>1, <1>3, <1>10, <2>2, <2>3, CommAdded
<1>. QED  BY <1>1, <1>3, <1>9, <1>10, <1>13, <1>15, AddKeeps

\* Two sequences in turn.
LEMMA FlatElements ==
    ASSUME NEW s, NEW t
    PROVE  /\ Len(Flat(s, t)) = 2 * AoSlices
           /\ \A i \in SliceNos : /\ 2 * i + 1 \in 1 .. 2 * AoSlices /\ 2 * i + 2 \in 1 .. 2 * AoSlices
                                  /\ Flat(s, t)[2 * i + 1] = s[i + 1] /\ Flat(s, t)[2 * i + 2] = t[i + 1]
           /\ \A k \in 1 .. 2 * AoSlices : \E i \in SliceNos : k = 2 * i + 1 \/ k = 2 * i + 2
           /\ Flat(s, t) = [k \in 1 .. 2 * AoSlices |-> Flat(s, t)[k]]
<1>1. AoSlices \in Nat \ {0}
  BY AoAssumption
<1>2. Flat(s, t) = [k \in 1 .. 2 * AoSlices |-> Flat(s, t)[k]] /\ Len(Flat(s, t)) = 2 * AoSlices
  BY <1>1 DEF Flat
<1>3. ASSUME NEW i \in SliceNos
      PROVE  /\ 2 * i + 1 \in 1 .. 2 * AoSlices /\ 2 * i + 2 \in 1 .. 2 * AoSlices
             /\ Flat(s, t)[2 * i + 1] = s[i + 1] /\ Flat(s, t)[2 * i + 2] = t[i + 1]
  <2>1. /\ 2 * i + 1 \in 1 .. 2 * AoSlices /\ 2 * i + 2 \in 1 .. 2 * AoSlices
        /\ (2 * i + 1) % 2 = 1 /\ (2 * i + 2) % 2 # 1
        /\ (2 * i + 1 + 1) \div 2 = i + 1 /\ (2 * i + 2) \div 2 = i + 1
    BY <1>1 DEF SliceNos
  <2>. QED  BY <2>1 DEF Flat
<1>4. ASSUME NEW k \in 1 .. 2 * AoSlices
      PROVE  \E i \in SliceNos : k = 2 * i + 1 \/ k = 2 * i + 2
  <2>. DEFINE i == (k - 1) \div 2
  <2>1. i \in Nat /\ i < AoSlices /\ (k = 2 * i + 1 \/ k = 2 * i + 2)
    BY <1>1
  <2>2. i \in SliceNos
    BY <1>1, <2>1 DEF SliceNos
  <2>. QED  BY <2>1, <2>2
<1>. QED  BY <1>2, <1>3, <1>4

LEMMA SlicedKeeps ==
    ASSUME AoInv, NEW m \in AoRows, ~(m < AoMinM), EnqueueSliced(m)
    PROVE  AoInv'
<1>. DEFINE n == Len(aoM) + 1
<1>1. PICK c : c = n
  OBVIOUS
<1>2. AoTypeOK /\ m \in Nat \ {0} /\ AoMinM \in Nat /\ AoSlices \in Nat \ {0}
  BY AllRowsFacts, AoAssumption DEF AoInv
<1>. DEFINE quant == Do("quant", c, 0, 0 .. m - 1)
            mark == Do("record", c, Ready, {})
            waitReady == Do("wait", c, Ready, {})
            wait(i) == Do("wait", c, i, {})
            reduce(i) == Do("reduce", c, i, SliceRows(m, i))
            gemm(i) == Do("gemm", c, i, SliceRows(m, i))
            signal(i) == Do("record", c, i, {})
            pairs == Flat([i \in 1 .. AoSlices |-> wait(i - 1)], [i \in 1 .. AoSlices |-> reduce(i - 1)])
            works == Flat([i \in 1 .. AoSlices |-> gemm(i - 1)], [i \in 1 .. AoSlices |-> signal(i - 1)])
            P == <<quant, mark>> \o pairs
            Q == <<waitReady>> \o works
<1>3. /\ aoM' = Append(aoM, m) /\ aoMain' = aoMain \o <<quant, mark>> \o pairs
      /\ aoComm' = aoComm \o <<waitReady>> \o works
      /\ aoOut' = Append(aoOut, [r \in 0 .. m - 1 |-> <<>>])
      /\ UNCHANGED <<aoEvents, aoX8, aoY>>
  BY <1>1 DEF EnqueueSliced, Steps, MainWaits, ReadyWait
<1>4. c \in Nat /\ Calls' = Calls \cup {c} /\ aoM'[c] = m
  BY <1>1, <1>2, <1>3, CallAdded
<1>5. /\ quant \in AoOps /\ mark \in AoOps /\ waitReady \in AoOps
      /\ \A i \in SliceNos : /\ wait(i) \in AoOps /\ reduce(i) \in AoOps
                             /\ gemm(i) \in AoOps /\ signal(i) \in AoOps
  <2>1. SliceNos \subseteq Int /\ Ready \in Int /\ 0 .. m - 1 \subseteq Int
    BY <1>2 DEF SliceNos, Ready
  <2>2. \A i \in SliceNos : SliceRows(m, i) \subseteq Int
    BY <1>2, SlicesPart
  <2>. QED  BY <1>4, <2>1, <2>2 DEF Do, AoOps
<1>. HIDE DEF quant, mark, waitReady, wait, reduce, gemm, signal
<1>6. /\ Len(pairs) = 2 * AoSlices /\ pairs \in Seq(AoOps)
      /\ \A i \in SliceNos : pairs[2 * i + 1] = wait(i) /\ pairs[2 * i + 2] = reduce(i)
  <2>1. /\ Len(pairs) = 2 * AoSlices
        /\ \A i \in SliceNos : 2 * i + 1 \in 1 .. 2 * AoSlices /\ 2 * i + 2 \in 1 .. 2 * AoSlices
        /\ \A k \in 1 .. 2 * AoSlices : \E i \in SliceNos : k = 2 * i + 1 \/ k = 2 * i + 2
        /\ pairs = [k \in 1 .. 2 * AoSlices |-> pairs[k]]
    BY FlatElements
  <2>2. ASSUME NEW i \in SliceNos PROVE pairs[2 * i + 1] = wait(i) /\ pairs[2 * i + 2] = reduce(i)
    <3>1. i + 1 \in 1 .. AoSlices /\ (i + 1) - 1 = i
      BY <1>2 DEF SliceNos
    <3>. DEFINE s == [j \in 1 .. AoSlices |-> wait(j - 1)]
                t == [j \in 1 .. AoSlices |-> reduce(j - 1)]
    <3>2. s[i + 1] = wait(i) /\ t[i + 1] = reduce(i) /\ pairs = Flat(s, t)
      BY <3>1
    <3>. HIDE DEF s, t, pairs
    <3>3. Flat(s, t)[2 * i + 1] = s[i + 1] /\ Flat(s, t)[2 * i + 2] = t[i + 1]
      BY FlatElements
    <3>. QED  BY <3>2, <3>3
  <2>. HIDE DEF pairs
  <2>3. \A k \in 1 .. 2 * AoSlices : pairs[k] \in AoOps
    BY <1>5, <2>1, <2>2
  <2>4. pairs \in [1 .. 2 * AoSlices -> AoOps] /\ 2 * AoSlices \in Nat
    BY <1>2, <2>1, <2>3
  <2>. QED  BY <2>1, <2>2, <2>4, SeqDef
<1>7. /\ Len(works) = 2 * AoSlices /\ works \in Seq(AoOps)
      /\ \A i \in SliceNos : works[2 * i + 1] = gemm(i) /\ works[2 * i + 2] = signal(i)
  <2>1. /\ Len(works) = 2 * AoSlices
        /\ \A i \in SliceNos : 2 * i + 1 \in 1 .. 2 * AoSlices /\ 2 * i + 2 \in 1 .. 2 * AoSlices
        /\ \A k \in 1 .. 2 * AoSlices : \E i \in SliceNos : k = 2 * i + 1 \/ k = 2 * i + 2
        /\ works = [k \in 1 .. 2 * AoSlices |-> works[k]]
    BY FlatElements
  <2>2. ASSUME NEW i \in SliceNos PROVE works[2 * i + 1] = gemm(i) /\ works[2 * i + 2] = signal(i)
    <3>1. i + 1 \in 1 .. AoSlices /\ (i + 1) - 1 = i
      BY <1>2 DEF SliceNos
    <3>. DEFINE s == [j \in 1 .. AoSlices |-> gemm(j - 1)]
                t == [j \in 1 .. AoSlices |-> signal(j - 1)]
    <3>2. s[i + 1] = gemm(i) /\ t[i + 1] = signal(i) /\ works = Flat(s, t)
      BY <3>1
    <3>. HIDE DEF s, t, works
    <3>3. Flat(s, t)[2 * i + 1] = s[i + 1] /\ Flat(s, t)[2 * i + 2] = t[i + 1]
      BY FlatElements
    <3>. QED  BY <3>2, <3>3
  <2>. HIDE DEF works
  <2>3. \A k \in 1 .. 2 * AoSlices : works[k] \in AoOps
    BY <1>5, <2>1, <2>2
  <2>4. works \in [1 .. 2 * AoSlices -> AoOps] /\ 2 * AoSlices \in Nat
    BY <1>2, <2>1, <2>3
  <2>. QED  BY <2>1, <2>2, <2>4, SeqDef
<1>8. \A k \in 1 .. 2 * AoSlices : \E i \in SliceNos : k = 2 * i + 1 \/ k = 2 * i + 2
  BY FlatElements
<1>. HIDE DEF pairs, works
<1>9. /\ P \in Seq(AoOps) /\ Len(P) = 2 + 2 * AoSlices /\ P[1] = quant /\ P[2] = mark
      /\ \A i \in SliceNos : P[2 * i + 3] = wait(i) /\ P[2 * i + 4] = reduce(i)
      /\ aoMain' = aoMain \o P
  <2>1. <<quant, mark>> \in Seq(AoOps) /\ Len(<<quant, mark>>) = 2
    BY <1>5
  <2>2. /\ P \in Seq(AoOps) /\ Len(P) = 2 + 2 * AoSlices
        /\ \A k \in 1 .. 2 + 2 * AoSlices : P[k] = IF k <= 2 THEN <<quant, mark>>[k] ELSE pairs[k - 2]
    BY <1>6, <2>1, ConcatProperties
  <2>3. aoMain' = aoMain \o P
    <3>1. aoMain \in Seq(AoOps)
      BY <1>2 DEF AoTypeOK
    <3>2. aoMain \o <<quant, mark>> \o pairs = aoMain \o (<<quant, mark>> \o pairs)
      BY <1>6, <2>1, <3>1, ConcatAssociative
    <3>. QED  BY <1>3, <3>2
  <2>4. P[1] = quant /\ P[2] = mark
    BY <1>2, <2>2
  <2>5. ASSUME NEW i \in SliceNos PROVE P[2 * i + 3] = wait(i) /\ P[2 * i + 4] = reduce(i)
    <3>1. /\ 2 * i + 3 \in 1 .. 2 + 2 * AoSlices /\ 2 * i + 4 \in 1 .. 2 + 2 * AoSlices
          /\ ~(2 * i + 3 <= 2) /\ ~(2 * i + 4 <= 2)
          /\ 2 * i + 3 - 2 = 2 * i + 1 /\ 2 * i + 4 - 2 = 2 * i + 2
      BY <1>2 DEF SliceNos
    <3>. HIDE DEF P
    <3>2. \A k \in 1 .. 2 + 2 * AoSlices : ~(k <= 2) => P[k] = pairs[k - 2]
      BY <2>2
    <3>3. PICK a \in 1 .. 2 + 2 * AoSlices, b \in 1 .. 2 + 2 * AoSlices : a = 2 * i + 3 /\ b = 2 * i + 4
      BY <3>1
    <3>4. P[a] = pairs[a - 2] /\ P[b] = pairs[b - 2]
      BY <3>1, <3>2, <3>3
    <3>5. a - 2 = 2 * i + 1 /\ b - 2 = 2 * i + 2
      BY <1>2, <3>3 DEF SliceNos
    <3>. QED  BY <1>6, <3>3, <3>4, <3>5
  <2>. QED  BY <2>2, <2>3, <2>4, <2>5
<1>10. /\ Q \in Seq(AoOps) /\ Len(Q) = 1 + 2 * AoSlices /\ Q[1] = waitReady
       /\ \A i \in SliceNos : Q[2 * i + 2] = gemm(i) /\ Q[2 * i + 3] = signal(i)
       /\ aoComm' = aoComm \o Q
  <2>1. <<waitReady>> \in Seq(AoOps) /\ Len(<<waitReady>>) = 1
    BY <1>5
  <2>2. /\ Q \in Seq(AoOps) /\ Len(Q) = 1 + 2 * AoSlices
        /\ \A k \in 1 .. 1 + 2 * AoSlices : Q[k] = IF k <= 1 THEN <<waitReady>>[k] ELSE works[k - 1]
    BY <1>7, <2>1, ConcatProperties
  <2>3. aoComm' = aoComm \o Q
    <3>1. aoComm \in Seq(AoOps)
      BY <1>2 DEF AoTypeOK
    <3>2. aoComm \o <<waitReady>> \o works = aoComm \o (<<waitReady>> \o works)
      BY <1>7, <2>1, <3>1, ConcatAssociative
    <3>. QED  BY <1>3, <3>2
  <2>4. Q[1] = waitReady
    BY <1>2, <2>2
  <2>5. ASSUME NEW i \in SliceNos PROVE Q[2 * i + 2] = gemm(i) /\ Q[2 * i + 3] = signal(i)
    <3>1. /\ 2 * i + 2 \in 1 .. 1 + 2 * AoSlices /\ 2 * i + 3 \in 1 .. 1 + 2 * AoSlices
          /\ ~(2 * i + 2 <= 1) /\ ~(2 * i + 3 <= 1)
          /\ 2 * i + 2 - 1 = 2 * i + 1 /\ 2 * i + 3 - 1 = 2 * i + 2
      BY <1>2 DEF SliceNos
    <3>. HIDE DEF Q
    <3>2. \A k \in 1 .. 1 + 2 * AoSlices : ~(k <= 1) => Q[k] = works[k - 1]
      BY <2>2
    <3>3. PICK a \in 1 .. 1 + 2 * AoSlices, b \in 1 .. 1 + 2 * AoSlices : a = 2 * i + 2 /\ b = 2 * i + 3
      BY <3>1
    <3>4. Q[a] = works[a - 1] /\ Q[b] = works[b - 1]
      BY <3>1, <3>2, <3>3
    <3>5. a - 1 = 2 * i + 1 /\ b - 1 = 2 * i + 2
      BY <1>2, <3>3 DEF SliceNos
    <3>. QED  BY <1>7, <3>3, <3>4, <3>5
  <2>. QED  BY <2>2, <2>3, <2>4, <2>5
<1>. HIDE DEF P, Q
<1>11. PICK M : M = MainOf(c)'
  OBVIOUS
<1>12. PICK K : K = CommOf(c)'
  OBVIOUS
<1>13. /\ M = {quant, mark} \cup {wait(i) : i \in SliceNos} \cup {reduce(i) : i \in SliceNos}
       /\ K = {waitReady} \cup {gemm(i) : i \in SliceNos} \cup {signal(i) : i \in SliceNos}
  <2>1. InSlices(c)'
    BY <1>2, <1>4 DEF InSlices
  <2>2. Quant(c)' = quant /\ Mark(c)' = mark /\ WaitReady(c)' = waitReady
    BY <1>4 DEF Quant, Mark, WaitReady, quant, mark, waitReady
  <2>3. \A i : /\ Wait(c, i)' = wait(i) /\ Reduce(c, i)' = reduce(i)
               /\ Gemm(c, i)' = gemm(i) /\ Signal(c, i)' = signal(i)
    BY <1>4 DEF Wait, Reduce, Gemm, Signal, wait, reduce, gemm, signal
  <2>. QED  BY <1>11, <1>12, <2>1, <2>2, <2>3 DEF MainOf, CommOf
<1>14. /\ MainStep(quant) = 0 /\ MainStep(mark) = 1 /\ CommStep(waitReady) = 0
       /\ \A i : /\ MainStep(wait(i)) = 2 + 2 * i /\ MainStep(reduce(i)) = 3 + 2 * i
                 /\ CommStep(gemm(i)) = 1 + 2 * i /\ CommStep(signal(i)) = 2 + 2 * i
  BY DEF MainStep, CommStep, Do, quant, mark, waitReady, wait, reduce, gemm, signal
<1>15. /\ \A k \in 1 .. Len(P) : P[k] \in M /\ MainStep(P[k]) = k - 1
       /\ \A o \in M : \E k \in 1 .. Len(P) : P[k] = o
  <2>1. ASSUME NEW k \in 1 .. Len(P) PROVE P[k] \in M /\ MainStep(P[k]) = k - 1
    <3>1. CASE k = 1
      BY <1>9, <1>13, <1>14, <3>1
    <3>2. CASE k = 2
      BY <1>9, <1>13, <1>14, <3>2
    <3>3. CASE k > 2
      <4>1. k - 2 \in 1 .. 2 * AoSlices
        BY <1>2, <1>9, <3>3
      <4>2. PICK i \in SliceNos : k = 2 * i + 3 \/ k = 2 * i + 4
        <5>1. PICK i \in SliceNos : k - 2 = 2 * i + 1 \/ k - 2 = 2 * i + 2
          BY <1>8, <4>1
        <5>2. i \in Nat
          BY DEF SliceNos
        <5>. QED  BY <4>1, <5>1, <5>2
      <4>3. i \in Nat
        BY DEF SliceNos
      <4>4. CASE k = 2 * i + 3
        BY <1>9, <1>13, <1>14, <4>3, <4>4
      <4>5. CASE k = 2 * i + 4
        BY <1>9, <1>13, <1>14, <4>3, <4>5
      <4>. QED  BY <4>2, <4>4, <4>5
    <3>. QED  BY <1>2, <1>9, <3>1, <3>2, <3>3
  <2>2. 1 \in 1 .. Len(P) /\ 2 \in 1 .. Len(P)
    BY <1>2, <1>9
  <2>3. \A i \in SliceNos : 2 * i + 3 \in 1 .. Len(P) /\ 2 * i + 4 \in 1 .. Len(P)
    BY <1>2, <1>9 DEF SliceNos
  <2>. QED  BY <1>9, <1>13, <2>1, <2>2, <2>3
<1>16. /\ \A k \in 1 .. Len(Q) : Q[k] \in K /\ CommStep(Q[k]) = k - 1
       /\ \A o \in K : \E k \in 1 .. Len(Q) : Q[k] = o
  <2>1. ASSUME NEW k \in 1 .. Len(Q) PROVE Q[k] \in K /\ CommStep(Q[k]) = k - 1
    <3>1. CASE k = 1
      BY <1>10, <1>13, <1>14, <3>1
    <3>2. CASE k > 1
      <4>1. k - 1 \in 1 .. 2 * AoSlices
        BY <1>2, <1>10, <3>2
      <4>2. PICK i \in SliceNos : k = 2 * i + 2 \/ k = 2 * i + 3
        <5>1. PICK i \in SliceNos : k - 1 = 2 * i + 1 \/ k - 1 = 2 * i + 2
          BY <1>8, <4>1
        <5>2. i \in Nat
          BY DEF SliceNos
        <5>. QED  BY <4>1, <5>1, <5>2
      <4>3. i \in Nat
        BY DEF SliceNos
      <4>4. CASE k = 2 * i + 2
        BY <1>10, <1>13, <1>14, <4>3, <4>4
      <4>5. CASE k = 2 * i + 3
        BY <1>10, <1>13, <1>14, <4>3, <4>5
      <4>. QED  BY <4>2, <4>4, <4>5
    <3>. QED  BY <1>2, <1>10, <3>1, <3>2
  <2>2. 1 \in 1 .. Len(Q)
    BY <1>2, <1>10
  <2>3. \A i \in SliceNos : 2 * i + 2 \in 1 .. Len(Q) /\ 2 * i + 3 \in 1 .. Len(Q)
    BY <1>2, <1>10 DEF SliceNos
  <2>. QED  BY <1>10, <1>13, <2>1, <2>2, <2>3
<1>17. c = Len(aoM) + 1 /\ aoM' = Append(aoM, m)
  BY <1>1, <1>3
<1>18. /\ aoMain' \in Seq(AoOps) /\ MainQueue'
       /\ \A o : (\E k \in 1 .. Len(aoMain') : aoMain'[k] = o) <=> InMain(o) \/ o \in M
  <2>1. PICK R : R = P
    OBVIOUS
  <2>2. R \in Seq(AoOps) /\ aoMain' = aoMain \o R
    BY <1>9, <2>1
  <2>3. MainFilled(R, M)
    BY <1>15, <2>1 DEF MainFilled
  <2>. QED  BY <1>11, <1>17, <2>2, <2>3, MainAdded
<1>19. /\ aoComm' \in Seq(AoOps) /\ CommQueue'
       /\ \A o : (\E k \in 1 .. Len(aoComm') : aoComm'[k] = o) <=> InComm(o) \/ o \in K
  <2>1. PICK R : R = Q
    OBVIOUS
  <2>2. R \in Seq(AoOps) /\ aoComm' = aoComm \o R
    BY <1>10, <2>1
  <2>3. CommFilled(R, K)
    BY <1>16, <2>1 DEF CommFilled
  <2>. QED  BY <1>12, <1>17, <2>2, <2>3, CommAdded
<1>. QED  BY <1>3, <1>11, <1>12, <1>17, <1>18, <1>19, AddKeeps

LEMMA AoInitOK == AoInit => AoInv
<1>. SUFFICES ASSUME AoInit PROVE AoInv
  OBVIOUS
<1>. USE DEF AoInit
<1>1. Len(aoM) = 0 /\ Len(aoMain) = 0 /\ Len(aoComm) = 0 /\ Calls = {}
  BY DEF Calls
<1>2. AoTypeOK
  <2>1. aoX8 \in [AllRows -> Nat] /\ aoY \in [AllRows -> Nat \X Int]
    OBVIOUS
  <2>. QED  BY <1>1, <2>1, EmptySeq DEF AoTypeOK
<1>. QED  BY <1>1, <1>2 DEF AoInv, MainQueue, CommQueue, Fired, Waited, Quantised, Multiplied,
              ReducedSoFar

LEMMA AoInvariant == AoSpec => []AoInv
<1>1. AoInv /\ [AoNext]_aoVars => AoInv'
  <2>. SUFFICES ASSUME AoInv, [AoNext]_aoVars PROVE AoInv'
    OBVIOUS
  <2>1. CASE Enqueue
    BY <2>1, PlainKeeps, SlicedKeeps DEF Enqueue
  <2>2. CASE RunMain
    BY <2>2, MainRuns
  <2>3. CASE RunComm
    BY <2>3, CommRuns
  <2>4. CASE UNCHANGED aoVars
    <3>1. /\ aoM' = aoM /\ aoMain' = aoMain /\ aoComm' = aoComm /\ aoEvents' = aoEvents
          /\ aoX8' = aoX8 /\ aoY' = aoY /\ aoOut' = aoOut
      BY <2>4 DEF aoVars
    <3>2. Calls' = Calls /\ \A c : InSlices(c)' = InSlices(c)
      BY <3>1 DEF Calls, InSlices
    <3>3. \A o : InMain(o)' <=> InMain(o)
      BY <3>1 DEF InMain
    <3>4. \A o : InComm(o)' <=> InComm(o)
      BY <3>1 DEF InComm
    <3>5. \A c : MainOf(c)' = MainOf(c) /\ CommOf(c)' = CommOf(c)
      BY <3>1 DEF MainOf, CommOf, InSlices, Quant, Mark, WaitReady, Wait, Reduce, Gemm, Signal, PlainOp
    <3>6. AoTypeOK'
      BY <3>1, <3>2 DEF AoInv, AoTypeOK
    <3>7. MainQueue' /\ CommQueue'
      BY <3>1, <3>2, <3>3, <3>4, <3>5 DEF AoInv, MainQueue, CommQueue
    <3>8. Fired' /\ Waited'
      BY <3>1, <3>2, <3>3, <3>4 DEF AoInv, Fired, Waited, Mark, Signal, Wait, WaitReady
    <3>9. Quantised' /\ Multiplied'
      BY <3>1, <3>2, <3>3, <3>4 DEF AoInv, Quantised, Multiplied, Quant, Gemm, WaitReady
    <3>10. ReducedSoFar'
      BY <3>1, <3>2, <3>3 DEF AoInv, ReducedSoFar, OnceIf, Reduce, PlainOp
    <3>. QED  BY <3>6, <3>7, <3>8, <3>9, <3>10 DEF AoInv
  <2>. QED  BY <2>1, <2>2, <2>3, <2>4 DEF AoNext
<1>. QED  BY <1>1, AoInitOK, PTL DEF AoSpec

LEMMA OnceFromInv == AoInv => OwnRowsOnce
<1>. SUFFICES ASSUME AoInv, NEW c \in Calls
              PROVE  /\ \A r \in DOMAIN aoOut[c] : aoOut[c][r] \in {<<>>, <<<<c, r>>>>}
                     /\ (\A i \in 1 .. Len(aoMain) : aoMain[i].call # c) =>
                            \A r \in DOMAIN aoOut[c] : aoOut[c][r] = <<<<c, r>>>>
  BY DEF OwnRowsOnce, Calls
<1>1. /\ AoTypeOK /\ ReducedSoFar /\ DOMAIN aoOut[c] = 0 .. aoM[c] - 1 /\ aoM[c] \in AoRows
  BY DEF AoInv, AoTypeOK, Calls
<1>2. ASSUME NEW r \in DOMAIN aoOut[c]
      PROVE  /\ aoOut[c][r] \in {<<>>, <<<<c, r>>>>}
             /\ (\A i \in 1 .. Len(aoMain) : aoMain[i].call # c) => aoOut[c][r] = <<<<c, r>>>>
  <2>1. CASE InSlices(c)
    <3>1. PICK i \in SliceNos : r \in SliceRows(aoM[c], i)
      BY <1>1, SlicesPart
    <3>2. aoOut[c][r] = IF InMain(Reduce(c, i)) THEN <<>> ELSE <<<<c, r>>>>
      BY <1>1, <2>1, <3>1 DEF ReducedSoFar, OnceIf
    <3>3. (\A k \in 1 .. Len(aoMain) : aoMain[k].call # c) => ~InMain(Reduce(c, i))
      BY DEF InMain, Reduce, Do
    <3>. QED  BY <3>2, <3>3
  <2>2. CASE ~InSlices(c)
    <3>1. aoOut[c][r] = IF InMain(PlainOp(c)) THEN <<>> ELSE <<<<c, r>>>>
      BY <1>1, <2>2 DEF ReducedSoFar, OnceIf
    <3>2. (\A k \in 1 .. Len(aoMain) : aoMain[k].call # c) => ~InMain(PlainOp(c))
      BY DEF InMain, PlainOp, Do
    <3>. QED  BY <3>1, <3>2
  <2>. QED  BY <2>1, <2>2
<1>. QED  BY <1>2

\* For any rows, slices and calls, however the two streams advance and in whatever order
\* the communication stream is caught up, every row of a call's output is that call's
\* own reduced row: no slice lands in another call's buffer or is read before its event.
THEOREM OverlapSafe == AoSpec => []OwnRowsOnce
BY AoInvariant, OnceFromInv, PTL

-----------------------------------------------------------------------------
(* Fp8Stream: a sum left partial is finished once                          *)

FsFlags ==
    [{"merged", "rowReduces", "downReduces", "rowOverlap", "downOverlap", "fp8In", "fp8Mid",
      "act", "gnq"} -> BOOLEAN]

FsTypeOK ==
    /\ fsPhase \in {"load", "overlap", "merge", "install", "forward", "done"}
    /\ fsPhase # "load" => fsKnobs \in FsSwitches /\ fsModel \in [Layers -> FsLayers]
    /\ fsFlags \in [Layers -> FsFlags]
    /\ fsAt \in 1 .. FsDepth + 1

RowDone(i) == fsFlags[i].rowOverlap \/ fsFlags[i].rowReduces
DownDone(i) == fsFlags[i].downOverlap \/ fsFlags[i].downReduces

\* A sum is left to an epilogue exactly if its own linear does not finish it.
OneReducer ==
    /\ \A i \in Layers :
          /\ fsFlags[i].fp8Mid <=> ~RowDone(i)
          /\ i < FsDepth => (fsFlags[i + 1].fp8In <=> ~DownDone(i))
          /\ ~(fsFlags[i].rowOverlap /\ fsFlags[i].rowReduces)
          /\ ~(fsFlags[i].downOverlap /\ fsFlags[i].downReduces)
    /\ ~fsFlags[1].fp8In /\ DownDone(FsDepth)

\* The installers have not yet been at the layers from fsAt on.
NotYetInstalled ==
    /\ fsPhase \in {"load", "overlap", "merge"} => fsAt = 1
    /\ fsPhase \in {"load", "overlap", "merge", "install"} =>
          /\ fsHidden = "whole" /\ fsFault = "none"
          /\ \A i \in fsAt .. FsDepth : RowDone(i) /\ DownDone(i)
    /\ fsPhase = "install" => \A i \in Layers : fsModel[i].special = "scale" => ~fsFlags[i].fp8In

\* What the next layer is handed is what the layer before made of its sum.
HandedOn ==
    /\ fsPhase = "forward" =>
          fsHidden = IF fsAt = 1 THEN "whole" ELSE IF DownDone(fsAt - 1) THEN "whole" ELSE "partial"
    /\ fsFault \in {"none", "pair"}

FsInv == FsTypeOK /\ OneReducer /\ NotYetInstalled /\ HandedOn

\* The epilogues of layer i that hand on a pair, from the model and the switches.
ActSite(i) == Streaming /\ fsModel[i].special = "plain" /\ Ours(fsModel[i].down)
GnqSite(i) ==
    /\ Streaming /\ fsModel[i].special = "plain" /\ fsKnobs.gnq
    /\ fsModel[i].kind = "linear" /\ Ours(fsModel[i].out)
MidSite(i) ==
    /\ Streaming /\ fsModel[i].special = "plain" /\ Fusable(fsModel[i])
    /\ Ours(fsModel[i].out) /\ ~Overlapped(fsModel[i].out)
InSite(i) ==
    /\ Streaming /\ fsModel[i].special = "plain" /\ Fusable(fsModel[i]) /\ i > 1
    /\ fsModel[i - 1].special = "plain"
    /\ Ours(fsModel[i - 1].down) /\ ~Overlapped(fsModel[i - 1].down)

\* The installer's flags are those sites, as far as it has come.
OpenTo(n) ==
    \A i \in Layers : /\ fsFlags[i].act <=> i < n /\ ActSite(i)
                      /\ fsFlags[i].gnq <=> i < n /\ GnqSite(i)
                      /\ fsFlags[i].fp8Mid <=> i < n /\ MidSite(i)
                      /\ fsFlags[i].fp8In <=> i <= n /\ InSite(i)

AsOverlapped ==
    \A i \in Layers : /\ fsFlags[i].rowOverlap <=> Overlapped(fsModel[i].out)
                      /\ fsFlags[i].downOverlap <=> Overlapped(fsModel[i].down)

AsMerged ==
    \A i \in Layers : fsFlags[i].merged <=> /\ fsKnobs.merge /\ fsModel[i].kind = "linear"
                                           /\ fsModel[i].in \in {"row", "bf16"}

Bare ==
    \A i \in Layers : /\ ~fsFlags[i].act /\ ~fsFlags[i].gnq
                      /\ ~fsFlags[i].fp8Mid /\ ~fsFlags[i].fp8In

SitesOpen ==
    /\ fsPhase \in {"load", "overlap", "merge"} => Bare
    /\ fsPhase \notin {"load", "overlap"} => AsOverlapped
    /\ fsPhase \in {"install", "forward", "done"} => AsMerged
    /\ fsPhase = "install" => Streaming /\ OpenTo(fsAt)
    /\ fsPhase \in {"forward", "done"} => OpenTo(FsDepth + 1)
    /\ PairsServed

LEMMA LayersFacts ==
    /\ FsDepth \in Nat \ {0} /\ 1 \in Layers /\ FsDepth \in Layers
    /\ \A i \in Layers : i \in Nat \ {0} /\ i <= FsDepth /\ (i < FsDepth => i + 1 \in Layers)
                         /\ (i # 1 => i - 1 \in Layers)
    /\ \A i \in Nat : 1 <= i /\ i <= FsDepth => i \in Layers
BY FsAssumption DEF Layers

\* What one turn of the installer leaves of the flags.
LEMMA LayerInstalled ==
    ASSUME FsInv, InstallLayer
    PROVE  /\ fsPhase = "install" /\ fsAt \in Layers /\ fsModel[fsAt].special = "plain"
           /\ fsAt' = fsAt + 1 /\ UNCHANGED <<fsPhase, fsKnobs, fsModel, fsHidden, fsFault>>
           /\ fsFlags' \in [Layers -> FsFlags]
           /\ \A j \in Layers \ {fsAt} :
                 fsFlags'[j] = IF j = fsAt + 1 /\ DownOk(fsAt) THEN [fsFlags[j] EXCEPT !.fp8In = TRUE]
                               ELSE fsFlags[j]
           /\ fsFlags'[fsAt].merged = fsFlags[fsAt].merged
           /\ fsFlags'[fsAt].fp8In = fsFlags[fsAt].fp8In
           /\ fsFlags'[fsAt].rowOverlap = fsFlags[fsAt].rowOverlap
           /\ fsFlags'[fsAt].downOverlap = fsFlags[fsAt].downOverlap
           /\ fsFlags'[fsAt].fp8Mid <=> MidOk(fsAt)
           /\ fsFlags'[fsAt].rowReduces <=> fsFlags[fsAt].rowReduces /\ ~MidOk(fsAt)
           /\ fsFlags'[fsAt].downReduces <=> fsFlags[fsAt].downReduces /\ ~DownOk(fsAt)
           /\ fsFlags'[fsAt].act <=> Ours(fsModel[fsAt].down)
           /\ fsFlags'[fsAt].gnq <=> /\ fsKnobs.gnq /\ fsModel[fsAt].kind = "linear"
                                     /\ Ours(fsModel[fsAt].out)
<1>. DEFINE mid == MidOk(fsAt)
            down == DownOk(fsAt)
            act == Ours(fsModel[fsAt].down)
            gnq == fsKnobs.gnq /\ fsModel[fsAt].kind = "linear" /\ Ours(fsModel[fsAt].out)
            f == fsFlags[fsAt]
            g == [f EXCEPT !.fp8Mid = mid, !.rowReduces = @ /\ ~mid, !.downReduces = @ /\ ~down,
                           !.act = act, !.gnq = gnq]
<1>1. /\ fsPhase = "install" /\ fsAt \in Layers /\ fsModel[fsAt].special = "plain"
      /\ fsAt' = fsAt + 1 /\ UNCHANGED <<fsPhase, fsKnobs, fsModel, fsHidden, fsFault>>
      /\ fsFlags' = [j \in Layers |-> IF j = fsAt THEN g
                                      ELSE IF j = fsAt + 1 /\ down THEN [fsFlags[j] EXCEPT !.fp8In = TRUE]
                                      ELSE fsFlags[j]]
  BY DEF InstallLayer
<1>2. fsFlags \in [Layers -> FsFlags] /\ f \in FsFlags
  BY <1>1 DEF FsInv, FsTypeOK
<1>3. /\ mid \in BOOLEAN /\ down \in BOOLEAN /\ act \in BOOLEAN /\ gnq \in BOOLEAN
  BY DEF MidOk, DownOk, Ours
<1>4. gnq <=> fsKnobs.gnq /\ fsModel[fsAt].kind = "linear" /\ Ours(fsModel[fsAt].out)
  OBVIOUS
<1>. HIDE DEF mid, down, act, gnq, f
<1>5. /\ g \in FsFlags
      /\ g.merged = f.merged /\ g.fp8In = f.fp8In /\ g.rowOverlap = f.rowOverlap
      /\ g.downOverlap = f.downOverlap
      /\ g.fp8Mid = mid /\ g.rowReduces = (f.rowReduces /\ ~mid)
      /\ g.downReduces = (f.downReduces /\ ~down)
      /\ g.act = act /\ g.gnq = gnq
  BY <1>2, <1>3 DEF FsFlags
<1>. HIDE DEF g
<1>6. \A j \in Layers : [fsFlags[j] EXCEPT !.fp8In = TRUE] \in FsFlags
  BY <1>2 DEF FsFlags
<1>7. fsFlags' \in [Layers -> FsFlags]
  BY <1>1, <1>2, <1>5, <1>6
<1>8. fsFlags'[fsAt] = g
  BY <1>1
<1>9. \A j \in Layers \ {fsAt} :
         fsFlags'[j] = IF j = fsAt + 1 /\ down THEN [fsFlags[j] EXCEPT !.fp8In = TRUE] ELSE fsFlags[j]
  BY <1>1
<1>. USE <1>1, <1>4, <1>5, <1>7, <1>8, <1>9
<1>10. fsFlags'[fsAt].rowReduces <=> fsFlags[fsAt].rowReduces /\ ~mid
  BY DEF f
<1>11. fsFlags'[fsAt].downReduces <=> fsFlags[fsAt].downReduces /\ ~down
  BY DEF f
<1>. QED  BY <1>10, <1>11 DEF mid, down, act, gnq, f

LEMMA FsSame ==
    ASSUME UNCHANGED fsVars
    PROVE  (FsInv => FsInv') /\ (SitesOpen => SitesOpen')
<1>1. FsInv => FsInv'
  BY DEF fsVars, FsInv, FsTypeOK, OneReducer, NotYetInstalled, HandedOn, RowDone, DownDone
<1>2. /\ UNCHANGED <<fsPhase, fsAt>> /\ (Streaming <=> Streaming') /\ (Bare <=> Bare')
      /\ (AsOverlapped <=> AsOverlapped') /\ (AsMerged <=> AsMerged')
  BY DEF fsVars, Streaming, Bare, AsOverlapped, Overlapped, AsMerged
<1>3. \A n : OpenTo(n) <=> OpenTo(n)'
  BY DEF fsVars, OpenTo, ActSite, GnqSite, MidSite, InSite, Streaming, Overlapped
<1>4. PairsServed <=> PairsServed'
  BY DEF fsVars, PairsServed, Misfed, Streaming, Overlapped
<1>5. SitesOpen => SitesOpen'
  <2>1. OpenTo(fsAt) <=> OpenTo(fsAt)'
    BY <1>2, <1>3 DEF fsVars, OpenTo, ActSite, GnqSite, MidSite, InSite, Streaming, Overlapped
  <2>2. OpenTo(FsDepth + 1) <=> OpenTo(FsDepth + 1)'
    BY <1>3
  <2>. HIDE DEF OpenTo
  <2>. QED  BY <1>2, <1>4, <2>1, <2>2 DEF SitesOpen
<1>. QED  BY <1>1, <1>5

LEMMA FsInitOK == FsInit => FsInv /\ SitesOpen
<1>. SUFFICES ASSUME FsInit PROVE FsInv /\ SitesOpen
  OBVIOUS
<1>. USE LayersFacts DEF FsInit
<1>1. \A i \in Layers : fsFlags[i] = Stock
  OBVIOUS
<1>2. Stock \in FsFlags
  <2>1. DOMAIN Stock = {"merged", "rowReduces", "downReduces", "rowOverlap", "downOverlap",
                        "fp8In", "fp8Mid", "act", "gnq"}
    BY DEF Stock
  <2>2. Stock = [k \in DOMAIN Stock |-> Stock[k]]
    BY DEF Stock
  <2>3. \A k \in DOMAIN Stock : Stock[k] \in BOOLEAN
    <3>1. Stock["merged"] \in BOOLEAN /\ Stock["rowReduces"] \in BOOLEAN /\ Stock["downReduces"] \in BOOLEAN
      BY DEF Stock
    <3>2. Stock["rowOverlap"] \in BOOLEAN /\ Stock["downOverlap"] \in BOOLEAN /\ Stock["fp8In"] \in BOOLEAN
      BY DEF Stock
    <3>3. Stock["fp8Mid"] \in BOOLEAN /\ Stock["act"] \in BOOLEAN /\ Stock["gnq"] \in BOOLEAN
      BY DEF Stock
    <3>. QED  BY <2>1, <3>1, <3>2, <3>3
  <2>. QED  BY <2>1, <2>2, <2>3 DEF FsFlags
<1>3. FsTypeOK
  BY <1>2 DEF FsTypeOK
<1>4. OneReducer
  BY <1>1 DEF OneReducer, RowDone, DownDone, Stock
<1>5. NotYetInstalled
  BY <1>1 DEF NotYetInstalled, RowDone, DownDone, Stock, Layers
<1>6. HandedOn
  BY DEF HandedOn
<1>7. SitesOpen
  BY <1>1 DEF SitesOpen, Bare, Stock, PairsServed
<1>. QED  BY <1>3, <1>4, <1>5, <1>6, <1>7 DEF FsInv

\* A layer's norms read whole sums.
LEMMA NoSumFault ==
    ASSUME FsTypeOK, OneReducer, HandedOn, fsPhase = "forward", fsAt \in Layers
    PROVE  LET f == fsFlags[fsAt]
               m == fsModel[fsAt]
               fault == LayerForward(fsAt, fsHidden).fault
           IN  /\ fault \in {"none", "pair"}
               /\ fault = "none" <=> /\ f.fp8In /\ fsAt > 1 => TakesPair(m.in, FALSE)
                                     /\ f.gnq => TakesPair(m.out, f.rowOverlap)
                                     /\ f.fp8Mid => TakesPair(m.up, FALSE)
                                     /\ f.act => TakesPair(m.down, f.downOverlap)
<1>. USE LayersFacts
<1>1. (IF fsFlags[fsAt].fp8In /\ fsAt > 1 THEN Reduced(fsHidden) ELSE fsHidden) = "whole"
  <2>1. CASE fsAt = 1
    BY <2>1 DEF HandedOn
  <2>2. CASE fsAt # 1
    <3>1. /\ fsAt - 1 \in Layers /\ fsAt - 1 < FsDepth /\ (fsAt - 1) + 1 = fsAt /\ fsAt > 1
      BY <2>2
    <3>2. fsFlags[fsAt].fp8In <=> ~DownDone(fsAt - 1)
      BY <3>1 DEF OneReducer
    <3>. QED  BY <2>2, <3>1, <3>2 DEF HandedOn, Reduced
  <2>. QED  BY <2>1, <2>2
<1>2. LET attn == RowOutput(fsFlags[fsAt].rowOverlap, fsFlags[fsAt].rowReduces)
      IN  (IF fsFlags[fsAt].fp8Mid THEN Reduced(attn) ELSE attn) = "whole"
  BY DEF OneReducer, RowDone, RowOutput, Reduced
<1>. QED  BY <1>1, <1>2 DEF LayerForward

LEMMA FsNextOK == FsInv /\ [FsNext]_fsVars => FsInv'
<1>. SUFFICES ASSUME FsInv, [FsNext]_fsVars PROVE FsInv'
  OBVIOUS
<1>0. FsTypeOK /\ OneReducer /\ NotYetInstalled /\ HandedOn
  BY DEF FsInv
<1>. USE LayersFacts
<1>1. CASE FsLoad
  <2>. USE <1>1 DEF FsLoad
  <2>1. FsTypeOK'
    BY <1>0 DEF FsTypeOK
  <2>2. OneReducer'
    BY <1>0 DEF OneReducer, RowDone, DownDone
  <2>3. NotYetInstalled' /\ HandedOn'
    BY <1>0 DEF NotYetInstalled, HandedOn, RowDone, DownDone
  <2>. QED  BY <2>1, <2>2, <2>3 DEF FsInv
<1>2. CASE InstallOverlap
  <2>1. /\ fsPhase = "overlap" /\ fsPhase' = "merge"
        /\ UNCHANGED <<fsKnobs, fsModel, fsAt, fsHidden, fsFault>>
        /\ \A i \in Layers : RowDone(i) /\ DownDone(i) /\ fsFlags[i] \in FsFlags
    BY <1>0, <1>2 DEF InstallOverlap, NotYetInstalled, FsTypeOK, Layers
  <2>. DEFINE on == fsKnobs.overlap /\ fsKnobs.tp > 1
              row(i) == on /\ fsModel[i].out = "row"
              down(i) == on /\ fsModel[i].down = "row"
              g(i) == [fsFlags[i] EXCEPT !.rowOverlap = row(i), !.rowReduces = ~row(i),
                                         !.downOverlap = down(i), !.downReduces = ~down(i)]
  <2>2. fsFlags' = [i \in Layers |-> g(i)]
    BY <1>2 DEF InstallOverlap
  <2>3. \A i : row(i) \in BOOLEAN /\ down(i) \in BOOLEAN
    OBVIOUS
  <2>. HIDE DEF row, down
  <2>4. \A i \in Layers :
           /\ g(i) \in FsFlags /\ (g(i).rowOverlap <=> row(i)) /\ (g(i).rowReduces <=> ~row(i))
           /\ (g(i).downOverlap <=> down(i)) /\ (g(i).downReduces <=> ~down(i))
           /\ g(i).fp8In = fsFlags[i].fp8In /\ g(i).fp8Mid = fsFlags[i].fp8Mid
    BY <2>1, <2>3 DEF FsFlags
  <2>. HIDE DEF g
  <2>5. fsFlags' \in [Layers -> FsFlags] /\ \A i \in Layers : fsFlags'[i] = g(i)
    BY <2>2, <2>4
  <2>6. FsTypeOK'
    BY <1>0, <2>1, <2>5 DEF FsTypeOK
  <2>7. \A i \in Layers : /\ RowDone(i)' /\ DownDone(i)'
                          /\ ~(fsFlags[i].rowOverlap /\ fsFlags[i].rowReduces)'
                          /\ ~(fsFlags[i].downOverlap /\ fsFlags[i].downReduces)'
    BY <2>3, <2>4, <2>5 DEF RowDone, DownDone
  <2>8. OneReducer'
    BY <1>0, <2>1, <2>4, <2>5, <2>7 DEF OneReducer
  <2>9. NotYetInstalled' /\ HandedOn'
    BY <1>0, <2>1, <2>7 DEF NotYetInstalled, HandedOn, Layers
  <2>. QED  BY <2>6, <2>8, <2>9 DEF FsInv
<1>3. CASE MergeInProj
  <2>1. /\ fsPhase = "merge" /\ fsPhase' \in {"forward", "install"}
        /\ UNCHANGED <<fsKnobs, fsModel, fsAt, fsHidden, fsFault>>
        /\ \A i \in Layers : RowDone(i) /\ DownDone(i) /\ fsFlags[i] \in FsFlags
        /\ fsAt = 1 /\ fsHidden = "whole"
    BY <1>0, <1>3 DEF MergeInProj, NotYetInstalled, FsTypeOK, Layers
  <2>. DEFINE merged(i) == /\ fsKnobs.merge /\ fsModel[i].kind = "linear"
                           /\ fsModel[i].in \in {"row", "bf16"}
              g(i) == [fsFlags[i] EXCEPT !.merged = merged(i)]
  <2>2. fsFlags' = [i \in Layers |-> g(i)]
    BY <1>3 DEF MergeInProj
  <2>3. \A i : merged(i) \in BOOLEAN
    OBVIOUS
  <2>. HIDE DEF merged
  <2>4. \A i \in Layers :
           /\ g(i) \in FsFlags /\ g(i).rowOverlap = fsFlags[i].rowOverlap
           /\ g(i).rowReduces = fsFlags[i].rowReduces
           /\ g(i).downOverlap = fsFlags[i].downOverlap /\ g(i).downReduces = fsFlags[i].downReduces
           /\ g(i).fp8In = fsFlags[i].fp8In /\ g(i).fp8Mid = fsFlags[i].fp8Mid
    BY <2>1, <2>3 DEF FsFlags
  <2>. HIDE DEF g
  <2>5. fsFlags' \in [Layers -> FsFlags] /\ \A i \in Layers : fsFlags'[i] = g(i)
    BY <2>2, <2>4
  <2>6. FsTypeOK'
    BY <1>0, <2>1, <2>5 DEF FsTypeOK
  <2>7. \A i \in Layers : RowDone(i)' /\ DownDone(i)'
    BY <2>1, <2>4, <2>5 DEF RowDone, DownDone
  <2>8. OneReducer'
    BY <1>0, <2>1, <2>4, <2>5, <2>7 DEF OneReducer
  <2>9. \A i \in Layers : ~fsFlags[i].fp8In
    <3>1. \A i \in Layers : i # 1 => i - 1 \in Layers /\ i - 1 < FsDepth /\ (i - 1) + 1 = i
      OBVIOUS
    <3>. QED  BY <1>0, <2>1, <3>1 DEF OneReducer
  <2>10. NotYetInstalled' /\ HandedOn'
    BY <1>0, <2>1, <2>4, <2>5, <2>7, <2>9 DEF NotYetInstalled, HandedOn, Layers
  <2>. QED  BY <2>6, <2>8, <2>10 DEF FsInv
<1>4. CASE InstallSkips
  <2>1. /\ fsPhase = "install" /\ fsAt \in Layers /\ fsModel[fsAt].special # "plain"
        /\ fsFlags' = [fsFlags EXCEPT ![fsAt].fp8In = FALSE, ![fsAt].fp8Mid = FALSE]
        /\ fsAt' = fsAt + 1 /\ UNCHANGED <<fsPhase, fsKnobs, fsModel, fsHidden, fsFault>>
    BY <1>4 DEF InstallSkips
  <2>2. fsModel[fsAt].special = "scale"
    BY <1>0, <2>1, FsAssumption DEF FsTypeOK
  <2>3. RowDone(fsAt)
    BY <1>0, <2>1 DEF NotYetInstalled, Layers
  <2>4. fsFlags[fsAt].fp8Mid = FALSE /\ fsFlags[fsAt].fp8In = FALSE /\ fsFlags[fsAt] \in FsFlags
    BY <1>0, <2>1, <2>2, <2>3 DEF NotYetInstalled, OneReducer, FsTypeOK, FsFlags
  <2>5. [fsFlags[fsAt] EXCEPT !.fp8In = FALSE] = fsFlags[fsAt]
    BY <2>4 DEF FsFlags
  <2>6. [fsFlags[fsAt] EXCEPT !.fp8Mid = FALSE] = fsFlags[fsAt]
    BY <2>4 DEF FsFlags
  <2>7. fsFlags' = fsFlags
    BY <1>0, <2>1, <2>4, <2>5, <2>6 DEF FsTypeOK
  <2>8. fsAt' \in 1 .. FsDepth + 1 /\ fsAt \in Nat
    BY <2>1
  <2>9. FsTypeOK'
    BY <1>0, <2>1, <2>7, <2>8 DEF FsTypeOK
  <2>10. OneReducer'
    BY <1>0, <2>7 DEF OneReducer, RowDone, DownDone
  <2>11. NotYetInstalled' /\ HandedOn'
    <3>1. \A i : (RowDone(i)' <=> RowDone(i)) /\ (DownDone(i)' <=> DownDone(i))
      BY <2>7 DEF RowDone, DownDone
    <3>2. \A i \in fsAt' .. FsDepth : i \in fsAt .. FsDepth
      BY <2>1, <2>8
    <3>3. NotYetInstalled'
      BY <1>0, <2>1, <2>7, <3>1, <3>2 DEF NotYetInstalled
    <3>4. HandedOn'
      BY <1>0, <2>1 DEF HandedOn
    <3>. QED  BY <3>3, <3>4
  <2>. QED  BY <2>9, <2>10, <2>11 DEF FsInv
<1>5. CASE InstallLayer
  <2>0. PICK a : a = fsAt
    OBVIOUS
  <2>1. /\ fsPhase = "install" /\ a \in Layers /\ fsAt' = a + 1
        /\ UNCHANGED <<fsPhase, fsKnobs, fsModel, fsHidden, fsFault>>
        /\ fsFlags' \in [Layers -> FsFlags] /\ fsFlags \in [Layers -> FsFlags]
    BY <1>0, <1>5, <2>0, LayerInstalled DEF FsTypeOK
  <2>2. /\ \A j \in Layers : /\ fsFlags'[j].rowOverlap = fsFlags[j].rowOverlap
                             /\ fsFlags'[j].downOverlap = fsFlags[j].downOverlap
        /\ \A j \in Layers \ {a} : /\ fsFlags'[j].rowReduces = fsFlags[j].rowReduces
                                   /\ fsFlags'[j].downReduces = fsFlags[j].downReduces
                                   /\ fsFlags'[j].fp8Mid = fsFlags[j].fp8Mid
        /\ \A j \in Layers : j # a + 1 \/ ~DownOk(a) => fsFlags'[j].fp8In = fsFlags[j].fp8In
        /\ DownOk(a) => a + 1 \in Layers /\ fsFlags'[a + 1].fp8In
    <3>1. \A j \in Layers : [fsFlags[j] EXCEPT !.fp8In = TRUE] =
             [fsFlags[j] EXCEPT !.fp8In = TRUE] /\ fsFlags[j] \in FsFlags
      BY <2>1
    <3>2. \A j \in Layers \ {a} :
             fsFlags'[j] = IF j = a + 1 /\ DownOk(a) THEN [fsFlags[j] EXCEPT !.fp8In = TRUE]
                           ELSE fsFlags[j]
      BY <1>5, <2>0, LayerInstalled
    <3>3. /\ fsFlags'[a].rowOverlap = fsFlags[a].rowOverlap
          /\ fsFlags'[a].downOverlap = fsFlags[a].downOverlap
          /\ fsFlags'[a].fp8In = fsFlags[a].fp8In
      BY <1>5, <2>0, LayerInstalled
    <3>4. DownOk(a) => a + 1 \in Layers /\ a + 1 # a
      BY <2>1 DEF DownOk
    <3>. QED  BY <3>1, <3>2, <3>3, <3>4 DEF FsFlags
  <2>3. /\ fsFlags'[a].fp8Mid <=> MidOk(a)
        /\ fsFlags'[a].rowReduces <=> fsFlags[a].rowReduces /\ ~MidOk(a)
        /\ fsFlags'[a].downReduces <=> fsFlags[a].downReduces /\ ~DownOk(a)
    BY <1>5, <2>0, LayerInstalled
  <2>4. RowDone(a) /\ DownDone(a)
    BY <1>0, <2>0, <2>1 DEF NotYetInstalled, Layers
  <2>5. /\ MidOk(a) => fsFlags[a].rowReduces
        /\ DownOk(a) => a < FsDepth /\ fsFlags[a].downReduces /\ fsModel[a + 1].special # "scale"
    BY DEF MidOk, DownOk
  <2>6. /\ RowDone(a)' <=> ~MidOk(a)
        /\ DownDone(a)' <=> ~DownOk(a)
        /\ \A j \in Layers : j # a => (RowDone(j)' <=> RowDone(j)) /\ (DownDone(j)' <=> DownDone(j))
    BY <1>0, <2>1, <2>2, <2>3, <2>4, <2>5 DEF RowDone, DownDone, OneReducer
  <2>7. FsTypeOK'
    BY <1>0, <2>1 DEF FsTypeOK
  <2>8. OneReducer'
    <3>1. \A i \in Layers : /\ (fsFlags[i].fp8Mid <=> ~RowDone(i))'
                            /\ ~(fsFlags[i].rowOverlap /\ fsFlags[i].rowReduces)'
                            /\ ~(fsFlags[i].downOverlap /\ fsFlags[i].downReduces)'
      BY <1>0, <2>1, <2>2, <2>3, <2>6 DEF OneReducer
    <3>2. ASSUME NEW i \in Layers, i < FsDepth
          PROVE  (fsFlags[i + 1].fp8In <=> ~DownDone(i))'
      <4>1. i + 1 \in Layers /\ (fsFlags[i + 1].fp8In <=> ~DownDone(i))
        BY <1>0, <3>2 DEF OneReducer
      <4>2. CASE i = a
        BY <2>2, <2>4, <2>6, <4>1, <4>2
      <4>3. CASE i # a
        <5>1. i + 1 # a + 1
          BY <2>1, <4>3
        <5>. QED  BY <2>2, <2>6, <4>1, <4>3, <5>1
      <4>. QED  BY <4>2, <4>3
    <3>3. ~fsFlags'[1].fp8In
      <4>1. 1 # a + 1
        BY <2>1
      <4>. QED  BY <1>0, <2>2, <4>1 DEF OneReducer
    <3>4. DownDone(FsDepth)'
      <4>1. CASE a = FsDepth
        BY <2>5, <2>6, <4>1
      <4>2. CASE a # FsDepth
        BY <1>0, <2>6, <4>2 DEF OneReducer
      <4>. QED  BY <4>1, <4>2
    <3>. QED  BY <3>1, <3>2, <3>3, <3>4 DEF OneReducer
  <2>9. NotYetInstalled'
    <3>1. fsHidden' = "whole" /\ fsFault' = "none"
      BY <1>0, <2>1 DEF NotYetInstalled
    <3>2. \A i \in a + 1 .. FsDepth : RowDone(i)' /\ DownDone(i)'
      <4>1. \A i \in a + 1 .. FsDepth : i \in Layers /\ i # a /\ RowDone(i) /\ DownDone(i)
        BY <1>0, <2>0, <2>1 DEF NotYetInstalled, Layers
      <4>. QED  BY <2>6, <4>1
    <3>3. \A i \in Layers : fsModel[i].special = "scale" => ~fsFlags'[i].fp8In
      BY <1>0, <2>1, <2>2, <2>5 DEF NotYetInstalled
    <3>. QED  BY <2>1, <3>1, <3>2, <3>3 DEF NotYetInstalled
  <2>10. HandedOn'
    BY <1>0, <2>1 DEF HandedOn
  <2>. QED  BY <2>7, <2>8, <2>9, <2>10 DEF FsInv
<1>6. CASE Installed
  <2>1. /\ fsPhase = "install" /\ fsPhase' = "forward" /\ fsAt' = 1
        /\ UNCHANGED <<fsKnobs, fsModel, fsFlags, fsHidden, fsFault>>
    BY <1>6 DEF Installed
  <2>2. FsTypeOK'
    BY <1>0, <2>1 DEF FsTypeOK
  <2>3. OneReducer'
    BY <1>0, <2>1 DEF OneReducer, RowDone, DownDone
  <2>4. NotYetInstalled' /\ HandedOn'
    BY <1>0, <2>1 DEF NotYetInstalled, HandedOn
  <2>. QED  BY <2>2, <2>3, <2>4 DEF FsInv
<1>7. CASE ForwardLayer
  <2>. DEFINE r == LayerForward(fsAt, fsHidden)
  <2>1. /\ fsPhase = "forward" /\ fsAt \in Layers
        /\ fsHidden' = r.out /\ fsFault' = IF fsFault = "none" THEN r.fault ELSE fsFault
        /\ fsAt' = fsAt + 1 /\ UNCHANGED <<fsPhase, fsKnobs, fsModel, fsFlags>>
    BY <1>7 DEF ForwardLayer
  <2>2. r.out = (IF DownDone(fsAt) THEN "whole" ELSE "partial")
    BY DEF LayerForward, RowOutput, DownDone
  <2>3. r.fault \in {"none", "pair"}
    BY <1>0, <2>1, NoSumFault
  <2>. HIDE DEF r
  <2>4. FsTypeOK'
    BY <1>0, <2>1 DEF FsTypeOK
  <2>5. OneReducer'
    BY <1>0, <2>1 DEF OneReducer, RowDone, DownDone
  <2>6. NotYetInstalled'
    BY <1>0, <2>1 DEF NotYetInstalled
  <2>7. fsAt' # 1 /\ fsAt' - 1 = fsAt
    BY <2>1
  <2>8. HandedOn'
    BY <1>0, <2>1, <2>2, <2>3, <2>7 DEF HandedOn, DownDone
  <2>. QED  BY <2>4, <2>5, <2>6, <2>8 DEF FsInv
<1>8. CASE FinalNorm
  <2>1. /\ fsPhase = "forward" /\ fsAt > FsDepth /\ fsPhase' = "done"
        /\ fsFault' = IF fsFault = "none" /\ fsHidden # "whole" THEN fsHidden ELSE fsFault
        /\ UNCHANGED <<fsKnobs, fsModel, fsFlags, fsAt, fsHidden>>
    BY <1>8 DEF FinalNorm
  <2>2. fsAt - 1 = FsDepth /\ fsAt # 1
    BY <1>0, <2>1 DEF FsTypeOK
  <2>3. fsHidden = "whole"
    BY <1>0, <2>1, <2>2 DEF HandedOn, OneReducer
  <2>4. FsTypeOK'
    BY <1>0, <2>1 DEF FsTypeOK
  <2>5. OneReducer'
    BY <1>0, <2>1 DEF OneReducer, RowDone, DownDone
  <2>6. NotYetInstalled' /\ HandedOn'
    BY <1>0, <2>1, <2>3 DEF NotYetInstalled, HandedOn
  <2>. QED  BY <2>4, <2>5, <2>6 DEF FsInv
<1>9. CASE UNCHANGED fsVars
  BY <1>9, FsSame
<1>. QED  BY <1>1, <1>2, <1>3, <1>4, <1>5, <1>6, <1>7, <1>8, <1>9 DEF FsNext

LEMMA FsInvariant == FsSpec => []FsInv
BY FsInitOK, FsNextOK, PTL DEF FsSpec

\* Whatever layers were left stock, a sum that a linear leaves partial is reduced by
\* exactly one of the norm, the next layer's fallback and the all-reduce it skipped.
THEOREM SumsReducedOnce == FsSpec => []ReducedOnce
<1>1. FsInv => ReducedOnce
  BY DEF FsInv, HandedOn, ReducedOnce
<1>. QED  BY <1>1, FsInvariant, PTL

LEMMA LayerForms ==
    ASSUME FsTypeOK, fsPhase # "load", NEW i \in Layers
    PROVE  /\ fsModel[i].special \in {"plain", "scale"} /\ fsModel[i].kind \in {"linear", "full"}
           /\ fsModel[i].in \in {"row", "one", "none", "bf16"}
           /\ fsModel[i].in = "bf16" => fsModel[i].kind = "linear"
           /\ fsModel[i].out \in {"row", "one", "none"}
           /\ fsModel[i].up \in {"row", "one", "none"}
           /\ fsModel[i].down \in {"row", "one", "none"}
<1>1. fsModel[i] \in FsLayers
  BY DEF FsTypeOK
<1>. QED  BY <1>1, FsAssumption

\* A layer can be fused exactly if the guard finds what would read the pairs.
LEMMA ConsumersFuse ==
    ASSUME FsTypeOK, fsPhase = "install", AsMerged, Streaming, NEW i \in Layers
    PROVE  ConsumersOk(i) <=> Fusable(fsModel[i])
BY LayerForms DEF ConsumersOk, Fusable, Ours, AsMerged, Streaming

\* In the layer that runs, a pair cannot be read exactly if the layer is misfed.
LEMMA PairsOfLayer ==
    ASSUME FsInv, SitesOpen, fsPhase = "forward", fsAt \in Layers
    PROVE  LayerForward(fsAt, fsHidden).fault = IF Misfed(fsAt) THEN "pair" ELSE "none"
<1>. DEFINE f == fsFlags[fsAt]
            m == fsModel[fsAt]
<1>. USE LayersFacts
<1>1. FsTypeOK /\ OneReducer /\ HandedOn /\ fsAt < FsDepth + 1 /\ fsAt \in Nat
  BY DEF FsInv
<1>2. /\ f.act <=> ActSite(fsAt)
      /\ f.gnq <=> GnqSite(fsAt)
      /\ f.fp8Mid <=> MidSite(fsAt)
      /\ f.fp8In <=> InSite(fsAt)
      /\ f.rowOverlap <=> Overlapped(m.out)
      /\ f.downOverlap <=> Overlapped(m.down)
  BY <1>1 DEF SitesOpen, OpenTo, AsOverlapped
<1>3. /\ m.in \in {"row", "one", "none", "bf16"} /\ m.out \in {"row", "one", "none"}
      /\ m.up \in {"row", "one", "none"} /\ m.down \in {"row", "one", "none"}
  BY <1>1, LayerForms
<1>4. /\ LayerForward(fsAt, fsHidden).fault \in {"none", "pair"}
      /\ LayerForward(fsAt, fsHidden).fault = "none" <=>
            /\ f.fp8In /\ fsAt > 1 => TakesPair(m.in, FALSE)
            /\ f.gnq => TakesPair(m.out, f.rowOverlap)
            /\ f.fp8Mid => TakesPair(m.up, FALSE)
            /\ f.act => TakesPair(m.down, f.downOverlap)
  BY <1>1, NoSumFault
<1>5. \A ref : Overlapped(ref) => ref = "row"
  BY DEF Overlapped
<1>. DEFINE misread(ref) == ref = "one" \/ Overlapped(ref)
<1>6. (f.act => TakesPair(m.down, f.downOverlap)) <=>
         ~(Streaming /\ m.special = "plain" /\ misread(m.down))
  BY <1>2, <1>3, <1>5 DEF ActSite, Ours, TakesPair
<1>7. (f.gnq => TakesPair(m.out, f.rowOverlap)) <=>
         ~(Streaming /\ m.special = "plain" /\ fsKnobs.gnq /\ m.kind = "linear" /\ misread(m.out))
  BY <1>2, <1>3, <1>5 DEF GnqSite, Ours, TakesPair
<1>8. (f.fp8Mid => TakesPair(m.up, FALSE)) <=>
         ~(Streaming /\ m.special = "plain" /\ Fusable(m) /\ m.up = "one"
           /\ m.out # "none" /\ ~Overlapped(m.out))
  BY <1>2, <1>3 DEF MidSite, Ours, TakesPair, Fusable
<1>9. (f.fp8In /\ fsAt > 1 => TakesPair(m.in, FALSE)) <=>
         ~(Streaming /\ m.special = "plain" /\ Fusable(m) /\ m.in # "row" /\ fsAt > 1
           /\ fsModel[fsAt - 1].special = "plain"
           /\ fsModel[fsAt - 1].down # "none" /\ ~Overlapped(fsModel[fsAt - 1].down))
  BY <1>2, <1>3 DEF InSite, Ours, TakesPair, Fusable
<1>. HIDE DEF f, m
<1>10. Misfed(fsAt) <=>
         \/ Streaming /\ m.special = "plain" /\ misread(m.down)
         \/ Streaming /\ m.special = "plain" /\ fsKnobs.gnq /\ m.kind = "linear" /\ misread(m.out)
         \/ Streaming /\ m.special = "plain" /\ Fusable(m) /\ m.up = "one"
            /\ m.out # "none" /\ ~Overlapped(m.out)
         \/ Streaming /\ m.special = "plain" /\ Fusable(m) /\ m.in # "row" /\ fsAt > 1
            /\ fsModel[fsAt - 1].special = "plain"
            /\ fsModel[fsAt - 1].down # "none" /\ ~Overlapped(fsModel[fsAt - 1].down)
  BY DEF Misfed, m
<1>. QED  BY <1>4, <1>6, <1>7, <1>8, <1>9, <1>10

LEMMA SitesOpenStep ==
    ASSUME FsInv, SitesOpen, [FsNext]_fsVars
    PROVE  SitesOpen'
<1>0. FsTypeOK /\ OneReducer /\ NotYetInstalled /\ HandedOn
  BY DEF FsInv
<1>. USE LayersFacts
<1>1. CASE FsLoad
  <2>1. /\ fsPhase = "load" /\ fsPhase' = "overlap" /\ fsFlags' = fsFlags
    BY <1>1 DEF FsLoad
  <2>2. Bare'
    BY <2>1 DEF SitesOpen, Bare
  <2>. QED  BY <2>1, <2>2 DEF SitesOpen, PairsServed
<1>2. CASE InstallOverlap
  <2>1. /\ fsPhase = "overlap" /\ fsPhase' = "merge"
        /\ UNCHANGED <<fsKnobs, fsModel, fsAt, fsHidden, fsFault>> /\ Bare
    BY <1>2 DEF InstallOverlap, SitesOpen
  <2>. DEFINE row(i) == Overlapped(fsModel[i].out)
              down(i) == Overlapped(fsModel[i].down)
              g(i) == [fsFlags[i] EXCEPT !.rowOverlap = row(i), !.rowReduces = ~row(i),
                                         !.downOverlap = down(i), !.downReduces = ~down(i)]
  <2>2. fsFlags' = [i \in Layers |-> g(i)]
    BY <1>2 DEF InstallOverlap, Overlapped
  <2>3. \A i : row(i) \in BOOLEAN /\ down(i) \in BOOLEAN
    BY DEF Overlapped
  <2>. HIDE DEF row, down
  <2>4. \A i \in Layers :
           /\ g(i).rowOverlap <=> row(i)
           /\ g(i).downOverlap <=> down(i)
           /\ g(i).fp8In = fsFlags[i].fp8In /\ g(i).fp8Mid = fsFlags[i].fp8Mid
           /\ g(i).act = fsFlags[i].act /\ g(i).gnq = fsFlags[i].gnq
    BY <1>0, <2>1, <2>3 DEF FsTypeOK, FsFlags
  <2>. HIDE DEF g
  <2>5. \A i \in Layers : fsFlags'[i] = g(i)
    BY <2>2
  <2>6. Bare'
    BY <2>1, <2>4, <2>5 DEF Bare
  <2>7. AsOverlapped'
    BY <2>1, <2>4, <2>5 DEF AsOverlapped, Overlapped, row, down
  <2>. QED  BY <2>1, <2>6, <2>7 DEF SitesOpen, PairsServed
<1>3. CASE MergeInProj
  <2>1. /\ fsPhase = "merge" /\ fsPhase' = IF Streaming THEN "install" ELSE "forward"
        /\ UNCHANGED <<fsKnobs, fsModel, fsAt, fsHidden, fsFault>>
        /\ \A i \in Layers : fsFlags[i] \in FsFlags
        /\ fsAt = 1 /\ fsFault = "none"
    BY <1>0, <1>3 DEF MergeInProj, FsTypeOK, NotYetInstalled, Streaming
  <2>. DEFINE merged(i) == /\ fsKnobs.merge /\ fsModel[i].kind = "linear"
                           /\ fsModel[i].in \in {"row", "bf16"}
              g(i) == [fsFlags[i] EXCEPT !.merged = merged(i)]
  <2>2. fsFlags' = [i \in Layers |-> g(i)]
    BY <1>3 DEF MergeInProj
  <2>3. \A i : merged(i) \in BOOLEAN
    OBVIOUS
  <2>. HIDE DEF merged
  <2>4. \A i \in Layers :
           /\ g(i).rowOverlap = fsFlags[i].rowOverlap
           /\ g(i).downOverlap = fsFlags[i].downOverlap
           /\ g(i).fp8In = fsFlags[i].fp8In /\ g(i).fp8Mid = fsFlags[i].fp8Mid
           /\ g(i).act = fsFlags[i].act /\ g(i).gnq = fsFlags[i].gnq
           /\ g(i).merged <=> merged(i)
    BY <2>1, <2>3 DEF FsFlags
  <2>. HIDE DEF g
  <2>5. \A i \in Layers : fsFlags'[i] = g(i)
    BY <2>2
  <2>6. AsOverlapped /\ Bare
    BY <2>1 DEF SitesOpen
  <2>7. AsOverlapped'
    BY <2>1, <2>4, <2>5, <2>6 DEF AsOverlapped, Overlapped
  <2>8. AsMerged'
    BY <2>1, <2>4, <2>5 DEF AsMerged, merged
  <2>9. \A i \in Layers : /\ ~fsFlags'[i].act /\ ~fsFlags'[i].gnq
                          /\ ~fsFlags'[i].fp8Mid /\ ~fsFlags'[i].fp8In
    BY <2>4, <2>5, <2>6 DEF Bare
  <2>10. CASE Streaming
    <3>1. fsPhase' = "install" /\ Streaming'
      BY <2>1, <2>10 DEF Streaming
    <3>2. \A i \in Layers : ~(i < fsAt') /\ (i <= fsAt' => ~(i > 1))
      BY <2>1
    <3>3. OpenTo(fsAt)'
      BY <2>9, <3>2 DEF OpenTo, InSite
    <3>. QED  BY <2>7, <2>8, <3>1, <3>3 DEF SitesOpen, PairsServed
  <2>11. CASE ~Streaming
    <3>1. fsPhase' = "forward" /\ ~Streaming'
      BY <2>1, <2>11 DEF Streaming
    <3>2. OpenTo(FsDepth + 1)'
      BY <2>9, <3>1 DEF OpenTo, ActSite, GnqSite, MidSite, InSite
    <3>3. PairsServed'
      BY <2>1, <3>1 DEF PairsServed, Misfed
    <3>. QED  BY <2>7, <2>8, <3>1, <3>2, <3>3 DEF SitesOpen
  <2>. QED  BY <2>10, <2>11
<1>4. CASE InstallSkips
  <2>0. PICK a : a = fsAt
    OBVIOUS
  <2>1. /\ fsPhase = "install" /\ a \in Layers /\ fsFlags \in [Layers -> FsFlags]
        /\ fsModel[a].special # "plain" /\ fsAt' = a + 1
        /\ fsFlags' = [fsFlags EXCEPT ![a].fp8In = FALSE, ![a].fp8Mid = FALSE]
        /\ UNCHANGED <<fsPhase, fsKnobs, fsModel, fsHidden, fsFault>>
    BY <1>0, <1>4, <2>0 DEF InstallSkips, FsTypeOK
  <2>2. /\ \A i \in Layers :
              /\ fsFlags'[i].rowOverlap = fsFlags[i].rowOverlap
              /\ fsFlags'[i].downOverlap = fsFlags[i].downOverlap
              /\ fsFlags'[i].act = fsFlags[i].act /\ fsFlags'[i].gnq = fsFlags[i].gnq
              /\ fsFlags'[i].merged = fsFlags[i].merged
        /\ \A i \in Layers \ {a} : fsFlags'[i].fp8In = fsFlags[i].fp8In /\ fsFlags'[i].fp8Mid = fsFlags[i].fp8Mid
        /\ ~fsFlags'[a].fp8In /\ ~fsFlags'[a].fp8Mid
    BY <2>1 DEF FsFlags
  <2>3. AsOverlapped /\ AsMerged /\ Streaming /\ OpenTo(a)
    BY <2>0, <2>1 DEF SitesOpen
  <2>4. AsOverlapped' /\ AsMerged' /\ Streaming'
    BY <2>1, <2>2, <2>3 DEF AsOverlapped, Overlapped, AsMerged, Streaming
  <2>5. OpenTo(a + 1)'
    <3>1. \A i \in Layers : /\ ActSite(i)' <=> ActSite(i)
                            /\ GnqSite(i)' <=> GnqSite(i)
                            /\ MidSite(i)' <=> MidSite(i)
                            /\ InSite(i)' <=> InSite(i)
      BY <2>1 DEF ActSite, GnqSite, MidSite, InSite, Streaming, Overlapped
    <3>2. ~ActSite(a) /\ ~GnqSite(a) /\ ~MidSite(a) /\ ~InSite(a)
      BY <2>1 DEF ActSite, GnqSite, MidSite, InSite
    <3>3. a + 1 \in Layers => ~InSite(a + 1)
      BY <2>1 DEF InSite
    <3>4. \A i \in Layers : /\ i < a + 1 <=> i < a \/ i = a
                            /\ i <= a + 1 <=> i <= a \/ i = a + 1
      <4>1. a \in Nat
        BY <2>1
      <4>. QED  BY <4>1, FsAssumption DEF Layers
    <3>5. ASSUME NEW i \in Layers, i # a
          PROVE  /\ fsFlags'[i].act <=> i < a + 1 /\ ActSite(i)
                 /\ fsFlags'[i].gnq <=> i < a + 1 /\ GnqSite(i)
                 /\ fsFlags'[i].fp8Mid <=> i < a + 1 /\ MidSite(i)
                 /\ fsFlags'[i].fp8In <=> i <= a + 1 /\ InSite(i)
      BY <2>2, <2>3, <3>3, <3>4, <3>5 DEF OpenTo
    <3>6. ~fsFlags'[a].act /\ ~fsFlags'[a].gnq /\ ~fsFlags'[a].fp8Mid /\ ~fsFlags'[a].fp8In
      BY <2>1, <2>2, <2>3, <3>2 DEF OpenTo
    <3>. QED  BY <3>1, <3>2, <3>5, <3>6 DEF OpenTo
  <2>. QED  BY <2>1, <2>4, <2>5 DEF SitesOpen, PairsServed
<1>5. CASE InstallLayer
  <2>0. PICK a : a = fsAt
    OBVIOUS
  <2>1. /\ fsPhase = "install" /\ a \in Layers /\ fsModel[a].special = "plain" /\ fsAt' = a + 1
        /\ UNCHANGED <<fsPhase, fsKnobs, fsModel, fsHidden, fsFault>>
        /\ fsFlags \in [Layers -> FsFlags]
    BY <1>0, <1>5, <2>0, LayerInstalled DEF FsTypeOK
  <2>2. AsOverlapped /\ AsMerged /\ Streaming /\ OpenTo(a)
    BY <2>0, <2>1 DEF SitesOpen
  <2>3. \A i \in Layers : ConsumersOk(i) <=> Fusable(fsModel[i])
    BY <1>0, <2>1, <2>2, ConsumersFuse
  <2>4. /\ fsFlags[a].rowReduces <=> ~Overlapped(fsModel[a].out)
        /\ fsFlags[a].downReduces <=> ~Overlapped(fsModel[a].down)
    <3>1. a \in fsAt .. FsDepth
      BY <2>0, <2>1
    <3>2. RowDone(a) /\ DownDone(a)
      BY <1>0, <2>1, <3>1 DEF NotYetInstalled
    <3>. QED  BY <1>0, <2>1, <2>2, <3>2 DEF RowDone, DownDone, OneReducer, AsOverlapped
  <2>5. MidOk(a) <=> MidSite(a)
    BY <2>1, <2>2, <2>3, <2>4 DEF MidOk, MidSite
  <2>6. DownOk(a) <=> a < FsDepth /\ InSite(a + 1)
    <3>0. a \in Nat /\ a >= 1
      BY <2>1
    <3>1. a < FsDepth => /\ a + 1 \in Layers /\ (a + 1) - 1 = a /\ a + 1 > 1
                         /\ fsModel[a + 1].special \in {"plain", "scale"}
      <4>1. a < FsDepth => a + 1 \in Layers /\ (a + 1) - 1 = a /\ a + 1 > 1
        BY <3>0, FsAssumption DEF Layers
      <4>. QED  BY <1>0, <2>1, <4>1, LayerForms
    <3>. QED  BY <2>1, <2>2, <2>3, <2>4, <3>1 DEF DownOk, InSite
  <2>7. \A j \in Layers \ {a} :
           fsFlags'[j] = IF j = a + 1 /\ DownOk(a) THEN [fsFlags[j] EXCEPT !.fp8In = TRUE]
                         ELSE fsFlags[j]
    BY <1>5, <2>0, LayerInstalled
  <2>8. \A i \in Layers \ {a} :
           /\ fsFlags'[i].rowOverlap = fsFlags[i].rowOverlap
           /\ fsFlags'[i].downOverlap = fsFlags[i].downOverlap
           /\ fsFlags'[i].fp8In <=> fsFlags[i].fp8In \/ (i = a + 1 /\ DownOk(a))
           /\ fsFlags'[i].fp8Mid = fsFlags[i].fp8Mid
           /\ fsFlags'[i].act = fsFlags[i].act /\ fsFlags'[i].gnq = fsFlags[i].gnq
           /\ fsFlags'[i].merged = fsFlags[i].merged
    <3>. SUFFICES ASSUME NEW i \in Layers \ {a}
                  PROVE  /\ fsFlags'[i].rowOverlap = fsFlags[i].rowOverlap
                         /\ fsFlags'[i].downOverlap = fsFlags[i].downOverlap
                         /\ fsFlags'[i].fp8In <=> fsFlags[i].fp8In \/ (i = a + 1 /\ DownOk(a))
                         /\ fsFlags'[i].fp8Mid = fsFlags[i].fp8Mid
                         /\ fsFlags'[i].act = fsFlags[i].act /\ fsFlags'[i].gnq = fsFlags[i].gnq
                         /\ fsFlags'[i].merged = fsFlags[i].merged
      OBVIOUS
    <3>1. CASE i = a + 1 /\ DownOk(a)
      <4>1. fsFlags'[i] = [fsFlags[i] EXCEPT !.fp8In = TRUE] /\ fsFlags[i] \in FsFlags
        BY <2>1, <2>7, <3>1
      <4>. QED  BY <3>1, <4>1 DEF FsFlags
    <3>2. CASE ~(i = a + 1 /\ DownOk(a))
      BY <2>7, <3>2
    <3>. QED  BY <3>1, <3>2
  <2>9. /\ fsFlags'[a].merged = fsFlags[a].merged
        /\ fsFlags'[a].fp8In = fsFlags[a].fp8In
        /\ fsFlags'[a].rowOverlap = fsFlags[a].rowOverlap
        /\ fsFlags'[a].downOverlap = fsFlags[a].downOverlap
        /\ fsFlags'[a].fp8Mid <=> MidOk(a)
        /\ fsFlags'[a].act <=> Ours(fsModel[a].down)
        /\ fsFlags'[a].gnq <=> fsKnobs.gnq /\ fsModel[a].kind = "linear" /\ Ours(fsModel[a].out)
    BY <1>5, <2>0, LayerInstalled
  <2>10. AsOverlapped' /\ AsMerged' /\ Streaming'
    <3>1. \A i \in Layers : /\ fsFlags'[i].rowOverlap = fsFlags[i].rowOverlap
                            /\ fsFlags'[i].downOverlap = fsFlags[i].downOverlap
                            /\ fsFlags'[i].merged = fsFlags[i].merged
      BY <2>8, <2>9
    <3>. QED  BY <2>1, <2>2, <3>1 DEF AsOverlapped, Overlapped, AsMerged, Streaming
  <2>11. OpenTo(a + 1)'
    <3>1. \A i \in Layers : /\ ActSite(i)' <=> ActSite(i)
                            /\ GnqSite(i)' <=> GnqSite(i)
                            /\ MidSite(i)' <=> MidSite(i)
                            /\ InSite(i)' <=> InSite(i)
      BY <2>1 DEF ActSite, GnqSite, MidSite, InSite, Streaming, Overlapped
    <3>2. /\ ActSite(a) <=> Ours(fsModel[a].down)
          /\ GnqSite(a) <=> fsKnobs.gnq /\ fsModel[a].kind = "linear" /\ Ours(fsModel[a].out)
      BY <2>1, <2>2 DEF ActSite, GnqSite
    <3>3. \A i \in Layers : /\ i < a + 1 <=> i < a \/ i = a
                            /\ i <= a + 1 <=> i <= a \/ i = a + 1
                            /\ i = a + 1 => a < FsDepth
      BY <2>1
    <3>4. ASSUME NEW i \in Layers, i # a
          PROVE  /\ fsFlags'[i].act <=> i < a + 1 /\ ActSite(i)
                 /\ fsFlags'[i].gnq <=> i < a + 1 /\ GnqSite(i)
                 /\ fsFlags'[i].fp8Mid <=> i < a + 1 /\ MidSite(i)
                 /\ fsFlags'[i].fp8In <=> i <= a + 1 /\ InSite(i)
      BY <2>2, <2>6, <2>8, <3>3, <3>4 DEF OpenTo
    <3>5. /\ fsFlags'[a].act <=> a < a + 1 /\ ActSite(a)
          /\ fsFlags'[a].gnq <=> a < a + 1 /\ GnqSite(a)
          /\ fsFlags'[a].fp8Mid <=> a < a + 1 /\ MidSite(a)
          /\ fsFlags'[a].fp8In <=> a <= a + 1 /\ InSite(a)
      <4>0. a \in Nat
        BY <2>1
      <4>1. a < a + 1 /\ a <= a + 1 /\ a <= a
        BY <4>0
      <4>2. fsFlags[a].fp8In <=> InSite(a)
        BY <2>1, <2>2, <4>1 DEF OpenTo
      <4>. QED  BY <2>5, <2>9, <3>2, <4>1, <4>2
    <3>. QED  BY <3>1, <3>4, <3>5 DEF OpenTo
  <2>. QED  BY <2>1, <2>10, <2>11 DEF SitesOpen, PairsServed
<1>6. CASE Installed
  <2>1. /\ fsPhase = "install" /\ fsPhase' = "forward" /\ fsAt' = 1 /\ fsAt > FsDepth
        /\ UNCHANGED <<fsKnobs, fsModel, fsFlags, fsHidden, fsFault>>
    BY <1>6 DEF Installed
  <2>2. AsOverlapped /\ AsMerged /\ OpenTo(fsAt) /\ fsFault = "none" /\ fsAt = FsDepth + 1
    BY <1>0, <2>1 DEF SitesOpen, NotYetInstalled, FsTypeOK
  <2>3. AsOverlapped' /\ AsMerged'
    BY <2>1, <2>2 DEF AsOverlapped, Overlapped, AsMerged
  <2>4. OpenTo(FsDepth + 1)'
    BY <2>1, <2>2 DEF OpenTo, ActSite, GnqSite, MidSite, InSite, Streaming, Overlapped
  <2>5. PairsServed'
    BY <2>1, <2>2 DEF PairsServed
  <2>. QED  BY <2>1, <2>3, <2>4, <2>5 DEF SitesOpen
<1>7. CASE ForwardLayer
  <2>. DEFINE r == LayerForward(fsAt, fsHidden)
  <2>1. /\ fsPhase = "forward" /\ fsAt \in Layers
        /\ fsFault' = IF fsFault = "none" THEN r.fault ELSE fsFault
        /\ fsAt' = fsAt + 1 /\ UNCHANGED <<fsPhase, fsKnobs, fsModel, fsFlags>>
    BY <1>7 DEF ForwardLayer
  <2>2. r.fault = IF Misfed(fsAt) THEN "pair" ELSE "none"
    BY <2>1, PairsOfLayer
  <2>. HIDE DEF r
  <2>3. AsOverlapped' /\ AsMerged' /\ OpenTo(FsDepth + 1)'
    <3>1. AsOverlapped /\ AsMerged /\ OpenTo(FsDepth + 1)
      BY <2>1 DEF SitesOpen
    <3>. QED  BY <2>1, <3>1 DEF AsOverlapped, AsMerged, OpenTo, ActSite, GnqSite, MidSite, InSite,
                                Streaming, Overlapped
  <2>4. PairsServed'
    <3>1. fsFault \in {"none", "pair"} /\ (fsFault = "pair" <=> \E i \in 1 .. fsAt - 1 : Misfed(i))
      BY <1>0, <2>1 DEF HandedOn, SitesOpen, PairsServed
    <3>2. \A i : Misfed(i)' <=> Misfed(i)
      BY <2>1 DEF Misfed, Streaming, Overlapped
    <3>3. \A i : i \in 1 .. fsAt' - 1 <=> i \in 1 .. fsAt - 1 \/ i = fsAt
      BY <2>1
    <3>4. fsFault' = "pair" <=> \E i \in 1 .. fsAt' - 1 : Misfed(i)
      BY <2>1, <2>2, <3>1, <3>3
    <3>5. (\E i \in 1 .. fsAt - 1 : Misfed(i))' <=> \E i \in 1 .. fsAt' - 1 : Misfed(i)
      BY <3>2
    <3>. QED  BY <3>4, <3>5 DEF PairsServed
  <2>. QED  BY <2>1, <2>3, <2>4 DEF SitesOpen
<1>8. CASE FinalNorm
  <2>1. /\ fsPhase = "forward" /\ fsAt > FsDepth /\ fsPhase' = "done"
        /\ fsFault' = IF fsFault = "none" /\ fsHidden # "whole" THEN fsHidden ELSE fsFault
        /\ UNCHANGED <<fsKnobs, fsModel, fsFlags, fsAt, fsHidden>>
    BY <1>8 DEF FinalNorm
  <2>2. fsAt - 1 = FsDepth /\ fsAt # 1
    BY <1>0, <2>1 DEF FsTypeOK
  <2>3. fsHidden = "whole"
    BY <1>0, <2>1, <2>2 DEF HandedOn, OneReducer
  <2>4. fsFault' = fsFault
    BY <2>1, <2>3
  <2>5. AsOverlapped' /\ AsMerged' /\ OpenTo(FsDepth + 1)'
    <3>1. AsOverlapped /\ AsMerged /\ OpenTo(FsDepth + 1)
      BY <2>1 DEF SitesOpen
    <3>. QED  BY <2>1, <3>1 DEF AsOverlapped, AsMerged, OpenTo, ActSite, GnqSite, MidSite, InSite,
                                Streaming, Overlapped
  <2>6. PairsServed'
    BY <2>1, <2>4 DEF SitesOpen, PairsServed, Misfed, Streaming, Overlapped
  <2>. QED  BY <2>1, <2>5, <2>6 DEF SitesOpen
<1>9. CASE UNCHANGED fsVars
  BY <1>9, FsSame
<1>. QED  BY <1>1, <1>2, <1>3, <1>4, <1>5, <1>6, <1>7, <1>8, <1>9 DEF FsNext

\* Whatever linears a model has and whatever is switched on with the stream, each sum is
\* reduced once, and a forward is handed a pair it cannot read exactly in a misfed layer.
THEOREM PairsRead == FsSpec => [](ReducedOnce /\ PairsServed)
<1>1. FsInv /\ SitesOpen /\ [FsNext]_fsVars => SitesOpen'
  BY SitesOpenStep
<1>2. FsInv /\ SitesOpen => ReducedOnce /\ PairsServed
  BY DEF FsInv, HandedOn, SitesOpen, ReducedOnce
<1>. QED  BY <1>1, <1>2, FsInitOK, FsNextOK, PTL DEF FsSpec

-----------------------------------------------------------------------------
(* RotStream: a sum left partial is finished once                          *)

\* The kernels of every recurrent layer have loaded.
HipEverywhere == \A l \in RsLayers : l.kind = "gdn" => l.hip

RsFlags ==
    [{"rotIn", "rotMid", "arIn", "arMid", "gdn", "patched", "act", "gate", "rowReduces",
      "downReduces"} -> BOOLEAN]

RsTypeOK ==
    /\ rsPhase \in {"load", "install", "forward", "done"}
    /\ rsPhase # "load" => rsKnobs \in RsSwitches /\ rsModel \in [RsLayer -> RsLayers]
    /\ rsSites \in [RsLayer -> RsFlags]
    /\ rsAt \in 1 .. RsDepth + 1

\* A sum is left to an epilogue exactly if its own linear does not reduce it.
OneRsReducer ==
    /\ \A i \in RsLayer :
          /\ rsSites[i].arMid <=> ~rsSites[i].rowReduces
          /\ rsSites[i].arMid => rsSites[i].rotMid
          /\ i < RsDepth => (rsSites[i + 1].arIn <=> ~rsSites[i].downReduces)
    /\ ~rsSites[1].arIn /\ rsSites[RsDepth].downReduces

\* A site is only set where the layer can take what it is handed, and an input epilogue
\* that was granted is there once the installer has been at its layer.
SitesFit ==
    rsPhase # "load" => \A i \in RsLayer :
       /\ rsSites[i].arIn => rsModel[i].plain /\ InputTakes(i)
       /\ rsSites[i].arIn /\ (rsPhase # "install" \/ i < rsAt) => rsSites[i].patched /\ rsSites[i].rotIn
       /\ rsSites[i].rotIn => rsModel[i].in /\ (rsModel[i].kind = "gdn" => rsSites[i].gdn)
       /\ rsSites[i].rotMid => rsModel[i].mid
       /\ rsSites[i].act => rsModel[i].down
       /\ rsSites[i].gate => rsModel[i].row

RsUntouched ==
    /\ rsPhase = "load" => rsAt = 1 /\ \A i \in RsLayer : rsSites[i] = RsStock
    /\ rsPhase \in {"load", "install"} =>
          rsSum = 1 /\ \A i \in rsAt .. RsDepth : rsSites[i].rowReduces /\ rsSites[i].downReduces

RsHandedOn ==
    /\ rsPhase = "forward" =>
          rsSum = IF rsAt = 1 \/ rsSites[rsAt - 1].downReduces THEN 1 ELSE 0
    /\ rsFault = "none"

RsInv == RsTypeOK /\ OneRsReducer /\ SitesFit /\ RsUntouched /\ RsHandedOn

LEMMA RsLayerFacts ==
    /\ RsDepth \in Nat \ {0} /\ 1 \in RsLayer /\ RsDepth \in RsLayer
    /\ \A i \in RsLayer : i \in Nat \ {0} /\ i <= RsDepth /\ (i < RsDepth => i + 1 \in RsLayer)
                          /\ (i # 1 => i - 1 \in RsLayer)
    /\ \A i \in Nat : 1 <= i /\ i <= RsDepth => i \in RsLayer
BY RsAssumption DEF RsLayer

\* What one turn of the installer leaves of the sites.
LEMMA StreamInstalled ==
    ASSUME RsInv, InstallStream
    PROVE  /\ rsPhase = "install" /\ rsAt \in RsLayer /\ rsModel[rsAt].plain
           /\ rsAt' = rsAt + 1 /\ UNCHANGED <<rsPhase, rsKnobs, rsModel, rsSum, rsFault>>
           /\ rsSites' \in [RsLayer -> RsFlags]
           /\ \A j \in RsLayer \ {rsAt} :
                 rsSites'[j] = IF j = rsAt + 1 /\ NextReduces(rsAt) THEN [rsSites[j] EXCEPT !.arIn = TRUE]
                               ELSE rsSites[j]
           /\ rsSites'[rsAt].arIn = rsSites[rsAt].arIn
           /\ rsSites'[rsAt].rotIn <=> InputTakes(rsAt)
           /\ rsSites'[rsAt].gdn <=> InputTakes(rsAt) /\ rsModel[rsAt].kind = "gdn"
           /\ rsSites'[rsAt].rotMid <=> rsModel[rsAt].mid
           /\ rsSites'[rsAt].patched
           /\ rsSites'[rsAt].arMid <=> MidReduces(rsAt)
           /\ rsSites'[rsAt].rowReduces <=> rsSites[rsAt].rowReduces /\ ~MidReduces(rsAt)
           /\ rsSites'[rsAt].downReduces <=> rsSites[rsAt].downReduces /\ ~NextReduces(rsAt)
           /\ rsSites'[rsAt].act => rsModel[rsAt].down
           /\ rsSites'[rsAt].gate => rsModel[rsAt].row
<1>. DEFINE m == rsModel[rsAt]
            mid == MidReduces(rsAt)
            next == NextReduces(rsAt)
            takes == InputTakes(rsAt)
            gdn == InputTakes(rsAt) /\ m.kind = "gdn"
            act == rsKnobs.two /\ m.down
            gate == rsKnobs.two /\ m.row
            f == rsSites[rsAt]
            g == [f EXCEPT !.rotIn = takes, !.gdn = gdn, !.rotMid = m.mid, !.patched = TRUE,
                           !.arMid = mid, !.rowReduces = @ /\ ~mid, !.downReduces = @ /\ ~next,
                           !.act = act, !.gate = gate]
<1>1. /\ rsPhase = "install" /\ rsAt \in RsLayer /\ rsModel[rsAt].plain
      /\ rsAt' = rsAt + 1 /\ UNCHANGED <<rsPhase, rsKnobs, rsModel, rsSum, rsFault>>
      /\ rsSites' = [j \in RsLayer |-> IF j = rsAt THEN g
                                       ELSE IF j = rsAt + 1 /\ next THEN [rsSites[j] EXCEPT !.arIn = TRUE]
                                       ELSE rsSites[j]]
  BY DEF InstallStream, Fresh
<1>2. rsSites \in [RsLayer -> RsFlags] /\ f \in RsFlags /\ m \in RsLayers
  BY <1>1 DEF RsInv, RsTypeOK
<1>3. /\ mid \in BOOLEAN /\ next \in BOOLEAN /\ act \in BOOLEAN /\ gate \in BOOLEAN
      /\ takes \in BOOLEAN /\ gdn \in BOOLEAN
  BY DEF MidReduces, NextReduces, InputTakes
<1>4. m.mid \in BOOLEAN
  BY <1>2, RsAssumption
<1>5. (act => rsModel[rsAt].down) /\ (gate => rsModel[rsAt].row)
  OBVIOUS
<1>. HIDE DEF mid, next, act, gate, takes, gdn, f, m
<1>6. g \in RsFlags
  BY <1>2, <1>3, <1>4 DEF RsFlags
<1>7. g.arIn = f.arIn /\ g.rotIn = takes /\ g.gdn = gdn /\ g.rotMid = m.mid /\ g.patched = TRUE
  BY <1>2, <1>3, <1>4 DEF RsFlags
<1>8. g.arMid = mid /\ g.act = act /\ g.gate = gate
  BY <1>2, <1>3, <1>4 DEF RsFlags
<1>9. g.rowReduces = (f.rowReduces /\ ~mid) /\ g.downReduces = (f.downReduces /\ ~next)
  BY <1>2, <1>3, <1>4 DEF RsFlags
<1>. HIDE DEF g
<1>10. \A j \in RsLayer : [rsSites[j] EXCEPT !.arIn = TRUE] \in RsFlags
  BY <1>2 DEF RsFlags
<1>11. rsSites' \in [RsLayer -> RsFlags]
  BY <1>1, <1>2, <1>6, <1>10
<1>12. rsSites'[rsAt] = g
  BY <1>1
<1>13. \A j \in RsLayer \ {rsAt} :
          rsSites'[j] = IF j = rsAt + 1 /\ next THEN [rsSites[j] EXCEPT !.arIn = TRUE] ELSE rsSites[j]
  BY <1>1
<1>. USE <1>1, <1>5, <1>7, <1>8, <1>9, <1>11, <1>12, <1>13
<1>14. rsSites'[rsAt].rowReduces <=> rsSites[rsAt].rowReduces /\ ~mid
  BY DEF f
<1>15. rsSites'[rsAt].downReduces <=> rsSites[rsAt].downReduces /\ ~next
  BY DEF f
<1>16. /\ rsSites'[rsAt].arIn = rsSites[rsAt].arIn
       /\ rsSites'[rsAt].rotMid <=> rsModel[rsAt].mid
  BY DEF f, m
<1>17. /\ rsSites'[rsAt].rotIn <=> InputTakes(rsAt)
       /\ rsSites'[rsAt].gdn <=> InputTakes(rsAt) /\ rsModel[rsAt].kind = "gdn"
  BY DEF takes, gdn, m
<1>18. /\ rsSites'[rsAt].arMid <=> MidReduces(rsAt)
       /\ rsSites'[rsAt].act => rsModel[rsAt].down
       /\ rsSites'[rsAt].gate => rsModel[rsAt].row
       /\ rsSites'[rsAt].patched
  BY DEF mid
<1>. QED  BY <1>14, <1>15, <1>16, <1>17, <1>18 DEF mid, next

LEMMA RsInitOK == RsInit => RsInv
<1>. SUFFICES ASSUME RsInit PROVE RsInv
  OBVIOUS
<1>. USE RsLayerFacts DEF RsInit
<1>1. \A i \in RsLayer : rsSites[i] = RsStock
  OBVIOUS
<1>2. RsStock \in RsFlags
  <2>1. DOMAIN RsStock = {"rotIn", "rotMid", "arIn", "arMid", "gdn", "patched", "act", "gate",
                          "rowReduces", "downReduces"}
    BY DEF RsStock
  <2>2. RsStock = [k \in DOMAIN RsStock |-> RsStock[k]]
    BY DEF RsStock
  <2>3. \A k \in DOMAIN RsStock : RsStock[k] \in BOOLEAN
    <3>1. RsStock["rotIn"] \in BOOLEAN /\ RsStock["rotMid"] \in BOOLEAN /\ RsStock["arIn"] \in BOOLEAN
      BY DEF RsStock
    <3>2. RsStock["arMid"] \in BOOLEAN /\ RsStock["gdn"] \in BOOLEAN /\ RsStock["patched"] \in BOOLEAN
      BY DEF RsStock
    <3>3. RsStock["act"] \in BOOLEAN /\ RsStock["gate"] \in BOOLEAN
      BY DEF RsStock
    <3>4. RsStock["rowReduces"] \in BOOLEAN /\ RsStock["downReduces"] \in BOOLEAN
      BY DEF RsStock
    <3>. QED  BY <2>1, <3>1, <3>2, <3>3, <3>4
  <2>. QED  BY <2>1, <2>2, <2>3 DEF RsFlags
<1>3. RsTypeOK
  BY <1>2 DEF RsTypeOK
<1>4. /\ ~RsStock.arMid /\ ~RsStock.arIn /\ RsStock.rowReduces /\ RsStock.downReduces
  BY DEF RsStock
<1>5. OneRsReducer
  BY <1>1, <1>4 DEF OneRsReducer
<1>6. RsUntouched
  BY <1>1, <1>4 DEF RsUntouched, RsLayer
<1>7. RsHandedOn /\ SitesFit
  BY DEF RsHandedOn, SitesFit
<1>. QED  BY <1>3, <1>5, <1>6, <1>7 DEF RsInv

LEMMA RsNextOK == ASSUME HipEverywhere, RsInv, [RsNext]_rsVars PROVE RsInv'
<1>0. RsTypeOK /\ OneRsReducer /\ SitesFit /\ RsUntouched /\ RsHandedOn
  BY DEF RsInv
<1>. USE RsLayerFacts
<1>1. CASE RsLoad
  <2>1. /\ rsPhase = "load" /\ rsPhase' = "install" /\ UNCHANGED <<rsSites, rsAt, rsSum, rsFault>>
        /\ rsKnobs' \in RsSwitches /\ rsModel' \in [RsLayer -> RsLayers]
        /\ rsAt = 1 /\ \A i \in RsLayer : rsSites[i] = RsStock
    BY <1>0, <1>1 DEF RsLoad, RsUntouched
  <2>2. /\ ~RsStock.arIn /\ ~RsStock.rotIn /\ ~RsStock.rotMid /\ ~RsStock.act /\ ~RsStock.gate
    BY DEF RsStock
  <2>3. RsTypeOK'
    BY <1>0, <2>1 DEF RsTypeOK
  <2>4. OneRsReducer'
    BY <1>0, <2>1 DEF OneRsReducer
  <2>5. SitesFit'
    BY <2>1, <2>2 DEF SitesFit
  <2>6. RsUntouched' /\ RsHandedOn'
    BY <1>0, <2>1 DEF RsUntouched, RsHandedOn
  <2>. QED  BY <2>3, <2>4, <2>5, <2>6 DEF RsInv
<1>2. CASE SkipStream
  <2>1. /\ rsPhase = "install" /\ rsAt \in RsLayer /\ ~rsModel[rsAt].plain /\ rsAt' = rsAt + 1
        /\ UNCHANGED <<rsPhase, rsKnobs, rsModel, rsSites, rsSum, rsFault>>
    BY <1>2 DEF SkipStream
  <2>2. rsAt' \in 1 .. RsDepth + 1 /\ \A i \in rsAt' .. RsDepth : i \in rsAt .. RsDepth
    BY <2>1
  <2>3. RsTypeOK'
    BY <1>0, <2>1, <2>2 DEF RsTypeOK
  <2>4. OneRsReducer'
    BY <1>0, <2>1 DEF OneRsReducer
  <2>5. ~rsSites[rsAt].arIn
    BY <1>0, <2>1 DEF SitesFit
  <2>6. \A i \in RsLayer : i < rsAt' => i < rsAt \/ i = rsAt
    BY <2>1
  <2>7. SitesFit'
    <3>1. \A i : InputTakes(i)' <=> InputTakes(i)
      BY <2>1 DEF InputTakes
    <3>. QED  BY <1>0, <2>1, <2>5, <2>6, <3>1 DEF SitesFit
  <2>8. RsUntouched' /\ RsHandedOn'
    BY <1>0, <2>1, <2>2 DEF RsUntouched, RsHandedOn
  <2>. QED  BY <2>3, <2>4, <2>7, <2>8 DEF RsInv
<1>3. CASE InstallStream
  <2>0. PICK a : a = rsAt
    OBVIOUS
  <2>1. /\ rsPhase = "install" /\ a \in RsLayer /\ rsModel[a].plain /\ rsAt' = a + 1
        /\ UNCHANGED <<rsPhase, rsKnobs, rsModel, rsSum, rsFault>>
        /\ rsSites' \in [RsLayer -> RsFlags] /\ rsSites \in [RsLayer -> RsFlags]
    BY <1>0, <1>3, <2>0, StreamInstalled DEF RsTypeOK
  <2>2. ASSUME NEW i \in RsLayer \ {a}
        PROVE  /\ rsSites'[i].rowReduces = rsSites[i].rowReduces
               /\ rsSites'[i].downReduces = rsSites[i].downReduces
               /\ rsSites'[i].arMid = rsSites[i].arMid /\ rsSites'[i].rotMid = rsSites[i].rotMid
               /\ rsSites'[i].rotIn = rsSites[i].rotIn /\ rsSites'[i].gdn = rsSites[i].gdn
               /\ rsSites'[i].act = rsSites[i].act /\ rsSites'[i].gate = rsSites[i].gate
               /\ rsSites'[i].patched = rsSites[i].patched
               /\ rsSites'[i].arIn <=> rsSites[i].arIn \/ (i = a + 1 /\ NextReduces(a))
    <3>0. rsSites'[i] = IF i = a + 1 /\ NextReduces(a) THEN [rsSites[i] EXCEPT !.arIn = TRUE]
                        ELSE rsSites[i]
      BY <1>3, <2>0, StreamInstalled
    <3>1. CASE i = a + 1 /\ NextReduces(a)
      <4>1. rsSites'[i] = [rsSites[i] EXCEPT !.arIn = TRUE] /\ rsSites[i] \in RsFlags
        BY <2>1, <3>0, <3>1
      <4>. QED  BY <3>1, <4>1 DEF RsFlags
    <3>2. CASE ~(i = a + 1 /\ NextReduces(a))
      BY <3>0, <3>2
    <3>. QED  BY <3>1, <3>2
  <2>3. /\ rsSites'[a].arIn = rsSites[a].arIn
        /\ rsSites'[a].rotIn <=> InputTakes(a)
        /\ rsSites'[a].gdn <=> InputTakes(a) /\ rsModel[a].kind = "gdn"
        /\ rsSites'[a].rotMid <=> rsModel[a].mid
        /\ rsSites'[a].patched
        /\ rsSites'[a].arMid <=> MidReduces(a)
        /\ rsSites'[a].rowReduces <=> rsSites[a].rowReduces /\ ~MidReduces(a)
        /\ rsSites'[a].downReduces <=> rsSites[a].downReduces /\ ~NextReduces(a)
        /\ rsSites'[a].act => rsModel[a].down
        /\ rsSites'[a].gate => rsModel[a].row
    BY <1>3, <2>0, StreamInstalled
  <2>4. rsSites[a].rowReduces /\ rsSites[a].downReduces
    BY <1>0, <2>0, <2>1 DEF RsUntouched, RsLayer
  <2>5. MidReduces(a) => rsModel[a].mid
    BY DEF MidReduces
  <2>6. NextReduces(a) => /\ a < RsDepth /\ a + 1 \in RsLayer
                          /\ rsModel[a + 1].plain /\ InputTakes(a + 1)
    <3>1. \A i \in RsLayer : rsModel[i].kind = "gdn" => rsModel[i].hip
      BY <1>0, <2>1 DEF RsTypeOK, HipEverywhere
    <3>. QED  BY <2>1, <3>1 DEF NextReduces, InputTakes
  <2>7. RsTypeOK'
    BY <1>0, <2>1 DEF RsTypeOK
  <2>8. OneRsReducer'
    <3>1. ASSUME NEW i \in RsLayer
          PROVE  /\ (rsSites[i].arMid <=> ~rsSites[i].rowReduces)'
                 /\ (rsSites[i].arMid => rsSites[i].rotMid)'
      <4>1. CASE i = a
        BY <2>3, <2>4, <2>5, <4>1
      <4>2. CASE i # a
        BY <1>0, <2>2, <4>2 DEF OneRsReducer
      <4>. QED  BY <4>1, <4>2
    <3>2. ASSUME NEW i \in RsLayer, i < RsDepth
          PROVE  (rsSites[i + 1].arIn <=> ~rsSites[i].downReduces)'
      <4>1. i + 1 \in RsLayer /\ (rsSites[i + 1].arIn <=> ~rsSites[i].downReduces)
        BY <1>0, <3>2 DEF OneRsReducer
      <4>2. CASE i = a
        <5>1. i + 1 # a
          BY <2>1, <4>2
        <5>. QED  BY <2>2, <2>3, <2>4, <4>1, <4>2, <5>1
      <4>3. CASE i # a
        <5>1. i + 1 # a + 1
          BY <2>1, <4>3
        <5>. QED  BY <2>2, <2>3, <4>1, <4>3, <5>1
      <4>. QED  BY <4>2, <4>3
    <3>3. ~rsSites'[1].arIn
      <4>1. 1 # a + 1
        BY <2>1
      <4>. QED  BY <1>0, <2>2, <2>3, <4>1 DEF OneRsReducer
    <3>4. rsSites'[RsDepth].downReduces
      BY <1>0, <2>2, <2>3, <2>6 DEF OneRsReducer
    <3>. QED  BY <3>1, <3>2, <3>3, <3>4 DEF OneRsReducer
  <2>9. SitesFit'
    <3>. SUFFICES ASSUME NEW i \in RsLayer
                  PROVE  /\ rsSites'[i].arIn => rsModel[i].plain /\ InputTakes(i)
                         /\ rsSites'[i].arIn /\ i < rsAt' => rsSites'[i].patched /\ rsSites'[i].rotIn
                         /\ rsSites'[i].rotIn => rsModel[i].in /\ (rsModel[i].kind = "gdn" => rsSites'[i].gdn)
                         /\ rsSites'[i].rotMid => rsModel[i].mid
                         /\ rsSites'[i].act => rsModel[i].down
                         /\ rsSites'[i].gate => rsModel[i].row
      BY <2>1 DEF SitesFit, InputTakes
    <3>1. /\ rsSites[i].arIn => rsModel[i].plain /\ InputTakes(i)
          /\ rsSites[i].arIn /\ i < a => rsSites[i].patched /\ rsSites[i].rotIn
          /\ rsSites[i].rotIn => rsModel[i].in /\ (rsModel[i].kind = "gdn" => rsSites[i].gdn)
          /\ rsSites[i].rotMid => rsModel[i].mid
          /\ rsSites[i].act => rsModel[i].down
          /\ rsSites[i].gate => rsModel[i].row
      BY <1>0, <2>0, <2>1 DEF SitesFit
    <3>2. CASE i = a
      BY <2>3, <3>1, <3>2 DEF InputTakes
    <3>3. CASE i # a
      <4>1. i < rsAt' => i < a /\ i # a + 1
        BY <2>1, <3>3
      <4>. QED  BY <2>2, <2>6, <3>1, <3>3, <4>1
    <3>. QED  BY <3>2, <3>3
  <2>10. RsUntouched'
    <3>1. \A i \in a + 1 .. RsDepth : i \in RsLayer /\ i # a /\ rsSites[i].rowReduces /\ rsSites[i].downReduces
      BY <1>0, <2>0, <2>1 DEF RsUntouched, RsLayer
    <3>. QED  BY <1>0, <2>1, <2>2, <3>1 DEF RsUntouched
  <2>11. RsHandedOn'
    BY <1>0, <2>1 DEF RsHandedOn
  <2>. QED  BY <2>7, <2>8, <2>9, <2>10, <2>11 DEF RsInv
<1>4. CASE UndoGrants
  <2>1. /\ rsPhase = "install" /\ rsAt > RsDepth /\ rsPhase' = "forward" /\ rsAt' = 1
        /\ UNCHANGED <<rsKnobs, rsModel, rsSum, rsFault>> /\ rsSites \in [RsLayer -> RsFlags]
        /\ rsSites' = [i \in RsLayer |-> [rsSites[i] EXCEPT !.arIn = @ /\ rsSites[i].rotIn]]
    BY <1>0, <1>4 DEF UndoGrants, RsTypeOK
  <2>2. \A i \in RsLayer : i < rsAt
    BY <1>0, <2>1, RsAssumption DEF RsTypeOK, RsLayer
  <2>3. ASSUME NEW i \in RsLayer PROVE rsSites'[i] = rsSites[i]
    <3>1. rsSites[i] \in RsFlags /\ rsSites[i].arIn \in BOOLEAN /\ (rsSites[i].arIn => rsSites[i].rotIn)
      BY <1>0, <2>1, <2>2 DEF SitesFit, RsFlags
    <3>2. (rsSites[i].arIn /\ rsSites[i].rotIn) = rsSites[i].arIn
      BY <3>1
    <3>3. [rsSites[i] EXCEPT !.arIn = rsSites[i].arIn] = rsSites[i]
      BY <3>1 DEF RsFlags
    <3>4. rsSites'[i] = [rsSites[i] EXCEPT !.arIn = rsSites[i].arIn]
      BY <2>1, <3>2
    <3>. QED  BY <3>3, <3>4
  <2>4. rsSites' = rsSites
    BY <2>1, <2>3
  <2>5. RsTypeOK'
    BY <1>0, <2>1, <2>4 DEF RsTypeOK
  <2>6. OneRsReducer'
    BY <1>0, <2>4 DEF OneRsReducer
  <2>7. SitesFit'
    BY <1>0, <2>1, <2>2, <2>4 DEF SitesFit, InputTakes
  <2>8. RsUntouched' /\ RsHandedOn'
    BY <1>0, <2>1 DEF RsUntouched, RsHandedOn
  <2>. QED  BY <2>5, <2>6, <2>7, <2>8 DEF RsInv
<1>5. CASE RunLayer
  <2>0. PICK a : a = rsAt
    OBVIOUS
  <2>1. /\ rsPhase = "forward" /\ a \in RsLayer
        /\ rsSum' = Output(rsSites[a].downReduces)
        /\ rsAt' = a + 1 /\ UNCHANGED <<rsPhase, rsKnobs, rsModel, rsSites>>
        /\ rsFault' = IF InputSum(a, rsSum) # 1 THEN "input"
                      ELSE IF MidSum(a) # 1 THEN "mid"
                      ELSE IF ~TupleTaken(a) THEN "tuple" ELSE "none"
    BY <1>0, <1>5, <2>0 DEF RunLayer, RsHandedOn
  <2>2. InputSum(a, rsSum) = 1
    <3>1. CASE a = 1
      BY <1>0, <2>0, <2>1, <3>1 DEF RsHandedOn, InputSum
    <3>2. CASE a # 1
      <4>1. /\ a - 1 \in RsLayer /\ a - 1 < RsDepth /\ (a - 1) + 1 = a /\ a > 1
        BY <2>1, <3>2
      <4>2. rsSites[a].arIn <=> ~rsSites[a - 1].downReduces
        BY <1>0, <4>1 DEF OneRsReducer
      <4>3. rsSites[a].arIn => rsSites[a].patched /\ rsSites[a].rotIn
        BY <1>0, <2>1 DEF SitesFit
      <4>. QED  BY <1>0, <2>0, <2>1, <3>2, <4>1, <4>2, <4>3 DEF RsHandedOn, InputSum
    <3>. QED  BY <3>1, <3>2
  <2>3. MidSum(a) = 1
    BY <1>0, <2>1 DEF OneRsReducer, MidSum, Output
  <2>4. TupleTaken(a)
    BY <1>0, <2>1 DEF SitesFit, TupleTaken
  <2>5. RsTypeOK'
    BY <1>0, <2>1 DEF RsTypeOK
  <2>6. OneRsReducer'
    BY <1>0, <2>1 DEF OneRsReducer
  <2>7. SitesFit'
    BY <1>0, <2>1 DEF SitesFit, InputTakes
  <2>8. RsUntouched'
    BY <1>0, <2>1 DEF RsUntouched
  <2>9. rsAt' # 1 /\ rsAt' - 1 = a
    BY <2>1
  <2>10. RsHandedOn'
    BY <1>0, <2>1, <2>2, <2>3, <2>4, <2>9 DEF RsHandedOn, Output
  <2>. QED  BY <2>5, <2>6, <2>7, <2>8, <2>10 DEF RsInv
<1>6. CASE RunNorm
  <2>1. /\ rsPhase = "forward" /\ rsAt > RsDepth /\ rsPhase' = "done"
        /\ rsFault' = IF rsFault = "none" /\ rsSum # 1 THEN "norm" ELSE rsFault
        /\ UNCHANGED <<rsKnobs, rsModel, rsSites, rsAt, rsSum>>
    BY <1>6 DEF RunNorm
  <2>2. rsAt - 1 = RsDepth
    BY <1>0, <2>1 DEF RsTypeOK
  <2>3. rsSum = 1
    BY <1>0, <2>1, <2>2 DEF RsHandedOn, OneRsReducer
  <2>4. RsTypeOK' /\ OneRsReducer'
    BY <1>0, <2>1 DEF RsTypeOK, OneRsReducer
  <2>5. SitesFit'
    BY <1>0, <2>1 DEF SitesFit, InputTakes
  <2>6. RsUntouched' /\ RsHandedOn'
    BY <1>0, <2>1, <2>3 DEF RsUntouched, RsHandedOn
  <2>. QED  BY <2>4, <2>5, <2>6 DEF RsInv
<1>7. CASE UNCHANGED rsVars
  BY <1>0, <1>7 DEF rsVars, RsInv, RsTypeOK, OneRsReducer, SitesFit, RsUntouched, RsHandedOn, InputTakes
<1>. QED  BY <1>1, <1>2, <1>3, <1>4, <1>5, <1>6, <1>7 DEF RsNext

\* Where every recurrent layer has its kernels, the residual stream leaves every layer
\* whole: each partial sum reduced once, and a tuple handed only to a layer that rotates.
THEOREM StreamRotates == ASSUME HipEverywhere PROVE RsSpec => []StreamWhole
<1>1. RsInv /\ [RsNext]_rsVars => RsInv'
  BY RsNextOK
<1>2. RsInv => StreamWhole
  BY DEF RsInv, RsHandedOn, StreamWhole
<1>. QED  BY <1>1, <1>2, RsInitOK, PTL DEF RsSpec

-----------------------------------------------------------------------------
(* Sums of a sequence's first elements                                     *)

LEMMA HasLeast ==
    ASSUME NEW S, S # {}, S \subseteq Nat
    PROVE  \E x \in S : \A y \in S : x <= y
<1>. DEFINE R == OpToRel(<, Nat)
<1>1. IsWellFoundedOn(R, Nat)
  BY NatLessThanWellFounded
<1>2. PICK x \in S : \A y \in S : ~(<<y, x>> \in R)
  BY <1>1, WFMin
<1>3. ASSUME NEW y \in S PROVE ~(y < x)
  BY <1>2 DEF OpToRel
<1>. QED  BY <1>3

LEMMA EachStep ==
    ASSUME NEW S, 0 \in S, \A n \in Nat : n \in S => n + 1 \in S
    PROVE  \A n \in Nat : n \in S
<1>. SUFFICES ASSUME Nat \ S # {} PROVE FALSE
  OBVIOUS
<1>1. PICK x \in Nat \ S : \A y \in Nat \ S : x <= y
  BY HasLeast
<1>2. x - 1 \in Nat /\ x - 1 \notin Nat \ S
  BY <1>1
<1>3. x - 1 + 1 \in S
  BY <1>2
<1>. QED  BY <1>1, <1>3

\* A function that is defined by steps exists.
StepFunctions(n, D) == [1 .. n -> [D -> D]]
Unrolled(f, n, D, g, start) ==
    f \in [0 .. n -> D] /\ f[0] = start /\ \A i \in 1 .. n : f[i] = g[i][f[i - 1]]

LEMMA Unrolls ==
    ASSUME NEW n \in Nat, NEW D, NEW g \in StepFunctions(n, D), NEW start \in D
    PROVE  \E f : Unrolled(f, n, D, g, start)
<1>. SUFFICES \E f \in [0 .. n -> D] : f[0] = start /\ \A i \in 1 .. n : f[i] = g[i][f[i - 1]]
  BY DEF Unrolled
<1>0. g \in [1 .. n -> [D -> D]]
  BY DEF StepFunctions
<1>. DEFINE S == {k \in Nat : k <= n =>
                    \E f \in [0 .. k -> D] : f[0] = start /\ \A i \in 1 .. k : f[i] = g[i][f[i - 1]]}
<1>1. 0 \in S
  <2>1. [i \in 0 .. 0 |-> start] \in [0 .. 0 -> D] /\ [i \in 0 .. 0 |-> start][0] = start
    OBVIOUS
  <2>2. \A i \in 1 .. 0 : FALSE
    OBVIOUS
  <2>. QED  BY <2>1, <2>2
<1>2. ASSUME NEW k \in Nat, k \in S PROVE k + 1 \in S
  <2>. SUFFICES ASSUME k + 1 <= n
                PROVE  \E f \in [0 .. k + 1 -> D] :
                          f[0] = start /\ \A i \in 1 .. k + 1 : f[i] = g[i][f[i - 1]]
    OBVIOUS
  <2>1. PICK f \in [0 .. k -> D] : f[0] = start /\ \A i \in 1 .. k : f[i] = g[i][f[i - 1]]
    BY <1>2
  <2>2. f[k] \in D /\ k + 1 \in 1 .. n
    BY <2>1
  <2>3. PICK x \in D : x = g[k + 1][f[k]]
    BY <1>0, <2>2
  <2>4. PICK h : h = [i \in 0 .. k + 1 |-> IF i <= k THEN f[i] ELSE x]
    OBVIOUS
  <2>5. h \in [0 .. k + 1 -> D] /\ h[0] = start
    BY <2>1, <2>3, <2>4
  <2>6. ASSUME NEW i \in 1 .. k + 1 PROVE h[i] = g[i][h[i - 1]]
    <3>1. PICK j \in 0 .. k : j = i - 1
      OBVIOUS
    <3>2. h[j] = f[j]
      BY <2>4
    <3>3. CASE i <= k
      <4>1. i \in 1 .. k /\ h[i] = f[i] /\ f[i] = g[i][f[i - 1]]
        BY <2>1, <2>4, <3>3
      <4>. QED  BY <3>1, <3>2, <4>1
    <3>4. CASE i = k + 1
      <4>1. j = k /\ ~(i <= k)
        BY <3>1, <3>4
      <4>2. h[i] = x
        BY <2>4, <4>1
      <4>. QED  BY <2>3, <3>1, <3>2, <3>4, <4>1, <4>2
    <3>. QED  BY <3>3, <3>4
  <2>. QED  BY <2>5, <2>6
<1>. HIDE DEF S
<1>3. n \in S
  BY <1>1, <1>2, EachStep
<1>. QED  BY <1>3 DEF S

Counts(a, n) == Len(a) = n /\ \A i \in 1 .. n : a[i] \in Nat

LEMMA PartialSumsAre ==
    ASSUME NEW n \in Nat, NEW s, Counts(s, n)
    PROVE  /\ PartialSums(s) \in [0 .. n -> Nat]
           /\ PartialSums(s)[0] = 0
           /\ \A i \in 1 .. n : PartialSums(s)[i] = PartialSums(s)[i - 1] + s[i]
<1>. DEFINE d == CHOOSE f : f = [i \in 0 .. n |-> IF i = 0 THEN 0 ELSE f[i - 1] + s[i]]
            g == [i \in 1 .. n |-> [x \in Nat |-> x + s[i]]]
<1>1. n \in Nat /\ Len(s) = n /\ \A i \in 1 .. n : s[i] \in Nat
  BY DEF Counts
<1>2. g \in StepFunctions(n, Nat)
  BY <1>1 DEF StepFunctions
<1>3. PICK f \in [0 .. n -> Nat] : f[0] = 0 /\ \A i \in 1 .. n : f[i] = g[i][f[i - 1]]
  <2>. HIDE DEF g
  <2>1. \E f : Unrolled(f, n, Nat, g, 0)
    BY <1>1, <1>2, Unrolls
  <2>. QED  BY <2>1 DEF Unrolled
<1>4. ASSUME NEW i \in 1 .. n PROVE f[i] = f[i - 1] + s[i]
  <2>1. i - 1 \in 0 .. n
    BY <1>1
  <2>2. f[i - 1] \in Nat /\ f[i] = g[i][f[i - 1]]
    BY <1>3, <2>1
  <2>. QED  BY <2>2
<1>5. f = [i \in 0 .. n |-> IF i = 0 THEN 0 ELSE f[i - 1] + s[i]]
  <2>1. f = [i \in 0 .. n |-> f[i]]
    BY <1>3
  <2>2. ASSUME NEW i \in 0 .. n PROVE f[i] = IF i = 0 THEN 0 ELSE f[i - 1] + s[i]
    <3>1. CASE i = 0
      BY <1>3, <3>1
    <3>2. CASE i # 0
      <4>1. i \in 1 .. n
        BY <3>2
      <4>. QED  BY <1>4, <3>2, <4>1
    <3>. QED  BY <3>1, <3>2
  <2>. QED  BY <2>1, <2>2
<1>6. d = [i \in 0 .. n |-> IF i = 0 THEN 0 ELSE d[i - 1] + s[i]]
  <2>. QED  BY <1>5
<1>7. PartialSums(s) = d
  BY <1>1 DEF PartialSums
<1>8. d[0] = 0
  <2>. HIDE DEF d
  <2>. QED  BY <1>1, <1>6
<1>9. ASSUME NEW i \in 1 .. n PROVE d[i] = d[i - 1] + s[i]
  <2>1. i \in 0 .. n /\ i # 0
    BY <1>1
  <2>. HIDE DEF d
  <2>. QED  BY <1>6, <2>1
<1>10. \A i \in Nat : i <= n => d[i] \in Nat
  <2>. DEFINE S == {i \in Nat : i <= n => d[i] \in Nat}
  <2>. HIDE DEF d
  <2>1. 0 \in S
    BY <1>8
  <2>2. ASSUME NEW i \in Nat, i \in S PROVE i + 1 \in S
    <3>. SUFFICES ASSUME i + 1 <= n PROVE d[i + 1] \in Nat
      OBVIOUS
    <3>1. PICK k \in 1 .. n : k = i + 1
      OBVIOUS
    <3>2. d[k] = d[k - 1] + s[k] /\ k - 1 = i /\ s[k] \in Nat /\ d[i] \in Nat
      BY <1>1, <1>9, <2>2, <3>1
    <3>. QED  BY <3>1, <3>2
  <2>. HIDE DEF S
  <2>3. \A i \in Nat : i \in S
    BY <2>1, <2>2, EachStep
  <2>. QED  BY <2>3 DEF S
<1>11. d = [i \in 0 .. n |-> d[i]]
  <2>. HIDE DEF d
  <2>. QED  BY <1>6
<1>12. d \in [0 .. n -> Nat]
  <2>. HIDE DEF d
  <2>1. \A i \in 0 .. n : d[i] \in Nat
    BY <1>10
  <2>. QED  BY <1>11, <2>1
<1>. HIDE DEF d
<1>. QED  BY <1>7, <1>8, <1>9, <1>12

\* Sums grow, and do not where the sequence is zero.
LEMMA SumsBetween ==
    ASSUME NEW n \in Nat, NEW a, Counts(a, n),
           NEW lo \in 0 .. n, NEW hi \in lo .. n
    PROVE  /\ PartialSums(a)[lo] <= PartialSums(a)[hi]
           /\ (\A k \in lo + 1 .. hi : a[k] = 0) => PartialSums(a)[hi] = PartialSums(a)[lo]
<1>0. \A i \in 1 .. n : a[i] \in Nat
  BY DEF Counts
<1>1. PICK f \in [0 .. n -> Nat] : f = PartialSums(a) /\ \A i \in 1 .. n : f[i] = f[i - 1] + a[i]
  BY PartialSumsAre
<1>. DEFINE Still(h) == \A k \in lo + 1 .. h : a[k] = 0
            S == {k \in Nat : lo + k <= n =>
                      f[lo] <= f[lo + k] /\ (Still(lo + k) => f[lo + k] = f[lo])}
<1>2. 0 \in S
  BY <1>1
<1>3. ASSUME NEW k \in Nat, k \in S PROVE k + 1 \in S
  <2>. SUFFICES ASSUME lo + (k + 1) <= n
                PROVE  f[lo] <= f[lo + (k + 1)] /\ (Still(lo + (k + 1)) => f[lo + (k + 1)] = f[lo])
    OBVIOUS
  <2>1. PICK i \in 1 .. n, j \in 0 .. n : i = lo + (k + 1) /\ j = lo + k /\ j = i - 1
    OBVIOUS
  <2>2. f[i] = f[j] + a[i] /\ a[i] \in Nat /\ f[i] \in Nat /\ f[j] \in Nat /\ f[lo] \in Nat
    BY <1>0, <1>1, <2>1
  <2>3. f[lo] <= f[j] /\ (Still(j) => f[j] = f[lo])
    BY <1>3, <2>1
  <2>4. Still(i) => Still(j) /\ a[i] = 0
    BY <2>1
  <2>. HIDE DEF Still
  <2>. QED  BY <2>1, <2>2, <2>3, <2>4
<1>. HIDE DEF S
<1>4. \A k \in Nat : k \in S
  BY <1>2, <1>3, EachStep
<1>5. PICK k \in Nat : hi = lo + k /\ lo + k <= n
  <2>1. hi - lo \in Nat /\ hi = lo + (hi - lo)
    OBVIOUS
  <2>. QED  BY <2>1
<1>6. f[lo] <= f[lo + k] /\ (Still(lo + k) => f[lo + k] = f[lo])
  BY <1>4, <1>5 DEF S
<1>. QED  BY <1>1, <1>5, <1>6

LEMMA SumsStill ==
    ASSUME NEW n \in Nat, NEW a, Counts(a, n),
           NEW lo \in 0 .. n, NEW hi \in lo .. n, \A k \in lo + 1 .. hi : a[k] = 0
    PROVE  PartialSums(a)[hi] = PartialSums(a)[lo]
BY SumsBetween

LEMMA SumsGrow ==
    ASSUME NEW n \in Nat, NEW a, Counts(a, n),
           NEW lo \in 0 .. n, NEW hi \in lo .. n
    PROVE  PartialSums(a)[lo] <= PartialSums(a)[hi]
BY SumsBetween

\* Sums of smaller elements are smaller.
LEMMA SumsBelow ==
    ASSUME NEW n \in Nat, NEW a, Counts(a, n),
           NEW b, Counts(b, n),
           NEW m \in 0 .. n, \A i \in 1 .. m : a[i] <= b[i]
    PROVE  PartialSums(a)[m] <= PartialSums(b)[m]
<1>1. PICK f \in [0 .. n -> Nat] :
          f = PartialSums(a) /\ f[0] = 0 /\ \A i \in 1 .. n : f[i] = f[i - 1] + a[i]
  BY PartialSumsAre
<1>0. \A i \in 1 .. n : a[i] \in Nat /\ b[i] \in Nat
  BY DEF Counts
<1>2. PICK g \in [0 .. n -> Nat] :
          g = PartialSums(b) /\ g[0] = 0 /\ \A i \in 1 .. n : g[i] = g[i - 1] + b[i]
  BY PartialSumsAre
<1>. DEFINE S == {k \in Nat : k <= m => f[k] <= g[k]}
<1>3. 0 \in S
  BY <1>1, <1>2
<1>4. ASSUME NEW k \in Nat, k \in S PROVE k + 1 \in S
  <2>. SUFFICES ASSUME k + 1 <= m PROVE f[k + 1] <= g[k + 1]
    OBVIOUS
  <2>1. PICK i \in 1 .. n : i = k + 1 /\ i - 1 = k /\ i \in 1 .. m
    OBVIOUS
  <2>2. f[i] = f[k] + a[i] /\ g[i] = g[k] + b[i] /\ a[i] <= b[i]
    BY <1>1, <1>2, <2>1
  <2>3. a[i] \in Nat /\ b[i] \in Nat /\ f[k] \in Nat /\ g[k] \in Nat /\ f[k] <= g[k]
    BY <1>0, <1>1, <1>2, <1>4, <2>1
  <2>. QED  BY <2>1, <2>2, <2>3
<1>. HIDE DEF S
<1>5. \A k \in Nat : k \in S
  BY <1>3, <1>4, EachStep
<1>. QED  BY <1>1, <1>2, <1>5 DEF S

\* The sums of element by element sums.
LEMMA SumsAdd ==
    ASSUME NEW n \in Nat, NEW a, Counts(a, n),
           NEW b, Counts(b, n),
           NEW c, Len(c) = n, \A i \in 1 .. n : c[i] = a[i] + b[i],
           NEW m \in 0 .. n
    PROVE  PartialSums(c)[m] = PartialSums(a)[m] + PartialSums(b)[m]
<1>1. PICK f \in [0 .. n -> Nat] :
          f = PartialSums(a) /\ f[0] = 0 /\ \A i \in 1 .. n : f[i] = f[i - 1] + a[i]
  BY PartialSumsAre
<1>0. \A i \in 1 .. n : a[i] \in Nat /\ b[i] \in Nat
  BY DEF Counts
<1>2. PICK g \in [0 .. n -> Nat] :
          g = PartialSums(b) /\ g[0] = 0 /\ \A i \in 1 .. n : g[i] = g[i - 1] + b[i]
  BY PartialSumsAre
<1>3. PICK h \in [0 .. n -> Nat] :
          h = PartialSums(c) /\ h[0] = 0 /\ \A i \in 1 .. n : h[i] = h[i - 1] + c[i]
  <2>1. Counts(c, n)
    BY <1>0 DEF Counts
  <2>. QED  BY <2>1, PartialSumsAre
<1>. DEFINE S == {k \in Nat : k <= n => h[k] = f[k] + g[k]}
<1>4. 0 \in S
  BY <1>1, <1>2, <1>3
<1>5. ASSUME NEW k \in Nat, k \in S PROVE k + 1 \in S
  <2>. SUFFICES ASSUME k + 1 <= n PROVE h[k + 1] = f[k + 1] + g[k + 1]
    OBVIOUS
  <2>1. PICK i \in 1 .. n : i = k + 1 /\ i - 1 = k
    OBVIOUS
  <2>2. f[i] = f[k] + a[i] /\ g[i] = g[k] + b[i] /\ h[i] = h[k] + c[i] /\ c[i] = a[i] + b[i]
    BY <1>1, <1>2, <1>3, <2>1
  <2>3. a[i] \in Nat /\ b[i] \in Nat /\ k \in 0 .. n
    BY <1>0, <2>1
  <2>4. f[k] \in Nat /\ g[k] \in Nat
    BY <1>1, <1>2, <2>3
  <2>5. h[k] = f[k] + g[k]
    BY <1>5, <2>3
  <2>6. h[i] = f[i] + g[i]
    <3>1. PICK x \in Nat, y \in Nat, u \in Nat, v \in Nat : x = f[k] /\ y = g[k] /\ u = a[i] /\ v = b[i]
      BY <2>3, <2>4
    <3>2. f[i] = x + u /\ g[i] = y + v
      BY <2>2, <3>1
    <3>3. h[i] = (x + y) + (u + v)
      BY <2>2, <2>5, <3>1
    <3>. QED  BY <3>2, <3>3
  <2>. QED  BY <2>1, <2>6
<1>. HIDE DEF S
<1>6. \A k \in Nat : k \in S
  BY <1>4, <1>5, EachStep
<1>. QED  BY <1>1, <1>2, <1>3, <1>6 DEF S

-----------------------------------------------------------------------------
(* RotLinear: the runs of a linear's partitions                            *)

\* Runs are counted by their starts.
LEMMA RunCounts ==
    /\ RunOf(0) = 0
    /\ \A i \in Nat : RunOf(i) \in Nat
    /\ \A i \in Nat \ {0} : RunOf(i) = RunOf(i - 1) + (IF Starts(i) THEN 1 ELSE 0)
    /\ \A i, j \in Nat : i <= j => RunOf(i) <= RunOf(j)
<1>. DEFINE First(i) == {j \in 1 .. i : Starts(j)}
<1>1. \A i \in Nat : IsFiniteSet(First(i)) /\ RunOf(i) = Cardinality(First(i)) /\ RunOf(i) \in Nat
  <2>. TAKE i \in Nat
  <2>1. IsFiniteSet(1 .. i) /\ First(i) \subseteq 1 .. i
    BY FS_Interval
  <2>2. IsFiniteSet(First(i))
    BY <2>1, FS_Subset
  <2>. QED  BY <2>2, FS_CardinalityType DEF RunOf
<1>2. RunOf(0) = 0
  <2>1. First(0) = {}
    OBVIOUS
  <2>. QED  BY <2>1, FS_EmptySet DEF RunOf
<1>3. ASSUME NEW i \in Nat \ {0} PROVE RunOf(i) = RunOf(i - 1) + (IF Starts(i) THEN 1 ELSE 0)
  <2>1. PICK k \in Nat : k = i - 1 /\ i \in Nat
    OBVIOUS
  <2>2. CASE Starts(i)
    <3>1. First(i) = First(k) \cup {i} /\ i \notin First(k)
      BY <2>1, <2>2
    <3>. HIDE DEF First
    <3>2. Cardinality(First(k) \cup {i}) = Cardinality(First(k)) + 1
      BY <1>1, <2>1, <3>1, FS_AddElement
    <3>. QED  BY <1>1, <2>1, <2>2, <3>1, <3>2
  <2>3. CASE ~Starts(i)
    <3>1. First(i) = First(k)
      <4>1. \A j \in First(i) : j # i
        BY <2>3
      <4>. QED  BY <2>1, <4>1
    <3>. HIDE DEF First
    <3>2. RunOf(i) = RunOf(k) /\ RunOf(k) \in Nat
      BY <1>1, <2>1, <3>1
    <3>. QED  BY <2>1, <2>3, <3>2
  <2>. QED  BY <2>2, <2>3
<1>4. ASSUME NEW i \in Nat, NEW j \in Nat, i <= j PROVE RunOf(i) <= RunOf(j)
  <2>1. First(i) \subseteq First(j)
    BY <1>4
  <2>. HIDE DEF First
  <2>2. Cardinality(First(i)) <= Cardinality(First(j))
    BY <1>1, <2>1, FS_Subset
  <2>. QED  BY <1>1, <2>2
<1>. HIDE DEF First
<1>. QED  BY <1>1, <1>2, <1>3, <1>4

\* A run has one start, and the rotation of each of its partitions.
LEMMA RunStarts ==
    ASSUME NEW i \in Nat \ {0}
    PROVE  /\ \E j \in 1 .. i : Starts(j) /\ RunOf(j) = RunOf(i) /\ rlSlots[j] = rlSlots[i]
           /\ \A j, k \in Nat \ {0} : Starts(j) /\ Starts(k) /\ RunOf(j) = RunOf(k) => j = k
<1>. DEFINE Begun(k) == \E j \in 1 .. k : Starts(j) /\ RunOf(j) = RunOf(k) /\ rlSlots[j] = rlSlots[k]
            S == {k \in Nat : k # 0 => Begun(k)}
<1>1. 0 \in S
  OBVIOUS
<1>2. ASSUME NEW k \in Nat, k \in S PROVE k + 1 \in S
  <2>1. PICK m \in Nat \ {0} : m = k + 1 /\ m - 1 = k
    OBVIOUS
  <2>2. CASE Starts(m)
    <3>1. m \in 1 .. m
      OBVIOUS
    <3>. QED  BY <2>1, <2>2, <3>1
  <2>3. CASE ~Starts(m)
    <3>1. m # 1 /\ rlSlots[m] = rlSlots[k] /\ k # 0
      BY <2>1, <2>3 DEF Starts, Same
    <3>2. RunOf(m) = RunOf(k)
      BY <2>1, <2>3, RunCounts
    <3>3. PICK j \in 1 .. k : Starts(j) /\ RunOf(j) = RunOf(k) /\ rlSlots[j] = rlSlots[k]
      BY <1>2, <3>1
    <3>4. j \in 1 .. m
      BY <2>1
    <3>5. Begun(m)
      BY <3>1, <3>2, <3>3, <3>4
    <3>. QED  BY <2>1, <3>5
  <2>. QED  BY <2>2, <2>3
<1>3. \A k \in Nat : k \in S
  <2>. HIDE DEF S
  <2>. QED  BY <1>1, <1>2, EachStep
<1>4. Begun(i)
  BY <1>3
<1>5. ASSUME NEW j \in Nat \ {0}, NEW k \in Nat \ {0}, Starts(k), j < k PROVE RunOf(j) # RunOf(k)
  <2>1. PICK m \in Nat : m = k - 1 /\ j <= m
    BY <1>5
  <2>2. RunOf(k) = RunOf(m) + 1 /\ RunOf(j) <= RunOf(m) /\ RunOf(m) \in Nat /\ RunOf(j) \in Nat
    BY <1>5, <2>1, RunCounts
  <2>. QED  BY <2>2
<1>6. ASSUME NEW j \in Nat \ {0}, NEW k \in Nat \ {0}, Starts(j), Starts(k), RunOf(j) = RunOf(k)
      PROVE  j = k
  <2>1. ~(j < k) /\ ~(k < j)
    BY <1>5, <1>6
  <2>. QED  BY <2>1
<1>. QED  BY <1>4, <1>6

SlotsOf(n) ==
    /\ rlSlots = [i \in 1 .. n |-> rlSlots[i]]
    /\ rlShape.sizes \in Seq(Nat \ {0}) /\ Len(rlShape.sizes) = n

OfRun(p) == [i \in DOMAIN rlSlots |-> IF RunOf(i) = p THEN rlShape.sizes[i] ELSE 0]
UpToRun(p) == [i \in DOMAIN rlSlots |-> IF RunOf(i) <= p THEN rlShape.sizes[i] ELSE 0]
RunSizes == [p \in 1 .. RunOf(Len(rlSlots)) |-> SizeOfRun(p)]

LEMMA PartitionFacts ==
    ASSUME NEW n \in Nat \ {0}, SlotsOf(n)
    PROVE  /\ DOMAIN rlSlots = 1 .. n /\ Len(rlSlots) = n /\ RunOf(n) \in Nat \ {0}
           /\ \A i \in 1 .. n : rlShape.sizes[i] \in Nat \ {0} /\ RunOf(i) \in 1 .. RunOf(n)
           /\ Counts(rlShape.sizes, n) /\ Counts(RunSizes, RunOf(n))
           /\ \A p \in Nat : Counts(OfRun(p), n) /\ Counts(UpToRun(p), n)
           /\ \A p \in 1 .. RunOf(n) : RunSizes[p] = PartialSums(OfRun(p))[n]
<1>1. DOMAIN rlSlots = 1 .. n /\ Len(rlSlots) = n
  <2>1. PICK f : f = rlSlots
    OBVIOUS
  <2>2. f = [i \in 1 .. n |-> f[i]]
    BY <2>1 DEF SlotsOf
  <2>3. DOMAIN f = 1 .. n /\ Len(f) = n
    BY <2>2
  <2>. QED  BY <2>1, <2>3
<1>2. \A i \in 1 .. n : rlShape.sizes[i] \in Nat \ {0}
  BY DEF SlotsOf
<1>3. RunOf(1) = 1
  <2>1. Starts(1)
    BY DEF Starts
  <2>2. RunOf(1) = RunOf(1 - 1) + 1
    BY <2>1, RunCounts
  <2>. QED  BY <2>2, RunCounts
<1>4. \A i \in 1 .. n : RunOf(i) \in 1 .. RunOf(n) /\ RunOf(n) \in Nat \ {0}
  <2>1. \A i \in 1 .. n : RunOf(1) <= RunOf(i) /\ RunOf(i) <= RunOf(n) /\ RunOf(i) \in Nat /\ RunOf(n) \in Nat
    BY RunCounts
  <2>. QED  BY <1>3, <2>1
<1>5. ASSUME NEW p \in Nat
      PROVE  Counts(OfRun(p), n) /\ Counts(UpToRun(p), n)
  <2>1. PICK f, g : f = OfRun(p) /\ g = UpToRun(p)
    OBVIOUS
  <2>2. /\ f = [i \in 1 .. n |-> IF RunOf(i) = p THEN rlShape.sizes[i] ELSE 0]
        /\ g = [i \in 1 .. n |-> IF RunOf(i) <= p THEN rlShape.sizes[i] ELSE 0]
    BY <1>1, <2>1 DEF OfRun, UpToRun
  <2>3. Len(f) = n /\ Len(g) = n
    BY <2>2
  <2>4. \A i \in 1 .. n : f[i] \in Nat /\ g[i] \in Nat
    BY <1>2, <2>2
  <2>. QED  BY <2>1, <2>3, <2>4 DEF Counts
<1>6. \A p \in Nat : SizeOfRun(p) = PartialSums(OfRun(p))[n] /\ PartialSums(OfRun(p))[n] \in Nat
  <2>. TAKE p \in Nat
  <2>1. PartialSums(OfRun(p)) \in [0 .. n -> Nat]
    BY <1>5, PartialSumsAre
  <2>2. SizeOfRun(p) = PartialSums(OfRun(p))[n]
    BY <1>1 DEF SizeOfRun, OfRun
  <2>. QED  BY <2>1, <2>2
<1>7. /\ Counts(RunSizes, RunOf(n))
      /\ \A p \in 1 .. RunOf(n) : RunSizes[p] = PartialSums(OfRun(p))[n]
  <2>1. PICK r \in Nat : r = RunOf(n)
    BY RunCounts
  <2>2. RunSizes = [p \in 1 .. r |-> SizeOfRun(p)]
    BY <1>1, <2>1 DEF RunSizes
  <2>3. Len(RunSizes) = r
    BY <2>2
  <2>. QED  BY <1>6, <2>1, <2>2, <2>3 DEF Counts
<1>8. Counts(rlShape.sizes, n)
  BY <1>2 DEF Counts, SlotsOf
<1>. QED  BY <1>1, <1>2, <1>4, <1>5, <1>7, <1>8

\* A run's copy ends where its last partition does.
LEMMA RunsEnd ==
    ASSUME NEW n \in Nat \ {0}, SlotsOf(n)
    PROVE  \A p \in 0 .. RunOf(n) : PartialSums(RunSizes)[p] = PartialSums(UpToRun(p))[n]
<1>. DEFINE S == {p \in Nat : p <= RunOf(n) => PartialSums(RunSizes)[p] = PartialSums(UpToRun(p))[n]}
<1>0. PICK r \in Nat : r = RunOf(n)
  BY PartitionFacts
<1>1. PICK E : /\ r = RunOf(n) /\ E \in [0 .. r -> Nat] /\ E = PartialSums(RunSizes)
               /\ E[0] = 0 /\ \A p \in 1 .. r : E[p] = E[p - 1] + RunSizes[p]
  <2>1. PICK s : s = RunSizes
    OBVIOUS
  <2>2. Counts(s, r)
    BY <1>0, <2>1, PartitionFacts
  <2>3. /\ PartialSums(s) \in [0 .. r -> Nat] /\ PartialSums(s)[0] = 0
        /\ \A i \in 1 .. r : PartialSums(s)[i] = PartialSums(s)[i - 1] + s[i]
    BY <2>2, PartialSumsAre
  <2>. QED  BY <1>0, <2>1, <2>3
<1>2. 0 \in S
  <2>1. PICK u : u = UpToRun(0)
    OBVIOUS
  <2>2. \A i \in 1 .. n : u[i] = 0
    <3>1. \A i \in 1 .. n : RunOf(i) \in Nat \ {0}
      BY PartitionFacts
    <3>2. \A i \in 1 .. n : u[i] = IF RunOf(i) <= 0 THEN rlShape.sizes[i] ELSE 0
      BY <2>1, PartitionFacts DEF UpToRun
    <3>. QED  BY <3>1, <3>2
  <2>3. Counts(u, n)
    BY <2>1, PartitionFacts
  <2>4. PICK z \in 0 .. n : z = 0
    OBVIOUS
  <2>5. n \in z .. n /\ \A k \in z + 1 .. n : u[k] = 0
    BY <2>2, <2>4
  <2>6. PartialSums(u)[n] = PartialSums(u)[z]
    BY <2>3, <2>5, SumsStill
  <2>7. PartialSums(u)[0] = 0
    BY <2>3, PartialSumsAre
  <2>. QED  BY <1>1, <2>1, <2>4, <2>6, <2>7
<1>3. ASSUME NEW p \in Nat, p \in S PROVE p + 1 \in S
  <2>. SUFFICES ASSUME p + 1 <= r PROVE E[p + 1] = PartialSums(UpToRun(p + 1))[n]
    BY <1>1
  <2>1. PICK q \in 1 .. r : q = p + 1 /\ q - 1 = p
    OBVIOUS
  <2>2. PICK a, b, c : a = UpToRun(p) /\ b = OfRun(q) /\ c = UpToRun(q)
    OBVIOUS
  <2>3. Counts(a, n) /\ Counts(b, n) /\ Counts(c, n)
    BY <2>1, <2>2, PartitionFacts
  <2>4. \A i \in 1 .. n : c[i] = a[i] + b[i]
    <3>. TAKE i \in 1 .. n
    <3>1. /\ a[i] = IF RunOf(i) <= p THEN rlShape.sizes[i] ELSE 0
          /\ b[i] = IF RunOf(i) = q THEN rlShape.sizes[i] ELSE 0
          /\ c[i] = IF RunOf(i) <= q THEN rlShape.sizes[i] ELSE 0
      BY <2>2, PartitionFacts DEF UpToRun, OfRun
    <3>2. RunOf(i) \in Nat /\ rlShape.sizes[i] \in Nat
      <4>1. i \in Nat /\ rlShape.sizes[i] \in Nat \ {0}
        BY PartitionFacts
      <4>. QED  BY <4>1, RunCounts
    <3>3. PICK x \in Nat, s \in Nat : x = RunOf(i) /\ s = rlShape.sizes[i]
      BY <3>2
    <3>. QED  BY <2>1, <3>1, <3>3
  <2>5. n \in 0 .. n /\ n \in Nat
    OBVIOUS
  <2>6. PartialSums(c)[n] = PartialSums(a)[n] + PartialSums(b)[n]
    <3>1. Len(c) = n
      BY <2>3 DEF Counts
    <3>. QED  BY <2>3, <2>4, <2>5, <3>1, SumsAdd
  <2>7. E[q] = E[p] + PartialSums(b)[n]
    BY <1>1, <2>1, <2>2, PartitionFacts
  <2>8. E[p] = PartialSums(a)[n]
    BY <1>1, <1>3, <2>1, <2>2
  <2>. QED  BY <2>1, <2>2, <2>6, <2>7, <2>8
<1>. HIDE DEF S
<1>4. \A p \in Nat : p \in S
  BY <1>2, <1>3, EachStep
<1>. QED  BY <1>4, RunCounts DEF S

\* A partition lies in its run's copy.
LEMMA InItsCopy ==
    ASSUME NEW n \in Nat \ {0}, SlotsOf(n), NEW i \in 1 .. n
    PROVE  /\ Before(RunSizes, RunOf(i) - 1) <= Before(rlShape.sizes, i - 1)
           /\ Before(rlShape.sizes, i) <= Before(RunSizes, RunOf(i))
<1>1. PICK p \in Nat \ {0}, q \in Nat, j \in Nat : p = RunOf(i) /\ q = p - 1 /\ j = i - 1 /\ p \in 1 .. RunOf(n)
  BY PartitionFacts
<1>2. PICK a, b, s : a = UpToRun(q) /\ b = UpToRun(p) /\ s = rlShape.sizes
  OBVIOUS
<1>3. Counts(a, n) /\ Counts(b, n) /\ Counts(s, n)
  BY <1>1, <1>2, PartitionFacts
<1>0. \A k \in 1 .. n : s[k] \in Nat
  BY <1>3 DEF Counts
<1>4. /\ \A k \in 1 .. n : a[k] = IF RunOf(k) <= q THEN s[k] ELSE 0
      /\ \A k \in 1 .. n : b[k] = IF RunOf(k) <= p THEN s[k] ELSE 0
  BY <1>2, PartitionFacts DEF UpToRun
<1>5. /\ \A k \in 1 .. i : RunOf(k) <= p
      /\ \A k \in i .. n : ~(RunOf(k) <= q)
  <2>1. \A k \in 1 .. i : k \in Nat /\ i \in Nat /\ k <= i
    OBVIOUS
  <2>2. \A k \in i .. n : RunOf(k) \in Nat /\ p <= RunOf(k)
    BY <1>1, RunCounts
  <2>. QED  BY <1>1, <2>1, <2>2, RunCounts
<1>6. PartialSums(RunSizes)[q] = PartialSums(a)[n] /\ PartialSums(RunSizes)[p] = PartialSums(b)[n]
  <2>1. p \in 0 .. RunOf(n) /\ q \in 0 .. RunOf(n) /\ RunOf(n) \in Nat
    BY <1>1, PartitionFacts
  <2>. QED  BY <1>2, <2>1, RunsEnd
<1>7. PICK A \in [0 .. n -> Nat], B \in [0 .. n -> Nat], T \in [0 .. n -> Nat] :
          A = PartialSums(a) /\ B = PartialSums(b) /\ T = PartialSums(s)
  BY <1>3, PartialSumsAre
<1>8. A[n] <= T[j]
  <2>1. j \in 0 .. n /\ n \in j .. n /\ j + 1 = i
    BY <1>1
  <2>2. A[n] = A[j]
    <3>1. \A k \in j + 1 .. n : a[k] = 0
      BY <1>4, <1>5, <2>1
    <3>2. n \in Nat /\ j \in 0 .. n /\ n \in j .. n
      BY <2>1
    <3>3. PartialSums(a)[n] = PartialSums(a)[j]
      BY <1>3, <3>1, <3>2, SumsStill
    <3>. QED  BY <1>7, <3>3
  <2>3. \A k \in 1 .. j : a[k] <= s[k]
    <3>. TAKE k \in 1 .. j
    <3>1. k \in 1 .. n
      BY <2>1
    <3>2. s[k] \in Nat /\ a[k] = IF RunOf(k) <= q THEN s[k] ELSE 0
      BY <1>0, <1>4, <3>1
    <3>. QED  BY <3>2
  <2>4. A[j] <= T[j]
    BY <1>3, <1>7, <2>1, <2>3, SumsBelow
  <2>. QED  BY <2>2, <2>4
<1>9. T[i] <= B[n]
  <2>1. i \in 0 .. n /\ n \in i .. n
    OBVIOUS
  <2>2. \A k \in 1 .. i : s[k] <= b[k]
    BY <1>0, <1>4, <1>5
  <2>3. T[i] <= B[i]
    BY <1>3, <1>7, <2>1, <2>2, SumsBelow
  <2>4. B[i] <= B[n]
    BY <1>3, <1>7, <2>1, SumsGrow
  <2>. QED  BY <1>7, <2>1, <2>3, <2>4
<1>. QED  BY <1>1, <1>2, <1>6, <1>7, <1>8, <1>9 DEF Before

\* Partitions but for the last end at whole blocks.
LEMMA EvenStarts ==
    ASSUME NEW n \in Nat \ {0}, SlotsOf(n), Aligned(rlShape.sizes)
    PROVE  /\ \A i \in 0 .. n : Before(rlShape.sizes, i) \in Nat
           /\ \A i \in 0 .. n : i < n => Before(rlShape.sizes, i) % 2 = 0
<1>1. PICK s : s = rlShape.sizes
  OBVIOUS
<1>2. Counts(s, n) /\ \A i \in 1 .. n - 1 : s[i] % 2 = 0
  BY <1>1, PartitionFacts DEF Aligned, SlotsOf
<1>3. PICK f \in [0 .. n -> Nat] :
          f = PartialSums(s) /\ f[0] = 0 /\ \A i \in 1 .. n : f[i] = f[i - 1] + s[i]
  BY <1>2, PartialSumsAre
<1>. DEFINE S == {k \in Nat : k < n => f[k] % 2 = 0}
<1>4. 0 \in S
  BY <1>3
<1>5. ASSUME NEW k \in Nat, k \in S PROVE k + 1 \in S
  <2>. SUFFICES ASSUME k + 1 < n PROVE f[k + 1] % 2 = 0
    OBVIOUS
  <2>1. PICK i \in 1 .. n - 1 : i = k + 1 /\ i - 1 = k /\ i \in 1 .. n
    OBVIOUS
  <2>2. f[i] = f[k] + s[i] /\ s[i] % 2 = 0
    BY <1>2, <1>3, <2>1
  <2>3. s[i] \in Nat /\ k \in 0 .. n
    BY <1>2, <2>1 DEF Counts
  <2>4. f[k] \in Nat /\ f[k] % 2 = 0
    BY <1>3, <1>5, <2>1, <2>3
  <2>5. PICK x \in Nat, y \in Nat : x = f[k] /\ y = s[i]
    BY <2>3, <2>4
  <2>6. (x + y) % 2 = 0
    <3>1. x % 2 = 0 /\ y % 2 = 0
      BY <2>2, <2>4, <2>5
    <3>. QED  BY <3>1
  <2>. QED  BY <2>1, <2>2, <2>5, <2>6
<1>. HIDE DEF S
<1>6. \A k \in Nat : k \in S
  BY <1>4, <1>5, EachStep
<1>7. ASSUME NEW i \in 0 .. n PROVE f[i] \in Nat /\ (i < n => f[i] % 2 = 0)
  BY <1>3, <1>6 DEF S
<1>. QED  BY <1>1, <1>3, <1>7 DEF Before

\* The block that a column of a partition is in reads the copy of the partition's run.
LEMMA CopyIs ==
    ASSUME NEW n \in Nat \ {0}, SlotsOf(n), Aligned(rlShape.sizes), rlRuns = Runs,
           NEW i \in 1 .. n,
           NEW h \in Before(rlShape.sizes, i - 1) .. Before(rlShape.sizes, i) - 1
    PROVE  CopyRead(h - (h % 2)) = RunOf(i) /\ rlRuns[RunOf(i)].rotation = rlSlots[i]
<1>1. PICK r \in Nat : r = RunOf(n) /\ Len(rlSlots) = n /\ RunOf(i) \in 1 .. r
  BY PartitionFacts
<1>2. /\ DOMAIN rlRuns = 1 .. r /\ Len(rlRuns) = r
      /\ \A p \in 1 .. r : rlRuns[p].size = SizeOfRun(p)
  <2>1. PICK f : f = rlRuns
    OBVIOUS
  <2>2. f = [p \in 1 .. r |->
               [rotation |-> rlSlots[CHOOSE j \in DOMAIN rlSlots : RunOf(j) = p /\ Starts(j)],
                size |-> SizeOfRun(p)]]
    BY <1>1, <2>1 DEF Runs
  <2>. QED  BY <2>1, <2>2
<1>3. rlRuns[RunOf(i)].rotation = rlSlots[i]
  <2>1. rlRuns[RunOf(i)].rotation =
            rlSlots[CHOOSE j \in DOMAIN rlSlots : RunOf(j) = RunOf(i) /\ Starts(j)]
    BY <1>1 DEF Runs
  <2>2. PICK k \in 1 .. i : Starts(k) /\ RunOf(k) = RunOf(i) /\ rlSlots[k] = rlSlots[i]
    BY RunStarts
  <2>3. k \in DOMAIN rlSlots /\ DOMAIN rlSlots = 1 .. n
    BY PartitionFacts
  <2>4. \A j \in DOMAIN rlSlots : RunOf(j) = RunOf(i) /\ Starts(j) => j = k
    BY <2>2, <2>3, RunStarts
  <2>5. (CHOOSE j \in DOMAIN rlSlots : RunOf(j) = RunOf(i) /\ Starts(j)) = k
    BY <2>2, <2>3, <2>4
  <2>. QED  BY <2>1, <2>2, <2>5
<1>4. RunSizes = [p \in DOMAIN rlRuns |-> rlRuns[p].size]
  BY <1>1, <1>2 DEF RunSizes
<1>5. PICK g : g = h - (h % 2)
  OBVIOUS
<1>6. PICK E \in [0 .. r -> Nat] : E = PartialSums(RunSizes)
  <2>1. Counts(RunSizes, r)
    BY <1>1, PartitionFacts
  <2>. QED  BY <2>1, PartialSumsAre
<1>7. \A p, q \in 0 .. r : p <= q => E[p] <= E[q]
  <2>. SUFFICES ASSUME NEW p \in 0 .. r, NEW q \in 0 .. r, p <= q PROVE E[p] <= E[q]
    OBVIOUS
  <2>1. Counts(RunSizes, r) /\ q \in p .. r
    BY <1>1, PartitionFacts
  <2>. QED  BY <1>6, <2>1, SumsGrow
<1>8. PICK p \in 1 .. r, o \in 0 .. r : p = RunOf(i) /\ o = p - 1
  BY <1>1
<1>9. g \in Nat /\ E[o] <= g /\ g < E[p]
  <2>1. PICK j \in 0 .. n : j = i - 1 /\ j < n
    OBVIOUS
  <2>2. PICK lo \in Nat, hi \in Nat : lo = Before(rlShape.sizes, j) /\ hi = Before(rlShape.sizes, i)
    <3>1. i \in 0 .. n
      OBVIOUS
    <3>2. Before(rlShape.sizes, j) \in Nat /\ Before(rlShape.sizes, i) \in Nat
      <4>1. \A k \in 0 .. n : Before(rlShape.sizes, k) \in Nat
        BY EvenStarts
      <4>. QED  BY <3>1, <4>1
    <3>. QED  BY <3>2
  <2>3. lo % 2 = 0
    BY <2>1, <2>2, EvenStarts
  <2>4. E[o] <= lo /\ hi <= E[p]
    BY <1>6, <1>8, <2>1, <2>2, InItsCopy DEF Before
  <2>5. h \in lo .. hi - 1
    BY <2>1, <2>2
  <2>6. g \in Nat /\ lo <= g /\ g < hi
    BY <1>5, <2>3, <2>5
  <2>7. E[o] \in Nat /\ E[p] \in Nat
    BY <1>6, <1>8
  <2>. QED  BY <2>2, <2>4, <2>6, <2>7
<1>. DEFINE Fits(q) == Before(RunSizes, q - 1) <= g /\ (g < Before(RunSizes, q) \/ q = Len(rlRuns))
<1>10. Fits(p)
  BY <1>6, <1>8, <1>9 DEF Before
<1>11. ASSUME NEW q \in 1 .. r, Fits(q) PROVE q = p
  <2>1. PICK m \in 0 .. r : m = q - 1
    OBVIOUS
  <2>2. E[m] <= g /\ (g < E[q] \/ q = r)
    BY <1>2, <1>6, <1>11, <2>1 DEF Before
  <2>3. E[m] \in Nat /\ E[q] \in Nat /\ E[o] \in Nat /\ E[p] \in Nat
    BY <1>6, <1>8, <2>1
  <2>4. CASE p < q
    <3>1. E[p] <= E[m]
      BY <1>7, <2>1, <2>4
    <3>. QED  BY <1>9, <2>2, <2>3, <3>1
  <2>5. CASE q < p
    <3>1. E[q] <= E[o] /\ q # r
      BY <1>7, <1>8, <2>5
    <3>. QED  BY <1>9, <2>2, <2>3, <3>1
  <2>. QED  BY <2>4, <2>5
<1>12. CopyRead(g) = CHOOSE q \in DOMAIN rlRuns : Fits(q)
  BY <1>4 DEF CopyRead
<1>. HIDE DEF Fits
<1>13. CopyRead(g) = p
  BY <1>2, <1>10, <1>11, <1>12
<1>. QED  BY <1>3, <1>5, <1>8, <1>13

-----------------------------------------------------------------------------
(* RotLinear: the invariant, and the theorem                               *)

\* What has been read of the checkpoint is in its partitions' slots.
Loaded ==
    /\ rlMode \in RlModes /\ rlShape \in RlShapes /\ Aligned(rlShape.sizes)
    /\ rlSlots = [i \in DOMAIN rlShape.sizes |-> rlSlots[i]]
    /\ rlLeft \subseteq rlShape.tensors
    /\ \A t \in rlShape.tensors : t \notin rlLeft => \A i \in t.slots : rlSlots[i] = t.rotation

RlInv ==
    /\ rlPhase \in {"create", "load", "serve", "refused"}
    /\ rlPhase \in {"load", "serve"} => Loaded
    /\ rlPhase = "serve" => rlLeft = {} /\ rlRuns = Runs
    /\ rlCall.read = rlCall.written

\* On either side of every threshold the GEMM reads what has been written.
LEMMA CallsMatch ==
    ASSUME NEW m \in RlRows, rlMode \in RlModes
    PROVE  /\ ReadX(m) = WrittenX(m)
           /\ \A stream \in BOOLEAN : Read4(m) = Written4(m, stream)
<1>1. ReadX(m) = WrittenX(m)
  BY DEF ReadX, WrittenX, TiledX
<1>2. ASSUME NEW stream \in BOOLEAN PROVE Read4(m) = Written4(m, stream)
  <2>1. CASE stream /\ UsesTuple(m)
    <3>1. PICK d \in Nat : d = rlMode.decodeMax /\ m \in Nat
      BY RotLinearAssumption
    <3>2. m <= d /\ ~(m > d)
      BY <2>1, <3>1 DEF UsesTuple
    <3>3. ~Tiled4(m) /\ ~PerToken(m)
      BY <3>1, <3>2 DEF Tiled4, GroupTiled, PerToken
    <3>4. Read4(m) = Codes("row", "group", TRUE)
      BY <3>3 DEF Read4
    <3>5. (m <= d) = TRUE
      BY <3>2
    <3>6. Written4(m, stream) = Codes("row", "group", TRUE)
      BY <2>1, <3>1, <3>5 DEF Written4, StreamTuple4
    <3>. QED  BY <3>4, <3>6
  <2>2. CASE ~(stream /\ UsesTuple(m))
    BY <2>2 DEF Written4, Read4
  <2>. QED  BY <2>1, <2>2
<1>. QED  BY <1>1, <1>2

LEMMA RlInitOK == RlInit => RlInv
BY DEF RlInit, RlInv, NotCalled

LEMMA RlNextOK == RlInv /\ [RlNext]_rlVars => RlInv'
<1>. SUFFICES ASSUME RlInv, [RlNext]_rlVars PROVE RlInv'
  OBVIOUS
<1>1. CASE CreateLinear
  <2>1. PICK m \in RlModes, s \in RlShapes :
            /\ rlMode' = m /\ rlShape' = s /\ rlSlots' = [i \in DOMAIN s.sizes |-> NoRotation]
            /\ rlLeft' = s.tensors
            /\ rlPhase' = IF Aligned(s.sizes) THEN "load" ELSE "refused"
    BY <1>1 DEF CreateLinear
  <2>2. rlCall' = rlCall
    BY <1>1 DEF CreateLinear
  <2>3. rlPhase' = "load" => Loaded'
    <3>1. \A t \in s.tensors : ~(t \notin rlLeft')
      BY <2>1
    <3>2. rlSlots' = [i \in DOMAIN rlShape'.sizes |-> rlSlots'[i]]
      BY <2>1
    <3>. QED  BY <2>1, <3>1, <3>2 DEF Loaded, Aligned
  <2>. QED  BY <2>1, <2>2, <2>3 DEF RlInv
<1>2. CASE LoadRotation
  <2>1. PICK t \in rlLeft :
            /\ rlSlots' = [i \in DOMAIN rlSlots |-> IF i \in Indices(t.slots) THEN t.rotation ELSE rlSlots[i]]
            /\ rlLeft' = rlLeft \ {t}
    BY <1>2 DEF LoadRotation
  <2>2. /\ rlPhase = "load" /\ rlPhase' = "load" /\ rlMode' = rlMode /\ rlShape' = rlShape
        /\ rlRuns' = rlRuns /\ rlCall' = rlCall /\ Loaded
    BY <1>2 DEF LoadRotation, RlInv
  <2>3. DOMAIN rlSlots = DOMAIN rlShape.sizes
    BY <2>2 DEF Loaded
  <2>4. t \in rlShape.tensors /\ rlLeft' \subseteq rlShape.tensors /\ rlShape \in RlShapes
    BY <2>1, <2>2 DEF Loaded
  <2>5. ASSUME NEW u \in rlShape.tensors, u \notin rlLeft', NEW i \in u.slots
        PROVE  rlSlots'[i] = u.rotation
    <3>1. i \in DOMAIN rlSlots
      BY <2>3, <2>4, RotLinearAssumption
    <3>2. rlSlots'[i] = IF i \in t.slots THEN t.rotation ELSE rlSlots[i]
      BY <2>1, <3>1 DEF Indices
    <3>3. CASE u = t
      BY <3>2, <3>3
    <3>4. CASE u # t
      <4>1. i \notin t.slots
        BY <2>4, <3>4, RotLinearAssumption
      <4>2. u \notin rlLeft
        BY <2>1, <2>5, <3>4
      <4>3. rlSlots[i] = u.rotation
        BY <2>2, <4>2 DEF Loaded
      <4>. QED  BY <3>2, <4>1, <4>3
    <3>. QED  BY <3>3, <3>4
  <2>6. rlSlots' = [i \in DOMAIN rlShape'.sizes |-> rlSlots'[i]]
    <3>1. DOMAIN rlSlots' = DOMAIN rlShape'.sizes /\ rlSlots' = [i \in DOMAIN rlSlots' |-> rlSlots'[i]]
      BY <2>1, <2>2, <2>3
    <3>. QED  BY <3>1
  <2>7. Loaded'
    BY <2>2, <2>4, <2>5, <2>6 DEF Loaded, Aligned
  <2>. QED  BY <2>2, <2>7 DEF RlInv
<1>3. CASE ProcessRotations
  <2>1. /\ rlPhase = "load" /\ rlLeft = {} /\ rlPhase' \in {"refused", "serve"} /\ rlRuns' = Runs
        /\ rlMode' = rlMode /\ rlShape' = rlShape /\ rlSlots' = rlSlots /\ rlLeft' = rlLeft
        /\ rlCall' = rlCall
    BY <1>3 DEF ProcessRotations
  <2>2. Runs' = Runs
    BY <2>1 DEF Runs, RunOf, Starts, SizeOfRun, Same
  <2>3. Loaded'
    BY <2>1 DEF Loaded, RlInv, Aligned
  <2>. QED  BY <2>1, <2>2, <2>3 DEF RlInv
<1>4. CASE CallLinear
  <2>1. /\ rlPhase = "serve" /\ rlPhase' = rlPhase /\ rlMode' = rlMode /\ rlShape' = rlShape
        /\ rlSlots' = rlSlots /\ rlLeft' = rlLeft /\ rlRuns' = rlRuns
    BY <1>4 DEF CallLinear
  <2>2. rlCall'.read = rlCall'.written
    <3>1. PICK m \in RlRows, stream \in BOOLEAN :
              rlCall' = IF rlMode.method = "mxfp4" THEN [written |-> WrittenX(m), read |-> ReadX(m)]
                        ELSE [written |-> Written4(m, stream), read |-> Read4(m)]
      BY <1>4 DEF CallLinear
    <3>2. ReadX(m) = WrittenX(m) /\ Read4(m) = Written4(m, stream)
      BY <2>1, CallsMatch DEF RlInv, Loaded
    <3>. QED  BY <3>1, <3>2
  <2>3. Runs' = Runs
    BY <2>1 DEF Runs, RunOf, Starts, SizeOfRun, Same
  <2>4. Loaded'
    BY <2>1 DEF Loaded, RlInv, Aligned
  <2>. QED  BY <2>1, <2>2, <2>3, <2>4 DEF RlInv
<1>5. CASE UNCHANGED rlVars
  <2>1. /\ rlPhase' = rlPhase /\ rlMode' = rlMode /\ rlShape' = rlShape /\ rlCall' = rlCall
        /\ rlSlots' = rlSlots /\ rlLeft' = rlLeft /\ rlRuns' = rlRuns
    BY <1>5 DEF rlVars
  <2>2. Runs' = Runs
    BY <2>1 DEF Runs, RunOf, Starts, SizeOfRun, Same
  <2>3. Loaded => Loaded'
    BY <2>1 DEF Loaded, Aligned
  <2>. QED  BY <2>1, <2>2, <2>3 DEF RlInv
<1>. QED  BY <1>1, <1>2, <1>3, <1>4, <1>5 DEF RlNext

LEMMA RlInvMeans == RlInv => RotatedRight
<1>. SUFFICES ASSUME RlInv, rlPhase = "serve",
                     NEW i \in DOMAIN rlShape.sizes,
                     NEW h \in Before(rlShape.sizes, i - 1) .. Before(rlShape.sizes, i) - 1
              PROVE  rlRuns[CopyRead(h - (h % 2))].rotation = Trained(i)
  BY DEF RlInv, RotatedRight, ColumnsRotated
<1>1. Loaded /\ rlLeft = {} /\ rlRuns = Runs
  BY DEF RlInv
<1>2. rlShape \in RlShapes /\ Aligned(rlShape.sizes)
  BY <1>1 DEF Loaded
<1>3. PICK n \in Nat \ {0} : n = Len(rlShape.sizes) /\ DOMAIN rlShape.sizes = 1 .. n
  <2>1. rlShape.sizes \in Seq(Nat \ {0}) /\ rlShape.sizes # <<>>
    BY <1>2, RotLinearAssumption
  <2>2. Len(rlShape.sizes) \in Nat /\ DOMAIN rlShape.sizes = 1 .. Len(rlShape.sizes)
        /\ Len(rlShape.sizes) # 0
    BY <2>1, LenProperties, EmptySeq
  <2>. QED  BY <2>2
<1>4. SlotsOf(n)
  BY <1>1, <1>2, <1>3, RotLinearAssumption DEF SlotsOf, Loaded
<1>5. i \in 1 .. n
  BY <1>3
<1>6. rlRuns[CopyRead(h - (h % 2))].rotation = rlSlots[i]
  BY <1>1, <1>2, <1>4, <1>5, CopyIs
<1>7. PICK t \in rlShape.tensors : i \in t.slots
  BY <1>2, RotLinearAssumption
<1>8. \A u \in rlShape.tensors : i \in u.slots => u = t
  BY <1>2, <1>7, RotLinearAssumption
<1>9. Trained(i) = t.rotation
  <2>1. (CHOOSE u \in rlShape.tensors : i \in u.slots) = t
    BY <1>7, <1>8
  <2>. QED  BY <2>1 DEF Trained
<1>10. rlSlots[i] = t.rotation
  BY <1>1, <1>7 DEF Loaded
<1>. QED  BY <1>6, <1>9, <1>10

\* Whatever order the checkpoint's tensors come in and however the partitions merge into
\* runs, every column of a merged linear is multiplied by activations in its own
\* projection's rotation, and its GEMM reads codes that have been written, in the layout and
\* with the grain of scales they were written with: for any partitions whose inner ends are
\* at whole blocks, any thresholds and any number of rows.
THEOREM LinearsRotate == RlSpec => []RotatedRight
BY RlInitOK, RlNextOK, RlInvMeans, PTL DEF RlSpec

-----------------------------------------------------------------------------
(* The parts together                                                      *)

LEMMA SplitBehaves == MCSpec => SkSpec
<1>1. MCInit => SkInit
  BY DEF MCInit
<1>2. [MCNext]_all => [SkNext]_skVars
  BY DEF MCNext, all, skVars
<1>. QED  BY <1>1, <1>2, PTL DEF MCSpec, SkSpec

LEMMA OverlapBehaves == MCSpec => AoSpec
<1>1. MCInit => AoInit
  BY DEF MCInit
<1>2. [MCNext]_all => [AoNext]_aoVars
  BY DEF MCNext, all, aoVars
<1>. QED  BY <1>1, <1>2, PTL DEF MCSpec, AoSpec

LEMMA Fp8StreamBehaves == MCSpec => FsSpec
<1>1. MCInit => FsInit
  BY DEF MCInit
<1>2. [MCNext]_all => [FsNext]_fsVars
  BY DEF MCNext, all, fsVars
<1>. QED  BY <1>1, <1>2, PTL DEF MCSpec, FsSpec

LEMMA RotStreamBehaves == MCSpec => RsSpec
<1>1. MCInit => RsInit
  BY DEF MCInit
<1>2. [MCNext]_all => [RsNext]_rsVars
  BY DEF MCNext, all, rsVars
<1>. QED  BY <1>1, <1>2, PTL DEF MCSpec, RsSpec

\* Partial products meet once, whatever runs first and for any number of threads,
\* slabs, launches, rows and calls: the slabs of a split GEMM in the block that arrives
\* last, which also leaves the counter at zero for the next launch, and the slices of an
\* overlapped all-reduce in their own call's output.
THEOREM PartialsMeet == MCSpec => []PartialsOnce
BY SplitBehaves, OverlapBehaves, SplitSums, OverlapSafe, PTL DEF PartialsOnce

\* Whichever layers of a model of any depth can be fused, every partial sum is reduced
\* exactly once between its producer and its reader; an fp8 pair reaches a linear that
\* cannot take it exactly in a misfed layer, and a rotated tuple never does, where every
\* recurrent layer has its kernels (the run rot_stream shows the case without).
THEOREM StreamsReduceOnce == ASSUME HipEverywhere PROVE MCSpec => []StreamSound
BY Fp8StreamBehaves, RotStreamBehaves, PairsRead, StreamRotates, PTL DEF StreamSound
=============================================================================
