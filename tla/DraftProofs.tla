----------------------------- MODULE DraftProofs -----------------------------
(***************************************************************************)
(* Theorems about the width of a draft (MCDraft): the controller's types,  *)
(* that decisions are final, that deferring them changes none of them, and *)
(* that every request is handed the draft it would have got alone          *)
(* (DraftGate, DraftOverlap); and that the width a request verifies is its *)
(* own doing (DynWidth).                                                   *)
(***************************************************************************)
EXTENDS MCDraft, FiniteSetTheorems, WellFoundedInduction, TLAPS

-----------------------------------------------------------------------------
(* One row                                                                 *)

\* A product of two confidences is a confidence.
LEMMA CumRange ==
    ASSUME NEW s \in Nat \ {0}, NEW x \in 0 .. s, NEW y \in 0 .. s
    PROVE  (x * y) \div s \in 0 .. s
<1>1. x * y \in Nat /\ x * y <= s * s
  OBVIOUS
<1>2. (x * y) \div s \in Nat /\ (x * y) \div s <= s
  BY <1>1
<1>. QED  BY <1>2

\* What a decision does to the record of one request.
LEMMA DecideRow ==
    ASSUME NEW g \in GateRow, NEW a \in Inputs, NEW j \in Slots, NEW d \in Slots,
           NEW c \in 0 .. NSpec - 1
    PROVE  /\ Decide(g, a, j, d, c) \in GateRow
           /\ Decide(g, a, j, d, c).stopped \/ ~Decide(g, a, j, d, c).allagree
           /\ g.stopped => /\ Decide(g, a, j, d, c).stopped
                           /\ Decide(g, a, j, d, c).sslot = g.sslot
                           /\ Decide(g, a, j, d, c).saction = g.saction
<1>. USE GateAssumption
<1>1. (g.cum * a.conf[d]) \div Scale \in 0 .. Scale
  <2>1. g.cum \in 0 .. Scale /\ a.conf[d] \in 0 .. Scale
    BY DEF GateRow, Inputs, Slots
  <2>. QED  BY <2>1, CumRange
<1>2. j + 1 \in 0 .. NSpec /\ j \in 0 .. NSpec
  BY DEF Slots
<1>. DEFINE act == Action(g, a, j)
<1>3. act \in {Continue, TakeNgram, Verify}
  BY DEF Action
<1>4. j \in a.agree => act = TakeNgram
  BY DEF Action
<1>5. Decide(g, a, j, d, c) =
        [cum |-> (g.cum * a.conf[d]) \div Scale,
         stopped |-> (g.stopped \/ act # Continue)
                        \/ (CapHit(c, j) /\ ~(g.stopped \/ act # Continue)),
         allagree |-> g.allagree /\ (j \in a.agree \/ (g.stopped \/ act # Continue)),
         sslot |-> IF CapHit(c, j) /\ ~(g.stopped \/ act # Continue) THEN j + 1
                   ELSE IF ~g.stopped /\ act # Continue THEN j ELSE g.sslot,
         saction |-> IF (CapHit(c, j) /\ ~(g.stopped \/ act # Continue))
                         /\ (g.allagree /\ (j \in a.agree \/ (g.stopped \/ act # Continue)))
                     THEN TakeNgram
                     ELSE IF ~g.stopped /\ act # Continue THEN act ELSE g.saction]
  BY DEF Decide, Newly
<1>. HIDE DEF act
<1>6. g.stopped \in BOOLEAN /\ g.allagree \in BOOLEAN /\ g.sslot \in 0 .. NSpec
         /\ g.saction \in {TakeNgram, Verify}
  BY DEF GateRow
<1>7. CapHit(c, j) \in BOOLEAN
  BY DEF CapHit
<1>8. Decide(g, a, j, d, c) \in GateRow
  BY <1>1, <1>2, <1>3, <1>5, <1>6, <1>7 DEF GateRow, Continue, TakeNgram, Verify
<1>9. Decide(g, a, j, d, c).stopped \/ ~Decide(g, a, j, d, c).allagree
  BY <1>3, <1>4, <1>5, <1>6 DEF Continue, TakeNgram, Verify
<1>10. g.stopped => /\ Decide(g, a, j, d, c).stopped
                    /\ Decide(g, a, j, d, c).sslot = g.sslot
                    /\ Decide(g, a, j, d, c).saction = g.saction
  <2>. SUFFICES ASSUME g.stopped
                PROVE  /\ Decide(g, a, j, d, c).stopped
                       /\ Decide(g, a, j, d, c).sslot = g.sslot
                       /\ Decide(g, a, j, d, c).saction = g.saction
    OBVIOUS
  <2>0. Decide(g, a, j, d, c).stopped
          = ((g.stopped \/ act # Continue)
                \/ (CapHit(c, j) /\ ~(g.stopped \/ act # Continue)))
    BY <1>5
  <2>1. Decide(g, a, j, d, c).stopped
    BY <2>0, Zenon
  <2>2. Decide(g, a, j, d, c).sslot = g.sslot
    BY <1>5
  <2>3. Decide(g, a, j, d, c).saction = g.saction
    BY <1>5
  <2>. QED  BY <2>1, <2>2, <2>3
<1>. QED  BY <1>8, <1>9, <1>10

-----------------------------------------------------------------------------
(* The controller                                                          *)

\* Where the gating state is once the step has sampled: one record per row of
\* the batch, made by a decision, or nothing if the matcher had no answer.
GateShape ==
    /\ pc # "idle" => batch >= 1
    /\ pc = "slot" => slot < NSpec
    /\ pc \in {"loop", "post"} => slot >= 1
    /\ pc \in {"slot", "loop", "post"} =>
          IF matched /\ slot > 0 THEN DOMAIN gate = Rows(batch) ELSE gate = <<>>

IInv == TypeOK /\ GateShape /\ AgreementStops

\* The rows of a batch that decides.
LEMMA DecideAllRows ==
    ASSUME TypeOK, GateShape, matched, pc = "slot", NEW d \in Slots
    PROVE  /\ DecideAll(slot, d) \in [Rows(batch) -> GateRow]
           /\ \A r \in Rows(batch) : DecideAll(slot, d)[r].stopped
                                       \/ ~DecideAll(slot, d)[r].allagree
           /\ \A r \in DOMAIN gate : gate[r].stopped =>
                 /\ r \in Rows(batch)
                 /\ DecideAll(slot, d)[r].stopped
                 /\ DecideAll(slot, d)[r].sslot = gate[r].sslot
                 /\ DecideAll(slot, d)[r].saction = gate[r].saction
<1>. USE GateAssumption
<1>1. slot \in Slots
  BY DEF TypeOK, GateShape, Slots
<1>2. FreshRow \in GateRow
  BY DEF FreshRow, GateRow, TakeNgram, Verify
<1>3. cap \in 0 .. NSpec - 1 /\ \A r \in Rows(batch) : input[r] \in Inputs
  BY DEF TypeOK
<1>4. IF slot > 0 THEN DOMAIN gate = Rows(batch) ELSE gate = <<>>
  BY DEF GateShape
<1>5. slot > 0 => \A r \in Rows(batch) : gate[r] \in GateRow
  BY <1>4 DEF TypeOK
<1>. DEFINE row(r) == IF slot = 0 THEN FreshRow ELSE gate[r]
<1>6. \A r \in Rows(batch) : row(r) \in GateRow
  BY <1>1, <1>2, <1>5 DEF Slots
<1>7. DecideAll(slot, d) = [r \in Rows(batch) |-> Decide(row(r), input[r], slot, d, cap)]
  BY DEF DecideAll
<1>8. ASSUME NEW r \in DOMAIN gate
      PROVE  slot > 0 /\ r \in Rows(batch) /\ row(r) = gate[r]
  <2>1. slot > 0
    BY <1>4, <1>1, <1>8 DEF Slots
  <2>. QED  BY <2>1, <1>4
<1>. HIDE DEF row
<1>9. ASSUME NEW r \in Rows(batch)
      PROVE  /\ DecideAll(slot, d)[r] \in GateRow
             /\ DecideAll(slot, d)[r].stopped \/ ~DecideAll(slot, d)[r].allagree
             /\ row(r).stopped =>
                   /\ DecideAll(slot, d)[r].stopped
                   /\ DecideAll(slot, d)[r].sslot = row(r).sslot
                   /\ DecideAll(slot, d)[r].saction = row(r).saction
  BY <1>1, <1>3, <1>6, <1>7, DecideRow
<1>10. DecideAll(slot, d) \in [Rows(batch) -> GateRow]
  BY <1>7, <1>9
<1>. QED  BY <1>8, <1>9, <1>10
\* A draft has between one and NSpec tokens.
LEMMA DraftShape ==
    ASSUME NEW g \in GateRow, NEW a \in Inputs, NEW len \in 1 .. NSpec
    PROVE  /\ \E n \in 1 .. NSpec : Assemble(g, a, len) \in [1 .. n -> Source]
           /\ \E n \in 1 .. NSpec : Native(len) \in [1 .. n -> Source]
<1>. USE GateAssumption
<1>. DEFINE k == MinOf(g.sslot, len)
            m == IF g.saction = TakeNgram THEN MaxOf(k, a.clen) ELSE k
<1>1. k \in 0 .. NSpec
  BY DEF MinOf, GateRow
<1>2. a.clen \in 0 .. NSpec
  BY DEF Inputs
<1>3. m \in 0 .. NSpec
  BY <1>1, <1>2 DEF MaxOf
<1>4. Assemble(g, a, len) =
        IF m = 0 THEN Native(1)
        ELSE [i \in 1 .. MinOf(m, NSpec) |-> IF i <= k THEN "mtp" ELSE "ngram"]
  BY DEF Assemble
<1>. HIDE DEF k, m
<1>5. \A n \in 1 .. NSpec : Native(n) \in [1 .. n -> Source]
  BY DEF Native, Source
<1>6. CASE m = 0
  <2>1. 1 \in 1 .. NSpec
    OBVIOUS
  <2>2. Assemble(g, a, len) = Native(1)
    BY <1>4, <1>6
  <2>. QED  BY <1>5, <2>1, <2>2, Zenon
<1>7. CASE m # 0
  <2>1. MinOf(m, NSpec) \in 1 .. NSpec
    BY <1>3, <1>7 DEF MinOf
  <2>2. Assemble(g, a, len) \in [1 .. MinOf(m, NSpec) -> Source]
    BY <1>4, <1>7 DEF Source
  <2>. QED  BY <1>5, <2>1, <2>2, Zenon
<1>. QED  BY <1>6, <1>7

\* The empty sequence is a function on the rows of an empty batch.
LEMMA EmptyRows ==
    /\ ByRow(<<>>)
    /\ \A S : <<>> \in [DOMAIN <<>> -> S] /\ <<>> \in [Rows(0) -> S]
<1>1. DOMAIN <<>> = Rows(0)
  BY DEF Rows
<1>2. 0 \in 0 .. MaxBatch
  BY GateAssumption
<1>3. ByRow(<<>>)
  BY <1>1, <1>2, Zenon DEF ByRow
<1>4. ASSUME NEW S PROVE <<>> \in [DOMAIN <<>> -> S]
  OBVIOUS
<1>. QED  BY <1>1, <1>3, <1>4, Zenon

LEMMA InvInit == Init => IInv
<1>. SUFFICES ASSUME Init PROVE IInv
  OBVIOUS
<1>. USE GateAssumption DEF Init
<1>1. ByRow(<<>>) /\ <<>> \in [DOMAIN <<>> -> GateRow] /\ <<>> \in [Rows(0) -> Inputs]
  BY EmptyRows, Zenon
<1>2. \A r \in DOMAIN <<>> : FALSE
  OBVIOUS
<1>3. batch \in 0 .. MaxBatch /\ cap \in 0 .. NSpec - 1 /\ slot \in 0 .. NSpec
         /\ steps \in 0 .. MaxSteps
  OBVIOUS
<1>4. TypeOK
  BY <1>1, <1>2, <1>3, Zenon DEF TypeOK
<1>. QED  BY <1>4 DEF IInv, GateShape, AgreementStops

LEMMA InvNext == IInv /\ [Next]_vars => IInv'
<1>. SUFFICES ASSUME IInv, [Next]_vars PROVE IInv'
  OBVIOUS
<1>. USE GateAssumption DEF IInv
<1>1. CASE Match
  <2>1. batch' \in 1 .. MaxBatch /\ input' \in [Rows(batch') -> Inputs]
    BY <1>1 DEF Match
  <2>2. TypeOK'
    BY SMTT(30), <1>1, <2>1 DEF Match, TypeOK, ByRow
  <2>. QED  BY <1>1, <2>1, <2>2 DEF Match, GateShape, AgreementStops
<1>2. CASE Propose
  <2>1. gate' = <<>> /\ slot' = 0 /\ pc' = "slot" /\ batch' = batch /\ batch >= 1
    BY <1>2 DEF Propose, GateShape
  <2>2. ByRow(gate') /\ gate' \in [DOMAIN gate' -> GateRow]
    BY <2>1, EmptyRows, Zenon
  <2>3. cap' \in 0 .. NSpec - 1
    BY <1>2 DEF Propose
  <2>4. 0 \in 0 .. NSpec /\ FALSE \in BOOLEAN
    OBVIOUS
  <2>5. TypeOK'
    BY <1>2, <2>1, <2>2, <2>3, <2>4 DEF Propose, TypeOK, ByRow
  <2>. QED  BY <2>1, <2>5 DEF GateShape, AgreementStops
<1>3. CASE GreedySample
  <2>1. pc = "slot" /\ pc' = "loop" /\ slot' = slot + 1 /\ slot' \in 1 .. NSpec
        /\ batch' = batch /\ batch \in 1 .. MaxBatch
    BY <1>3 DEF GreedySample, GateShape, TypeOK
  <2>2. CASE matched
    <3>1. slot \in Slots
      BY <2>1 DEF TypeOK, GateShape, Slots
    <3>2. gate' = DecideAll(slot, slot) /\ stop' \in BOOLEAN /\ matched'
      BY <1>3, <2>2 DEF GreedySample, TypeOK
    <3>3. gate' \in [Rows(batch) -> GateRow]
      BY <2>1, <2>2, <3>1, <3>2, DecideAllRows
    <3>4. ByRow(gate') /\ gate' \in [DOMAIN gate' -> GateRow]
      BY <2>1, <3>3 DEF ByRow
    <3>5. TypeOK'
      BY SMTT(30), <1>3, <2>1, <3>2, <3>4 DEF GreedySample, TypeOK, ByRow
    <3>6. GateShape'
      BY <2>1, <3>2, <3>3 DEF GateShape
    <3>7. AgreementStops'
      BY <2>1, <2>2, <3>1, <3>2, DecideAllRows DEF AgreementStops
    <3>. QED  BY <3>5, <3>6, <3>7
  <2>3. CASE ~matched
    <3>1. gate' = gate /\ stop' = stop /\ ~matched'
      BY <1>3, <2>3 DEF GreedySample
    <3>2. TypeOK'
      BY SMTT(30), <1>3, <2>1, <3>1 DEF GreedySample, TypeOK, ByRow
    <3>. QED  BY <2>1, <2>3, <3>1, <3>2 DEF GateShape, AgreementStops
  <2>. QED  BY <2>2, <2>3
<1>4. CASE Forward
  <2>1. slot # NSpec
    BY <1>4 DEF Forward, LoopDone
  <2>. QED  BY <1>4, <2>1 DEF Forward, TypeOK, GateShape, AgreementStops, ByRow
<1>5. CASE LeaveLoop
  BY <1>5 DEF LeaveLoop, TypeOK, GateShape, AgreementStops, ByRow
<1>6. CASE Postprocess
  <2>1. slot \in 1 .. NSpec /\ batch \in 1 .. MaxBatch /\ input \in [Rows(batch) -> Inputs]
    BY <1>6 DEF Postprocess, TypeOK, GateShape
  <2>2. gate \in [DOMAIN gate -> GateRow]
    BY DEF TypeOK
  <2>3. DOMAIN draft' = Rows(batch)
    BY <1>6 DEF Postprocess
  <2>4. ASSUME NEW r \in Rows(batch)
        PROVE  \E n \in 1 .. NSpec : draft'[r] \in [1 .. n -> Source]
    <3>1. CASE gate # <<>> /\ DOMAIN gate = Rows(batch)
      <4>1. draft'[r] = Assemble(gate[r], input[r], slot)
        BY <1>6, <3>1, <2>4 DEF Postprocess
      <4>2. gate[r] \in GateRow /\ input[r] \in Inputs
        BY <2>1, <2>2, <2>4, <3>1
      <4>3. \E n \in 1 .. NSpec : Assemble(gate[r], input[r], slot) \in [1 .. n -> Source]
        BY <2>1, <4>2, DraftShape
      <4>. QED  BY <4>1, <4>3, Zenon
    <3>2. CASE ~(gate # <<>> /\ DOMAIN gate = Rows(batch))
      <4>1. draft'[r] = Native(slot)
        BY <1>6, <3>2, <2>4 DEF Postprocess
      <4>2. Native(slot) \in [1 .. slot -> Source]
        BY DEF Native, Source
      <4>. QED  BY <2>1, <4>1, <4>2, Zenon
    <3>. QED  BY <3>1, <3>2
  <2>5. ByRow(draft')
    <3>1. batch \in 0 .. MaxBatch
      BY <2>1
    <3>. QED  BY <2>3, <3>1, Zenon DEF ByRow
  <2>6. TypeOK'
    BY <1>6, <2>3, <2>4, <2>5 DEF Postprocess, TypeOK, ByRow
  <2>. QED  BY <1>6, <2>6 DEF Postprocess, GateShape, AgreementStops
<1>7. CASE UNCHANGED vars
  BY <1>7 DEF vars, TypeOK, GateShape, AgreementStops, ByRow
<1>. QED  BY <1>1, <1>2, <1>3, <1>4, <1>5, <1>6, <1>7 DEF Next

THEOREM InvCorrect == Spec => []IInv
<1>. QED  BY InvInit, InvNext, PTL DEF Spec

\* Every draft the controller hands over has between one and NSpec tokens and
\* its records keep to their ranges, for every schedule, threshold and width.
THEOREM TypeCorrect == Spec => []TypeOK
<1>1. IInv => TypeOK
  BY DEF IInv
<1>. QED  BY <1>1, InvCorrect, PTL

\* A request whose continuation agreed at every slot has stopped: the clause of
\* the forward cap that grants such a request its tail is never taken.
THEOREM AgreementCorrect == Spec => []AgreementStops
<1>1. IInv => AgreementStops
  BY DEF IInv
<1>. QED  BY <1>1, InvCorrect, PTL

\* Where a request stopped, and what it chose there, are final within a step.
THEOREM FrozenCorrect == Spec => DecisionFrozen
<1>. DEFINE Frozen == \A r \in DOMAIN gate :
                        gate[r].stopped /\ gate' # <<>> =>
                            /\ gate'[r].stopped
                            /\ gate'[r].sslot = gate[r].sslot
                            /\ gate'[r].saction = gate[r].saction
<1>1. IInv /\ [Next]_vars => [Frozen]_vars
  <2>. SUFFICES ASSUME IInv, Next PROVE Frozen
    OBVIOUS
  <2>. USE GateAssumption DEF IInv
  <2>1. CASE GreedySample /\ matched
    <3>1. pc = "slot" /\ slot \in Slots /\ gate' = DecideAll(slot, slot)
      BY <2>1 DEF GreedySample, TypeOK, GateShape, Slots
    <3>. QED  BY <2>1, <3>1, DecideAllRows
  <2>2. CASE Propose
    BY <2>2 DEF Propose
  <2>3. CASE gate' = gate
    BY <2>3
  <2>4. (GreedySample /\ ~matched) \/ Match \/ Forward \/ LeaveLoop \/ Postprocess
            => gate' = gate
    BY DEF GreedySample, Match, Forward, LeaveLoop, Postprocess
  <2>. QED  BY <2>1, <2>2, <2>3, <2>4 DEF Next
<1>. QED  BY <1>1, InvCorrect, PTL DEF Spec, DecisionFrozen
-----------------------------------------------------------------------------
(* Deferring the decision                                                  *)

\* A deferred decision is for the latest slot, its report is what the pinned
\* buffer holds once the copy has landed, and no forward starts under it.
OInv ==
    /\ slot \in Nat
    /\ pending \in Slots \cup {NoSlot}
    /\ pending # NoSlot =>
          /\ matched /\ pc \in {"loop", "prepared", "exit"}
          /\ slot = pending + 1
          /\ landed => pin = pending
    /\ pc = "slot" => slot < NSpec
    /\ pc = "loop" => slot <= NSpec
    /\ pc = "prepared" => slot < NSpec
    /\ pc = "exit" => LoopDone

LEMMA OInvInit == OInit => OInv
  BY GateAssumption DEF OInit, Init, OInv

LEMMA OInvNext == OInv /\ [ONext]_ovars => OInv'
<1>. SUFFICES ASSUME OInv, [ONext]_ovars PROVE OInv'
  OBVIOUS
<1>. USE GateAssumption, OverlapAssumption DEF OInv
<1>1. CASE OMatch
  BY <1>1 DEF OMatch, Match
<1>2. CASE OPropose
  BY <1>2 DEF OPropose, Propose
<1>3. CASE DeferSample
  BY <1>3 DEF DeferSample, Slots
<1>4. CASE CopyLands
  BY <1>4 DEF CopyLands, vars, LoopDone, Slots
<1>5. CASE PreparePass
  BY <1>5 DEF PreparePass, LoopDone
<1>6. CASE Resolve
  BY <1>6 DEF Resolve, LoopDone
<1>7. CASE BeforeForward
  BY <1>7 DEF BeforeForward, LoopDone, Resolved
<1>8. CASE EnterPostprocess
  BY <1>8 DEF EnterPostprocess, Resolved
<1>9. CASE OPostprocess
  BY <1>9 DEF OPostprocess, Postprocess
<1>10. CASE UNCHANGED ovars
  BY <1>10 DEF ovars, vars, LoopDone
<1>. QED
  BY <1>1, <1>2, <1>3, <1>4, <1>5, <1>6, <1>7, <1>8, <1>9, <1>10 DEF ONext

LEMMA InlineInit == OInit => Inline!Init
  BY DEF OInit, Init, Inline!Init, InlinePc, InlineSlot

LEMMA InlineNext == OInv /\ [ONext]_ovars => [Inline!Next]_Inline!vars
<1>. SUFFICES ASSUME OInv, [ONext]_ovars PROVE Inline!Next \/ UNCHANGED Inline!vars
  OBVIOUS
<1>. USE GateAssumption, OverlapAssumption
<1>1. CASE OMatch
  BY <1>1 DEF OMatch, Match, Inline!Match, Inline!Next, Inline!Rows, Rows,
              Inline!Inputs, Inputs, Inline!Slots, Slots, InlinePc, InlineSlot, OInv
<1>2. CASE OPropose
  BY <1>2 DEF OPropose, Propose, Inline!Propose, Inline!Next, Inline!IsFwdCap, IsFwdCap,
              Inline!Governs, Governs, InlinePc, InlineSlot, OInv
<1>3. CASE DeferSample
  <2>1. CASE matched
    <3>1. pending' = slot /\ pending' # NoSlot /\ pc = "slot" /\ pending = NoSlot
      BY <1>3, <2>1 DEF DeferSample, OInv, Slots
    <3>2. InlinePc' = InlinePc /\ InlineSlot' = InlineSlot
      BY <3>1 DEF InlinePc, InlineSlot
    <3>. QED  BY <1>3, <3>2 DEF DeferSample, Inline!vars
  <2>2. CASE ~matched
    BY <1>3, <2>2 DEF DeferSample, Inline!GreedySample, Inline!Next, InlinePc, InlineSlot, OInv
  <2>. QED  BY <2>1, <2>2
<1>4. CASE CopyLands
  BY <1>4 DEF CopyLands, vars, Inline!vars, InlinePc, InlineSlot
<1>5. CASE PreparePass
  BY <1>5 DEF PreparePass, Inline!vars, InlinePc, InlineSlot
<1>6. CASE Resolve
  <2>1. pending \in Slots /\ pin = pending /\ slot = pending + 1 /\ matched
    BY <1>6 DEF Resolve, Synchronized, OInv
  <2>2. gate' = DecideAll(pending, pending)
    BY <1>6, <2>1 DEF Resolve
  <2>3. pc \in {"prepared", "exit"}
    BY <1>6 DEF Resolve, OInv
  <2>4. InlinePc = "slot" /\ InlinePc' = "loop" /\ InlineSlot = pending /\ InlineSlot' = pending + 1
    BY <1>6, <2>1, <2>3 DEF Resolve, InlinePc, InlineSlot
  <2>5. DecideAll(pending, pending) = Inline!DecideAll(pending, pending)
    BY DEF DecideAll, Decide, Action, Newly, CapHit, FreshRow, Rows, Continue, TakeNgram, Verify,
           Inline!DecideAll, Inline!Decide, Inline!Action, Inline!Newly, Inline!CapHit,
           Inline!FreshRow, Inline!Rows, Inline!Continue, Inline!TakeNgram, Inline!Verify
  <2>6. stop' = (stop \/ \A r \in Inline!Rows(batch) : gate'[r].stopped)
    BY <1>6 DEF Resolve, Rows, Inline!Rows
  <2>7. UNCHANGED <<batch, input, matched, cap, draft, steps>>
    BY <1>6 DEF Resolve
  <2>8. Inline!GreedySample
    BY <2>1, <2>2, <2>4, <2>5, <2>6, <2>7 DEF Inline!GreedySample
  <2>. QED  BY <2>8 DEF Inline!Next
<1>7. CASE BeforeForward
  <2>1. pending = NoSlot /\ pending' = NoSlot /\ slot' = slot /\ slot < NSpec /\ slot \in Nat
    BY <1>7 DEF BeforeForward, Resolved, OInv
  <2>2. CASE stop
    BY <1>7, <2>1, <2>2 DEF BeforeForward, Inline!vars, InlinePc, InlineSlot
  <2>3. CASE ~stop
    BY <1>7, <2>1, <2>3 DEF BeforeForward, Inline!Forward, Inline!LoopDone, Inline!Next,
                            InlinePc, InlineSlot
  <2>. QED  BY <2>2, <2>3
<1>8. CASE EnterPostprocess
  BY <1>8 DEF EnterPostprocess, Resolved, LoopDone, Inline!LeaveLoop, Inline!LoopDone,
              Inline!Next, InlinePc, InlineSlot, OInv
<1>9. CASE OPostprocess
  <2>1. pc = "post" /\ pending = NoSlot /\ pc' = "idle" /\ pending' = NoSlot /\ slot' = slot
    BY <1>9 DEF OPostprocess, Postprocess, OInv
  <2>2. InlinePc = "post" /\ InlinePc' = "idle" /\ InlineSlot = slot /\ InlineSlot' = slot
    BY <2>1 DEF InlinePc, InlineSlot
  <2>3. Inline!Postprocess
    BY <1>9, <2>2 DEF OPostprocess, Postprocess, Inline!Postprocess, Inline!Rows, Rows,
         Inline!Assemble, Assemble, Inline!Native, Native, Inline!MinOf, MinOf,
         Inline!MaxOf, MaxOf, Inline!TakeNgram, TakeNgram
  <2>. QED  BY <2>3 DEF Inline!Next
<1>10. CASE UNCHANGED ovars
  BY <1>10 DEF ovars, vars, Inline!vars, InlinePc, InlineSlot
<1>. QED
  BY <1>1, <1>2, <1>3, <1>4, <1>5, <1>6, <1>7, <1>8, <1>9, <1>10 DEF ONext

\* The controller that defers its decisions is the one that does not: every
\* deferral and every copy is a stuttering step of it, every resolution its
\* sampling step.
THEOREM OverlapRefines == OSpec => ImplementsInline
<1>1. OSpec => []OInv
  BY OInvInit, OInvNext, PTL DEF OSpec
<1>. QED  BY <1>1, InlineInit, InlineNext, PTL DEF OSpec, ImplementsInline, Inline!Spec

\* Every decision is made from its own slot's report.
THEOREM PinCorrect == OSpec => PinIsPending
<1>1. OSpec => []OInv
  BY OInvInit, OInvNext, PTL DEF OSpec
<1>2. OInv /\ [ONext]_ovars => [gate' # gate /\ gate' # <<>> => pin = pending]_ovars
  <2>. SUFFICES ASSUME OInv, ONext, gate' # gate, gate' # <<>> PROVE pin = pending
    OBVIOUS
  <2>1. CASE Resolve
    BY <2>1 DEF Resolve, Synchronized, OInv
  <2>2. OPropose => gate' = <<>>
    BY DEF OPropose, Propose
  <2>3. OMatch \/ DeferSample \/ CopyLands \/ PreparePass \/ BeforeForward
           \/ EnterPostprocess \/ OPostprocess => gate' = gate
    BY DEF OMatch, Match, DeferSample, CopyLands, vars, PreparePass, BeforeForward,
           EnterPostprocess, OPostprocess, Postprocess
  <2>. QED  BY <2>1, <2>2, <2>3 DEF ONext
<1>. QED  BY <1>1, <1>2, PTL DEF OSpec, PinIsPending

-----------------------------------------------------------------------------
(* Numbers                                                                 *)

\* Naturals have a least member: induction without a predicate to instantiate.
LEMMA HasLeast ==
    ASSUME NEW S, S # {}, S \subseteq Nat
    PROVE  \E x \in S : \A y \in S : x <= y
<1>. DEFINE R == OpToRel(<, Nat)
<1>1. IsWellFoundedOn(R, Nat)
  BY NatLessThanWellFounded
<1>2. PICK x \in S : \A y \in S : ~(<<y, x>> \in R)
  BY <1>1, WFMin
<1>3. ASSUME NEW y \in S PROVE ~(y < x)
  BY <1>2 DEF OpToRel
<1>. QED  BY <1>3

LEMMA NatSteps ==
    ASSUME NEW S, 0 \in S, \A n \in Nat : n \in S => n + 1 \in S
    PROVE  \A n \in Nat : n \in S
<1>. SUFFICES ASSUME Nat \ S # {} PROVE FALSE
  OBVIOUS
<1>1. PICK x \in Nat \ S : \A y \in Nat \ S : x <= y
  BY HasLeast
<1>2. x - 1 \in Nat /\ x - 1 \notin Nat \ S
  BY <1>1
<1>3. x - 1 + 1 \in S
  BY <1>2
<1>. QED  BY <1>1, <1>3

LEMMA MinIs ==
    ASSUME NEW S, NEW x \in S, S \subseteq Nat, \A y \in S : x <= y
    PROVE  Min(S) = x
<1>1. Min(S) \in S /\ \A y \in S : Min(S) <= y
  BY DEF Min
<1>2. Min(S) \in Nat /\ x \in Nat /\ Min(S) <= x /\ x <= Min(S)
  BY <1>1
<1>. QED  BY <1>2

LEMMA MaxIs ==
    ASSUME NEW S, NEW x \in S, S \subseteq Nat, \A y \in S : y <= x
    PROVE  Max(S) = x
<1>1. Max(S) \in S /\ \A y \in S : Max(S) >= y
  BY DEF Max
<1>2. Max(S) \in Nat /\ x \in Nat /\ Max(S) <= x /\ x <= Max(S)
  BY <1>1
<1>. QED  BY <1>2

-----------------------------------------------------------------------------
(* The reference                                                           *)

\* The confidences up to slot n, one multiplied in after the other.
Running(a, f, n) ==
    /\ f \in [0 .. n -> 0 .. Scale] /\ f[0] = Scale
    /\ \A i \in 1 .. n : f[i] = (f[i - 1] * a.conf[i - 1]) \div Scale

LEMMA RunningExists == ASSUME NEW a \in Inputs PROVE \E f : Running(a, f, NSpec)
<1>. USE GateAssumption
<1>. DEFINE S == {n \in Nat : n <= NSpec => \E f : Running(a, f, n)}
<1>1. 0 \in S
  <2>1. Running(a, [i \in 0 .. 0 |-> Scale], 0)
    BY DEF Running
  <2>. QED  BY <2>1
<1>2. ASSUME NEW n \in Nat, n \in S PROVE n + 1 \in S
  <2>. SUFFICES ASSUME n + 1 <= NSpec PROVE \E f : Running(a, f, n + 1)
    OBVIOUS
  <2>1. PICK f : Running(a, f, n)
    BY <1>2
  <2>. DEFINE next == (f[n] * a.conf[n]) \div Scale
              g == [i \in 0 .. n + 1 |-> IF i = n + 1 THEN next ELSE f[i]]
  <2>2. f[n] \in 0 .. Scale /\ a.conf[n] \in 0 .. Scale
    <3>1. n \in 0 .. n /\ n \in Slots
      BY DEF Slots
    <3>2. f \in [0 .. n -> 0 .. Scale]
      BY <2>1 DEF Running
    <3>3. a.conf \in [Slots -> Confs]
      BY DEF Inputs
    <3>. QED  BY <3>1, <3>2, <3>3
  <2>3. next \in 0 .. Scale
    BY <2>2, CumRange
  <2>. HIDE DEF next
  <2>4. g \in [0 .. n + 1 -> 0 .. Scale] /\ g[0] = Scale
    BY <2>1, <2>3 DEF Running
  <2>5. ASSUME NEW i \in 1 .. n + 1 PROVE g[i] = (g[i - 1] * a.conf[i - 1]) \div Scale
    <3>1. CASE i = n + 1
      <4>1. g[i] = next /\ g[i - 1] = f[n]
        BY <3>1
      <4>. QED  BY <3>1, <4>1 DEF next
    <3>2. CASE i # n + 1
      <4>1. g[i] = f[i] /\ g[i - 1] = f[i - 1] /\ i \in 1 .. n
        BY SMTT(30), <3>2
      <4>. QED  BY <2>1, <4>1 DEF Running
    <3>. QED  BY <3>1, <3>2
  <2>. QED  BY <2>4, <2>5 DEF Running
<1>. HIDE DEF S
<1>3. NSpec \in S
  BY <1>1, <1>2, NatSteps
<1>. QED  BY <1>3 DEF S

\* The running confidence is defined, and each slot's is the one before times its report.
LEMMA CumSteps ==
    ASSUME NEW a \in Inputs
    PROVE  /\ Cum(a, 0) = Scale
           /\ \A j \in Slots : Cum(a, j + 1) = (Cum(a, j) * a.conf[j]) \div Scale
           /\ \A j \in 0 .. NSpec : Cum(a, j) \in 0 .. Scale
<1>. USE GateAssumption
<1>. DEFINE g == CHOOSE f : f = [i \in 0 .. NSpec |->
                    IF i = 0 THEN Scale ELSE (f[i - 1] * a.conf[i - 1]) \div Scale]
<1>1. PICK f : Running(a, f, NSpec)
  BY RunningExists
<1>2. f = [i \in 0 .. NSpec |-> IF i = 0 THEN Scale ELSE (f[i - 1] * a.conf[i - 1]) \div Scale]
  BY <1>1 DEF Running
<1>3. g = [i \in 0 .. NSpec |-> IF i = 0 THEN Scale ELSE (g[i - 1] * a.conf[i - 1]) \div Scale]
  BY <1>2
<1>4. \A j : Cum(a, j) = g[j]
  BY DEF Cum
<1>. HIDE DEF g
<1>5. \A i \in 0 .. NSpec : g[i] = IF i = 0 THEN Scale ELSE (g[i - 1] * a.conf[i - 1]) \div Scale
  BY <1>3
<1>6. g[0] = Scale
  BY <1>5
<1>7. ASSUME NEW j \in Slots PROVE g[j + 1] = (g[j] * a.conf[j]) \div Scale
  <2>1. PICK i \in 0 .. NSpec : i = j + 1 /\ i # 0 /\ i - 1 = j
    BY DEF Slots
  <2>2. g[i] = (g[i - 1] * a.conf[i - 1]) \div Scale
    BY <1>5, <2>1
  <2>. QED  BY <2>1, <2>2
<1>. DEFINE S == {n \in Nat : n <= NSpec => g[n] \in 0 .. Scale}
<1>8. 0 \in S
  BY <1>6
<1>9. ASSUME NEW n \in Nat, n \in S PROVE n + 1 \in S
  <2>. SUFFICES ASSUME n + 1 <= NSpec PROVE g[n + 1] \in 0 .. Scale
    OBVIOUS
  <2>1. n \in Slots /\ g[n] \in 0 .. Scale
    BY <1>9 DEF Slots
  <2>2. a.conf[n] \in 0 .. Scale
    BY <2>1 DEF Inputs
  <2>. QED  BY <1>7, <2>1, <2>2, CumRange
<1>. HIDE DEF S
<1>10. \A n \in Nat : n \in S
  BY <1>8, <1>9, NatSteps
<1>11. \A j \in 0 .. NSpec : g[j] \in 0 .. Scale
  BY <1>10 DEF S
<1>. QED  BY <1>4, <1>6, <1>7, <1>11

\* The slot a request stops at: the first that the continuation agrees at or that finds
\* the confidence spent, or the limit.
LEMMA CutIs ==
    ASSUME NEW a \in Inputs, NEW c \in 0 .. NSpec - 1
    PROVE  /\ Limit(c) \in 1 .. NSpec /\ CutSlot(a, c) \in 0 .. Limit(c)
           /\ CutSlot(a, c) < Limit(c) =>
                 CutSlot(a, c) \in a.agree \/ Cum(a, CutSlot(a, c)) < Tau
           /\ \A j \in 0 .. Limit(c) - 1 :
                 j \in a.agree \/ Cum(a, j) < Tau => CutSlot(a, c) <= j
<1>. USE GateAssumption
<1>1. Limit(c) \in 1 .. NSpec
  BY DEF Limit
<1>2. CASE Cuts(a, c) = {}
  <2>1. CutSlot(a, c) = Limit(c)
    BY <1>2 DEF CutSlot
  <2>2. \A j \in 0 .. Limit(c) - 1 : ~(j \in a.agree \/ Cum(a, j) < Tau)
    BY <1>2 DEF Cuts
  <2>. QED  BY <1>1, <2>1, <2>2
<1>3. CASE Cuts(a, c) # {}
  <2>1. Cuts(a, c) \subseteq Nat
    BY <1>1 DEF Cuts
  <2>2. PICK x \in Cuts(a, c) : \A y \in Cuts(a, c) : x <= y
    BY <1>3, <2>1, HasLeast
  <2>3. CutSlot(a, c) = x
    BY <1>3, <2>1, <2>2, MinIs DEF CutSlot
  <2>. QED  BY <1>1, <2>2, <2>3 DEF Cuts
<1>. QED  BY <1>2, <1>3

-----------------------------------------------------------------------------
(* One row                                                                 *)

\* The record of a request alone after k decisions under the forward cap c.
RowIs(g, a, c, k) ==
    /\ g.cum = Cum(a, k)
    /\ g.stopped \in BOOLEAN /\ g.allagree \in BOOLEAN
    /\ g.stopped <=> CutSlot(a, c) < k \/ (c # 0 /\ c <= k)
    /\ g.allagree <=> k = 0 \/ CutSlot(a, c) = 0
    /\ CutSlot(a, c) < k =>
          /\ g.sslot = CutSlot(a, c)
          /\ g.saction = IF CutSlot(a, c) \in a.agree THEN TakeNgram ELSE Verify
    /\ CutSlot(a, c) >= k =>
          /\ g.sslot = (IF c # 0 /\ c <= k THEN c ELSE NSpec)
          /\ g.saction = Verify

LEMMA FreshIs ==
    ASSUME NEW a \in Inputs, NEW c \in 0 .. NSpec - 1 PROVE RowIs(FreshRow, a, c, 0)
<1>1. CutSlot(a, c) >= 0 /\ ~(CutSlot(a, c) < 0)
  BY CutIs, GateAssumption
<1>. QED  BY <1>1, CumSteps, GateAssumption DEF RowIs, FreshRow

LEMMA DecideIs ==
    ASSUME NEW a \in Inputs, NEW c \in 0 .. NSpec - 1, NEW k \in Nat, k < Limit(c),
           NEW g, RowIs(g, a, c, k)
    PROVE  RowIs(Decide(g, a, k, k, c), a, c, k + 1)
<1>. USE GateAssumption
<1>. DEFINE cut == CutSlot(a, c)
            act == Action(g, a, k)
            d == Decide(g, a, k, k, c)
<1>1. /\ k \in Slots /\ k + 1 <= NSpec /\ (c = 0 \/ k + 1 <= c) /\ Limit(c) \in 1 .. NSpec
      /\ cut \in 0 .. Limit(c) /\ k \in 0 .. Limit(c) - 1
  BY CutIs DEF Slots, Limit
<1>2. /\ Cum(a, k) \in 0 .. Scale
      /\ Cum(a, k + 1) = (Cum(a, k) * a.conf[k]) \div Scale
  BY <1>1, CumSteps DEF Slots
<1>3. d.cum = Cum(a, k + 1)
  BY <1>2 DEF Decide, RowIs
<1>4. g.stopped <=> cut < k
  BY <1>1 DEF RowIs
<1>5. act # Continue <=> k \in a.agree \/ Cum(a, k) < Tau
  BY <1>2 DEF Action, RowIs, Continue, TakeNgram, Verify
<1>6. act # Continue => act = IF k \in a.agree THEN TakeNgram ELSE Verify
  BY DEF Action, Continue, TakeNgram, Verify
<1>7. cut < k \/ act # Continue <=> cut < k + 1
  <2>1. act # Continue => cut <= k
    BY <1>1, <1>5, CutIs
  <2>2. cut = k => act # Continue
    BY <1>1, <1>5, CutIs
  <2>. QED  BY <1>1, <2>1, <2>2
<1>8. CapHit(c, k) <=> c # 0 /\ c <= k + 1
  BY <1>1 DEF CapHit
<1>. DEFINE halted == g.stopped \/ act # Continue
            newly == ~g.stopped /\ act # Continue
            agreed == g.allagree /\ (k \in a.agree \/ halted)
            capNew == CapHit(c, k) /\ ~halted
<1>9. /\ d.stopped = (halted \/ capNew) /\ d.allagree = agreed
      /\ d.sslot = (IF capNew THEN k + 1 ELSE IF newly THEN k ELSE g.sslot)
      /\ d.saction = (IF capNew /\ agreed THEN TakeNgram ELSE IF newly THEN act ELSE g.saction)
  BY DEF Decide, Newly
<1>10. halted <=> cut < k + 1
  BY <1>4, <1>7
<1>11. newly <=> cut = k
  BY <1>1, <1>4, <1>7
<1>12. ~halted => k \notin a.agree
  BY <1>5
<1>13. agreed <=> cut = 0
  <2>1. g.allagree <=> k = 0 \/ cut = 0
    BY DEF RowIs
  <2>. QED  BY <1>1, <2>1, <1>10, <1>12
<1>14. capNew => ~agreed
  BY <1>12
<1>. HIDE DEF halted, newly, agreed, capNew, d, act
<1>15. capNew <=> (c # 0 /\ c <= k + 1) /\ ~(cut < k + 1)
  BY <1>8, <1>10 DEF capNew
<1>16. d.stopped <=> cut < k + 1 \/ (c # 0 /\ c <= k + 1)
  BY <1>9, <1>10, <1>15
<1>17. d.stopped \in BOOLEAN /\ d.allagree \in BOOLEAN
  BY <1>9 DEF agreed, capNew, halted
<1>18. d.allagree <=> k + 1 = 0 \/ cut = 0
  BY <1>9, <1>13
<1>19. ASSUME cut < k + 1
       PROVE  d.sslot = cut /\ d.saction = IF cut \in a.agree THEN TakeNgram ELSE Verify
  <2>1. ~capNew
    BY <1>15, <1>19
  <2>2. CASE cut = k
    BY <1>5, <1>6, <1>9, <1>11, <2>1, <2>2 DEF newly
  <2>3. CASE cut < k
    BY <1>9, <1>11, <2>1, <2>3 DEF RowIs
  <2>. QED  BY SMTT(30), <1>1, <1>19, <2>2, <2>3
<1>20. ASSUME cut >= k + 1
       PROVE  /\ d.sslot = (IF c # 0 /\ c <= k + 1 THEN c ELSE NSpec)
              /\ d.saction = Verify
  <2>1. ~newly /\ cut >= k
    BY <1>1, <1>11, <1>20
  <2>2. g.saction = Verify /\ g.sslot = (IF c # 0 /\ c <= k THEN c ELSE NSpec)
    BY <2>1 DEF RowIs
  <2>3. d.saction = Verify
    BY <1>9, <1>14, <2>1, <2>2
  <2>4. CASE c # 0 /\ c <= k + 1
    <3>1. capNew /\ k + 1 = c
      BY <1>1, <1>15, <1>20, <2>4
    <3>2. d.sslot = k + 1
      BY <1>9, <3>1
    <3>. QED  BY <2>3, <2>4, <3>1, <3>2
  <2>5. CASE ~(c # 0 /\ c <= k + 1)
    BY <1>1, <1>9, <1>15, <2>1, <2>2, <2>5
  <2>. QED  BY <2>3, <2>4, <2>5
<1>. HIDE DEF cut
<1>21. /\ cut < k + 1 => /\ d.sslot = cut
                         /\ d.saction = IF cut \in a.agree THEN TakeNgram ELSE Verify
       /\ cut >= k + 1 => /\ d.sslot = (IF c # 0 /\ c <= k + 1 THEN c ELSE NSpec)
                          /\ d.saction = Verify
  BY <1>19, <1>20
<1>. QED  BY <1>3, <1>16, <1>17, <1>18, <1>21 DEF RowIs, d, cut

\* What is put together for a request that stopped is its own draft.
LEMMA AssembleIs ==
    ASSUME NEW a \in Inputs, NEW c \in 0 .. NSpec - 1, NEW k \in 1 .. Limit(c),
           NEW g, RowIs(g, a, c, k), g.stopped \/ k = NSpec
    PROVE  Assemble(g, a, k) = SoloDraft(a, c)
<1>. USE GateAssumption
<1>. DEFINE cut == CutSlot(a, c)
<1>1. Limit(c) \in 1 .. NSpec /\ cut \in 0 .. Limit(c) /\ (c # 0 => Limit(c) = c) /\ (c = 0 => Limit(c) = NSpec)
  BY CutIs DEF Limit
<1>2. MinOf(g.sslot, k) = cut /\ (g.saction = TakeNgram <=> cut < Limit(c) /\ cut \in a.agree)
  <2>1. CASE cut < k
    BY <1>1, <2>1 DEF RowIs, MinOf, TakeNgram, Verify
  <2>2. CASE cut >= k
    <3>1. cut = Limit(c) /\ k = cut
      BY <1>1, <2>2 DEF RowIs
    <3>2. g.saction = Verify /\ g.sslot = (IF c # 0 /\ c <= k THEN c ELSE NSpec)
      BY <2>2 DEF RowIs
    <3>3. g.sslot = cut
      BY <1>1, <3>1, <3>2
    <3>. QED  BY <1>1, <3>1, <3>2, <3>3 DEF MinOf, TakeNgram, Verify
  <2>. QED  BY <1>1, <2>1, <2>2
<1>3. a.clen \in 0 .. NSpec /\ (cut \in a.agree => cut < a.clen)
  BY DEF Inputs
<1>. DEFINE n == IF g.saction = TakeNgram THEN MaxOf(cut, a.clen) ELSE cut
            m == IF cut < Limit(c) /\ cut \in a.agree THEN a.clen ELSE MaxOf(cut, 1)
<1>4. Assemble(g, a, k) = IF n = 0 THEN Native(1)
          ELSE [i \in 1 .. MinOf(n, NSpec) |-> IF i <= cut THEN "mtp" ELSE "ngram"]
  BY <1>2 DEF Assemble
<1>5. SoloDraft(a, c) = [i \in 1 .. m |-> IF i <= MaxOf(cut, 1) /\ (cut > 0 \/ 0 \notin a.agree)
                                          THEN "mtp" ELSE "ngram"]
  BY DEF SoloDraft
<1>6. CASE cut < Limit(c) /\ cut \in a.agree
  <2>1. n = a.clen /\ m = a.clen /\ a.clen \in 1 .. NSpec /\ MinOf(a.clen, NSpec) = a.clen
    BY <1>1, <1>2, <1>3, <1>6 DEF MaxOf, MinOf
  <2>2. Assemble(g, a, k) = [i \in 1 .. a.clen |-> IF i <= cut THEN "mtp" ELSE "ngram"]
    <3>1. n # 0 /\ MinOf(n, NSpec) = a.clen
      BY <2>1
    <3>. HIDE DEF n, cut
    <3>. QED  BY <1>4, <3>1
  <2>3. \A i \in 1 .. a.clen : i <= cut <=> i <= MaxOf(cut, 1) /\ (cut > 0 \/ 0 \notin a.agree)
    BY <1>1, <1>6 DEF MaxOf
  <2>4. SoloDraft(a, c) = [i \in 1 .. a.clen |-> IF i <= MaxOf(cut, 1) /\ (cut > 0 \/ 0 \notin a.agree)
                                          THEN "mtp" ELSE "ngram"]
    BY <1>5, <2>1
  <2>. HIDE DEF n, m, cut
  <2>. QED  BY <2>2, <2>3, <2>4
<1>7. CASE ~(cut < Limit(c) /\ cut \in a.agree)
  <2>1. n = cut /\ m = MaxOf(cut, 1)
    BY <1>2, <1>7
  <2>2. CASE cut = 0
    <3>1. 0 \notin a.agree /\ m = 1 /\ n = 0
      BY <1>1, <1>7, <2>1, <2>2 DEF MaxOf
    <3>2. Assemble(g, a, k) = [i \in 1 .. 1 |-> "mtp"]
      BY <1>4, <3>1 DEF Native
    <3>3. SoloDraft(a, c) = [i \in 1 .. 1 |-> "mtp"]
      BY <1>5, <3>1, <2>2 DEF MaxOf
    <3>. QED  BY <3>2, <3>3
  <2>3. CASE cut # 0
    <3>1. m = cut /\ MaxOf(cut, 1) = cut /\ cut > 0 /\ MinOf(cut, NSpec) = cut
      BY <1>1, <2>1, <2>3 DEF MaxOf, MinOf
    <3>2. Assemble(g, a, k) = [i \in 1 .. cut |-> IF i <= cut THEN "mtp" ELSE "ngram"]
      <4>1. n # 0 /\ MinOf(n, NSpec) = cut
        BY <2>1, <3>1
      <4>. HIDE DEF n, cut
      <4>. QED  BY <1>4, <4>1
    <3>3. SoloDraft(a, c) = [i \in 1 .. cut |-> IF i <= cut THEN "mtp" ELSE "ngram"]
      BY <1>5, <3>1
    <3>. QED  BY <3>2, <3>3
  <2>. QED  BY <2>2, <2>3
<1>. QED  BY <1>6, <1>7

-----------------------------------------------------------------------------
(* The batch                                                               *)

\* The passes that a request needs: it may decide at slot Needs and no earlier.
Needs(a, c) == MinOf(CutSlot(a, c), Limit(c) - 1)

\* What a step in progress has decided, InlineSlot slots of it: each row as if it were alone.
\* A pass is only sampled while somebody still needs it.
Deciding ==
    pc \in {"slot", "loop", "prepared", "exit", "post"} =>
        /\ batch \in 1 .. MaxBatch /\ input \in [Rows(batch) -> Inputs]
        /\ cap \in 0 .. NSpec - 1 /\ stop \in BOOLEAN /\ matched \in BOOLEAN
        /\ ~matched => gate = <<>> /\ ~stop /\ pending = NoSlot /\ slot \in 0 .. NSpec
        /\ matched =>
              /\ InlineSlot \in 0 .. Limit(cap)
              /\ InlineSlot = 0 => gate = <<>> /\ ~stop
              /\ InlineSlot > 0 =>
                    /\ DOMAIN gate = Rows(batch)
                    /\ \A r \in Rows(batch) : RowIs(gate[r], input[r], cap, InlineSlot)
                    /\ stop <=> \A r \in Rows(batch) : gate[r].stopped
                    /\ \E r \in Rows(batch) : Needs(input[r], cap) >= InlineSlot - 1
              /\ pc = "slot" \/ pending # NoSlot => ~stop
        /\ pc \in {"loop", "prepared", "exit"} => slot \in 1 .. NSpec
        /\ pc = "post" => LoopDone /\ pending = NoSlot /\ slot \in 1 .. NSpec

\* What a step has handed over.
HandedOver ==
    /\ BatchIndependent /\ NoWastedForward
    /\ pc = "propose" => batch \in 1 .. MaxBatch /\ input \in [Rows(batch) -> Inputs] /\ matched \in BOOLEAN

SoloInv == OInv /\ Deciding /\ HandedOver

LEMMA SoloInit == OInit => SoloInv
<1>. SUFFICES ASSUME OInit PROVE SoloInv
  OBVIOUS
<1>1. OInv
  BY OInvInit
<1>2. pc = "idle" /\ steps = 0
  BY DEF OInit, Init
<1>3. Deciding /\ BatchIndependent /\ NoWastedForward
  BY <1>2 DEF Deciding, BatchIndependent, NoWastedForward, Finished
<1>. QED  BY <1>1, <1>2, <1>3 DEF SoloInv, HandedOver

\* A decision of the whole batch at the slot it was deferred for.
LEMMA ResolveIs ==
    ASSUME SoloInv, Resolve
    PROVE  Deciding' /\ HandedOver'
<1>. USE GateAssumption, OverlapAssumption
<1>. DEFINE p == pending
            R == Rows(batch)
<1>1. /\ p \in Slots /\ pin = p /\ slot = p + 1 /\ matched /\ pc \in {"prepared", "exit"}
      /\ p # NoSlot
  BY DEF Resolve, Synchronized, SoloInv, OInv
<1>2. /\ pending' = NoSlot /\ gate' = DecideAll(p, p)
      /\ stop' = (stop \/ \A r \in R : gate'[r].stopped)
      /\ UNCHANGED <<pc, batch, input, matched, slot, cap, draft, steps>>
  BY <1>1 DEF Resolve
<1>3. InlineSlot = p /\ InlineSlot' = p + 1
  BY <1>1, <1>2 DEF InlineSlot
<1>4. /\ batch \in 1 .. MaxBatch /\ input \in [R -> Inputs] /\ cap \in 0 .. NSpec - 1
      /\ slot \in 1 .. NSpec /\ ~stop
      /\ p = 0 => gate = <<>>
      /\ p > 0 => /\ DOMAIN gate = R
                  /\ \A r \in R : RowIs(gate[r], input[r], cap, p)
                  /\ stop <=> \A r \in R : gate[r].stopped
  BY <1>1, <1>3, Zenon DEF SoloInv, Deciding
<1>5. p \in Nat /\ p < NSpec /\ p + 1 \in 1 .. NSpec
  BY <1>1 DEF Slots
<1>6. PICK r \in R : p > 0 => ~gate[r].stopped
  <2>1. 1 \in R
    BY <1>4 DEF Rows
  <2>. QED  BY <1>4, <1>5, <2>1
<1>7. p < Limit(cap) /\ Needs(input[r], cap) >= p
  <2>1. /\ Limit(cap) \in 1 .. NSpec /\ CutSlot(input[r], cap) \in 0 .. Limit(cap)
    BY <1>4, CutIs
  <2>2. CASE p = 0
    BY <2>1, <2>2 DEF Needs, MinOf
  <2>3. CASE p > 0
    <3>1. ~(CutSlot(input[r], cap) < p \/ (cap # 0 /\ cap <= p))
      BY <1>4, <1>6, <2>3 DEF RowIs
    <3>. QED  BY <1>4, <1>5, <2>1, <3>1 DEF Needs, MinOf, Limit
  <2>. QED  BY <1>5, <2>2, <2>3
<1>8. ASSUME NEW q \in R PROVE RowIs(gate'[q], input[q], cap, p + 1)
  <2>1. gate'[q] = Decide(IF p = 0 THEN FreshRow ELSE gate[q], input[q], p, p, cap)
    BY <1>2 DEF DecideAll
  <2>2. input[q] \in Inputs
    BY <1>4
  <2>3. CASE p = 0
    <3>1. RowIs(FreshRow, input[q], cap, p)
      BY <1>4, <2>2, <2>3, FreshIs
    <3>2. gate'[q] = Decide(FreshRow, input[q], p, p, cap)
      BY <2>1, <2>3
    <3>. QED  BY <1>4, <1>5, <1>7, <2>2, <3>1, <3>2, DecideIs
  <2>4. CASE p # 0
    <3>1. RowIs(gate[q], input[q], cap, p) /\ gate'[q] = Decide(gate[q], input[q], p, p, cap)
      BY <1>4, <1>5, <2>1, <2>4
    <3>. QED  BY <1>4, <1>5, <1>7, <2>2, <3>1, DecideIs
  <2>. QED  BY <2>3, <2>4
<1>9. DOMAIN gate' = R
  BY <1>2 DEF DecideAll
<1>10. stop' <=> \A q \in R : gate'[q].stopped
  BY <1>2, <1>4
<1>11. stop' \in BOOLEAN
  BY <1>2, <1>4
<1>12. p + 1 \in 0 .. Limit(cap) /\ p + 1 > 0 /\ Needs(input[r], cap) >= p + 1 - 1
  BY <1>4, <1>5, <1>7, CutIs
<1>. HIDE DEF p, R
<1>13. UNCHANGED LoopDone \/ pc # "post"
  BY <1>1
<1>14. /\ InlineSlot' \in 0 .. Limit(cap') /\ InlineSlot' # 0
       /\ DOMAIN gate' = Rows(batch')
       /\ \A q \in Rows(batch') : RowIs(gate'[q], input'[q], cap', InlineSlot')
       /\ stop' <=> \A q \in Rows(batch') : gate'[q].stopped
       /\ \E q \in Rows(batch') : Needs(input'[q], cap') >= InlineSlot' - 1
  <2>1. InlineSlot' = p + 1 /\ batch' = batch /\ input' = input /\ cap' = cap
    BY <1>2, <1>3
  <2>2. InlineSlot' \in 0 .. Limit(cap') /\ InlineSlot' # 0 /\ DOMAIN gate' = Rows(batch')
    BY <2>1, <1>9, <1>12 DEF R
  <2>3. ASSUME NEW q \in Rows(batch') PROVE RowIs(gate'[q], input'[q], cap', InlineSlot')
    <3>1. RowIs(gate'[q], input[q], cap, p + 1)
      BY <2>1, <2>3, <1>8 DEF R
    <3>. QED  BY <2>1, <3>1
  <2>4. stop' <=> \A q \in Rows(batch') : gate'[q].stopped
    BY <2>1, <1>10 DEF R
  <2>5. Needs(input'[r], cap') >= InlineSlot' - 1 /\ r \in Rows(batch')
    <3>1. Needs(input[r], cap) >= p + 1 - 1
      BY <1>12
    <3>2. Needs(input'[r], cap') = Needs(input[r], cap)
      BY <2>1
    <3>3. Needs(input'[r], cap') >= p + 1 - 1
      BY <3>1, <3>2
    <3>4. p + 1 - 1 = InlineSlot' - 1
      BY <1>5, <2>1 DEF p
    <3>5. Needs(input'[r], cap') >= InlineSlot' - 1
      BY <3>3, <3>4, Zenon
    <3>. QED  BY <2>1, <3>5, <1>6 DEF R
  <2>. QED  BY <2>2, <2>3, <2>4, <2>5
<1>15. pc' # "slot" /\ pc' # "post" /\ pc' # "idle" /\ pc' # "propose"
  BY <1>1, <1>2
<1>16. /\ batch' \in 1 .. MaxBatch /\ input' \in [Rows(batch') -> Inputs] /\ cap' \in 0 .. NSpec - 1
       /\ slot' \in 1 .. NSpec /\ matched' /\ matched' \in BOOLEAN
  <2>1. matched \in BOOLEAN
    BY <1>1 DEF SoloInv, Deciding
  <2>. QED  BY <1>1, <1>2, <1>4, <2>1 DEF R
<1>17. Deciding'
  BY <1>2, <1>11, <1>14, <1>15, <1>16 DEF Deciding
<1>18. HandedOver'
  BY <1>15 DEF HandedOver, BatchIndependent, NoWastedForward, Finished
<1>. QED  BY <1>17, <1>18

\* What is handed over at the end of a step.
LEMMA PostprocessIs ==
    ASSUME SoloInv, OPostprocess
    PROVE  Deciding' /\ HandedOver'
<1>. USE GateAssumption, OverlapAssumption
<1>. DEFINE R == Rows(batch)
<1>1. /\ pc = "post" /\ pc' = "idle" /\ pending = NoSlot /\ InlineSlot = slot
      /\ UNCHANGED <<batch, input, matched, gate, slot, cap>>
      /\ draft' = IF gate # <<>> /\ DOMAIN gate = R
                  THEN [r \in R |-> Assemble(gate[r], input[r], slot)]
                  ELSE [r \in R |-> Native(slot)]
  BY DEF OPostprocess, Postprocess, SoloInv, OInv, InlineSlot
<1>2. /\ batch \in 1 .. MaxBatch /\ input \in [R -> Inputs] /\ cap \in 0 .. NSpec - 1
      /\ LoopDone /\ slot \in 1 .. NSpec /\ matched \in BOOLEAN
      /\ ~matched => gate = <<>> /\ ~stop
      /\ matched =>
           /\ slot \in 0 .. Limit(cap)
           /\ DOMAIN gate = R
           /\ \A r \in R : RowIs(gate[r], input[r], cap, slot)
           /\ stop <=> \A r \in R : gate[r].stopped
           /\ \E r \in R : Needs(input[r], cap) >= slot - 1
  <2>1. pc = "post" /\ InlineSlot = slot
    BY <1>1
  <2>2. slot \in 1 .. NSpec
    BY <2>1 DEF SoloInv, Deciding
  <2>3. slot > 0
    BY <2>2
  <2>. QED  BY <2>1, <2>2, <2>3, Zenon DEF SoloInv, Deciding
<1>3. 1 \in R
  BY <1>2 DEF Rows
<1>4. CASE matched
  <2>1. gate # <<>>
    <3>1. DOMAIN <<>> # R
      BY <1>3
    <3>. QED  BY <1>2, <1>4, <3>1
  <2>2. draft' = [r \in R |-> Assemble(gate[r], input[r], slot)]
    BY <1>1, <1>2, <1>4, <2>1
  <2>3. slot \in 1 .. Limit(cap) /\ Limit(cap) \in 1 .. NSpec
    BY <1>2, <1>4, CutIs, <1>3
  <2>4. ASSUME NEW r \in R PROVE gate[r].stopped \/ slot = NSpec
    BY <1>2, <1>4 DEF LoopDone
  <2>5. ASSUME NEW r \in R PROVE draft'[r] = SoloDraft(input[r], cap)
    <3>1. input[r] \in Inputs /\ RowIs(gate[r], input[r], cap, slot)
      BY <1>2, <1>4
    <3>2. Assemble(gate[r], input[r], slot) = SoloDraft(input[r], cap)
      BY <1>2, <2>3, <2>4, <3>1, AssembleIs
    <3>. QED  BY <2>2, <3>2
  <2>6. ASSUME NEW r \in R PROVE Needs(input[r], cap) \in Nat /\ Needs(input[r], cap) <= slot - 1
    <3>1. input[r] \in Inputs /\ RowIs(gate[r], input[r], cap, slot)
      BY <1>2, <1>4
    <3>2. CutSlot(input[r], cap) \in 0 .. Limit(cap) /\ (cap # 0 => Limit(cap) = cap)
      BY <1>2, <3>1, CutIs DEF Limit
    <3>3. CutSlot(input[r], cap) < slot \/ (cap # 0 /\ cap <= slot) \/ slot = NSpec
      BY <2>4, <3>1 DEF RowIs
    <3>. QED  BY <1>2, <2>3, <3>2, <3>3 DEF Needs, MinOf
  <2>. DEFINE S == {MinOf(CutSlot(input[r], cap), Limit(cap) - 1) : r \in R}
  <2>7. Max(S) = slot - 1
    <3>1. PICK r \in R : Needs(input[r], cap) >= slot - 1
      BY <1>2, <1>4
    <3>2. Needs(input[r], cap) = slot - 1
      BY SMTT(30), <1>2, <2>6, <3>1
    <3>3. slot - 1 \in S
      BY <3>2 DEF Needs
    <3>4. S \subseteq Nat /\ \A y \in S : y <= slot - 1
      BY <2>6 DEF Needs
    <3>. HIDE DEF S
    <3>. QED  BY <3>3, <3>4, MaxIs
  <2>8. slot = 1 + Max(S)
    BY <1>2, <2>7
  <2>9. BatchIndependent'
    BY <1>1, <1>4, <2>5 DEF BatchIndependent
  <2>10. NoWastedForward'
    BY <1>1, <2>8 DEF NoWastedForward
  <2>. QED  BY <1>1, <2>9, <2>10 DEF Deciding, HandedOver
<1>5. CASE ~matched
  <2>1. draft' = [r \in R |-> Native(slot)] /\ slot = NSpec
    BY <1>1, <1>2, <1>5 DEF LoopDone
  <2>2. \A r \in R : draft'[r] = Native(NSpec)
    BY <2>1
  <2>3. BatchIndependent' /\ NoWastedForward'
    BY <1>1, <1>5, <2>2 DEF BatchIndependent, NoWastedForward
  <2>. QED  BY <1>1, <2>3 DEF Deciding, HandedOver
<1>. QED  BY <1>4, <1>5

LEMMA SoloNext == ASSUME SoloInv, [ONext]_ovars PROVE SoloInv'
<1>. USE GateAssumption, OverlapAssumption
<1>0. OInv'
  BY OInvNext DEF SoloInv
<1>. SUFFICES Deciding' /\ HandedOver'
  BY <1>0 DEF SoloInv
<1>1. CASE OMatch
  <2>1. /\ pc' = "propose" /\ batch' \in 1 .. MaxBatch
        /\ input' \in [Rows(batch') -> Inputs] /\ matched' \in BOOLEAN
    BY <1>1 DEF OMatch, Match
  <2>. QED  BY <2>1 DEF Deciding, HandedOver, BatchIndependent, NoWastedForward, Finished
<1>2. CASE OPropose
  <2>1. /\ pc = "propose" /\ pc' = "slot" /\ gate' = <<>> /\ slot' = 0 /\ stop' = FALSE
        /\ pending' = NoSlot /\ cap' \in 0 .. NSpec - 1 /\ UNCHANGED <<batch, input, matched>>
    BY <1>2 DEF OPropose, Propose
  <2>2. batch \in 1 .. MaxBatch /\ input \in [Rows(batch) -> Inputs] /\ matched \in BOOLEAN
    BY <2>1 DEF SoloInv, HandedOver
  <2>3. InlineSlot' = 0 /\ 0 \in 0 .. NSpec /\ ~stop'
    BY <2>1 DEF InlineSlot
  <2>4. Limit(cap') \in Nat /\ 0 \in 0 .. Limit(cap')
    BY <2>1 DEF Limit
  <2>5. Deciding'
    <3>1. /\ batch' \in 1 .. MaxBatch /\ input' \in [Rows(batch') -> Inputs]
          /\ cap' \in 0 .. NSpec - 1 /\ stop' \in BOOLEAN /\ matched' \in BOOLEAN
      BY <2>1, <2>2
    <3>2. ~(InlineSlot' > 0) /\ slot' \in 0 .. NSpec
      BY <2>1, <2>3
    <3>3. pc' # "loop" /\ pc' # "prepared" /\ pc' # "exit" /\ pc' # "post"
      BY <2>1
    <3>. QED  BY <2>1, <2>3, <2>4, <3>1, <3>2, <3>3, Zenon DEF Deciding
  <2>. QED  BY <2>1, <2>5 DEF HandedOver, BatchIndependent, NoWastedForward, Finished
<1>3. CASE DeferSample
  <2>1. /\ pc = "slot" /\ pc' = "loop" /\ pending = NoSlot /\ slot' = slot + 1
        /\ IF matched THEN pending' = slot ELSE pending' = pending
        /\ UNCHANGED <<batch, input, matched, gate, stop, cap>>
    BY <1>3 DEF DeferSample
  <2>2. slot \in Nat /\ slot < NSpec /\ slot' \in 1 .. NSpec /\ InlineSlot = slot /\ slot # NoSlot
    BY <2>1 DEF SoloInv, OInv, InlineSlot, Slots
  <2>3. InlineSlot' = IF matched THEN InlineSlot ELSE slot'
    BY <2>1, <2>2 DEF InlineSlot
  <2>4. ~stop
    BY <2>1, Zenon DEF SoloInv, Deciding
  <2>5. Deciding'
    <3>1. CASE matched
      <4>1. InlineSlot' = InlineSlot
        BY <2>3, <3>1
      <4>. QED  BY <2>1, <2>2, <2>4, <3>1, <4>1 DEF SoloInv, Deciding
    <3>2. CASE ~matched
      <4>1. pending' = NoSlot
        BY <2>1, <3>2
      <4>. QED  BY <2>1, <2>2, <2>4, <3>2, <4>1 DEF SoloInv, Deciding
    <3>. QED  BY <3>1, <3>2
  <2>. QED  BY <2>1, <2>5 DEF HandedOver, BatchIndependent, NoWastedForward, Finished
<1>4. CASE CopyLands
  BY <1>4 DEF CopyLands, vars, SoloInv, Deciding, HandedOver, BatchIndependent, NoWastedForward,
              Finished, InlineSlot, LoopDone
<1>5. CASE PreparePass
  <2>1. /\ pc = "loop" /\ pc' \in {"exit", "prepared"}
        /\ UNCHANGED <<batch, input, matched, gate, slot, stop, cap, pending>>
    BY <1>5 DEF PreparePass
  <2>2. InlineSlot' = InlineSlot
    BY <2>1 DEF InlineSlot
  <2>3. Deciding'
    BY <2>1, <2>2 DEF SoloInv, Deciding
  <2>. QED  BY <2>1, <2>3 DEF HandedOver, BatchIndependent, NoWastedForward, Finished
<1>6. CASE Resolve
  BY <1>6, ResolveIs
<1>7. CASE BeforeForward
  <2>1. /\ pc = "prepared" /\ pending = NoSlot /\ pc' = IF stop THEN "exit" ELSE "slot"
        /\ UNCHANGED <<batch, input, matched, gate, slot, stop, cap, pending>>
    BY <1>7 DEF BeforeForward, Resolved
  <2>2. InlineSlot' = InlineSlot
    BY <2>1 DEF InlineSlot
  <2>3. pc' \in {"exit", "slot"} /\ (pc' = "slot" => ~stop)
    BY <2>1
  <2>4. Deciding'
    BY <2>1, <2>2, <2>3 DEF SoloInv, Deciding
  <2>. QED  BY <2>3, <2>4 DEF HandedOver, BatchIndependent, NoWastedForward, Finished
<1>8. CASE EnterPostprocess
  <2>1. /\ pc = "exit" /\ pending = NoSlot /\ pc' = "post" /\ LoopDone
        /\ UNCHANGED <<batch, input, matched, gate, slot, stop, cap, pending>>
    BY <1>8 DEF EnterPostprocess, Resolved, SoloInv, OInv
  <2>2. InlineSlot' = InlineSlot /\ LoopDone'
    BY <2>1 DEF InlineSlot, LoopDone
  <2>3. Deciding'
    BY <2>1, <2>2 DEF SoloInv, Deciding
  <2>. QED  BY <2>1, <2>3 DEF HandedOver, BatchIndependent, NoWastedForward, Finished
<1>9. CASE OPostprocess
  BY <1>9, PostprocessIs
<1>10. CASE UNCHANGED ovars
  BY <1>10 DEF ovars, vars, SoloInv, Deciding, HandedOver, BatchIndependent, NoWastedForward,
              Finished, InlineSlot, LoopDone
<1>. QED
  BY <1>1, <1>2, <1>3, <1>4, <1>5, <1>6, <1>7, <1>8, <1>9, <1>10 DEF ONext

\* However long other requests keep the loop running, and although every decision is
\* deferred behind the next pass's preparation, each request is handed the draft it would
\* have got alone, for any width, threshold, schedule, batch and confidences.
THEOREM DraftsAreSolo == OSpec => []BatchIndependent
<1>1. SoloInv => BatchIndependent
  BY DEF SoloInv, HandedOver
<1>. QED  BY <1>1, SoloInit, SoloNext, PTL DEF OSpec

\* The loop runs exactly as many passes as the request that decides last needs.
THEOREM NoPassWasted == OSpec => []NoWastedForward
<1>1. SoloInv => NoWastedForward
  BY DEF SoloInv, HandedOver
<1>. QED  BY <1>1, SoloInit, SoloNext, PTL DEF OSpec

\* At the forward cap nobody is left who would get the tail for having agreed all along.
THEOREM AgreementOverlapped == OSpec => []AgreementStops
<1>1. SoloInv => AgreementStops
  <2>. SUFFICES ASSUME SoloInv, matched, gate # <<>>, pc \in {"slot", "loop", "post"},
                       NEW r \in Rows(batch)
                PROVE  gate[r].stopped \/ ~gate[r].allagree
    BY DEF AgreementStops
  <2>1. InlineSlot > 0 /\ RowIs(gate[r], input[r], cap, InlineSlot)
    <3>1. InlineSlot \in 0 .. Limit(cap) /\ (InlineSlot = 0 => gate = <<>>) /\ cap \in 0 .. NSpec - 1
      BY Zenon DEF SoloInv, Deciding
    <3>2. InlineSlot > 0
      BY <3>1, GateAssumption DEF Limit
    <3>. QED  BY <3>2, Zenon DEF SoloInv, Deciding
  <2>2. ASSUME gate[r].allagree PROVE CutSlot(input[r], cap) = 0
    BY <2>1, <2>2 DEF RowIs
  <2>3. CutSlot(input[r], cap) = 0 => gate[r].stopped
    BY <2>1 DEF RowIs
  <2>. QED  BY <2>2, <2>3
<1>. QED  BY <1>1, SoloInit, SoloNext, PTL DEF OSpec

\* Deferred or not, where a request stopped and what it chose are final within a step.
THEOREM FrozenOverlapped == OSpec => DecisionFrozen
<1>. DEFINE Frozen == \A r \in DOMAIN gate :
                        gate[r].stopped /\ gate' # <<>> =>
                            /\ gate'[r].stopped
                            /\ gate'[r].sslot = gate[r].sslot
                            /\ gate'[r].saction = gate[r].saction
<1>1. SoloInv /\ [ONext]_ovars => [Frozen]_vars
  <2>. SUFFICES ASSUME SoloInv, ONext PROVE Frozen
    BY DEF ovars
  <2>1. CASE Resolve
    <3>. DEFINE p == pending
    <3>0. /\ p \in Slots /\ pin = p /\ slot = p + 1 /\ matched /\ pc \in {"prepared", "exit"}
          /\ p # NoSlot
      BY <2>1, OverlapAssumption DEF Resolve, Synchronized, SoloInv, OInv
    <3>1. gate' = DecideAll(p, p) /\ InlineSlot = p /\ p \in Nat
      BY <2>1, <3>0 DEF Resolve, InlineSlot, Slots
    <3>2. gate = <<>> \/ (p > 0 /\ DOMAIN gate = Rows(batch))
      <4>1. (InlineSlot = 0 => gate = <<>>) /\ (InlineSlot > 0 => DOMAIN gate = Rows(batch))
        BY <3>0, Zenon DEF SoloInv, Deciding
      <4>. QED  BY <3>1, <4>1
    <3>3. ASSUME p > 0, NEW r \in Rows(batch), gate[r].stopped
          PROVE  /\ gate'[r].stopped
                 /\ gate'[r].sslot = gate[r].sslot
                 /\ gate'[r].saction = gate[r].saction
      <4>1. gate'[r] = Decide(gate[r], input[r], p, p, cap)
        BY <3>1, <3>3 DEF DecideAll
      <4>2. Decide(gate[r], input[r], p, p, cap).stopped
        BY <3>3, Zenon DEF Decide
      <4>3. Decide(gate[r], input[r], p, p, cap).sslot = gate[r].sslot
        BY <3>3 DEF Decide, Newly
      <4>4. Decide(gate[r], input[r], p, p, cap).saction = gate[r].saction
        BY <3>3 DEF Decide, Newly
      <4>. QED  BY <4>1, <4>2, <4>3, <4>4
    <3>. QED  BY <3>2, <3>3
  <2>2. OPropose => gate' = <<>>
    BY DEF OPropose, Propose
  <2>3. OMatch \/ DeferSample \/ CopyLands \/ PreparePass \/ BeforeForward
           \/ EnterPostprocess \/ OPostprocess => gate' = gate
    BY DEF OMatch, Match, DeferSample, CopyLands, vars, PreparePass, BeforeForward,
           EnterPostprocess, OPostprocess, Postprocess
  <2>. QED  BY <2>1, <2>2, <2>3 DEF ONext
<1>2. OSpec => []SoloInv
  BY SoloInit, SoloNext, PTL DEF OSpec
<1>. QED  BY <1>1, <1>2, PTL DEF OSpec, DecisionFrozen

-----------------------------------------------------------------------------
(* DynWidth                                                                *)

\* What k steps in a row that accepted everything have made of an average, in hundredths.
Climbed(ema, k) ==
    \A i \in 1 .. DwFull :
        /\ k >= 4 * i - 4 => ema >= 100 * i - 100
        /\ k >= 4 * i - 3 => ema >= 100 * i - 30
        /\ k >= 4 * i - 2 => ema >= 100 * i + 1

\* The width a list must have that is verified when k steps in a row accepted everything.
WideAfter(width, k) ==
    /\ width \in 0 .. DwFull
    /\ width > 0 => \A i \in 1 .. DwFull : k >= 4 * i - 4 => width >= i

Verifies(width) == IF width > 0 THEN 1 ELSE 0

\* Observations of r that are still in flight.
Unseen(r) ==
    (IF Len(dwFlight) >= 1 THEN Verifies(dwFlight[1][r]) ELSE 0)
        + (IF Len(dwFlight) >= 2 THEN Verifies(dwFlight[2][r]) ELSE 0)

DwTypeOK ==
    /\ dwMode \in DwModes /\ dwKnob \in DwKnobs /\ dwRunning \in SUBSET DwRequests
    /\ dwPhase \in {"schedule", "draft"}
    /\ dwSpec = [r \in DwRequests |-> r]
    /\ dwLen \in [Lists -> 0 .. DwFull] /\ dwLen[Shared] = DwFull
    /\ dwFlight \in Seq([DwRequests -> 0 .. DwFull]) /\ Len(dwFlight) <= 2
    /\ dwEma \in [DwRequests -> Int]
    /\ dwSlack \in [DwRequests -> BOOLEAN] /\ dwStreak \in [DwRequests -> Nat]

\* A request that was never refused anything has seen nothing but full widths.
EarnedOf(r) ==
    /\ dwEma[r] = NoEma => dwStreak[r] = 0
    /\ dwEma[r] # NoEma =>
          /\ dwEma[r] >= 0 /\ Climbed(dwEma[r], dwStreak[r])
          /\ dwSlack[r] \/ dwEma[r] >= 100 * DwFull

\* What is verified was cut by its own average only, and is as wide as the streak will ask
\* for once everything ahead of it has been observed.
CutByItself(width, k, slack) ==
    /\ WideAfter(width, k)
    /\ width \in {0, DwFull} \/ slack

PipelineOf(r) ==
    /\ Len(dwFlight) >= 1 => CutByItself(dwFlight[1][r], dwStreak[r], dwSlack[r])
    /\ Len(dwFlight) >= 2 =>
          CutByItself(dwFlight[2][r], dwStreak[r] + Verifies(dwFlight[1][r]), dwSlack[r])
    /\ r \in dwRunning => CutByItself(dwLen[r], dwStreak[r] + Unseen(r), dwSlack[r])
    /\ r \notin dwRunning =>
          \A n \in 1 .. 2 : Len(dwFlight) >= n => dwFlight[n][r] = 0

DwInv == DwTypeOK /\ \A r \in DwRequests : EarnedOf(r) /\ PipelineOf(r)

LEMMA DwInitOK == DwInit => DwInv
<1>. SUFFICES ASSUME DwInit PROVE DwInv
  OBVIOUS
<1>. USE DynWidthAssumption
<1>1. DwTypeOK
  BY DEF DwInit, DwTypeOK, Lists, Shared, NoEma
<1>2. ASSUME NEW r \in DwRequests PROVE EarnedOf(r) /\ PipelineOf(r)
  <2>1. dwEma[r] = NoEma /\ dwStreak[r] = 0 /\ Len(dwFlight) = 0 /\ dwLen[r] = 0
    BY DEF DwInit, Lists, Shared
  <2>. QED  BY <2>1 DEF EarnedOf, PipelineOf, CutByItself, WideAfter, Unseen
<1>. QED  BY <1>1, <1>2 DEF DwInv

\* A cap leaves the width the average asks for.
LEMMA CapIs ==
    ASSUME DwTypeOK, NEW r \in DwRequests, NEW n \in 1 .. DwFull
    PROVE  /\ Capped(r, n) \in 1 .. n
           /\ Capped(r, n) < n => dwEma[r] # NoEma /\ dwEma[r] <= 100 * (n - 1)
           /\ dwEma[r] # NoEma =>
                 \A i \in 0 .. n - 1 : dwEma[r] > 100 * i => Capped(r, n) >= i + 1
<1>. USE DynWidthAssumption
<1>. DEFINE e == dwEma[r]
            m == dwKnob.margin
            least == dwKnob.min
            c == CeilDiv(e, 100)
<1>1. e \in Int /\ m \in Nat /\ least \in Nat \ {0} /\ n \in Nat
  BY DEF DwTypeOK
<1>2. c \in Int /\ 100 * c >= e /\ 100 * (c - 1) < e
  <2>. HIDE DEF e
  <2>. QED  BY <1>1 DEF CeilDiv
<1>3. CASE Cardinality(dwRunning) < dwKnob.batch \/ e = NoEma
  <2>1. Capped(r, n) = n
    BY <1>3 DEF Capped
  <2>. QED  BY <1>1, <2>1
<1>4. CASE ~(Cardinality(dwRunning) < dwKnob.batch \/ e = NoEma)
  <2>. DEFINE w == Smaller(n, Larger(least, c + m))
  <2>1. Capped(r, n) = w
    BY <1>4, <1>1 DEF Capped
  <2>. HIDE DEF c, m, least, e
  <2>2. w \in 1 .. n /\ (w = n \/ w >= c)
    BY <1>1, <1>2 DEF Smaller, Larger
  <2>. HIDE DEF w
  <2>3. ASSUME w < n PROVE e <= 100 * (n - 1)
    BY <1>1, <1>2, <2>2, <2>3
  <2>4. ASSUME NEW i \in 0 .. n - 1, e > 100 * i PROVE w >= i + 1
    <3>1. c >= i + 1
      BY <1>1, <1>2, <2>4
    <3>. QED  BY <1>1, <1>2, <2>2, <2>4, <3>1
  <2>. QED  BY <1>4, <2>1, <2>2, <2>3, <2>4 DEF e
<1>. QED  BY <1>3, <1>4

\* A list that is made behind at most two observations that are still to come.
LEMMA ListIs ==
    ASSUME DwTypeOK, NEW r \in DwRequests, EarnedOf(r), NEW ahead \in 0 .. 2
    PROVE  /\ Capped(r, DwFull) \in 1 .. DwFull
           /\ CutByItself(Capped(r, DwFull), dwStreak[r] + ahead, dwSlack[r])
<1>. USE DynWidthAssumption
<1>. DEFINE w == Capped(r, DwFull)
<1>0. /\ w \in 1 .. DwFull
      /\ w < DwFull => dwEma[r] # NoEma /\ dwEma[r] <= 100 * (DwFull - 1)
      /\ dwEma[r] # NoEma => \A i \in 0 .. DwFull - 1 : dwEma[r] > 100 * i => w >= i + 1
  BY CapIs
<1>. HIDE DEF w
<1>1. dwEma[r] \in Int /\ dwStreak[r] \in Nat
  BY DEF DwTypeOK
<1>2. w = DwFull \/ dwSlack[r]
  <2>1. ASSUME w # DwFull PROVE ~(dwEma[r] >= 100 * DwFull) /\ dwEma[r] # NoEma
    BY <1>0, <1>1, <2>1
  <2>. QED  BY <2>1 DEF EarnedOf
<1>3. ASSUME NEW i \in 1 .. DwFull, dwStreak[r] + ahead >= 4 * i - 4 PROVE w >= i
  <2>1. CASE i = 1
    BY <1>0, <2>1
  <2>2. CASE i > 1
    <3>. DEFINE h == i - 1
    <3>1. h \in 1 .. DwFull /\ dwStreak[r] >= 4 * h - 2 /\ dwStreak[r] > 0
      BY <1>1, <1>3, <2>2
    <3>2. dwEma[r] # NoEma
      BY <1>1, <3>1 DEF EarnedOf
    <3>3. dwEma[r] >= 100 * h + 1
      BY <3>1, <3>2 DEF EarnedOf, Climbed
    <3>4. h \in 0 .. DwFull - 1 /\ dwEma[r] > 100 * h
      BY <1>1, <1>3, <2>2, <3>3
    <3>5. w >= h + 1
      BY <1>0, <3>2, <3>4
    <3>. QED  BY <1>0, <3>5
  <2>. QED  BY <2>1, <2>2
<1>. QED  BY <1>0, <1>2, <1>3 DEF CutByItself, WideAfter, w

\* The average of a step that accepts more than w drafts' worth of evidence.
LEMMA AverageClimbs ==
    ASSUME NEW e \in Nat, NEW obs \in Int, NEW i \in Nat, obs >= 100 * (i + 1)
    PROVE  /\ Average(e, obs) \in Int
           /\ e >= 100 * i - 100 => Average(e, obs) >= 100 * i - 30
           /\ e >= 100 * i - 30 => Average(e, obs) >= 100 * i + 1
           /\ e >= 100 * i + 1 => Average(e, obs) >= 100 * i + 1
<1>1. Average(e, obs) = (35 * obs + 65 * e) \div 100
  BY DEF Average, NoEma, Alpha
<1>2. ASSUME NEW b \in Int, 35 * obs + 65 * e >= 100 * b PROVE Average(e, obs) >= b
  BY <1>1, <1>2
<1>3. e >= 100 * i - 100 => 35 * obs + 65 * e >= 100 * (100 * i - 30)
  OBVIOUS
<1>4. e >= 100 * i - 30 => 35 * obs + 65 * e >= 100 * (100 * i + 1)
  OBVIOUS
<1>5. e >= 100 * i + 1 => 35 * obs + 65 * e >= 100 * (100 * i + 1)
  OBVIOUS
<1>. QED  BY <1>1, <1>2, <1>3, <1>4, <1>5

\* Averages do not turn negative, and those of full widths stay at the full width.
LEMMA AverageStays ==
    ASSUME NEW e \in Int, e = NoEma \/ e >= 0, NEW obs \in Nat
    PROVE  /\ Average(e, obs) \in Nat
           /\ \A b \in Nat : (e = NoEma \/ e >= b) /\ obs >= b => Average(e, obs) >= b
<1>1. CASE e = NoEma
  BY <1>1 DEF Average
<1>2. CASE e # NoEma
  <2>1. Average(e, obs) = (35 * obs + 65 * e) \div 100 /\ e >= 0
    BY <1>2 DEF Average, Alpha
  <2>. QED  BY <1>2, <2>1
<1>. QED  BY <1>1, <1>2

\* A step that accepts all of a width that its streak asked for.
LEMMA StepClimbs ==
    ASSUME NEW e \in Int, NEW k \in Nat, e = NoEma => k = 0,
           e # NoEma => e >= 0 /\ Climbed(e, k),
           NEW w \in 1 .. DwFull, WideAfter(w, k)
    PROVE  Climbed(Average(e, Observed(w, w)), k + 1)
<1>. USE DynWidthAssumption
<1>. DEFINE obs == 100 * (w + 1)
            a == Average(e, obs)
<1>1. Observed(w, w) = obs /\ obs \in Nat /\ obs >= 200 /\ a \in Nat
  <2>1. Observed(w, w) = obs /\ obs \in Nat /\ obs >= 200
    BY DEF Observed
  <2>. HIDE DEF obs
  <2>. QED  BY <2>1, AverageStays
<1>2. ASSUME NEW i \in 1 .. DwFull, k >= 4 * i - 4 PROVE obs >= 100 * (i + 1)
  <2>1. w >= i
    BY <1>2 DEF WideAfter
  <2>. QED  BY <2>1
<1>3. CASE e = NoEma
  <2>1. a = obs /\ k = 0
    BY <1>3 DEF Average
  <2>. HIDE DEF obs, a
  <2>2. ASSUME NEW i \in 1 .. DwFull, k + 1 >= 4 * i - 4 PROVE i = 1
    BY <2>1, <2>2
  <2>3. Climbed(a, k + 1)
    BY <1>1, <2>1, <2>2 DEF Climbed
  <2>. QED  BY <1>1, <2>3 DEF a
<1>4. CASE e # NoEma
  <2>1. e \in Nat /\ Climbed(e, k)
    BY <1>4
  <2>. HIDE DEF obs
  <2>2. ASSUME NEW i \in 1 .. DwFull, k + 1 >= 4 * i - 2 PROVE a >= 100 * i + 1
    <3>1. k >= 4 * i - 3 /\ k >= 4 * i - 4
      BY <2>2
    <3>2. e >= 100 * i - 30
      BY <2>1, <3>1 DEF Climbed
    <3>3. obs >= 100 * (i + 1)
      BY <1>2, <3>1
    <3>. QED  BY <1>1, <2>1, <3>2, <3>3, AverageClimbs
  <2>3. ASSUME NEW i \in 1 .. DwFull, k + 1 >= 4 * i - 3 PROVE a >= 100 * i - 30
    <3>1. k >= 4 * i - 4
      BY <2>3
    <3>2. e >= 100 * i - 100
      BY <2>1, <3>1 DEF Climbed
    <3>3. obs >= 100 * (i + 1)
      BY <1>2, <3>1
    <3>. QED  BY <1>1, <2>1, <3>2, <3>3, AverageClimbs
  <2>4. ASSUME NEW i \in 1 .. DwFull, k + 1 >= 4 * i - 4 PROVE a >= 100 * i - 100
    <3>1. CASE i = 1
      BY <1>1, <3>1
    <3>2. CASE i > 1
      <4>1. PICK h \in 1 .. DwFull : i = h + 1 /\ k >= 4 * h - 2 /\ k >= 4 * h - 4
        BY <2>4, <3>2
      <4>2. e >= 100 * h + 1
        BY <2>1, <4>1 DEF Climbed
      <4>3. obs >= 100 * (h + 1)
        BY <1>2, <4>1
      <4>. HIDE DEF a
      <4>4. a >= 100 * h + 1
        <5>1. h \in Nat /\ obs \in Int /\ e \in Nat
          BY <1>1, <2>1, <4>1
        <5>2. Average(e, obs) >= 100 * h + 1
          BY <4>2, <4>3, <5>1, AverageClimbs
        <5>. QED  BY <5>2 DEF a
      <4>5. 100 * i - 100 = 100 * h
        BY <4>1
      <4>. QED  BY <1>1, <4>1, <4>4, <4>5
    <3>. QED  BY <3>1, <3>2
  <2>. HIDE DEF a
  <2>5. Climbed(a, k + 1)
    BY <2>2, <2>3, <2>4 DEF Climbed
  <2>. QED  BY <1>1, <2>5 DEF a
<1>. QED  BY <1>3, <1>4

\* Anything that is observed leaves an average that owes a streak of zero nothing.
LEMMA NothingOwed ==
    ASSUME NEW e \in Nat PROVE Climbed(e, 0)
BY DynWidthAssumption DEF Climbed

LEMMA FlightsAre == ASSUME DwTypeOK PROVE Len(dwFlight) \in 0 .. 2
<1>1. dwFlight \in Seq([DwRequests -> 0 .. DwFull])
  BY DEF DwTypeOK
<1>2. Len(dwFlight) \in Nat
  BY <1>1
<1>3. Len(dwFlight) <= 2
  BY DEF DwTypeOK
<1>4. \A n \in Nat : n <= 2 => n \in 0 .. 2
  OBVIOUS
<1>. QED  BY <1>2, <1>3, <1>4, Zenon

\* A shorter streak asks for less, and a request that was once refused may be narrower.
LEMMA CutWeaker ==
    ASSUME NEW width, NEW k \in Nat, NEW k2 \in Nat, k2 <= k,
           NEW slack \in BOOLEAN, NEW slack2 \in BOOLEAN, slack => slack2,
           CutByItself(width, k, slack)
    PROVE  CutByItself(width, k2, slack2)
<1>1. \A i \in 1 .. DwFull : k2 >= 4 * i - 4 => k >= 4 * i - 4
  BY DynWidthAssumption
<1>. QED  BY <1>1 DEF CutByItself, WideAfter

\* No drafts owe nothing, and neither do any after a refusal with two steps in flight.
LEMMA CutOfNone == ASSUME NEW k \in Nat, NEW slack \in BOOLEAN PROVE CutByItself(0, k, slack)
BY DynWidthAssumption DEF CutByItself, WideAfter

LEMMA CutRefused ==
    ASSUME NEW width \in 0 .. DwFull, NEW k \in 0 .. 2 PROVE CutByItself(width, k, TRUE)
<1>1. \A i \in 1 .. DwFull : k >= 4 * i - 4 => i = 1
  BY DynWidthAssumption
<1>. QED  BY <1>1, DynWidthAssumption DEF CutByItself, WideAfter

LEMMA VerifiesIs == \A n : Verifies(n) \in 0 .. 1
BY DEF Verifies

LEMMA UnseenIs == ASSUME NEW r PROVE Unseen(r) \in 0 .. 2 /\ Unseen(r)' \in 0 .. 2
<1>1. Verifies(dwFlight[1][r]) \in 0 .. 1 /\ Verifies(dwFlight[2][r]) \in 0 .. 1
  BY VerifiesIs
<1>2. Verifies(dwFlight'[1][r]) \in 0 .. 1 /\ Verifies(dwFlight'[2][r]) \in 0 .. 1
  BY VerifiesIs
<1>3. Unseen(r) \in 0 .. 2
  BY <1>1 DEF Unseen
<1>4. Unseen(r)' \in 0 .. 2
  BY <1>2 DEF Unseen
<1>. QED  BY <1>3, <1>4

LEMMA ScheduleOK == ASSUME DwInv, ScheduleStep PROVE DwInv'
<1>. USE DynWidthAssumption
<1>0. DwTypeOK /\ (\A r \in DwRequests : EarnedOf(r) /\ PipelineOf(r))
  BY DEF DwInv
<1>1. PICK took \in (SUBSET dwRunning) \ {{}} :
          /\ dwFlight' = Append(dwFlight,
                [r \in DwRequests |-> IF r \in took THEN dwLen[dwSpec[r]] ELSE 0])
          /\ Planned(took, [r \in took |-> IF dwMode = "async" THEN dwLen[Shared] ELSE 0])
  BY DEF ScheduleStep
<1>2. /\ UNCHANGED <<dwMode, dwKnob, dwRunning, dwEma, dwPhase, dwSlack, dwStreak>>
      /\ Len(dwFlight) < Depth
  BY DEF ScheduleStep
<1>. DEFINE step == [r \in DwRequests |-> IF r \in took THEN dwLen[r] ELSE 0]
<1>3. dwFlight' = Append(dwFlight, step)
  BY <1>0, <1>1 DEF DwTypeOK
<1>4. /\ took \subseteq DwRequests /\ DwRequests \subseteq Lists /\ Shared \in Lists
      /\ Shared \notin took /\ took \subseteq dwRunning
  BY <1>0, <1>1 DEF DwTypeOK, Lists, Shared
<1>5. step \in [DwRequests -> 0 .. DwFull]
  BY <1>0, <1>4 DEF DwTypeOK
<1>6. Len(dwFlight) \in {0, 1} /\ dwFlight \in Seq([DwRequests -> 0 .. DwFull])
  <2>1. Len(dwFlight) \in 0 .. 2 /\ Depth \in {1, 2}
    BY <1>0, FlightsAre DEF Depth
  <2>2. Len(dwFlight) \in {0, 1}
    BY <1>2, <2>1
  <2>. QED  BY <1>0, <2>2 DEF DwTypeOK
<1>7. /\ dwFlight' \in Seq([DwRequests -> 0 .. DwFull]) /\ Len(dwFlight') = Len(dwFlight) + 1
      /\ Len(dwFlight) = 1 => dwFlight'[1] = dwFlight[1] /\ dwFlight'[2] = step
      /\ Len(dwFlight) = 0 => dwFlight'[1] = step
  <2>. HIDE DEF step
  <2>. QED  BY <1>3, <1>5, <1>6
<1>8. /\ dwSpec' = [r \in DwRequests |-> r]
      /\ dwLen' = [l \in Lists |->
                      IF l \in took THEN Capped(l, IF dwMode = "async" THEN DwFull ELSE 0)
                      ELSE dwLen[l]]
  <2>1. dwLen[Shared] = DwFull /\ dwSpec = [r \in DwRequests |-> r]
    BY <1>0 DEF DwTypeOK
  <2>. QED  BY <1>1, <1>4, <2>1 DEF Planned
<1>9. ASSUME NEW r \in took
      PROVE  /\ dwLen'[r] \in 0 .. DwFull
             /\ \A ahead \in 0 .. 2 : CutByItself(dwLen'[r], dwStreak[r] + ahead, dwSlack[r])
  <2>1. CASE dwMode = "async"
    <3>1. dwLen'[r] = Capped(r, DwFull) /\ r \in DwRequests
      BY <1>4, <1>8, <2>1
    <3>. QED  BY <1>0, <3>1, ListIs
  <2>2. CASE dwMode # "async"
    <3>1. dwLen'[r] = 0
      BY <1>4, <1>8, <2>2 DEF Capped
    <3>2. dwStreak[r] \in Nat /\ dwSlack[r] \in BOOLEAN
      BY <1>0, <1>4 DEF DwTypeOK
    <3>. QED  BY <3>1, <3>2, CutOfNone
  <2>. QED  BY <2>1, <2>2
<1>10. DwTypeOK'
  <2>1. \A l \in Lists : dwLen'[l] \in 0 .. DwFull
    BY <1>0, <1>8, <1>9 DEF DwTypeOK
  <2>2. dwLen' \in [Lists -> 0 .. DwFull] /\ dwLen'[Shared] = DwFull
    <3>1. dwLen' = [l \in Lists |-> dwLen'[l]]
      BY <1>8
    <3>2. dwLen'[Shared] = DwFull
      BY <1>0, <1>4, <1>8 DEF DwTypeOK
    <3>. QED  BY <2>1, <3>1, <3>2
  <2>. HIDE DEF step
  <2>3. Len(dwFlight') <= 2
    <3>1. Len(dwFlight') = Len(dwFlight) + 1
      BY <1>7
    <3>2. \A n \in {0, 1} : n + 1 <= 2
      OBVIOUS
    <3>. QED  BY <1>6, <3>1, <3>2, Zenon
  <2>. QED  BY <1>0, <1>2, <1>7, <1>8, <2>2, <2>3 DEF DwTypeOK
<1>11. ASSUME NEW r \in DwRequests PROVE EarnedOf(r)' /\ PipelineOf(r)'
  <2>1. EarnedOf(r)'
    BY <1>0, <1>2 DEF EarnedOf
  <2>2. PipelineOf(r) /\ dwStreak[r] \in Nat /\ dwSlack[r] \in BOOLEAN
        /\ dwStreak' = dwStreak /\ dwSlack' = dwSlack /\ dwRunning' = dwRunning
    BY <1>0, <1>2 DEF DwTypeOK
  <2>3. step[r] = 0 \/ (r \in dwRunning /\ step[r] = dwLen[r])
    BY <1>4
  <2>4. r \notin dwRunning => step[r] = 0
    BY <1>4
  <2>5. r \notin took => dwLen'[r] = dwLen[r] /\ step[r] = 0
    BY <1>4, <1>8
  <2>. HIDE DEF step
  <2>6. Unseen(r) \in 0 .. 2 /\ Unseen(r)' \in 0 .. 2
    BY UnseenIs
  <2>7. CutByItself(step[r], dwStreak[r] + Unseen(r), dwSlack[r])
    <3>1. dwStreak[r] + Unseen(r) \in Nat
      BY <2>2, <2>6
    <3>. QED  BY <2>2, <2>3, <3>1, CutOfNone DEF PipelineOf
  <2>8. Unseen(r)' = Unseen(r) + Verifies(step[r])
    <3>1. CASE Len(dwFlight) = 0
      <4>1. Unseen(r)' = Verifies(step[r]) /\ Unseen(r) = 0
        BY <1>7, <3>1, VerifiesIs DEF Unseen
      <4>. QED  BY <4>1, VerifiesIs
    <3>2. CASE Len(dwFlight) = 1
      <4>1. Unseen(r)' = Verifies(dwFlight[1][r]) + Verifies(step[r])
        BY <1>7, <3>2 DEF Unseen
      <4>2. Unseen(r) = Verifies(dwFlight[1][r])
        BY <3>2, VerifiesIs DEF Unseen
      <4>. QED  BY <4>1, <4>2
    <3>. QED  BY <1>6, <3>1, <3>2
  <2>9. r \in dwRunning => CutByItself(dwLen'[r], dwStreak[r] + Unseen(r)', dwSlack[r])
    <3>1. CASE r \in took
      BY <1>9, <2>6, <3>1
    <3>2. CASE r \notin took
      <4>1. Unseen(r)' = Unseen(r)
        BY <2>5, <2>6, <2>8, <3>2 DEF Verifies
      <4>. QED  BY <2>2, <2>5, <3>2, <4>1 DEF PipelineOf
    <3>. QED  BY <3>1, <3>2
  <2>10. PipelineOf(r)'
    <3>1. CASE Len(dwFlight) = 0
      <4>1. Len(dwFlight') = 1 /\ dwFlight'[1][r] = step[r] /\ Unseen(r) = 0
        BY <1>7, <3>1 DEF Unseen
      <4>2. CutByItself(step[r], dwStreak[r], dwSlack[r])
        BY <2>2, <2>7, <4>1
      <4>. QED  BY <2>2, <2>4, <2>9, <4>1, <4>2 DEF PipelineOf
    <3>2. CASE Len(dwFlight) = 1
      <4>1. /\ Len(dwFlight') = 2 /\ dwFlight'[1][r] = dwFlight[1][r] /\ dwFlight'[2][r] = step[r]
            /\ Unseen(r) = Verifies(dwFlight[1][r])
        BY <1>7, <3>2, VerifiesIs DEF Unseen
      <4>. QED  BY <2>2, <2>4, <2>7, <2>9, <3>2, <4>1 DEF PipelineOf
    <3>. QED  BY <1>6, <3>1, <3>2
  <2>. QED  BY <2>1, <2>10
<1>. QED  BY <1>10, <1>11 DEF DwInv

LEMMA ObserveOK == ASSUME DwInv, ObserveStep PROVE DwInv'
<1>. USE DynWidthAssumption
<1>0. DwTypeOK /\ (\A r \in DwRequests : EarnedOf(r) /\ PipelineOf(r))
  BY DEF DwInv
<1>. DEFINE drafted == Head(dwFlight)
            new(r, a) == Average(dwEma[r], Observed(a, drafted[r]))
<1>1. PICK accepted \in [DwRequests -> 0 .. DwFull] :
          /\ \A r \in DwRequests : accepted[r] <= drafted[r]
          /\ dwEma' = [r \in DwRequests |-> IF drafted[r] > 0 THEN new(r, accepted[r]) ELSE dwEma[r]]
          /\ dwSlack' = [r \in DwRequests |-> dwSlack[r] \/ ~(accepted[r] = drafted[r])]
          /\ dwStreak' = [r \in DwRequests |->
                             IF ~(accepted[r] = drafted[r]) THEN 0
                             ELSE IF drafted[r] > 0 THEN dwStreak[r] + 1
                             ELSE dwStreak[r]]
  BY DEF ObserveStep
<1>2. /\ UNCHANGED <<dwMode, dwKnob, dwRunning, dwSpec, dwLen>>
      /\ dwFlight # <<>> /\ dwFlight' = Tail(dwFlight)
      /\ dwPhase' \in {"schedule", "draft"}
  BY <1>0 DEF ObserveStep, DwTypeOK
<1>3. /\ Len(dwFlight) \in {1, 2} /\ dwFlight \in Seq([DwRequests -> 0 .. DwFull])
      /\ drafted = dwFlight[1] /\ drafted \in [DwRequests -> 0 .. DwFull]
      /\ Len(dwFlight') = Len(dwFlight) - 1
      /\ dwFlight' \in Seq([DwRequests -> 0 .. DwFull])
      /\ Len(dwFlight) = 2 => dwFlight'[1] = dwFlight[2]
  <2>1. dwFlight \in Seq([DwRequests -> 0 .. DwFull]) /\ Len(dwFlight) \in 0 .. 2
    BY <1>0, FlightsAre DEF DwTypeOK
  <2>2. Len(dwFlight) # 0
    BY <1>2, <2>1
  <2>3. Len(dwFlight) \in {1, 2} /\ 1 \in 1 .. Len(dwFlight)
    BY <2>1, <2>2
  <2>4. drafted = dwFlight[1]
    BY <1>2, <2>1
  <2>5. dwFlight[1] \in [DwRequests -> 0 .. DwFull]
    BY <2>1, <2>3
  <2>6. /\ dwFlight' \in Seq([DwRequests -> 0 .. DwFull]) /\ Len(dwFlight') = Len(dwFlight) - 1
        /\ Len(dwFlight) = 2 => dwFlight'[1] = dwFlight[2]
    BY <1>2, <2>1, <2>3
  <2>. HIDE DEF drafted
  <2>. QED  BY <2>1, <2>3, <2>4, <2>5, <2>6
<1>. HIDE DEF drafted, new
<1>4. ASSUME NEW r \in DwRequests
      PROVE  /\ dwEma'[r] \in Int /\ dwStreak'[r] \in Nat /\ dwSlack'[r] \in BOOLEAN
             /\ dwSlack[r] => dwSlack'[r]
             /\ EarnedOf(r)'
             /\ dwStreak'[r] <= dwStreak[r] + Verifies(drafted[r])
  <2>0. /\ dwEma[r] \in Int /\ dwStreak[r] \in Nat /\ dwSlack[r] \in BOOLEAN
        /\ EarnedOf(r) /\ CutByItself(drafted[r], dwStreak[r], dwSlack[r])
        /\ drafted[r] \in 0 .. DwFull /\ accepted[r] \in 0 .. DwFull /\ accepted[r] <= drafted[r]
    BY <1>0, <1>1, <1>3 DEF DwTypeOK, PipelineOf
  <2>00. dwEma[r] = NoEma \/ dwEma[r] >= 0
    BY <2>0 DEF EarnedOf
  <2>1. dwSlack' \in [DwRequests -> BOOLEAN] /\ (dwSlack[r] => dwSlack'[r])
    BY <1>1
  <2>2. CASE drafted[r] = 0
    <3>1. accepted[r] = drafted[r]
      BY <2>0, <2>2
    <3>2. dwEma'[r] = dwEma[r] /\ dwStreak'[r] = dwStreak[r] /\ (dwSlack'[r] <=> dwSlack[r])
      BY <1>1, <2>0, <2>2, <3>1
    <3>. QED  BY <2>0, <2>1, <2>2, <3>2 DEF EarnedOf, Verifies
  <2>3. CASE drafted[r] > 0 /\ accepted[r] # drafted[r]
    <3>1. dwEma'[r] = new(r, accepted[r]) /\ dwStreak'[r] = 0 /\ dwSlack'[r]
      BY <1>1, <2>3
    <3>2. Observed(accepted[r], drafted[r]) \in Nat
      BY <2>0, <2>3 DEF Observed
    <3>3. new(r, accepted[r]) \in Nat
      BY <2>0, <2>00, <3>2, AverageStays DEF new
    <3>4. Climbed(new(r, accepted[r]), 0)
      BY <3>3, NothingOwed
    <3>. QED  BY <2>0, <2>1, <2>3, <3>1, <3>3, <3>4 DEF EarnedOf, Verifies, NoEma
  <2>4. CASE drafted[r] > 0 /\ accepted[r] = drafted[r]
    <3>. DEFINE w == drafted[r]
                obs == Observed(w, w)
    <3>1. /\ dwEma'[r] = Average(dwEma[r], obs) /\ dwStreak'[r] = dwStreak[r] + 1
          /\ dwSlack'[r] <=> dwSlack[r]
      BY <1>1, <2>0, <2>4 DEF new
    <3>2. w \in 1 .. DwFull /\ obs = 100 * (w + 1) /\ obs \in Nat
      BY <2>0, <2>4 DEF Observed
    <3>3. Average(dwEma[r], obs) \in Nat
      BY <2>0, <2>00, <3>2, AverageStays
    <3>4. WideAfter(w, dwStreak[r])
      BY <2>0 DEF CutByItself
    <3>5. Climbed(Average(dwEma[r], obs), dwStreak[r] + 1)
      BY <2>0, <3>2, <3>4, StepClimbs DEF EarnedOf
    <3>6. ~dwSlack[r] => Average(dwEma[r], obs) >= 100 * DwFull
      <4>1. ASSUME ~dwSlack[r] PROVE obs >= 100 * DwFull
        <5>1. w = DwFull
          BY <2>0, <3>2, <4>1 DEF CutByItself
        <5>. QED  BY <3>2, <5>1
      <4>2. ASSUME ~dwSlack[r] PROVE dwEma[r] = NoEma \/ dwEma[r] >= 100 * DwFull
        BY <2>0, <4>2 DEF EarnedOf
      <4>3. 100 * DwFull \in Nat
        OBVIOUS
      <4>. HIDE DEF obs, w
      <4>. QED  BY <2>0, <2>00, <3>2, <4>1, <4>2, <4>3, AverageStays
    <3>. HIDE DEF obs
    <3>7. Verifies(w) = 1
      BY <3>2 DEF Verifies
    <3>. QED  BY <2>0, <2>1, <3>1, <3>3, <3>5, <3>6, <3>7 DEF EarnedOf, NoEma
  <2>. QED  BY <2>0, <2>2, <2>3, <2>4
<1>5. /\ dwEma' \in [DwRequests -> Int] /\ dwSlack' \in [DwRequests -> BOOLEAN]
      /\ dwStreak' \in [DwRequests -> Nat]
  <2>1. /\ dwEma' = [r \in DwRequests |-> dwEma'[r]] /\ dwSlack' = [r \in DwRequests |-> dwSlack'[r]]
        /\ dwStreak' = [r \in DwRequests |-> dwStreak'[r]]
    BY <1>1
  <2>. QED  BY <1>4, <2>1
<1>6. DwTypeOK'
  BY <1>0, <1>2, <1>3, <1>5 DEF DwTypeOK
<1>7. ASSUME NEW r \in DwRequests PROVE PipelineOf(r)'
  <2>. DEFINE first == Verifies(dwFlight[1][r])
  <2>0. /\ dwStreak[r] \in Nat /\ dwStreak'[r] \in Nat /\ first \in 0 .. 1
        /\ dwStreak'[r] <= dwStreak[r] + first
        /\ dwSlack[r] => dwSlack'[r]
        /\ dwSlack[r] \in BOOLEAN /\ dwSlack'[r] \in BOOLEAN
        /\ dwRunning' = dwRunning /\ dwLen' = dwLen
    BY <1>0, <1>2, <1>3, <1>4, VerifiesIs DEF DwTypeOK
  <2>1. ASSUME NEW width, NEW ahead \in 0 .. 2,
               CutByItself(width, dwStreak[r] + (first + ahead), dwSlack[r])
        PROVE  CutByItself(width, dwStreak'[r] + ahead, dwSlack'[r])
    <3>1. dwStreak'[r] + ahead <= dwStreak[r] + (first + ahead)
      BY <2>0
    <3>2. dwStreak'[r] + ahead \in Nat /\ dwStreak[r] + (first + ahead) \in Nat
      BY <2>0
    <3>. QED  BY <2>0, <2>1, <3>1, <3>2, CutWeaker
  <2>2. PipelineOf(r)
    BY <1>0
  <2>. HIDE DEF first
  <2>3. CASE Len(dwFlight) = 1
    <3>1. Len(dwFlight') = 0 /\ Unseen(r) = first + 0 /\ Unseen(r)' = 0
      BY <1>3, <2>0, <2>3 DEF Unseen, first
    <3>2. r \in dwRunning => CutByItself(dwLen[r], dwStreak'[r] + 0, dwSlack'[r])
      BY <2>1, <2>2, <3>1 DEF PipelineOf
    <3>. QED  BY <2>0, <2>2, <3>1, <3>2 DEF PipelineOf
  <2>4. CASE Len(dwFlight) = 2
    <3>. DEFINE second == Verifies(dwFlight[2][r])
    <3>1. /\ Len(dwFlight') = 1 /\ dwFlight'[1][r] = dwFlight[2][r]
          /\ Unseen(r) = first + second /\ Unseen(r)' = second + 0 /\ second \in 0 .. 2
      BY <1>3, <2>4, VerifiesIs DEF Unseen, first
    <3>. HIDE DEF second
    <3>2. r \in dwRunning => CutByItself(dwLen[r], dwStreak'[r] + second, dwSlack'[r])
      BY <2>1, <2>2, <3>1 DEF PipelineOf
    <3>3. CutByItself(dwFlight[2][r], dwStreak[r] + (first + 0), dwSlack[r])
      BY <2>0, <2>2, <2>4 DEF PipelineOf, first
    <3>4. CutByItself(dwFlight[2][r], dwStreak'[r] + 0, dwSlack'[r])
      BY <2>1, <3>3
    <3>5. CutByItself(dwFlight'[1][r], dwStreak'[r], dwSlack'[r])
      BY <2>0, <3>1, <3>4
    <3>6. r \notin dwRunning => dwFlight'[1][r] = 0
      BY <2>2, <2>4, <3>1 DEF PipelineOf
    <3>7. Unseen(r)' = second
      BY <3>1
    <3>. QED  BY <2>0, <3>1, <3>2, <3>5, <3>6, <3>7 DEF PipelineOf
  <2>. QED  BY <1>3, <2>3, <2>4
<1>. QED  BY <1>4, <1>6, <1>7 DEF DwInv

\* When the drafts are taken every list is made from what was observed.
LEMMA TakeOK == ASSUME DwInv, TakeDrafts PROVE DwInv'
<1>. USE DynWidthAssumption
<1>0. DwTypeOK /\ (\A r \in DwRequests : EarnedOf(r) /\ PipelineOf(r))
  BY DEF DwInv
<1>1. PICK took \in SUBSET dwRunning : \E want \in [took -> 1 .. DwFull] :
          /\ Planned(took, want)
          /\ dwSlack' = [r \in DwRequests |-> dwSlack[r] \/ (r \in took /\ want[r] < DwFull)]
          /\ dwStreak' = [r \in DwRequests |->
                             IF r \in took /\ want[r] < DwFull THEN 0 ELSE dwStreak[r]]
  BY DEF TakeDrafts
<1>2. PICK want \in [took -> 1 .. DwFull] :
          /\ Planned(took, want)
          /\ dwSlack' = [r \in DwRequests |-> dwSlack[r] \/ (r \in took /\ want[r] < DwFull)]
          /\ dwStreak' = [r \in DwRequests |->
                             IF r \in took /\ want[r] < DwFull THEN 0 ELSE dwStreak[r]]
  BY <1>1
<1>3. /\ UNCHANGED <<dwMode, dwKnob, dwRunning, dwFlight, dwEma>>
      /\ dwPhase' = "schedule"
  BY DEF TakeDrafts
<1>4. /\ took \subseteq DwRequests /\ DwRequests \subseteq Lists /\ Shared \in Lists
      /\ Shared \notin took /\ took \subseteq dwRunning
  BY <1>0, <1>1 DEF DwTypeOK, Lists, Shared
<1>5. /\ dwSpec' = [r \in DwRequests |-> r]
      /\ dwLen' = [l \in Lists |-> IF l \in took THEN Capped(l, want[l]) ELSE dwLen[l]]
  BY <1>0, <1>2 DEF Planned, DwTypeOK
<1>6. ASSUME NEW r \in took
      PROVE  /\ dwLen'[r] = Capped(r, want[r]) /\ dwLen'[r] \in 1 .. want[r]
             /\ want[r] \in 1 .. DwFull /\ r \in DwRequests
  BY <1>0, <1>2, <1>4, <1>5, CapIs
<1>7. DwTypeOK'
  <2>1. ASSUME NEW l \in Lists PROVE dwLen'[l] \in 0 .. DwFull
    <3>1. CASE l \in took
      BY <1>6, <3>1
    <3>2. CASE l \notin took
      BY <1>0, <1>5, <3>2 DEF DwTypeOK
    <3>. QED  BY <3>1, <3>2
  <2>2. dwLen' \in [Lists -> 0 .. DwFull] /\ dwLen'[Shared] = DwFull
    <3>1. dwLen' = [l \in Lists |-> dwLen'[l]]
      BY <1>5
    <3>2. dwLen'[Shared] = DwFull
      BY <1>0, <1>4, <1>5 DEF DwTypeOK
    <3>. QED  BY <2>1, <3>1, <3>2
  <2>3. dwSlack' \in [DwRequests -> BOOLEAN] /\ dwStreak' \in [DwRequests -> Nat]
    BY <1>0, <1>2 DEF DwTypeOK
  <2>. QED  BY <1>0, <1>3, <1>5, <2>2, <2>3 DEF DwTypeOK
<1>8. ASSUME NEW r \in DwRequests
      PROVE  EarnedOf(r)' /\ PipelineOf(r)'
  <2>0. /\ EarnedOf(r) /\ PipelineOf(r) /\ dwStreak[r] \in Nat /\ dwEma[r] \in Int
        /\ dwSlack[r] \in BOOLEAN /\ Len(dwFlight) \in 0 .. 2
        /\ dwRunning' = dwRunning /\ dwFlight' = dwFlight /\ dwEma' = dwEma
    BY <1>0, <1>3, FlightsAre DEF DwTypeOK
  <2>1. /\ dwSlack[r] => dwSlack'[r]
        /\ dwStreak'[r] = dwStreak[r] \/ dwStreak'[r] = 0
        /\ dwSlack'[r] \in BOOLEAN /\ dwStreak'[r] \in Nat /\ dwStreak'[r] <= dwStreak[r]
    BY <1>2, <1>7, <2>0 DEF DwTypeOK
  <2>2. EarnedOf(r)'
    <3>1. dwEma[r] # NoEma => Climbed(dwEma[r], dwStreak'[r])
      <4>1. dwEma[r] # NoEma => dwEma[r] \in Nat
        BY <2>0 DEF EarnedOf
      <4>. QED  BY <2>0, <2>1, <4>1, NothingOwed DEF EarnedOf
    <3>. QED  BY <2>0, <2>1, <3>1 DEF EarnedOf
  <2>3. ASSUME NEW width, NEW ahead \in 0 .. 2,
               CutByItself(width, dwStreak[r] + ahead, dwSlack[r])
        PROVE  CutByItself(width, dwStreak'[r] + ahead, dwSlack'[r])
    <3>1. /\ dwStreak'[r] + ahead <= dwStreak[r] + ahead
          /\ dwStreak'[r] + ahead \in Nat /\ dwStreak[r] + ahead \in Nat
      BY <2>0, <2>1
    <3>. QED  BY <2>0, <2>1, <2>3, <3>1, CutWeaker
  <2>4. Unseen(r) \in 0 .. 2 /\ Unseen(r)' = Unseen(r)
    BY <2>0, UnseenIs DEF Unseen
  <2>5. r \in dwRunning => CutByItself(dwLen'[r], dwStreak'[r] + Unseen(r), dwSlack'[r])
    <3>1. CASE r \notin took
      <4>1. dwLen'[r] = dwLen[r]
        BY <1>4, <1>5, <3>1
      <4>. QED  BY <2>0, <2>3, <2>4, <4>1 DEF PipelineOf
    <3>2. CASE r \in took /\ want[r] = DwFull
      <4>1. CutByItself(Capped(r, DwFull), dwStreak[r] + Unseen(r), dwSlack[r])
        BY <1>0, <2>0, <2>4, ListIs
      <4>. QED  BY <1>6, <2>3, <2>4, <3>2, <4>1
    <3>3. CASE r \in took /\ want[r] # DwFull
      <4>1. want[r] \in 1 .. DwFull /\ dwLen'[r] \in 1 .. want[r]
        BY <1>6, <3>3
      <4>2. want[r] < DwFull /\ dwLen'[r] \in 0 .. DwFull
        BY <3>3, <4>1
      <4>3. dwStreak'[r] = 0 /\ dwSlack'[r]
        BY <1>2, <3>3, <4>2
      <4>4. dwSlack'[r] = TRUE /\ dwStreak'[r] + Unseen(r) \in 0 .. 2
        BY <2>1, <2>4, <4>3
      <4>. QED  BY <4>2, <4>4, CutRefused
    <3>. QED  BY <3>1, <3>2, <3>3
  <2>6. Len(dwFlight) >= 1 => CutByItself(dwFlight[1][r], dwStreak'[r], dwSlack'[r])
    BY <2>0, <2>1, CutWeaker DEF PipelineOf
  <2>7. Len(dwFlight) >= 2 =>
          CutByItself(dwFlight[2][r], dwStreak'[r] + Verifies(dwFlight[1][r]), dwSlack'[r])
    <3>1. Verifies(dwFlight[1][r]) \in 0 .. 2
      BY VerifiesIs
    <3>. QED  BY <2>0, <2>3, <3>1 DEF PipelineOf
  <2>8. PipelineOf(r)'
    BY <2>0, <2>4, <2>5, <2>6, <2>7 DEF PipelineOf
  <2>. QED  BY <2>2, <2>8
<1>. QED  BY <1>7, <1>8 DEF DwInv

LEMMA FinishOK == ASSUME DwInv, NEW q \in DwRequests, Finish(q) PROVE DwInv'
<1>. USE DynWidthAssumption
<1>0. DwTypeOK /\ (\A r \in DwRequests : EarnedOf(r) /\ PipelineOf(r))
  BY DEF DwInv
<1>1. /\ dwRunning' = dwRunning \ {q}
      /\ dwFlight' = [i \in DOMAIN dwFlight |-> [dwFlight[i] EXCEPT ![q] = 0]]
      /\ UNCHANGED <<dwMode, dwKnob, dwSpec, dwLen, dwEma, dwPhase, dwSlack, dwStreak>>
  BY DEF Finish
<1>2. /\ dwFlight' \in Seq([DwRequests -> 0 .. DwFull]) /\ Len(dwFlight') = Len(dwFlight)
      /\ \A i \in 1 .. Len(dwFlight) : dwFlight'[i] = [dwFlight[i] EXCEPT ![q] = 0]
  <2>1. /\ DOMAIN dwFlight = 1 .. Len(dwFlight) /\ Len(dwFlight) \in Nat
        /\ \A i \in 1 .. Len(dwFlight) : dwFlight[i] \in [DwRequests -> 0 .. DwFull]
    BY <1>0 DEF DwTypeOK
  <2>2. \A i \in 1 .. Len(dwFlight) :
            [dwFlight[i] EXCEPT ![q] = 0] \in [DwRequests -> 0 .. DwFull]
    BY <2>1
  <2>3. dwFlight' \in [1 .. Len(dwFlight) -> [DwRequests -> 0 .. DwFull]]
    BY <1>1, <2>1, <2>2
  <2>4. Len(dwFlight') = Len(dwFlight) /\ dwFlight' \in Seq([DwRequests -> 0 .. DwFull])
    BY <2>1, <2>3
  <2>. QED  BY <1>1, <2>1, <2>4
<1>3. DwTypeOK'
  <2>1. dwRunning' \in SUBSET DwRequests
    BY <1>0, <1>1 DEF DwTypeOK
  <2>. QED  BY <1>0, <1>1, <1>2, <2>1 DEF DwTypeOK
<1>4. ASSUME NEW r \in DwRequests PROVE EarnedOf(r)' /\ PipelineOf(r)'
  <2>1. EarnedOf(r)'
    BY <1>0, <1>1 DEF EarnedOf
  <2>2. /\ PipelineOf(r) /\ Len(dwFlight) \in 0 .. 2 /\ Len(dwFlight') = Len(dwFlight)
        /\ dwStreak[r] \in Nat /\ dwSlack[r] \in BOOLEAN
        /\ dwLen' = dwLen /\ dwStreak' = dwStreak /\ dwSlack' = dwSlack
        /\ \A i \in 1 .. Len(dwFlight) : dwFlight[i] \in [DwRequests -> 0 .. DwFull]
    BY <1>0, <1>1, <1>2, FlightsAre DEF DwTypeOK
  <2>3. CASE r = q
    <3>1. \A i \in 1 .. Len(dwFlight) : dwFlight'[i][r] = 0
      BY <1>2, <2>2, <2>3
    <3>2. r \notin dwRunning'
      BY <1>1, <2>3
    <3>3. Len(dwFlight) >= 1 => CutByItself(dwFlight'[1][r], dwStreak[r], dwSlack[r])
      BY <2>2, <3>1, CutOfNone
    <3>4. Len(dwFlight) >= 2 => CutByItself(dwFlight'[2][r],
             dwStreak[r] + Verifies(dwFlight'[1][r]), dwSlack[r])
      <4>1. dwStreak[r] + Verifies(dwFlight'[1][r]) \in Nat
        BY <2>2, VerifiesIs
      <4>. QED  BY <2>2, <3>1, <4>1, CutOfNone
    <3>. QED  BY <2>1, <2>2, <3>1, <3>2, <3>3, <3>4 DEF PipelineOf
  <2>4. CASE r # q
    <3>1. \A i \in 1 .. Len(dwFlight) : dwFlight'[i][r] = dwFlight[i][r]
      BY <1>2, <2>2, <2>4
    <3>2. /\ r \in dwRunning' <=> r \in dwRunning
          /\ Len(dwFlight) >= 1 => dwFlight'[1][r] = dwFlight[1][r]
          /\ Len(dwFlight) >= 2 => dwFlight'[2][r] = dwFlight[2][r]
      BY <1>1, <2>2, <2>4, <3>1
    <3>3. Unseen(r)' = Unseen(r)
      BY <2>2, <3>2 DEF Unseen
    <3>4. PipelineOf(r)'
      BY <2>2, <3>1, <3>2, <3>3 DEF PipelineOf
    <3>. QED  BY <2>1, <3>4
  <2>. QED  BY <2>3, <2>4
<1>. QED  BY <1>3, <1>4 DEF DwInv

LEMMA ArriveOK == ASSUME DwInv, NEW q \in DwRequests, Arrive(q) PROVE DwInv'
<1>. USE DynWidthAssumption
<1>0. DwTypeOK /\ (\A r \in DwRequests : EarnedOf(r) /\ PipelineOf(r)) /\ Shared # q
  BY DEF DwInv, Shared
<1>1. /\ dwRunning' = dwRunning \cup {q} /\ q \notin dwRunning
      /\ dwEma' = [dwEma EXCEPT ![q] = NoEma] /\ dwLen' = [dwLen EXCEPT ![q] = 0]
      /\ dwSpec' = [dwSpec EXCEPT ![q] = q]
      /\ dwSlack' = [dwSlack EXCEPT ![q] = FALSE] /\ dwStreak' = [dwStreak EXCEPT ![q] = 0]
      /\ UNCHANGED <<dwMode, dwKnob, dwFlight, dwPhase>>
  BY DEF Arrive
<1>2. DwTypeOK'
  <2>1. dwRunning' \in SUBSET DwRequests /\ dwSlack' \in [DwRequests -> BOOLEAN]
    BY <1>0, <1>1 DEF DwTypeOK
  <2>2. dwSpec' = [r \in DwRequests |-> r]
    BY <1>0, <1>1 DEF DwTypeOK
  <2>3. dwLen' \in [Lists -> 0 .. DwFull] /\ dwLen'[Shared] = DwFull
    BY <1>0, <1>1 DEF DwTypeOK, Lists
  <2>4. dwEma' \in [DwRequests -> Int] /\ dwStreak' \in [DwRequests -> Nat]
    BY <1>0, <1>1 DEF DwTypeOK, NoEma
  <2>. QED  BY <1>0, <1>1, <2>1, <2>2, <2>3, <2>4 DEF DwTypeOK
<1>3. ASSUME NEW r \in DwRequests PROVE EarnedOf(r)' /\ PipelineOf(r)'
  <2>0. EarnedOf(r) /\ PipelineOf(r) /\ dwFlight' = dwFlight /\ Unseen(r)' = Unseen(r)
        /\ Len(dwFlight) \in 0 .. 2
    BY <1>0, <1>1, FlightsAre DEF Unseen
  <2>1. CASE r = q
    <3>1. /\ dwEma'[r] = NoEma /\ dwStreak'[r] = 0 /\ dwLen'[r] = 0 /\ dwSlack'[r] = FALSE
          /\ r \notin dwRunning /\ r \in dwRunning'
      BY <1>0, <1>1, <2>1 DEF DwTypeOK, Lists
    <3>2. /\ Len(dwFlight) >= 1 => dwFlight[1][r] = 0
          /\ Len(dwFlight) >= 2 => dwFlight[2][r] = 0
      BY <2>0, <3>1 DEF PipelineOf
    <3>3. \A k \in Nat : CutByItself(0, k, FALSE)
      BY CutOfNone
    <3>4. 0 + Unseen(r) \in Nat /\ 0 + Verifies(dwFlight[1][r]) \in Nat
      BY UnseenIs, VerifiesIs
    <3>5. EarnedOf(r)'
      BY <3>1 DEF EarnedOf
    <3>6. Len(dwFlight) >= 1 => CutByItself(dwFlight[1][r], 0, FALSE)
      BY <3>2, <3>3
    <3>7. Len(dwFlight) >= 2 => CutByItself(dwFlight[2][r], 0 + Verifies(dwFlight[1][r]), FALSE)
      BY <3>2, <3>3, <3>4
    <3>8. CutByItself(0, 0 + Unseen(r), FALSE)
      BY <3>3, <3>4
    <3>9. PipelineOf(r)'
      BY <2>0, <3>1, <3>6, <3>7, <3>8 DEF PipelineOf
    <3>. QED  BY <3>5, <3>9
  <2>2. CASE r # q
    <3>1. /\ dwEma'[r] = dwEma[r] /\ dwStreak'[r] = dwStreak[r] /\ dwLen'[r] = dwLen[r]
          /\ dwSlack'[r] = dwSlack[r] /\ (r \in dwRunning' <=> r \in dwRunning)
      BY <1>0, <1>1, <2>2 DEF DwTypeOK, Lists
    <3>2. EarnedOf(r)'
      BY <2>0, <3>1 DEF EarnedOf
    <3>3. PipelineOf(r)'
      BY <2>0, <3>1 DEF PipelineOf
    <3>. QED  BY <3>2, <3>3
  <2>. QED  BY <2>1, <2>2
<1>. QED  BY <1>2, <1>3 DEF DwInv

\* A request verifies fewer drafts than there are only for what it was refused itself, and
\* climbs back one draft every four steps that accept all they verify, with two steps in
\* flight that no list has heard of, for any width, margin, floor and batch size.
THEOREM WidthsEarned == DwSpec => []WidthEarned
<1>1. DwInv /\ [DwNext]_dwVars => DwInv'
  <2>. SUFFICES ASSUME DwInv, [DwNext]_dwVars PROVE DwInv'
    OBVIOUS
  <2>1. CASE UNCHANGED dwVars
    BY <2>1 DEF dwVars, DwInv, DwTypeOK, EarnedOf, PipelineOf, Unseen
  <2>. QED  BY <2>1, ScheduleOK, ObserveOK, TakeOK, FinishOK, ArriveOK DEF DwNext
<1>2. DwInv => WidthEarned
  <2>. SUFFICES ASSUME DwInv PROVE WidthEarned
    OBVIOUS
  <2>1. DwTypeOK /\ dwRunning \subseteq DwRequests
    BY DEF DwInv, DwTypeOK
  <2>2. ASSUME NEW r \in dwRunning
        PROVE  /\ dwSpec[r] = r /\ PipelineOf(r) /\ dwStreak[r] \in Nat /\ Unseen(r) \in Nat
               /\ CutByItself(dwLen[r], dwStreak[r] + Unseen(r), dwSlack[r])
    <3>1. Unseen(r) \in Nat
      BY UnseenIs
    <3>2. PipelineOf(r) /\ dwSpec[r] = r /\ dwStreak[r] \in Nat
      BY <2>1, <2>2 DEF DwInv, DwTypeOK
    <3>. QED  BY <2>2, <3>1, <3>2 DEF PipelineOf
  <2>3. NarrowedByItself
    <3>1. ASSUME NEW r \in dwRunning,
                 NEW width \in {dwLen[dwSpec[r]]} \cup {dwFlight[i][r] : i \in DOMAIN dwFlight},
                 width \in 1 .. DwFull - 1
          PROVE  dwSlack[r]
      <4>1. DOMAIN dwFlight \subseteq {1, 2} /\ \A i \in DOMAIN dwFlight : i <= Len(dwFlight)
        BY <2>1 DEF DwTypeOK
      <4>2. \E k : CutByItself(width, k, dwSlack[r])
        BY <2>2, <3>1, <4>1 DEF PipelineOf
      <4>. QED  BY <3>1, <4>2, DynWidthAssumption DEF CutByItself
    <3>. QED  BY <2>1, <3>1 DEF NarrowedByItself, DwTypeOK
  <2>4. ClimbsBack
    <3>1. ASSUME NEW r \in dwRunning, dwStreak[r] >= 4 * (DwFull - 1)
          PROVE  dwLen[dwSpec[r]] \in {0, DwFull}
      <4>1. dwStreak[r] + Unseen(r) >= 4 * DwFull - 4 /\ DwFull \in 1 .. DwFull
        BY <2>2, <3>1, DynWidthAssumption
      <4>2. dwLen[r] \in 0 .. DwFull /\ (dwLen[r] > 0 => dwLen[r] >= DwFull)
        BY <2>2, <4>1 DEF CutByItself, WideAfter
      <4>. QED  BY <2>2, <4>2, DynWidthAssumption
    <3>. QED  BY <3>1 DEF ClimbsBack
  <2>. QED  BY <2>3, <2>4 DEF WidthEarned
<1>. QED  BY <1>1, <1>2, DwInitOK, PTL DEF DwSpec

-----------------------------------------------------------------------------
(* The parts together                                                      *)

LEMMA ControllerBehaves == MCSpec => OSpec
<1>1. MCInit => OInit
  BY DEF MCInit
<1>2. [MCNext]_all => [ONext]_ovars
  BY DEF MCNext, all
<1>. QED  BY <1>1, <1>2, PTL DEF MCSpec, OSpec

\* Deferring the decisions behind the next pass's preparation changes none: they are the
\* inline controller's, final, and each made from its own slot's report.
THEOREM DeferralIsInvisible == MCSpec => ImplementsInline /\ DecisionFrozen /\ PinIsPending
BY ControllerBehaves, OverlapRefines, FrozenOverlapped, PinCorrect, PTL
=============================================================================
