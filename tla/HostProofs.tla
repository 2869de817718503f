------------------------------ MODULE HostProofs ------------------------------
(***************************************************************************)
(* Theorems about what is arranged around the model (MCHost): a graph      *)
(* replays what an eager pass would compute, the rows a graph is padded    *)
(* with route nowhere, a drafted block is drawn from the distribution kept *)
(* of it, a compressed head stands for the head it was packed from, a fused*)
(* launch updates every head once, the source patches go in once, the size *)
(* picked for a group of layers is the one the pool holds most requests    *)
(* with, a block drafter's pages hold the accepted text, and attention's   *)
(* launches compute every query once. Each holds for all values of the     *)
(* constants that satisfy the assumptions of the components; what a        *)
(* theorem supposes beyond them it names.                                  *)
(***************************************************************************)
EXTENDS MCHost, FiniteSetTheorems, SequenceTheorems, WellFoundedInduction, TLAPS

-----------------------------------------------------------------------------
(* DraftGraph and PadRoute                                                 *)

DgPassRecords == [key : DgKeys, addr : DgAddresses, plain : BOOLEAN]

DgTypeOK ==
    /\ dgPlan \in Seq(DgPassRecords)
    /\ dgPos \in [DgRanks -> 0 .. Len(dgPlan)]
    /\ dgUses \in [DgRanks -> [DgKeys -> Nat]]
    /\ dgCompiled \in [DgRanks -> SUBSET DgKeys]
    /\ dgGraph \in [DgRanks -> [DgKeys -> DgAddresses \cup {0}]]
    /\ DOMAIN dgRead = DgRanks
    /\ dgColl \in [DgRanks -> Nat]
    /\ dgCold \in [DgRanks -> BOOLEAN]

\* A key's forward has run in NONE mode once the key has been used twice, and there is a
\* graph only of a key that has come to the use that is captured.
EagerBeforeGraph ==
    \A r \in DgRanks, k \in DgKeys :
       /\ dgUses[r][k] >= 2 => k \in dgCompiled[r]
       /\ dgGraph[r][k] # 0 => dgUses[r][k] >= CaptureUse

\* What a forward should have read in pass n of a plan.
ReadOf(plan, n) ==
    [pass |-> n, addr |-> plan[n].addr, lens |-> [q \in 1 .. plan[n].key[1] |-> n]]

DgInv ==
    /\ DgTypeOK /\ EagerBeforeGraph
    /\ \A r \in DgRanks : dgPos[r] > 0 => dgRead[r] = ReadOf(dgPlan, dgPos[r])
    /\ OneForwardPerPass /\ CompiledBeforeCapture

LEMMA BatchesFit == \A k \in DgKeys : k[1] \in Nat /\ 1 .. k[1] \subseteq Requests
<1>1. PICK m \in DgKeys : \A j \in DgKeys : j[1] <= m[1]
  BY DraftGraphAssumption
<1>. DEFINE mm == CHOOSE k \in DgKeys : \A j \in DgKeys : j[1] <= k[1]
<1>2. mm \in DgKeys /\ \A j \in DgKeys : j[1] <= mm[1]
  BY <1>1
<1>3. Requests = 1 .. mm[1]
  BY DEF Requests, MaxBatchOf
<1>4. \A k \in DgKeys : k[1] \in Nat
  BY DraftGraphAssumption
<1>. QED  BY <1>2, <1>3, <1>4

LEMMA DgInitOK == DgInit => DgInv
BY DEF DgInit, DgInv, DgTypeOK, EagerBeforeGraph, OneForwardPerPass, CompiledBeforeCapture, CaptureUse

\* The pass a rank is due to run.
LEMMA DueFacts ==
    ASSUME DgTypeOK, NEW r \in DgRanks, Due(r)
    PROVE  /\ dgPos[r] \in Nat /\ Now(r) \in 1 .. Len(dgPlan) /\ Now(r) > 0 /\ Now(r) = dgPos[r] + 1
           /\ Pass(r) = dgPlan[Now(r)]
           /\ Pass(r) \in DgPassRecords /\ Pass(r).key \in DgKeys /\ Pass(r).addr \in DgAddresses
           /\ DOMAIN Live(r) = 1 .. Pass(r).key[1]
           /\ Live(r) = [q \in 1 .. Pass(r).key[1] |-> Now(r)]
           /\ [q \in DOMAIN Live(r) |-> Staged(r)[q]] = Live(r)
           /\ dgUses[r][Pass(r).key] \in Nat
<1>1. dgPos[r] \in Nat /\ Now(r) \in 1 .. Len(dgPlan) /\ Now(r) > 0 /\ Now(r) = dgPos[r] + 1
  BY DEF DgTypeOK, Due, Now
<1>2. Pass(r) = dgPlan[Now(r)]
  BY DEF Pass, Now
<1>3. Pass(r) \in DgPassRecords
  BY <1>1, <1>2 DEF DgTypeOK
<1>4. Pass(r).key \in DgKeys /\ Pass(r).addr \in DgAddresses
  BY <1>3 DEF DgPassRecords
<1>5. DOMAIN Live(r) = 1 .. Pass(r).key[1] /\ Live(r) = [q \in 1 .. Pass(r).key[1] |-> Now(r)]
  BY DEF Live
<1>6. 1 .. Pass(r).key[1] \subseteq Requests
  BY <1>4, BatchesFit
<1>7. \A q \in DOMAIN Live(r) : Staged(r)[q] = Now(r)
  BY <1>5, <1>6 DEF Staged
<1>8. [q \in DOMAIN Live(r) |-> Staged(r)[q]] = Live(r)
  BY <1>5, <1>7
<1>9. dgUses[r][Pass(r).key] \in Nat
  BY <1>4 DEF DgTypeOK
<1>. QED  BY <1>1, <1>2, <1>3, <1>4, <1>5, <1>8, <1>9

\* A pass that executes one forward on its own metadata and counts its key keeps what is
\* said of the plan, of what was read and of the forwards.
LEMMA PassRuns ==
    ASSUME DgInv, NEW r \in DgRanks, Due(r), Executes(r, Pass(r).addr, Live(r)), Finish(r)
    PROVE  /\ dgPlan' = dgPlan /\ dgPos' \in [DgRanks -> 0 .. Len(dgPlan)]
           /\ DOMAIN dgRead' = DgRanks /\ dgColl' \in [DgRanks -> Nat]
           /\ \A s \in DgRanks : dgPos'[s] > 0 => dgRead'[s] = ReadOf(dgPlan, dgPos'[s])
           /\ OneForwardPerPass'
<1>. USE DEF DgInv
<1>1. dgPlan' = dgPlan /\ dgPos' = [dgPos EXCEPT ![r] = @ + 1]
  BY DEF Finish
<1>2. dgPos' \in [DgRanks -> 0 .. Len(dgPlan)]
  BY <1>1 DEF DgTypeOK, Due
<1>3. DOMAIN dgRead' = DgRanks /\ dgColl' \in [DgRanks -> Nat]
  BY DEF DgTypeOK, Executes
<1>4. dgRead'[r] = [pass |-> Now(r), addr |-> Pass(r).addr, lens |-> Live(r)]
  BY DEF DgTypeOK, Executes
<1>5. dgRead'[r] = ReadOf(dgPlan, dgPos'[r])
  <2>1. dgPos'[r] = Now(r)
    BY <1>1 DEF DgTypeOK, Now
  <2>2. Pass(r) = dgPlan[Now(r)] /\ Live(r) = [q \in 1 .. Pass(r).key[1] |-> Now(r)]
    BY DueFacts
  <2>. QED  BY <1>4, <2>1, <2>2, Zenon DEF ReadOf
<1>6. ASSUME NEW s \in DgRanks, s # r, dgPos'[s] > 0 PROVE dgRead'[s] = ReadOf(dgPlan, dgPos'[s])
  BY <1>1, <1>6 DEF Executes, DgTypeOK
<1>7. OneForwardPerPass'
  BY <1>1 DEF OneForwardPerPass, Executes, DgTypeOK
<1>. QED  BY <1>1, <1>2, <1>3, <1>5, <1>6, <1>7

\* Counting one more use of the key of a pass.
LEMMA CountsUse ==
    ASSUME DgTypeOK, NEW r \in DgRanks, Due(r), Counted(r)
    PROVE  /\ dgUses' \in [DgRanks -> [DgKeys -> Nat]]
           /\ dgUses'[r][Pass(r).key] = dgUses[r][Pass(r).key] + 1
           /\ \A s \in DgRanks, k \in DgKeys : s # r \/ k # Pass(r).key => dgUses'[s][k] = dgUses[s][k]
<1>1. Pass(r).key \in DgKeys
  BY DueFacts
<1>2. PICK key : key = Pass(r).key
  OBVIOUS
<1>3. dgUses' = [dgUses EXCEPT ![r][key] = @ + 1]
  BY <1>2 DEF Counted
<1>. QED  BY <1>1, <1>2, <1>3 DEF DgTypeOK

LEMMA DgNextOK == ASSUME DgInv, [DgNext]_dgVars PROVE DgInv'
<1>. USE DEF DgInv
<1>1. CASE NextPass
  <2>1. PICK k \in DgKeys, a \in DgAddresses, p \in BOOLEAN :
            dgPlan' = Append(dgPlan, [key |-> k, addr |-> a, plain |-> p])
    BY <1>1 DEF NextPass
  <2>2. dgPlan' \in Seq(DgPassRecords) /\ Len(dgPlan') = Len(dgPlan) + 1
    BY <2>1 DEF DgTypeOK, DgPassRecords
  <2>3. \A i \in 1 .. Len(dgPlan) : dgPlan'[i] = dgPlan[i]
    BY <2>1 DEF DgTypeOK, DgPassRecords
  <2>4. DgTypeOK'
    BY <1>1, <2>2 DEF NextPass, DgTypeOK
  <2>5. \A r \in DgRanks : dgPos'[r] > 0 => dgRead'[r] = ReadOf(dgPlan', dgPos'[r])
    BY <1>1, <2>3 DEF NextPass, DgTypeOK, ReadOf
  <2>6. EagerBeforeGraph' /\ OneForwardPerPass' /\ CompiledBeforeCapture'
    BY <1>1 DEF NextPass, EagerBeforeGraph, OneForwardPerPass, CompiledBeforeCapture
  <2>. QED  BY <2>4, <2>5, <2>6
<1>2. ASSUME NEW r \in DgRanks, RunNormal(r) PROVE DgInv'
  <2>1. Due(r) /\ Executes(r, Pass(r).addr, Live(r)) /\ Finish(r)
    BY <1>2 DEF RunNormal
  <2>2. UNCHANGED <<dgCompiled, dgGraph, dgStage, dgDisabled, dgCold>>
    BY <1>2 DEF RunNormal
  <2>3. dgUses' = dgUses \/ (Counted(r) /\ (dgUses[r][Pass(r).key] + 1 # 1 =>
                                               dgUses[r][Pass(r).key] + 1 > CaptureUse))
    BY <1>2 DEF RunNormal
  <2>4. dgUses' \in [DgRanks -> [DgKeys -> Nat]]
    BY <2>1, <2>3, CountsUse DEF DgTypeOK
  <2>5. DgTypeOK'
    BY <2>1, <2>2, <2>4, PassRuns DEF DgTypeOK
  <2>6. ASSUME NEW s \in DgRanks, NEW k \in DgKeys
        PROVE  /\ dgUses'[s][k] >= 2 => k \in dgCompiled'[s]
               /\ dgGraph'[s][k] # 0 => dgUses'[s][k] >= CaptureUse
    <3>1. CASE dgUses' = dgUses
      BY <2>2, <3>1 DEF EagerBeforeGraph
    <3>2. CASE s # r \/ k # Pass(r).key
      BY <2>1, <2>2, <2>3, <3>2, CountsUse DEF EagerBeforeGraph
    <3>3. CASE Counted(r) /\ s = r /\ k = Pass(r).key /\ dgUses' # dgUses
      <4>1. dgUses'[s][k] = dgUses[s][k] + 1 /\ dgUses[s][k] \in Nat
        BY <2>1, <3>3, CountsUse, DueFacts
      <4>2. dgUses[s][k] = 0 \/ dgUses[s][k] >= 3
        BY <2>3, <3>3, <4>1 DEF CaptureUse
      <4>. QED  BY <2>2, <4>1, <4>2 DEF EagerBeforeGraph, CaptureUse
    <3>. QED  BY <2>3, <3>1, <3>2, <3>3
  <2>7. CompiledBeforeCapture'
    BY <2>2 DEF CompiledBeforeCapture
  <2>. QED  BY <2>1, <2>5, <2>6, <2>7, PassRuns DEF EagerBeforeGraph
<1>3. ASSUME NEW r \in DgRanks, RunNone(r) PROVE DgInv'
  <2>1. Due(r) /\ Executes(r, Pass(r).addr, Live(r)) /\ Finish(r) /\ Counted(r)
    BY <1>3 DEF RunNone
  <2>2. UNCHANGED <<dgGraph, dgStage, dgDisabled, dgCold>>
    BY <1>3 DEF RunNone
  <2>0. PICK key : key = Pass(r).key
    OBVIOUS
  <2>3. dgCompiled' = [dgCompiled EXCEPT ![r] = @ \cup {key}] /\ key \in DgKeys
    BY <1>3, <2>0, <2>1, DueFacts DEF RunNone
  <2>4. dgCompiled' \in [DgRanks -> SUBSET DgKeys]
    BY <2>3 DEF DgTypeOK
  <2>5. DgTypeOK'
    BY <2>1, <2>2, <2>4, PassRuns, CountsUse DEF DgTypeOK
  <2>6. ASSUME NEW s \in DgRanks, NEW k \in DgKeys
        PROVE  /\ dgUses'[s][k] >= 2 => k \in dgCompiled'[s]
               /\ dgGraph'[s][k] # 0 => dgUses'[s][k] >= CaptureUse
    <3>1. CASE s # r \/ k # Pass(r).key
      <4>1. dgUses'[s][k] = dgUses[s][k]
        BY <2>1, <3>1, CountsUse
      <4>2. dgCompiled[s] \subseteq dgCompiled'[s]
        BY <2>3 DEF DgTypeOK
      <4>. QED  BY <2>2, <4>1, <4>2 DEF EagerBeforeGraph
    <3>2. CASE s = r /\ k = Pass(r).key
      <4>1. dgUses'[s][k] = dgUses[s][k] + 1 /\ dgUses[s][k] \in Nat
        BY <2>1, <3>2, CountsUse, DueFacts
      <4>2. k \in dgCompiled'[s]
        BY <2>0, <2>3, <3>2 DEF DgTypeOK
      <4>. QED  BY <2>2, <4>1, <4>2 DEF EagerBeforeGraph, CaptureUse
    <3>. QED  BY <3>1, <3>2
  <2>7. CompiledBeforeCapture'
    BY <2>2 DEF CompiledBeforeCapture
  <2>. QED  BY <2>1, <2>5, <2>6, <2>7, PassRuns DEF EagerBeforeGraph
<1>4. ASSUME NEW r \in DgRanks, Capture(r) PROVE DgInv'
  <2>1. Due(r) /\ Finish(r) /\ Counted(r) /\ dgUses[r][Pass(r).key] + 1 = CaptureUse
    BY <1>4 DEF Capture, Capturing
  <2>2. Executes(r, Pass(r).addr, Live(r))
    BY <1>4, <2>1, DueFacts DEF Capture
  <2>0. PICK key, addr : key = Pass(r).key /\ addr = Pass(r).addr
    OBVIOUS
  <2>3. /\ UNCHANGED <<dgCompiled, dgDisabled>> /\ key \in DgKeys /\ addr \in DgAddresses
        /\ dgGraph' = [dgGraph EXCEPT ![r][key] = addr]
        /\ dgCold' = [dgCold EXCEPT ![r] = @ \/ key \notin dgCompiled[r]]
    BY <1>4, <2>0, <2>1, DueFacts DEF Capture
  <2>4. key \in dgCompiled[r]
    BY <2>0, <2>1, <2>3, DueFacts DEF EagerBeforeGraph, CaptureUse
  <2>5. dgCold' = [dgCold EXCEPT ![r] = dgCold[r]]
    BY <2>3, <2>4 DEF CompiledBeforeCapture, DgTypeOK
  <2>6. dgCold' = dgCold
    BY <2>5 DEF DgTypeOK
  <2>7. dgGraph' \in [DgRanks -> [DgKeys -> DgAddresses \cup {0}]]
    BY <2>3 DEF DgTypeOK
  <2>8. DgTypeOK'
    BY <2>1, <2>2, <2>3, <2>6, <2>7, PassRuns, CountsUse DEF DgTypeOK
  <2>9. ASSUME NEW s \in DgRanks, NEW k \in DgKeys
        PROVE  /\ dgUses'[s][k] >= 2 => k \in dgCompiled'[s]
               /\ dgGraph'[s][k] # 0 => dgUses'[s][k] >= CaptureUse
    <3>1. CASE s # r \/ k # Pass(r).key
      <4>1. dgUses'[s][k] = dgUses[s][k]
        BY <2>1, <3>1, CountsUse
      <4>2. dgGraph'[s][k] = dgGraph[s][k]
        BY <2>0, <2>3, <3>1 DEF DgTypeOK
      <4>. QED  BY <2>3, <4>1, <4>2 DEF EagerBeforeGraph
    <3>2. CASE s = r /\ k = Pass(r).key
      <4>1. dgUses'[s][k] = CaptureUse
        BY <2>1, <3>2, CountsUse, DueFacts
      <4>. QED  BY <2>0, <2>3, <2>4, <3>2, <4>1 DEF CaptureUse
    <3>. QED  BY <3>1, <3>2
  <2>10. CompiledBeforeCapture'
    BY <2>6 DEF CompiledBeforeCapture
  <2>. QED  BY <2>1, <2>2, <2>8, <2>9, <2>10, PassRuns DEF EagerBeforeGraph
<1>5. ASSUME NEW r \in DgRanks, CaptureFails(r) PROVE DgInv'
  <2>1. Due(r) /\ Finish(r) /\ Counted(r) /\ dgUses[r][Pass(r).key] + 1 = CaptureUse
    BY <1>5 DEF CaptureFails, Capturing
  <2>2. Executes(r, Pass(r).addr, Live(r))
    BY <1>5 DEF CaptureFails, RunsAfterFailure
  <2>3. UNCHANGED <<dgCompiled, dgGraph, dgCold>>
    BY <1>5 DEF CaptureFails
  <2>4. DgTypeOK'
    BY <2>1, <2>2, <2>3, PassRuns, CountsUse DEF DgTypeOK
  <2>5. ASSUME NEW s \in DgRanks, NEW k \in DgKeys
        PROVE  /\ dgUses'[s][k] >= 2 => k \in dgCompiled'[s]
               /\ dgGraph'[s][k] # 0 => dgUses'[s][k] >= CaptureUse
    <3>1. CASE s # r \/ k # Pass(r).key
      BY <2>1, <2>3, <3>1, CountsUse DEF EagerBeforeGraph
    <3>2. CASE s = r /\ k = Pass(r).key
      <4>1. dgUses'[s][k] = CaptureUse /\ dgUses[s][k] >= 2
        BY <2>1, <3>2, CountsUse, DueFacts DEF CaptureUse
      <4>. QED  BY <2>3, <4>1 DEF EagerBeforeGraph, CaptureUse
    <3>. QED  BY <3>1, <3>2
  <2>6. CompiledBeforeCapture'
    BY <2>3 DEF CompiledBeforeCapture
  <2>. QED  BY <2>1, <2>2, <2>4, <2>5, <2>6, PassRuns DEF EagerBeforeGraph
<1>6. ASSUME NEW r \in DgRanks, Replay(r) PROVE DgInv'
  <2>1. Due(r) /\ Finish(r) /\ Counted(r) /\ dgGraph[r][Pass(r).key] # 0
    BY <1>6 DEF Replay
  <2>2. Executes(r, Pass(r).addr, Live(r))
    BY <1>6, <2>1, DueFacts DEF Replay, Fits
  <2>3. UNCHANGED <<dgCompiled, dgGraph, dgDisabled, dgCold>>
    BY <1>6 DEF Replay
  <2>4. DgTypeOK'
    BY <2>1, <2>2, <2>3, PassRuns, CountsUse DEF DgTypeOK
  <2>5. ASSUME NEW s \in DgRanks, NEW k \in DgKeys
        PROVE  /\ dgUses'[s][k] >= 2 => k \in dgCompiled'[s]
               /\ dgGraph'[s][k] # 0 => dgUses'[s][k] >= CaptureUse
    <3>1. CASE s # r \/ k # Pass(r).key
      BY <2>1, <2>3, <3>1, CountsUse DEF EagerBeforeGraph
    <3>2. CASE s = r /\ k = Pass(r).key
      <4>1. dgUses'[s][k] = dgUses[s][k] + 1 /\ dgUses[s][k] \in Nat /\ dgGraph[s][k] # 0
        BY <2>1, <3>2, CountsUse, DueFacts
      <4>. QED  BY <2>3, <4>1 DEF EagerBeforeGraph, CaptureUse
    <3>. QED  BY <3>1, <3>2
  <2>6. CompiledBeforeCapture'
    BY <2>3 DEF CompiledBeforeCapture
  <2>. QED  BY <2>1, <2>2, <2>4, <2>5, <2>6, PassRuns DEF EagerBeforeGraph
<1>7. CASE UNCHANGED dgVars
  BY <1>7 DEF dgVars, DgTypeOK, EagerBeforeGraph, OneForwardPerPass, CompiledBeforeCapture
<1>. QED  BY <1>1, <1>2, <1>3, <1>4, <1>5, <1>6, <1>7 DEF DgNext

LEMMA DgInvariant == DgSpec => []DgInv
BY DgInitOK, DgNextOK, PTL DEF DgSpec

\* Whichever way each rank comes to run a pass, its forward reads that pass's metadata,
\* it executes one forward for it, and nothing is compiled inside a capture.
THEOREM GraphReplays == DgSpec => [](ReadsThisPass /\ OneForwardPerPass /\ CompiledBeforeCapture)
<1>1. DgInv => ReadsThisPass /\ OneForwardPerPass /\ CompiledBeforeCapture
  BY SMTT(30) DEF DgInv, ReadsThisPass, ReadOf
<1>. QED  BY <1>1, DgInvariant, PTL

-----------------------------------------------------------------------------
(* PadRoute: the count on the device                                       *)

\* The host's copy is the device's count.
PrInv == prHost = prDevice /\ RowsRoutedRight

LEMMA PrForwardOK == ASSUME PrInv, PrForward PROVE PrInv'
<1>1. PICK n \in PrRows, size \in PrRows \cup PrSizes, graph \in BOOLEAN :
          /\ n <= size /\ (graph => size \in PrSizes)
          /\ LET v == Padding(n, size)
                 device == Written(v)
                 padded == 0 < n /\ n < size
             IN  /\ prHost' = v /\ prDevice' = device /\ prPadded' = padded
                 /\ prRouted' = [n |-> n, size |-> size,
                                 rows |-> IF size >= 2 /\ (graph \/ padded)
                                          THEN Fixed(size, device) ELSE OwnRoutes(size)]
  BY DEF PrForward
<1>2. n \in Nat /\ size \in 0 .. BigCount
  BY SMTT(30), PadRouteAssumption DEF BigCount
<1>3. Written(Padding(n, size)) = Padding(n, size)
  BY DEF PrInv, Written
<1>4. prHost' = prDevice'
  BY <1>1, <1>3
<1>5. ASSUME n > 0 PROVE prRouted'.rows = Fixed(size, n)
  <2>1. CASE n < size
    BY <1>1, <1>2, <1>3, <1>5, <2>1 DEF Padding
  <2>2. CASE n = size
    <3>1. Padding(n, size) = BigCount
      BY <1>2, <2>2 DEF Padding
    <3>2. Fixed(size, BigCount) = Fixed(size, n)
      BY <1>2, <2>2 DEF Fixed, BigCount
    <3>3. OwnRoutes(size) = Fixed(size, n)
      BY <1>2, <2>2 DEF Fixed, OwnRoutes
    <3>. QED  BY <1>1, <1>3, <3>1, <3>2, <3>3
  <2>. QED  BY <1>1, <1>2, <2>1, <2>2 DEF BigCount
<1>. QED  BY <1>1, <1>4, <1>5 DEF PrInv, RowsRoutedRight

\* Every real row keeps its own experts and every padded row takes row 0's, whatever the
\* sizes graphs are captured at and the forwards before.
THEOREM PaddedRowsRouted == PrSpec => []RowsRoutedRight
<1>1. PrInit => PrInv
  BY DEF PrInit, PrInv, RowsRoutedRight, NoForward
<1>2. PrInv /\ [PrNext]_prVars => PrInv'
  <2>. SUFFICES ASSUME PrInv, [PrNext]_prVars PROVE PrInv'
    OBVIOUS
  <2>1. CASE PrForward
    BY <2>1, PrForwardOK
  <2>2. CASE Profile \/ CaptureGraph \/ UNCHANGED prVars
    BY <2>2 DEF Profile, CaptureGraph, prVars, PrInv, RowsRoutedRight, Fixed
  <2>. QED  BY <2>1, <2>2 DEF PrNext
<1>3. PrInv => RowsRoutedRight
  BY DEF PrInv
<1>. QED  BY <1>1, <1>2, <1>3, PTL DEF PrSpec

-----------------------------------------------------------------------------
(* BlockDrafter: the best tokens, found by shards                          *)

\* Members of D whose value is above that of x.
Above(v, D, x) == {other \in D : v[other] > v[x]}
Rank(v, D, x) == Cardinality(Above(v, D, x))

LEMMA RankOrder ==
    ASSUME NEW D, IsFiniteSet(D), NEW v, \A d \in D : v[d] \in Int, NEW x \in D, NEW y \in D
    PROVE  /\ Rank(v, D, x) \in Nat
           /\ v[x] > v[y] => Rank(v, D, x) < Rank(v, D, y)
           /\ Rank(v, D, x) = Rank(v, D, y) => v[x] = v[y]
<1>1. ASSUME NEW a \in D PROVE IsFiniteSet(Above(v, D, a)) /\ Rank(v, D, a) \in Nat
  <2>1. Above(v, D, a) \in SUBSET D
    BY DEF Above
  <2>. QED  BY <2>1, FS_Subset, FS_CardinalityType DEF Rank
<1>2. ASSUME NEW a \in D, NEW b \in D, v[a] > v[b] PROVE Rank(v, D, a) < Rank(v, D, b)
  <2>1. Above(v, D, a) \in SUBSET Above(v, D, b)
    BY <1>2 DEF Above
  <2>2. a \in Above(v, D, b) /\ a \notin Above(v, D, a)
    BY <1>2 DEF Above
  <2>3. Cardinality(Above(v, D, a)) <= Cardinality(Above(v, D, b))
    BY <1>1, <2>1, FS_Subset
  <2>4. Cardinality(Above(v, D, a)) # Cardinality(Above(v, D, b))
    BY <1>1, <2>1, <2>2, FS_Subset
  <2>. QED  BY <1>1, <2>3, <2>4 DEF Rank
<1>3. v[x] \in Int /\ v[y] \in Int
  OBVIOUS
<1>4. Rank(v, D, x) = Rank(v, D, y) => v[x] = v[y]
  BY <1>1, <1>2, <1>3
<1>. QED  BY <1>1, <1>2, <1>4

\* Ranks among members with different values are the numbers from 0.
LEMMA EveryRank ==
    ASSUME NEW D, IsFiniteSet(D), NEW v, \A d \in D : v[d] \in Int,
           \A c, d \in D : v[c] = v[d] => c = d,
           NEW j \in 0 .. Cardinality(D) - 1
    PROVE  \E x \in D : Rank(v, D, x) = j
<1>. DEFINE m == Cardinality(D)
            f == [x \in D |-> Rank(v, D, x)]
<1>1. m \in Nat
  BY FS_CardinalityType
<1>2. ASSUME NEW x \in D PROVE Rank(v, D, x) \in 0 .. m - 1
  <2>1. Above(v, D, x) \in SUBSET D /\ Above(v, D, x) # D
    BY DEF Above
  <2>2. Cardinality(Above(v, D, x)) <= m /\ Cardinality(Above(v, D, x)) # m
    BY <2>1, FS_Subset
  <2>. QED  BY <1>1, <2>2, RankOrder DEF Rank
<1>3. f \in Injection(D, 0 .. m - 1)
  <2>1. f \in [D -> 0 .. m - 1]
    BY <1>2
  <2>2. \A x, y \in D : f[x] = f[y] => x = y
    BY RankOrder
  <2>. QED  BY <2>1, <2>2 DEF Injection, IsInjective
<1>4. IsFiniteSet(0 .. m - 1) /\ Cardinality(0 .. m - 1) = m
  <2>1. 0 \in Int /\ m - 1 \in Int
    BY <1>1
  <2>. QED  BY <1>1, <2>1, FS_Interval
<1>5. f \in Surjection(D, 0 .. m - 1)
  BY <1>3, <1>4, FS_Injection
<1>6. \E x \in D : f[x] = j
  BY <1>5 DEF Surjection
<1>. QED  BY <1>6

-----------------------------------------------------------------------------
(* FirstOf and TopTokens                                                   *)

LEMMA ShardFacts ==
    /\ ShardSize \in Nat \ {0} /\ BdVocab \in Nat /\ BdTp \in Nat \ {0} /\ BdTp * ShardSize >= BdVocab
    /\ \A c \in Ids : (c - 1) \div ShardSize \in 0 .. BdTp - 1
    /\ \A r \in 0 .. BdTp - 1 : \A c \in r * ShardSize + 1 .. (r + 1) * ShardSize :
          c \in Nat /\ (c - 1) \div ShardSize = r
    /\ \A c \in Ids : LET r == (c - 1) \div ShardSize
                      IN  c \in r * ShardSize + 1 .. (r + 1) * ShardSize
<1>1. BdVocab \in Nat \ {0} /\ BdTp \in Nat \ {0}
  BY BlockDrafterAssumption
<1>2. ASSUME NEW V \in Nat \ {0}, NEW T \in Nat \ {0}, NEW Z, Z = (V + T - 1) \div T
      PROVE  Z \in Nat \ {0} /\ T * Z >= V
  <2>1. Z \in Int /\ V + T - 1 = T * Z + ((V + T - 1) % T) /\ (V + T - 1) % T \in 0 .. T - 1
    BY <1>2
  <2>2. T * Z >= V
    BY <2>1
  <2>3. Z > 0
    BY <2>1, <2>2
  <2>. QED  BY <2>1, <2>2, <2>3
<1>3. ShardSize \in Nat \ {0} /\ BdTp * ShardSize >= BdVocab
  BY <1>1, <1>2 DEF ShardSize, CeilDiv
<1>4. ASSUME NEW Z \in Nat \ {0}, NEW T \in Nat \ {0}, NEW V \in Nat, T * Z >= V, NEW c \in 1 .. V,
             NEW r, r = (c - 1) \div Z
      PROVE  r \in 0 .. T - 1 /\ c \in r * Z + 1 .. (r + 1) * Z
  <2>1. r \in Nat /\ c - 1 = Z * r + ((c - 1) % Z) /\ (c - 1) % Z \in 0 .. Z - 1
    BY <1>4
  <2>2. Z * r < T * Z
    BY <1>4, <2>1
  <2>3. r < T
    BY <1>4, <2>1, <2>2
  <2>. QED  BY <2>1, <2>3
<1>5. ASSUME NEW Z \in Nat \ {0}, NEW r \in Nat, NEW c \in r * Z + 1 .. (r + 1) * Z
      PROVE  c \in Nat /\ (c - 1) \div Z = r
  <2>1. PICK q \in Int : q = (c - 1) \div Z
    BY <1>5
  <2>2. r * Z \in Nat /\ c \in Nat /\ c - 1 = Z * q + ((c - 1) % Z) /\ (c - 1) % Z \in 0 .. Z - 1
    BY <2>1
  <2>3. Z * q <= c - 1 /\ c - 1 < Z * q + Z /\ r * Z <= c - 1 /\ c - 1 < r * Z + Z
    BY <2>1, <2>2
  <2>4. Z * q < Z * (r + 1) /\ Z * r < Z * (q + 1)
    BY <2>1, <2>3
  <2>5. q < r + 1 /\ r < q + 1
    BY <2>1, <2>4
  <2>. QED  BY <2>1, <2>2, <2>5
<1>. HIDE DEF ShardSize
<1>6. \A c \in Ids : (c - 1) \div ShardSize \in 0 .. BdTp - 1
  BY <1>1, <1>3, <1>4 DEF Ids
<1>7. \A c \in Ids : LET r == (c - 1) \div ShardSize IN c \in r * ShardSize + 1 .. (r + 1) * ShardSize
  BY <1>1, <1>3, <1>4 DEF Ids
<1>8. \A r \in 0 .. BdTp - 1 : \A c \in r * ShardSize + 1 .. (r + 1) * ShardSize :
          c \in Nat /\ (c - 1) \div ShardSize = r
  BY <1>1, <1>3, <1>5
<1>. QED  BY <1>1, <1>3, <1>6, <1>7, <1>8

LEMMA FirstOfRight ==
    ASSUME NEW v, IsFiniteSet(DOMAIN v), \A d \in DOMAIN v : v[d] \in Int, NEW k \in Nat,
           \A j \in 0 .. k - 1 : \E x \in DOMAIN v : Rank(v, DOMAIN v, x) = j
    PROVE  /\ DOMAIN FirstOf(v, k) = 1 .. k
           /\ \A i \in 1 .. k : /\ FirstOf(v, k)[i] \in DOMAIN v
                                /\ Rank(v, DOMAIN v, FirstOf(v, k)[i]) = i - 1
           /\ \A i \in 1 .. k : \A x \in DOMAIN v :
                 /\ Rank(v, DOMAIN v, x) = i - 1
                 /\ \A y \in DOMAIN v : v[y] = v[x] => y = x
                 => FirstOf(v, k)[i] = x
<1>1. DOMAIN FirstOf(v, k) = 1 .. k
  BY DEF FirstOf
<1>2. ASSUME NEW i \in 1 .. k
      PROVE /\ FirstOf(v, k)[i] \in DOMAIN v
            /\ Rank(v, DOMAIN v, FirstOf(v, k)[i]) = i - 1
  <2>. DEFINE P(id) == Rank(v, DOMAIN v, id) = i - 1
  <2>1. FirstOf(v, k)[i] = CHOOSE id \in DOMAIN v : P(id)
    BY DEF FirstOf, Rank, Above
  <2>2. i - 1 \in 0 .. k - 1
    OBVIOUS
  <2>3. \E id \in DOMAIN v : P(id)
    BY <2>2
  <2>. HIDE DEF P
  <2>4. FirstOf(v, k)[i] \in DOMAIN v /\ P(FirstOf(v, k)[i])
    BY <2>1, <2>3
  <2>. QED  BY <2>4 DEF P
<1>3. ASSUME NEW i \in 1 .. k, NEW x \in DOMAIN v, Rank(v, DOMAIN v, x) = i - 1,
             \A y \in DOMAIN v : v[y] = v[x] => y = x
      PROVE  FirstOf(v, k)[i] = x
  BY <1>2, <1>3, RankOrder
<1>. QED  BY <1>1, <1>2, <1>3

\* Rows of the vocabulary that a shard holds.
HeldBy(r) == r * ShardSize + 1 .. (r + 1) * ShardSize
RealOf(r) == Ids \cap HeldBy(r)

\* A block the head may speak of, and how many candidates the selector takes of it.
FitsHead(logits, k) ==
    /\ logits \in [Ids -> Nat] /\ \A c, d \in Ids : logits[c] = logits[d] => c = d
    /\ k \in 1 .. BdVocab /\ k <= ShardSize
    /\ \A r \in 0 .. BdTp - 1 : k <= Cardinality(RealOf(r)) + 1

LEMMA FiniteParts ==
    ASSUME NEW r \in 0 .. BdTp - 1
    PROVE  /\ IsFiniteSet(Ids) /\ Cardinality(Ids) = BdVocab
           /\ IsFiniteSet(HeldBy(r)) /\ Cardinality(HeldBy(r)) = ShardSize
           /\ IsFiniteSet(RealOf(r)) /\ RealOf(r) \subseteq HeldBy(r)
<1>1. BdVocab \in Nat /\ ShardSize \in Nat \ {0}
  BY ShardFacts
<1>2. IsFiniteSet(Ids) /\ Cardinality(Ids) = BdVocab
  BY <1>1, FS_Interval DEF Ids
<1>3. r * ShardSize + 1 \in Int /\ (r + 1) * ShardSize \in Int /\ (r + 1) * ShardSize = r * ShardSize + ShardSize
  BY <1>1
<1>4. IsFiniteSet(HeldBy(r)) /\ Cardinality(HeldBy(r)) = ShardSize
  <2>1. PICK a \in Int, b \in Int : a = r * ShardSize + 1 /\ b = (r + 1) * ShardSize
    BY <1>3
  <2>2. b = a + ShardSize - 1
    BY <1>1, <1>3, <2>1
  <2>. QED  BY <1>1, <2>1, <2>2, FS_Interval DEF HeldBy
<1>5. RealOf(r) \in SUBSET Ids
  BY DEF RealOf
<1>. QED  BY <1>2, <1>4, <1>5, FS_Subset DEF RealOf

LEMMA ShardRanks ==
    ASSUME NEW logits, NEW k, FitsHead(logits, k), NEW r \in 0 .. BdTp - 1
    PROVE  /\ DOMAIN Shard(logits, r) = HeldBy(r)
           /\ \A c \in HeldBy(r) : Shard(logits, r)[c] = IF c \in Ids THEN logits[c] ELSE -1
           /\ \A j \in 0 .. k - 1 : \E x \in HeldBy(r) : Rank(Shard(logits, r), HeldBy(r), x) = j
           /\ \A x \in RealOf(r) : Above(Shard(logits, r), HeldBy(r), x) = Above(logits, RealOf(r), x)
<1>. DEFINE v == Shard(logits, r)
            D == HeldBy(r)
            R == RealOf(r)
<1>1. DOMAIN v = D
  BY DEF Shard, HeldBy
<1>2. ASSUME NEW c \in D PROVE v[c] = IF c \in Ids THEN logits[c] ELSE -1
  BY DEF Shard, HeldBy, Masked, Logit
<1>3. R \subseteq D /\ \A c \in D : c \in R <=> c \in Ids
  BY DEF RealOf
<1>4. \A c \in R : logits[c] \in Nat
  BY DEF FitsHead, RealOf
<1>. HIDE DEF v, D, R
<1>5. ASSUME NEW x \in R PROVE Above(v, D, x) = Above(logits, R, x)
  BY <1>2, <1>3, <1>4 DEF Above
<1>6. ASSUME NEW x \in D \ R PROVE Above(v, D, x) = R
  BY <1>2, <1>3, <1>4 DEF Above
<1>7. IsFiniteSet(R) /\ Cardinality(R) \in Nat /\ IsFiniteSet(D) /\ Cardinality(D) = ShardSize
  BY FiniteParts, FS_CardinalityType DEF R, D
<1>8. k \in Nat /\ k <= ShardSize /\ k <= Cardinality(R) + 1 /\ ShardSize \in Nat
  BY ShardFacts DEF FitsHead, R
<1>9. ASSUME NEW j \in 0 .. k - 1 PROVE \E x \in D : Rank(v, D, x) = j
  <2>1. CASE j < Cardinality(R)
    <3>1. \A c, d \in R : logits[c] = logits[d] => c = d
      BY DEF FitsHead, R, RealOf
    <3>2. j \in 0 .. Cardinality(R) - 1
      BY <1>7, <1>8, <2>1
    <3>3. PICK x \in R : Rank(logits, R, x) = j
      BY <1>4, <1>7, <3>1, <3>2, EveryRank
    <3>. QED  BY <1>3, <1>5, <3>3 DEF Rank
  <2>2. CASE j = Cardinality(R)
    <3>1. D \ R # {}
      <4>1. D \ R = {} => D = R
        BY <1>3
      <4>. QED  BY <1>7, <1>8, <2>2, <4>1
    <3>. QED  BY <1>6, <2>2, <3>1 DEF Rank
  <2>. QED  BY <1>7, <1>8, <2>1, <2>2
<1>. QED  BY <1>1, <1>2, <1>5, <1>9 DEF v, D, R

\* The best of the shards' best are the best of the vocabulary.
LEMMA TopTokensRight ==
    ASSUME NEW logits, NEW k, FitsHead(logits, k)
    PROVE  /\ DOMAIN TopTokens(logits, k) = 1 .. k
           /\ ToSet(TopTokens(logits, k)) = BestOf(logits, k)
<1>. DEFINE shards == 0 .. BdTp - 1
            of(r) == FirstOf(Shard(logits, r), k)
            U == UNION {ToSet(of(r)) : r \in shards}
            val == [id \in U |-> Shard(logits, (id - 1) \div ShardSize)[id]]
<1>1. k \in Nat \ {0} /\ k <= BdVocab /\ BdVocab \in Nat
  BY ShardFacts DEF FitsHead
<1>2. ASSUME NEW r \in shards
      PROVE /\ DOMAIN of(r) = 1 .. k
            /\ \A i \in 1 .. k : of(r)[i] \in HeldBy(r)
            /\ \A i \in 1 .. k : \A x \in RealOf(r) :
                  Rank(Shard(logits, r), HeldBy(r), x) = i - 1 => of(r)[i] = x
  <2>1. PICK v : v = Shard(logits, r)
    OBVIOUS
  <2>2. DOMAIN v = HeldBy(r) /\ \A c \in HeldBy(r) : v[c] = IF c \in Ids THEN logits[c] ELSE -1
    BY <2>1, ShardRanks
  <2>3. \A d \in DOMAIN v : v[d] \in Int
    BY <2>2 DEF FitsHead
  <2>4. IsFiniteSet(DOMAIN v)
    BY <2>2, FiniteParts
  <2>5. \A j \in 0 .. k - 1 : \E x \in DOMAIN v : Rank(v, DOMAIN v, x) = j
    BY <2>1, <2>2, ShardRanks
  <2>6. ASSUME NEW x \in RealOf(r), NEW y \in DOMAIN v, v[y] = v[x] PROVE y = x
    BY <2>2, <2>6 DEF RealOf, FitsHead
  <2>7. RealOf(r) \subseteq DOMAIN v
    BY <2>2 DEF RealOf
  <2>8. /\ DOMAIN FirstOf(v, k) = 1 .. k
        /\ \A i \in 1 .. k : FirstOf(v, k)[i] \in DOMAIN v
        /\ \A i \in 1 .. k : \A x \in DOMAIN v :
              /\ Rank(v, DOMAIN v, x) = i - 1
              /\ \A y \in DOMAIN v : v[y] = v[x] => y = x
              => FirstOf(v, k)[i] = x
    BY <1>1, <2>3, <2>4, <2>5, FirstOfRight
  <2>9. of(r) = FirstOf(v, k)
    BY <2>1
  <2>. HIDE DEF of
  <2>10. ASSUME NEW i \in 1 .. k, NEW x \in RealOf(r), Rank(v, HeldBy(r), x) = i - 1
         PROVE  FirstOf(v, k)[i] = x
    <3>1. x \in DOMAIN v /\ \A y \in DOMAIN v : v[y] = v[x] => y = x
      BY <2>6, <2>7
    <3>. QED  BY <2>2, <2>8, <2>10, <3>1
  <2>. QED  BY <2>1, <2>2, <2>8, <2>9, <2>10
<1>3. ASSUME NEW r \in shards PROVE ToSet(of(r)) \subseteq HeldBy(r)
  BY <1>2 DEF ToSet
<1>4. \A id \in U : \E r \in shards : id \in HeldBy(r) /\ (id - 1) \div ShardSize = r
  BY <1>3, ShardFacts DEF HeldBy
<1>5. ASSUME NEW id \in U PROVE val[id] = IF id \in Ids THEN logits[id] ELSE -1
  <2>1. PICK r \in shards : id \in HeldBy(r) /\ (id - 1) \div ShardSize = r
    BY <1>4
  <2>. QED  BY <2>1, ShardRanks
<1>6. IsFiniteSet(U) /\ DOMAIN val = U
  <2>1. ASSUME NEW r \in shards PROVE HeldBy(r) \subseteq 1 .. BdTp * ShardSize
    <3>1. BdTp \in Nat /\ ShardSize \in Nat
      BY ShardFacts
    <3>2. r * ShardSize >= 0 /\ (r + 1) * ShardSize <= BdTp * ShardSize
      BY <3>1
    <3>. QED  BY <3>1, <3>2 DEF HeldBy
  <2>2. U \in SUBSET (1 .. BdTp * ShardSize)
    BY <1>3, <2>1
  <2>3. BdTp * ShardSize \in Int /\ 1 \in Int
    BY ShardFacts
  <2>. QED  BY <2>2, <2>3, FS_Interval, FS_Subset
<1>7. IsFiniteSet(Ids) /\ Cardinality(Ids) = BdVocab /\ \A c \in Ids : logits[c] \in Int
  <2>1. 0 \in 0 .. BdTp - 1
    BY ShardFacts
  <2>. QED  BY <2>1, FiniteParts DEF FitsHead
<1>8. \A c \in Ids : c \in BestOf(logits, k) <=> Rank(logits, Ids, c) < k
  BY DEF BestOf, Rank, Above
<1>9. BestOf(logits, k) \subseteq Ids
  BY DEF BestOf
<1>10. ASSUME NEW c \in BestOf(logits, k) PROVE c \in U
  <2>1. PICK r \in shards : r = (c - 1) \div ShardSize /\ c \in RealOf(r)
    BY <1>9, ShardFacts DEF RealOf, HeldBy
  <2>2. Above(Shard(logits, r), HeldBy(r), c) = Above(logits, RealOf(r), c)
    BY <2>1, ShardRanks
  <2>3. Above(logits, RealOf(r), c) \in SUBSET Above(logits, Ids, c)
    BY DEF Above, RealOf
  <2>4. Above(logits, Ids, c) \in SUBSET Ids
    BY DEF Above
  <2>5. Cardinality(Above(logits, RealOf(r), c)) <= Rank(logits, Ids, c)
    BY <1>7, <2>3, <2>4, FS_Subset DEF Rank
  <2>6. Rank(Shard(logits, r), HeldBy(r), c) \in Nat
    <3>1. Above(logits, RealOf(r), c) \in SUBSET Ids
      BY <2>3, <2>4
    <3>. QED  BY <1>7, <2>2, <3>1, FS_Subset, FS_CardinalityType DEF Rank
  <2>7. Rank(logits, Ids, c) \in Nat
    BY <1>7, <1>9, RankOrder
  <2>8. PICK i \in 1 .. k : Rank(Shard(logits, r), HeldBy(r), c) = i - 1
    <3>1. Rank(Shard(logits, r), HeldBy(r), c) < k
      BY <1>1, <1>8, <1>9, <2>2, <2>5, <2>6, <2>7 DEF Rank
    <3>2. PICK n \in Nat : n = Rank(Shard(logits, r), HeldBy(r), c)
      BY <2>6
    <3>3. n + 1 \in 1 .. k /\ n = (n + 1) - 1
      BY <1>1, <3>1, <3>2
    <3>. QED  BY <3>2, <3>3
  <2>9. of(r)[i] = c
    BY <1>2, <2>1, <2>8
  <2>10. c \in ToSet(of(r))
    BY <1>2, <2>9 DEF ToSet
  <2>. QED  BY <2>10
<1>11. ASSUME NEW c \in BestOf(logits, k) PROVE Above(val, U, c) = Above(logits, Ids, c)
  <2>1. val[c] = logits[c] /\ c \in Ids
    BY <1>5, <1>9, <1>10
  <2>2. ASSUME NEW d \in Above(logits, Ids, c) PROVE d \in Above(val, U, c)
    <3>1. d \in Ids /\ logits[d] > logits[c]
      BY DEF Above
    <3>2. Rank(logits, Ids, d) < Rank(logits, Ids, c)
      BY <1>7, <2>1, <3>1, RankOrder
    <3>3. d \in BestOf(logits, k)
      BY <1>1, <1>7, <1>8, <2>1, <3>1, <3>2, RankOrder
    <3>. QED  BY <1>5, <1>10, <2>1, <3>1, <3>3 DEF Above
  <2>3. ASSUME NEW d \in Above(val, U, c) PROVE d \in Above(logits, Ids, c)
    <3>1. d \in U /\ val[d] > logits[c] /\ logits[c] \in Nat
      BY <2>1 DEF Above, FitsHead
    <3>. QED  BY <1>5, <2>1, <3>1 DEF Above
  <2>. QED  BY <2>2, <2>3
<1>. HIDE DEF U, val, of
<1>12. \A d \in DOMAIN val : val[d] \in Int
  BY <1>5, <1>6, <1>7
<1>13. ASSUME NEW j \in 0 .. k - 1
       PROVE  \E c \in BestOf(logits, k) : Rank(logits, Ids, c) = j /\ Rank(val, U, c) = j
  <2>1. PICK c \in Ids : Rank(logits, Ids, c) = j
    <3>1. j \in 0 .. Cardinality(Ids) - 1
      BY <1>1, <1>7
    <3>2. \A a, b \in Ids : logits[a] = logits[b] => a = b
      BY DEF FitsHead
    <3>. QED  BY <1>7, <3>1, <3>2, EveryRank
  <2>2. c \in BestOf(logits, k)
    BY <1>1, <1>8, <2>1
  <2>. QED  BY <1>11, <2>1, <2>2 DEF Rank
<1>14. ASSUME NEW c \in BestOf(logits, k), NEW y \in U, val[y] = val[c] PROVE y = c
  BY <1>5, <1>9, <1>10, <1>14 DEF FitsHead
<1>15. TopTokens(logits, k) = FirstOf(val, k)
  BY DEF TopTokens, val, U, of
<1>16. /\ DOMAIN FirstOf(val, k) = 1 .. k
       /\ \A i \in 1 .. k : \A x \in U :
             Rank(val, U, x) = i - 1 /\ (\A y \in U : val[y] = val[x] => y = x)
                => FirstOf(val, k)[i] = x
  <2>1. \A j \in 0 .. k - 1 : \E x \in DOMAIN val : Rank(val, DOMAIN val, x) = j
    BY <1>6, <1>10, <1>13
  <2>. QED  BY <1>1, <1>6, <1>12, <2>1, FirstOfRight
<1>17. ASSUME NEW i \in 1 .. k
       PROVE  FirstOf(val, k)[i] \in BestOf(logits, k) /\ Rank(logits, Ids, FirstOf(val, k)[i]) = i - 1
  <2>1. i - 1 \in 0 .. k - 1
    BY <1>1
  <2>2. PICK c \in BestOf(logits, k) : Rank(logits, Ids, c) = i - 1 /\ Rank(val, U, c) = i - 1
    BY <1>13, <2>1
  <2>. QED  BY <1>10, <1>14, <1>16, <2>2
<1>18. ASSUME NEW c \in BestOf(logits, k) PROVE c \in ToSet(FirstOf(val, k))
  <2>1. Rank(logits, Ids, c) \in Nat /\ Rank(logits, Ids, c) < k
    BY <1>7, <1>8, <1>9, RankOrder
  <2>2. PICK i \in 1 .. k : Rank(logits, Ids, c) = i - 1
    <3>1. PICK n \in Nat : n = Rank(logits, Ids, c)
      BY <2>1
    <3>2. n + 1 \in 1 .. k /\ n = (n + 1) - 1
      BY <1>1, <2>1, <3>1
    <3>. QED  BY <3>1, <3>2
  <2>3. Rank(val, U, c) = i - 1
    BY <1>11, <2>2 DEF Rank
  <2>. QED  BY <1>10, <1>14, <1>16, <2>3 DEF ToSet
<1>19. ToSet(FirstOf(val, k)) \subseteq BestOf(logits, k)
  BY <1>16, <1>17 DEF ToSet
<1>. QED  BY <1>15, <1>16, <1>18, <1>19

-----------------------------------------------------------------------------
(* BlockDrafter: what is kept of a drafted block                           *)

\* A column that has no candidate of the state's last block holds what no pass has written.
ErasedElsewhere ==
    \A s \in BdSlots, t \in Steps, c \in Ids :
        c \notin bdCached[s][t] => bdLogits[s][t][c] = NegInf

\* What DrawnAsKept says of the block d of one slot, with the logits kept for it.
KeptOf(d, logits) ==
    \A t \in Steps :
        LET best == BestOf(d.head[t], ModelTopK(bdEnv))
        IN  /\ d.tokens[t] \in best
            /\ \A c \in Ids : logits[t][c] =
                  IF c \in best THEN [unary |-> d.head[t][c],
                                      from |-> IF t = 1 THEN d.anchor ELSE d.tokens[t - 1]]
                  ELSE NegInf

BdInv ==
    /\ bdEnv \in BdEnvs /\ bdPhase # "raised" /\ bdMixed = FALSE
    /\ DOMAIN bdDraft = BdSlots
    /\ ErasedElsewhere
    /\ \A s \in BdSlots : bdDraft[s] # NoDraft => KeptOf(bdDraft[s], bdLogits[s])

LEMMA BlockFacts ==
    /\ BdSpec \in Nat \ {0} /\ Queries \in Nat /\ Queries >= 2 /\ BdTaps \in Nat
    /\ BdSlots = 1 .. Cardinality(BdSlots) /\ Cardinality(BdSlots) \in Nat /\ -1 \notin BdSlots
    /\ \A e \in BdEnvs, head \in BdHeads, t \in Steps : FitsHead(head[t], ModelTopK(e))
<1>1. BdSpec \in Nat \ {0} /\ Queries \in Nat /\ Queries >= 2 /\ BdTaps \in Nat
  BY BlockDrafterAssumption DEF Queries
<1>2. BdSlots = 1 .. Cardinality(BdSlots) /\ IsFiniteSet(BdSlots)
  BY BlockDrafterAssumption
<1>3. Cardinality(BdSlots) \in Nat
  BY <1>2, FS_CardinalityType
<1>4. -1 \notin BdSlots
  <2>1. PICK n \in Nat : n = Cardinality(BdSlots)
    BY <1>3
  <2>2. -1 \notin 1 .. n
    OBVIOUS
  <2>. QED  BY <1>2, <2>1, <2>2
<1>5. ASSUME NEW e \in BdEnvs, NEW head \in BdHeads, NEW t \in Steps
      PROVE  FitsHead(head[t], ModelTopK(e))
  <2>1. head \in [Steps -> [Ids -> Nat]] /\ \A c, d \in Ids : head[t][c] = head[t][d] => c = d
    BY BlockDrafterAssumption
  <2>2. ModelTopK(e) \in 1 .. Smaller(BdVocab, ShardSize)
    BY BlockDrafterAssumption
  <2>3. ModelTopK(e) \in 1 .. BdVocab /\ ModelTopK(e) <= ShardSize
    BY <2>2, ShardFacts DEF Smaller
  <2>4. \A r \in 0 .. BdTp - 1 : ModelTopK(e) <= Cardinality(RealOf(r)) + 1
    BY BlockDrafterAssumption DEF RealOf, HeldBy
  <2>. QED  BY <2>1, <2>3, <2>4 DEF FitsHead
<1>. QED  BY <1>1, <1>2, <1>3, <1>4, <1>5

\* The candidates of a block are the head's best, in some order.
LEMMA CandidatesRight ==
    ASSUME bdEnv \in BdEnvs, NEW head \in BdHeads, NEW t \in Steps
    PROVE  /\ DOMAIN ProposedBy(head)[t] = 1 .. ModelTopK(bdEnv)
           /\ ToSet(ProposedBy(head)[t]) = BestOf(head[t], ModelTopK(bdEnv))
<1>. DEFINE k == ModelTopK(bdEnv)
<1>1. ProposedBy(head) = [u \in Steps |-> TopTokens(head[u], k)]
  BY DEF ProposedBy, Proposed
<1>2. FitsHead(head[t], k)
  BY BlockFacts
<1>. QED  BY <1>1, <1>2, TopTokensRight

-----------------------------------------------------------------------------
(* Which state a row's block is cached for                                 *)

\* The rows of a pass that belong to a state.
RowsOf(mapping, s) == {i \in DOMAIN mapping : StateOf(mapping, i) = s}

LEMMA CacheOther ==
    ASSUME NEW mapping, NEW scores, Cache(mapping, scores), NEW s \in BdSlots,
           RowsOf(mapping, s) = {}, NEW t \in Steps
    PROVE  bdLogits'[s][t] = bdLogits[s][t] /\ bdCached'[s][t] = bdCached[s][t]
BY DEF Cache, RowsOf

LEMMA CacheOwn ==
    ASSUME NEW mapping, NEW scores, Cache(mapping, scores), NEW s \in BdSlots,
           NEW i, RowsOf(mapping, s) = {i}, NEW t \in Steps
    PROVE  /\ bdCached'[s][t] = DOMAIN scores[i][t]
           /\ \A c \in Ids : bdLogits'[s][t][c] =
                 IF c \in DOMAIN scores[i][t] THEN scores[i][t][c]
                 ELSE IF c \in bdCached[s][t] THEN NegInf ELSE bdLogits[s][t][c]
<1>. DEFINE rowsOf == [q \in BdSlots |-> {j \in DOMAIN mapping : StateOf(mapping, j) = q}]
            new == [q \in BdSlots |-> [u \in Steps |->
                       [c \in UNION {DOMAIN scores[j][u] : j \in rowsOf[q]} |->
                           scores[CHOOSE j \in rowsOf[q] : c \in DOMAIN scores[j][u]][u][c]]]]
<1>1. rowsOf[s] = {i}
  BY DEF RowsOf
<1>2. /\ bdLogits' = [q \in BdSlots |-> [u \in Steps |->
                IF rowsOf[q] = {} THEN bdLogits[q][u]
                ELSE [c \in Ids |-> Stored(c, new[q][u], bdCached[q][u], bdLogits[q][u][c])]]]
      /\ bdCached' = [q \in BdSlots |-> [u \in Steps |->
                IF rowsOf[q] = {} THEN bdCached[q][u]
                ELSE DOMAIN scores[CHOOSE j \in rowsOf[q] : TRUE][u]]]
  BY DEF Cache
<1>3. new[s][t] = [c \in UNION {DOMAIN scores[j][t] : j \in rowsOf[s]} |->
                       scores[CHOOSE j \in rowsOf[s] : c \in DOMAIN scores[j][t]][t][c]]
  OBVIOUS
<1>. HIDE DEF rowsOf, new
<1>4. (CHOOSE j \in rowsOf[s] : TRUE) = i
  BY <1>1
<1>5. bdCached'[s][t] = DOMAIN scores[i][t]
  BY <1>1, <1>2, <1>4
<1>6. UNION {DOMAIN scores[j][t] : j \in rowsOf[s]} = DOMAIN scores[i][t]
  BY <1>1
<1>7. DOMAIN new[s][t] = DOMAIN scores[i][t]
  BY <1>3, <1>6
<1>8. ASSUME NEW c \in DOMAIN scores[i][t] PROVE new[s][t][c] = scores[i][t][c]
  <2>1. (CHOOSE j \in rowsOf[s] : c \in DOMAIN scores[j][t]) = i
    BY <1>1
  <2>. QED  BY <1>3, <1>6, <2>1
<1>9. bdLogits'[s][t] = [c \in Ids |-> Stored(c, new[s][t], bdCached[s][t], bdLogits[s][t][c])]
  BY <1>1, <1>2
<1>. QED  BY <1>5, <1>7, <1>8, <1>9 DEF Stored

-----------------------------------------------------------------------------
(* The rows of a pass                                                      *)

\* A batch names every slot of a set once.
IsBatch(slots) ==
    /\ slots \in Seq(BdSlots) /\ Len(slots) <= Cardinality(BdSlots)
    /\ \A i, j \in 1 .. Len(slots) : slots[i] = slots[j] => i = j

LEMMA BatchesRight == ASSUME NEW slots \in Batches PROVE IsBatch(slots)
<1>1. PICK S \in SUBSET BdSlots : slots \in SetToSeqs(S)
  BY DEF Batches
<1>2. IsFiniteSet(BdSlots)
  BY BlockDrafterAssumption
<1>3. IsFiniteSet(S) /\ Cardinality(S) <= Cardinality(BdSlots) /\ Cardinality(S) \in Nat
  BY <1>2, FS_Subset, FS_CardinalityType
<1>4. slots \in [1 .. Cardinality(S) -> S] /\ \A i, j \in 1 .. Cardinality(S) : i # j => slots[i] # slots[j]
  BY <1>1 DEF SetToSeqs
<1>5. slots \in [1 .. Cardinality(S) -> BdSlots]
  BY <1>1, <1>4
<1>6. slots \in Seq(BdSlots) /\ Len(slots) = Cardinality(S)
  BY <1>3, <1>5
<1>. QED  BY <1>3, <1>4, <1>6 DEF IsBatch

\* Where a row's bonus token is, the input has it.
LEMMA AnchorsRight ==
    ASSUME NEW slots, IsBatch(slots), NEW i \in 1 .. Len(slots)
    PROVE  InputIds(slots)[AnchorIndex(i)] = slots[i]
<1>1. ASSUME NEW Q \in Nat, Q >= 2, NEW n \in Nat, NEW k \in 1 .. n, NEW j, j = (k - 1) * Q + 1
      PROVE  j \in 1 .. n * Q /\ j % Q = 1 /\ (j + Q - 1) \div Q = k
  <2>1. (k - 1) * Q \in Nat /\ (k - 1) * Q + Q <= n * Q /\ k * Q = (k - 1) * Q + Q
    BY <1>1
  <2>2. j \in 1 .. n * Q
    BY <1>1, <2>1
  <2>3. j + Q - 1 = k * Q
    BY <1>1, <2>1
  <2>4. (k * Q) \div Q = k
    <3>1. PICK d \in Int : d = (k * Q) \div Q
      BY <1>1
    <3>2. k * Q = Q * d + ((k * Q) % Q) /\ (k * Q) % Q \in 0 .. Q - 1
      BY <1>1, <3>1
    <3>3. Q * d <= k * Q /\ k * Q < Q * d + Q
      BY <1>1, <3>1, <3>2
    <3>4. Q * d < Q * (k + 1) /\ Q * k < Q * (d + 1)
      BY <1>1, <3>1, <3>3
    <3>5. d < k + 1 /\ k < d + 1
      BY <1>1, <3>1, <3>4
    <3>. QED  BY <3>1, <3>5
  <2>5. j % Q = 1
    <3>1. PICK d \in Int, m \in 0 .. Q - 1 : d = j \div Q /\ m = j % Q /\ j = Q * d + m
      <4>1. j \in Int /\ j \div Q \in Int /\ j = Q * (j \div Q) + (j % Q) /\ j % Q \in 0 .. Q - 1
        BY <1>1, <2>2
      <4>. QED  BY <4>1
    <3>2. Q * (k - 1) + 1 = Q * d + m
      BY <1>1, <3>1
    <3>3. Q * (k - 1) < Q * (d + 1) /\ Q * d < Q * (k - 1) + Q
      BY <1>1, <3>1, <3>2
    <3>4. Q * d < Q * k
      BY <1>1, <3>1, <3>3
    <3>5. k - 1 < d + 1 /\ d < k
      BY <1>1, <3>1, <3>3, <3>4
    <3>6. d = k - 1
      BY <3>1, <3>5
    <3>. QED  BY <3>1, <3>2, <3>6
  <2>. QED  BY <2>2, <2>3, <2>4, <2>5
<1>2. Queries \in Nat /\ Queries >= 2 /\ Len(slots) \in Nat
  BY BlockFacts DEF IsBatch
<1>3. PICK j : j = AnchorIndex(i)
  OBVIOUS
<1>4. j \in 1 .. Len(slots) * Queries /\ j % Queries = 1 /\ CeilDiv(j, Queries) = i
  BY <1>1, <1>2, <1>3 DEF AnchorIndex, CeilDiv
<1>. QED  BY <1>3, <1>4 DEF InputIds

\* A row's convolution stays in its block.
LEMMA ReadsInside ==
    ASSUME NEW r \in Nat, NEW q \in Reads(r) PROVE q \div Queries = r \div Queries
<1>1. ASSUME NEW Q \in Nat, Q >= 2, NEW tap \in Nat, r % Q >= tap PROVE (r - tap) \div Q = r \div Q
  <2>1. PICK d \in Int, m \in 0 .. Q - 1 : d = r \div Q /\ m = r % Q /\ r = Q * d + m
    <3>1. r \in Int /\ r \div Q \in Int /\ r = Q * (r \div Q) + (r % Q) /\ r % Q \in 0 .. Q - 1
      BY <1>1
    <3>. QED  BY <3>1
  <2>2. PICK e \in Int, n \in 0 .. Q - 1 : e = (r - tap) \div Q /\ r - tap = Q * e + n
    <3>1. PICK x \in Int : x = r - tap
      OBVIOUS
    <3>2. x \div Q \in Int /\ x = Q * (x \div Q) + (x % Q) /\ x % Q \in 0 .. Q - 1
      BY <1>1, <3>1
    <3>. QED  BY <3>1, <3>2
  <2>3. Q * d + (m - tap) = Q * e + n /\ m - tap \in 0 .. Q - 1
    BY <1>1, <2>1, <2>2
  <2>4. Q * d < Q * e + Q /\ Q * e < Q * d + Q
    BY <1>1, <2>1, <2>2, <2>3
  <2>5. Q * d < Q * (e + 1) /\ Q * e < Q * (d + 1)
    BY <1>1, <2>1, <2>2, <2>4
  <2>6. d < e + 1 /\ e < d + 1
    BY <1>1, <2>1, <2>2, <2>5
  <2>. QED  BY <2>1, <2>2, <2>6
<1>2. PICK tap \in 0 .. BdTaps - 1 : r % Queries >= tap /\ q = r - tap
  BY DEF Reads
<1>3. tap \in Nat /\ Queries \in Nat /\ Queries >= 2
  BY SMTT(30), BlockFacts
<1>. QED  BY <1>1, <1>2, <1>3

-----------------------------------------------------------------------------
(* The block of a pass                                                     *)

LEMMA BlockKept ==
    ASSUME BdInv, bdEnv' = bdEnv, NEW slots, IsBatch(slots),
           NEW head \in [DOMAIN slots -> Heads], NEW walk \in [DOMAIN slots -> Walks],
           BdBlock(slots, head, walk)
    PROVE  /\ bdMixed' = FALSE /\ DOMAIN bdDraft' = BdSlots /\ ErasedElsewhere'
           /\ \A s \in BdSlots : bdDraft'[s] # NoDraft => KeptOf(bdDraft'[s], bdLogits'[s])
<1>. DEFINE k == ModelTopK(bdEnv)
            ids == InputIds(slots)
            cands == [i \in DOMAIN slots |-> ProposedBy(head[i])]
            scores == [i \in BdSlots |->
                          IF i > Len(slots) THEN <<>>
                          ELSE [t \in Steps |->
                                   Realized(head[i], cands[i], ids[AnchorIndex(i)], walk[i], t)]]
            mapping == [i \in BdSlots |-> IF i <= Len(slots) THEN slots[i] ELSE -1]
            rows == DOMAIN slots
<1>1. /\ Cache(mapping, scores)
      /\ bdDraft' = [s \in BdSlots |->
               IF s \notin ToSet(slots) THEN bdDraft[s]
               ELSE LET i == CHOOSE j \in DOMAIN slots : slots[j] = s
                    IN  [head |-> head[i], anchor |-> s,
                         tokens |-> [t \in Steps |-> cands[i][t][walk[i][t]]]]]
      /\ bdMixed' = (bdMixed \/ \E r \in 0 .. Len(slots) * Queries - 1 : \E q \in Reads(r) :
                          q \div Queries # r \div Queries)
  BY DEF BdBlock
<1>2. bdMixed' = FALSE
  <2>1. \A r \in 0 .. Len(slots) * Queries - 1 : \A q \in Reads(r) : q \div Queries = r \div Queries
    BY ReadsInside
  <2>. QED  BY <1>1, <2>1 DEF BdInv
<1>3. rows = 1 .. Len(slots) /\ Len(slots) \in Nat /\ rows \subseteq BdSlots
  BY BlockFacts DEF IsBatch
<1>4. ASSUME NEW i \in rows PROVE head[i] \in BdHeads /\ walk[i] \in [Steps -> 1 .. k]
  <2>1. head[i] \in BdHeads
    <3>1. BdHeads # {}
      BY BlockDrafterAssumption
    <3>2. Heads \subseteq BdHeads
      BY <3>1 DEF Heads
    <3>. QED  BY <3>2
  <2>2. k \in Nat \ {0}
    BY <2>1, BlockDrafterAssumption DEF BdInv
  <2>3. walk[i] \in Walks
    OBVIOUS
  <2>4. [t \in Steps |-> 1] \in [Steps -> 1 .. k]
    BY <2>2
  <2>. QED  BY <2>1, <2>3, <2>4 DEF Walks
<1>5. ASSUME NEW i \in rows, NEW t \in Steps
      PROVE  /\ DOMAIN cands[i][t] = 1 .. k
             /\ ToSet(cands[i][t]) = BestOf(head[i][t], k)
             /\ cands[i][t][walk[i][t]] \in BestOf(head[i][t], k)
  <2>1. cands[i] = ProposedBy(head[i])
    OBVIOUS
  <2>2. DOMAIN cands[i][t] = 1 .. k /\ ToSet(cands[i][t]) = BestOf(head[i][t], k)
    BY <1>4, <2>1, CandidatesRight DEF BdInv
  <2>3. walk[i][t] \in 1 .. k
    BY <1>4
  <2>. QED  BY <2>2, <2>3 DEF ToSet
<1>6. ASSUME NEW i \in rows, NEW t \in Steps
      PROVE  /\ DOMAIN scores[i][t] = BestOf(head[i][t], k)
             /\ \A c \in DOMAIN scores[i][t] : scores[i][t][c] =
                   [unary |-> head[i][t][c],
                    from |-> IF t = 1 THEN slots[i] ELSE cands[i][t - 1][walk[i][t - 1]]]
  <2>1. scores[i][t] = Realized(head[i], cands[i], ids[AnchorIndex(i)], walk[i], t)
    BY <1>3
  <2>2. ids[AnchorIndex(i)] = slots[i]
    BY <1>3, AnchorsRight
  <2>3. BestOf(head[i][t], k) \subseteq Ids
    BY DEF BestOf
  <2>. HIDE DEF cands, ids, scores
  <2>. QED  BY <1>5, <2>1, <2>2, <2>3 DEF Realized, Logit, Previous
<1>7. ASSUME NEW s \in BdSlots, s \notin ToSet(slots)
      PROVE  /\ bdDraft'[s] = bdDraft[s]
             /\ \A t \in Steps : bdLogits'[s][t] = bdLogits[s][t] /\ bdCached'[s][t] = bdCached[s][t]
  <2>1. RowsOf(mapping, s) = {}
    BY <1>3, <1>7, BlockFacts DEF RowsOf, StateOf, ToSet
  <2>. HIDE DEF mapping, scores
  <2>. QED  BY <1>1, <1>7, <2>1, CacheOther
<1>8. ASSUME NEW i \in rows
      PROVE  /\ slots[i] \in BdSlots
             /\ bdDraft'[slots[i]] = [head |-> head[i], anchor |-> slots[i],
                                      tokens |-> [t \in Steps |-> cands[i][t][walk[i][t]]]]
             /\ \A t \in Steps :
                   /\ bdCached'[slots[i]][t] = DOMAIN scores[i][t]
                   /\ \A c \in Ids : bdLogits'[slots[i]][t][c] =
                         IF c \in DOMAIN scores[i][t] THEN scores[i][t][c] ELSE NegInf
  <2>1. slots[i] \in BdSlots /\ slots[i] \in ToSet(slots)
    BY <1>3 DEF IsBatch, ToSet
  <2>2. \A j \in rows : slots[j] = slots[i] => j = i
    BY <1>3 DEF IsBatch
  <2>3. RowsOf(mapping, slots[i]) = {i}
    BY <1>3, <2>1, <2>2, BlockFacts DEF RowsOf, StateOf
  <2>4. (CHOOSE j \in DOMAIN slots : slots[j] = slots[i]) = i
    BY <2>2
  <2>5. bdDraft'[slots[i]] = [head |-> head[i], anchor |-> slots[i],
                              tokens |-> [t \in Steps |-> cands[i][t][walk[i][t]]]]
    BY <1>1, <2>1, <2>4
  <2>6. ASSUME NEW t \in Steps
        PROVE  /\ bdCached'[slots[i]][t] = DOMAIN scores[i][t]
               /\ \A c \in Ids : bdLogits'[slots[i]][t][c] =
                     IF c \in DOMAIN scores[i][t] THEN scores[i][t][c] ELSE NegInf
    <3>. HIDE DEF mapping, scores
    <3>1. /\ bdCached'[slots[i]][t] = DOMAIN scores[i][t]
          /\ \A c \in Ids : bdLogits'[slots[i]][t][c] =
                IF c \in DOMAIN scores[i][t] THEN scores[i][t][c]
                ELSE IF c \in bdCached[slots[i]][t] THEN NegInf ELSE bdLogits[slots[i]][t][c]
      BY <1>1, <2>1, <2>3, CacheOwn
    <3>2. \A c \in Ids : c \notin bdCached[slots[i]][t] => bdLogits[slots[i]][t][c] = NegInf
      BY <2>1 DEF BdInv, ErasedElsewhere
    <3>. QED  BY <3>1, <3>2
  <2>. QED  BY <2>1, <2>5, <2>6
<1>. HIDE DEF cands, scores, mapping, ids
<1>9. \A s \in BdSlots : s \in ToSet(slots) => \E i \in rows : s = slots[i]
  BY DEF ToSet
<1>10. ErasedElsewhere'
  <2>1. ASSUME NEW s \in BdSlots, NEW t \in Steps, NEW c \in Ids, c \notin bdCached'[s][t]
        PROVE  bdLogits'[s][t][c] = NegInf
    <3>1. CASE s \in ToSet(slots)
      <4>1. PICK i \in rows : s = slots[i]
        BY <1>9, <3>1
      <4>2. bdCached'[slots[i]][t] = DOMAIN scores[i][t]
        BY <1>8, Zenon
      <4>3. \A e \in Ids : bdLogits'[slots[i]][t][e] = IF e \in DOMAIN scores[i][t] THEN scores[i][t][e] ELSE NegInf
        BY <1>8
      <4>4. bdLogits'[slots[i]][t][c] = IF c \in DOMAIN scores[i][t] THEN scores[i][t][c] ELSE NegInf
        BY <4>3
      <4>. QED  BY <2>1, <4>1, <4>2, <4>4
    <3>2. CASE s \notin ToSet(slots)
      BY <1>7, <2>1, <3>2 DEF BdInv, ErasedElsewhere
    <3>. QED  BY <3>1, <3>2
  <2>. QED  BY <2>1 DEF ErasedElsewhere
<1>11. ASSUME NEW s \in BdSlots, bdDraft'[s] # NoDraft PROVE KeptOf(bdDraft'[s], bdLogits'[s])
  <2>1. CASE s \notin ToSet(slots)
    BY <1>7, <1>11, <2>1 DEF BdInv, KeptOf
  <2>2. CASE s \in ToSet(slots)
    <3>1. PICK i \in rows : s = slots[i]
      BY <1>9, <2>2
    <3>2. PICK d : d = bdDraft'[s]
      OBVIOUS
    <3>5. d = [head |-> head[i], anchor |-> slots[i],
               tokens |-> [t \in Steps |-> cands[i][t][walk[i][t]]]]
      BY <1>8, <3>1, <3>2
    <3>3. /\ d.head = head[i] /\ d.anchor = slots[i]
          /\ \A t \in Steps : d.tokens[t] = cands[i][t][walk[i][t]]
      BY <3>5
    <3>4. ASSUME NEW t \in Steps
          PROVE  /\ d.tokens[t] \in BestOf(d.head[t], k)
                 /\ \A c \in Ids : bdLogits'[s][t][c] =
                       IF c \in BestOf(d.head[t], k)
                       THEN [unary |-> d.head[t][c],
                             from |-> IF t = 1 THEN d.anchor ELSE d.tokens[t - 1]]
                       ELSE NegInf
      <4>1. t # 1 => t - 1 \in Steps
        BY BlockFacts DEF Steps
      <4>2. d.tokens[t] \in BestOf(d.head[t], k)
        BY <1>5, <3>3
      <4>3. t # 1 => d.tokens[t - 1] = cands[i][t - 1][walk[i][t - 1]]
        BY <3>3, <4>1
      <4>4. DOMAIN scores[i][t] = BestOf(d.head[t], k)
        BY <1>6, <3>3
      <4>5. ASSUME NEW c \in Ids, c \in BestOf(d.head[t], k)
            PROVE  bdLogits'[s][t][c] = [unary |-> d.head[t][c],
                                         from |-> IF t = 1 THEN d.anchor ELSE d.tokens[t - 1]]
        <5>1. bdLogits'[s][t][c] = scores[i][t][c]
          BY <1>8, <3>1, <4>4, <4>5
        <5>2. scores[i][t][c] = [unary |-> head[i][t][c],
                    from |-> IF t = 1 THEN slots[i] ELSE cands[i][t - 1][walk[i][t - 1]]]
          BY <1>6, <4>4, <4>5
        <5>3. (IF t = 1 THEN slots[i] ELSE cands[i][t - 1][walk[i][t - 1]])
                = (IF t = 1 THEN d.anchor ELSE d.tokens[t - 1])
          BY <3>3, <4>3
        <5>. QED  BY <3>3, <5>1, <5>2, <5>3
      <4>6. ASSUME NEW c \in Ids, c \notin BestOf(d.head[t], k) PROVE bdLogits'[s][t][c] = NegInf
        BY <1>8, <3>1, <4>4, <4>6
      <4>. QED  BY <4>2, <4>5, <4>6
    <3>. QED  BY <3>2, <3>4 DEF KeptOf
  <2>. QED  BY <2>1, <2>2
<1>. QED  BY <1>1, <1>2, <1>10, <1>11

LEMMA BdInitOK == BdInit => BdInv
BY DEF BdInit, BdInv, ErasedElsewhere, Fill

LEMMA BdNextOK == ASSUME BdInv, [BdNext]_bdVars PROVE BdInv'
<1>. DEFINE kept == <<bdEnv, bdMixed, bdLogits, bdCached, bdDraft>>
<1>0. ASSUME UNCHANGED kept, bdPhase' # "raised" PROVE BdInv'
  BY <1>0 DEF BdInv, ErasedElsewhere, KeptOf
<1>1. CASE BdLoad
  BY <1>0, <1>1 DEF BdLoad
<1>2. CASE BdProcess
  BY <1>0, <1>2 DEF BdProcess
<1>3. CASE BdProfile
  BY <1>0, <1>3 DEF BdProfile, WorkerTopK, ModelTopK
<1>4. CASE BdCapture
  <2>1. PICK scores : Cache(CapturedMapping, scores)
    BY <1>4 DEF BdCapture
  <2>2. \A s \in BdSlots : RowsOf(CapturedMapping, s) = {}
    BY BlockFacts DEF RowsOf, StateOf, CapturedMapping
  <2>3. \A s \in BdSlots, t \in Steps :
           bdLogits'[s][t] = bdLogits[s][t] /\ bdCached'[s][t] = bdCached[s][t]
    BY <2>1, <2>2, CacheOther
  <2>4. bdEnv' = bdEnv /\ bdMixed' = bdMixed /\ bdDraft' = bdDraft /\ bdPhase' = "serving"
    BY <1>4 DEF BdCapture
  <2>5. ErasedElsewhere'
    BY <2>3 DEF BdInv, ErasedElsewhere
  <2>6. ASSUME NEW s \in BdSlots, bdDraft'[s] # NoDraft PROVE KeptOf(bdDraft[s], bdLogits[s])'
    BY <2>3, <2>4, <2>6 DEF BdInv, KeptOf
  <2>. QED  BY <2>4, <2>5, <2>6 DEF BdInv
<1>5. CASE BdPass
  <2>1. PICK slots \in Batches : \E head \in [DOMAIN slots -> Heads], walk \in [DOMAIN slots -> Walks] :
            BdBlock(slots, head, walk)
    BY <1>5 DEF BdPass
  <2>2. PICK head \in [DOMAIN slots -> Heads], walk \in [DOMAIN slots -> Walks] :
            BdBlock(slots, head, walk)
    BY <2>1
  <2>3. IsBatch(slots)
    BY BatchesRight
  <2>4. bdEnv' = bdEnv /\ bdPhase' = bdPhase
    BY <1>5 DEF BdPass
  <2>5. /\ bdMixed' = FALSE /\ DOMAIN bdDraft' = BdSlots /\ ErasedElsewhere'
        /\ \A s \in BdSlots : bdDraft'[s] # NoDraft => KeptOf(bdDraft'[s], bdLogits'[s])
    BY <2>2, <2>3, <2>4, BlockKept
  <2>. QED  BY <2>4, <2>5 DEF BdInv, KeptOf
<1>6. ASSUME NEW s \in BdSlots, BdArrive(s) PROVE BdInv'
  BY <1>0, <1>6 DEF BdArrive, BdInv
<1>7. ASSUME NEW s \in BdSlots, BdFinish(s) PROVE BdInv'
  <2>1. bdDraft' = [bdDraft EXCEPT ![s] = NoDraft]
        /\ UNCHANGED <<bdEnv, bdPhase, bdLogits, bdCached, bdMixed>>
    BY <1>7 DEF BdFinish
  <2>2. \A q \in BdSlots : bdDraft'[q] # NoDraft => bdDraft'[q] = bdDraft[q]
    BY <2>1 DEF BdInv
  <2>. QED  BY <2>1, <2>2 DEF BdInv, ErasedElsewhere, KeptOf
<1>8. CASE UNCHANGED bdVars
  BY <1>0, <1>8 DEF bdVars, BdInv
<1>. QED  BY <1>1, <1>2, <1>3, <1>4, <1>5, <1>6, <1>7, <1>8 DEF BdNext

\* The distribution that is kept for a request is the one its last block was drawn from,
\* for any vocabulary, ranks, slots and heads, whatever rows the passes before had.
THEOREM BlocksDrawnAsKept == BdSpecification => []DrawnAsKept
<1>1. BdInv => DrawnAsKept
  BY DEF BdInv, DrawnAsKept, KeptOf
<1>. QED  BY <1>1, BdInitOK, BdNextOK, PTL DEF BdSpecification

-----------------------------------------------------------------------------
(* CompressedHeads: the packings                                           *)

HdTensors == {TargetHead, OwnHead}
HdProcessors == {"draft", "target"}
Contents == {"zero", "junk", "target"}

HdTypeOK ==
    /\ hdPhase \in {"target", "drafter", "share", "serve", "refused"}
    /\ hdBytes \in [HdTensors -> Contents]
    /\ hdDraftAt \in HdTensors
    /\ hdBound \in [HdProcessors -> {"stock", "lazy", "int2", "moe", "gated"}]
    /\ hdPack \in [HdProcessors -> Contents \cup {""}]
    /\ hdCache \in [HdTensors -> Contents \cup {""}]
    /\ hdCopies \in Nat /\ hdChecked \in BOOLEAN

\* Before the target's head is shared nothing but the lane's own hook has packed anything.
HdBeforeServing ==
    /\ hdPhase \in {"target", "drafter", "share"} =>
          /\ hdScored.by = "" /\ hdBound["target"] = "stock" /\ hdCache[TargetHead] = "" /\ ~hdChecked
    /\ hdPhase \in {"target", "drafter"} => hdBound["draft"] = "stock" /\ hdCopies = 0
    /\ hdPhase \in {"drafter", "share", "serve"} => hdBytes[TargetHead] = "target"
    /\ hdPhase = "share" => hdBound["draft"] = (IF hdMode.lane = "fast" THEN "lazy" ELSE "moe")

\* A packing that a call may score with is of the target's head, or has yet to be compared.
HdPacksFit ==
    hdPhase = "serve" =>
        /\ hdDraftAt = TargetHead
        /\ hdCache[TargetHead] \in {"", "target"}
        /\ hdBound["draft"] = "int2" => hdPack["draft"] = "target"
        /\ hdBound["draft"] = "moe" /\ hdChecked => hdPack["draft"] = "target"
        /\ hdBound["target"] # "stock" => hdPack["target"] = "target"

\* The fast lane packs no tensor but the target's head, and that once.
HdCountsPacks ==
    hdMode.lane = "fast" =>
        /\ hdBound["draft"] # "moe" /\ hdCopies \in {0, 1}
        /\ hdCache[TargetHead] = "" => hdCopies = 0

HdInv ==
    /\ HdTypeOK /\ HdBeforeServing /\ HdPacksFit /\ HdCountsPacks
    /\ ScoresItsOwnHead

LEMMA HdInitOK == HdInit => HdInv
<1>. SUFFICES ASSUME HdInit PROVE HdInv
  OBVIOUS
<1>1. HdTypeOK
  BY DEF HdInit, HdTypeOK, HdTensors, HdProcessors, Contents, TargetHead, OwnHead
<1>2. HdBeforeServing
  BY DEF HdInit, HdBeforeServing, TargetHead, OwnHead
<1>3. HdPacksFit /\ HdCountsPacks /\ ScoresItsOwnHead
  BY DEF HdInit, HdPacksFit, HdCountsPacks, ScoresItsOwnHead, TargetHead, OwnHead
<1>. QED  BY <1>1, <1>2, <1>3 DEF HdInv

\* What packing a tensor changes.
LEMMA QuantizeFacts ==
    ASSUME HdTypeOK, NEW p \in HdProcessors, NEW t \in HdTensors, NEW bytes \in Contents,
           NEW bound \in {"lazy", "int2", "moe", "gated"}, Quantize(p, t, bytes, bound)
    PROVE  /\ hdPack' \in [HdProcessors -> Contents \cup {""}]
           /\ hdCache' \in [HdTensors -> Contents \cup {""}]
           /\ hdBound' \in [HdProcessors -> {"stock", "lazy", "int2", "moe", "gated"}]
           /\ hdCache[t] = "" => hdPack'[p] = bytes /\ hdCopies' = hdCopies + 1
           /\ hdCache[t] # "" => hdPack'[p] = hdCache[t] /\ hdCopies' = hdCopies
           /\ hdCache'[t] = hdPack'[p] /\ hdPack'[p] # "" /\ hdCopies' \in Nat
           /\ hdBound'[p] = bound
           /\ \A q \in HdProcessors : q # p => hdPack'[q] = hdPack[q] /\ hdBound'[q] = hdBound[q]
           /\ \A u \in HdTensors : u # t => hdCache'[u] = hdCache[u]
<1>0. hdCopies \in Nat
  BY DEF HdTypeOK
<1>1. PICK pack \in Contents :
          /\ hdCache[t] = "" => pack = bytes /\ hdCopies' = hdCopies + 1
          /\ hdCache[t] # "" => pack = hdCache[t] /\ hdCopies' = hdCopies
          /\ hdPack' = [hdPack EXCEPT ![p] = pack] /\ hdCache' = [hdCache EXCEPT ![t] = pack]
          /\ hdBound' = [hdBound EXCEPT ![p] = bound]
  <2>1. CASE hdCache[t] = ""
    <3>1. Packing(t, bytes) = [pack |-> bytes, fresh |-> TRUE]
      BY <2>1 DEF Packing
    <3>2. /\ hdPack' = [hdPack EXCEPT ![p] = bytes] /\ hdCache' = [hdCache EXCEPT ![t] = bytes]
          /\ hdCopies' = hdCopies + (IF TRUE THEN 1 ELSE 0) /\ hdBound' = [hdBound EXCEPT ![p] = bound]
      BY <3>1 DEF Quantize
    <3>3. hdCopies' = hdCopies + 1
      BY <3>2
    <3>. QED  BY <2>1, <3>2, <3>3
  <2>2. CASE hdCache[t] # ""
    <3>1. Packing(t, bytes) = [pack |-> hdCache[t], fresh |-> FALSE]
      BY <2>2 DEF Packing
    <3>2. /\ hdPack' = [hdPack EXCEPT ![p] = hdCache[t]] /\ hdCache' = [hdCache EXCEPT ![t] = hdCache[t]]
          /\ hdCopies' = hdCopies + (IF FALSE THEN 1 ELSE 0) /\ hdBound' = [hdBound EXCEPT ![p] = bound]
      BY <3>1 DEF Quantize
    <3>3. hdCache[t] \in Contents
      BY <2>2 DEF HdTypeOK
    <3>4. hdCopies' = hdCopies
      BY <1>0, <3>2
    <3>. QED  BY <2>2, <3>2, <3>3, <3>4
  <2>. QED  BY <2>1, <2>2
<1>2. pack # ""
  BY DEF Contents
<1>3. /\ hdPack' \in [HdProcessors -> Contents \cup {""}]
      /\ hdCache' \in [HdTensors -> Contents \cup {""}]
      /\ hdBound' \in [HdProcessors -> {"stock", "lazy", "int2", "moe", "gated"}]
  BY <1>1 DEF HdTypeOK
<1>4. hdPack'[p] = pack /\ hdCache'[t] = pack /\ hdBound'[p] = bound
  BY <1>1 DEF HdTypeOK
<1>5. /\ \A q \in HdProcessors : q # p => hdPack'[q] = hdPack[q] /\ hdBound'[q] = hdBound[q]
      /\ \A u \in HdTensors : u # t => hdCache'[u] = hdCache[u]
  BY <1>1 DEF HdTypeOK
<1>6. /\ hdCache[t] = "" => hdCopies' = hdCopies + 1
      /\ hdCache[t] # "" => hdCopies' = hdCopies
  BY <1>1
<1>7. hdCopies' \in Nat
  <2>1. CASE hdCache[t] = ""
    <3>1. hdCopies' = hdCopies + 1
      BY <1>6, <2>1
    <3>. QED  BY <1>0, <3>1
  <2>2. CASE hdCache[t] # ""
    <3>1. hdCopies' = hdCopies
      BY <1>6, <2>2
    <3>. QED  BY <1>0, <3>1
  <2>. QED  BY <2>1, <2>2
<1>8. hdCache[t] = "" => hdPack'[p] = bytes /\ hdCopies' = hdCopies + 1
  BY <1>1, <1>4, <1>6
<1>9. hdCache[t] # "" => hdPack'[p] = hdCache[t] /\ hdCopies' = hdCopies
  BY <1>1, <1>4, <1>6
<1>. QED  BY <1>2, <1>3, <1>4, <1>5, <1>7, <1>8, <1>9

LEMMA HdNextOK == ASSUME HdInv, [HdNext]_hdVars PROVE HdInv'
<1>. USE DEF HdInv
<1>1. CASE LoadTarget
  BY <1>1 DEF LoadTarget, HdTypeOK, HdBeforeServing, HdPacksFit, HdCountsPacks, ScoresItsOwnHead,
              HdTensors, HdProcessors, Contents, TargetHead, OwnHead
<1>2. CASE LoadDrafter
  <2>1. PICK bytes \in {"target", "zero", "junk"} :
          /\ hdBytes' = [hdBytes EXCEPT ![OwnHead] = bytes]
          /\ IF hdMode.lane = "fast"
             THEN /\ hdPhase' = "share"
                  /\ hdBound' = [hdBound EXCEPT !["draft"] = "lazy"]
                  /\ UNCHANGED <<hdPack, hdCache, hdCopies>>
             ELSE IF bytes = "zero"
             THEN hdPhase' = "refused" /\ UNCHANGED <<hdBound, hdPack, hdCache, hdCopies>>
             ELSE hdPhase' = "share" /\ Quantize("draft", OwnHead, bytes, "moe")
    BY <1>2 DEF LoadDrafter, Defers
  <2>2. hdPhase = "drafter" /\ UNCHANGED <<hdMode, hdDraftAt, hdChecked, hdScored>>
    BY <1>2 DEF LoadDrafter
  <2>3. CASE hdMode.lane = "fast"
    <3>1. HdTypeOK'
      BY <2>1, <2>2, <2>3 DEF HdTypeOK, HdTensors, HdProcessors, Contents, OwnHead
    <3>2. HdBeforeServing'
      <4>1. hdBound'["draft"] = "lazy" /\ hdBound'["target"] = hdBound["target"]
        BY <2>1, <2>3 DEF HdTypeOK, HdProcessors
      <4>2. hdBytes'[TargetHead] = hdBytes[TargetHead]
        <5>1. TargetHead \in HdTensors /\ OwnHead # TargetHead
          BY DEF HdTensors, TargetHead, OwnHead
        <5>2. hdBytes \in [HdTensors -> Contents]
          BY DEF HdTypeOK
        <5>3. hdBytes' = [hdBytes EXCEPT ![OwnHead] = bytes]
          BY <2>1
        <5>. QED  BY <5>1, <5>2, <5>3
      <4>. QED  BY <2>1, <2>2, <2>3, <4>1, <4>2 DEF HdBeforeServing
    <3>3. HdPacksFit' /\ HdCountsPacks' /\ ScoresItsOwnHead'
      BY <2>1, <2>2, <2>3 DEF HdTypeOK, HdPacksFit, HdCountsPacks, ScoresItsOwnHead, HdProcessors
    <3>. QED  BY <3>1, <3>2, <3>3
  <2>4. CASE hdMode.lane # "fast" /\ bytes = "zero"
    BY <2>1, <2>2, <2>4 DEF HdTypeOK, HdBeforeServing, HdPacksFit, HdCountsPacks, ScoresItsOwnHead,
              HdTensors, HdProcessors, Contents, TargetHead, OwnHead
  <2>5. CASE hdMode.lane # "fast" /\ bytes # "zero"
    <3>1. hdPhase' = "share" /\ Quantize("draft", OwnHead, bytes, "moe")
      BY <2>1, <2>5
    <3>2. "draft" \in HdProcessors /\ "target" \in HdProcessors /\ OwnHead \in HdTensors
          /\ TargetHead \in HdTensors /\ OwnHead # TargetHead /\ bytes \in Contents
      BY DEF HdProcessors, HdTensors, OwnHead, TargetHead, Contents
    <3>3. /\ hdPack' \in [HdProcessors -> Contents \cup {""}]
          /\ hdCache' \in [HdTensors -> Contents \cup {""}]
          /\ hdBound' \in [HdProcessors -> {"stock", "lazy", "int2", "moe", "gated"}]
          /\ hdCopies' \in Nat /\ hdBound'["draft"] = "moe" /\ hdBound'["target"] = hdBound["target"]
          /\ hdCache'[TargetHead] = hdCache[TargetHead]
      BY ZenonT(60), <3>1, <3>2, QuantizeFacts
    <3>4. hdBytes' \in [HdTensors -> Contents] /\ hdBytes'[TargetHead] = hdBytes[TargetHead]
      BY <2>1, <3>2 DEF HdTypeOK
    <3>. QED  BY <2>2, <2>5, <3>1, <3>3, <3>4
              DEF HdTypeOK, HdBeforeServing, HdPacksFit, HdCountsPacks, ScoresItsOwnHead
  <2>. QED  BY <2>3, <2>4, <2>5
<1>3. CASE ShareHead
  <2>1. /\ hdPhase = "share" /\ hdDraftAt' = TargetHead /\ hdPhase' = "serve"
        /\ UNCHANGED <<hdMode, hdBytes, hdBound, hdPack, hdCache, hdCopies, hdChecked, hdScored>>
    BY <1>3 DEF ShareHead
  <2>2. HdTypeOK' /\ HdBeforeServing' /\ HdCountsPacks' /\ ScoresItsOwnHead'
    BY <2>1 DEF HdTypeOK, HdBeforeServing, HdCountsPacks, ScoresItsOwnHead, HdTensors, TargetHead
  <2>3. HdPacksFit'
    BY <2>1 DEF HdBeforeServing, HdPacksFit
  <2>. QED  BY <2>2, <2>3
<1>4. CASE DraftFirst
  <2>1. /\ hdPhase = "serve" /\ hdBound["draft"] = "lazy" /\ hdDraftAt = TargetHead
        /\ hdBytes[TargetHead] = "target" /\ UNCHANGED <<hdMode, hdPhase, hdBytes, hdDraftAt, hdChecked>>
    BY <1>4 DEF DraftFirst, HdPacksFit, HdBeforeServing
  <2>2. Quantize("draft", TargetHead, "target", "int2") /\ Scored("draft", hdPack'["draft"], TargetHead)
    BY <1>4, <2>1 DEF DraftFirst
  <2>3. "draft" \in HdProcessors /\ "target" \in HdProcessors /\ TargetHead \in HdTensors /\ "target" \in Contents
    BY DEF HdProcessors, HdTensors, Contents
  <2>4. /\ hdPack' \in [HdProcessors -> Contents \cup {""}]
        /\ hdCache' \in [HdTensors -> Contents \cup {""}]
        /\ hdBound' \in [HdProcessors -> {"stock", "lazy", "int2", "moe", "gated"}]
        /\ hdCache[TargetHead] = "" => hdPack'["draft"] = "target" /\ hdCopies' = hdCopies + 1
        /\ hdCache[TargetHead] # "" => hdPack'["draft"] = hdCache[TargetHead] /\ hdCopies' = hdCopies
        /\ hdCache'[TargetHead] = hdPack'["draft"]
        /\ hdCopies' \in Nat
        /\ hdBound'["draft"] = "int2"
        /\ hdPack'["target"] = hdPack["target"] /\ hdBound'["target"] = hdBound["target"]
    <3>1. "int2" \in {"lazy", "int2", "moe", "gated"} /\ "draft" # "target"
      OBVIOUS
    <3>2. Quantize("draft", TargetHead, "target", "int2")
      BY <2>2
    <3>. HIDE DEF HdProcessors, HdTensors, Contents, HdInv
    <3>3. HdTypeOK
      BY DEF HdInv
    <3>. QED  BY ZenonT(60), <2>3, <3>1, <3>2, <3>3, QuantizeFacts
  <2>5. hdPack'["draft"] = "target"
    BY <2>1, <2>4 DEF HdPacksFit
  <2>6. hdScored' = [by |-> "draft", with |-> "target", head |-> "target"]
    BY <2>1, <2>2, <2>5 DEF Scored
  <2>7. HdCountsPacks'
    <3>1. CASE hdCache[TargetHead] = "" /\ hdMode.lane = "fast"
      <4>1. hdCopies = 0 /\ hdCopies' = hdCopies + 1
        BY <2>4, <3>1 DEF HdCountsPacks
      <4>2. hdCopies' = 1
        BY <4>1
      <4>3. hdCache'[TargetHead] # "" /\ hdBound'["draft"] # "moe"
        BY <2>4, <2>5
      <4>. QED  BY <4>2, <4>3 DEF HdCountsPacks
    <3>2. CASE hdCache[TargetHead] # ""
      BY <2>1, <2>4, <2>5, <3>2 DEF HdCountsPacks
    <3>3. CASE hdMode.lane # "fast"
      BY <2>1, <3>3 DEF HdCountsPacks
    <3>. QED  BY <3>1, <3>2, <3>3
  <2>. QED  BY <2>1, <2>4, <2>5, <2>6, <2>7
            DEF HdTypeOK, HdBeforeServing, HdPacksFit, ScoresItsOwnHead
<1>5. CASE DraftInt2
  BY <1>5 DEF DraftInt2, Scored, HdTypeOK, HdBeforeServing, HdPacksFit, HdCountsPacks, ScoresItsOwnHead
<1>6. CASE DraftMoe
  <2>1. /\ hdPhase = "serve" /\ hdBound["draft"] = "moe"
        /\ UNCHANGED <<hdMode, hdBytes, hdDraftAt, hdBound, hdPack, hdCache, hdCopies>>
    BY <1>6 DEF DraftMoe
  <2>2. CASE Matches
    <3>1. /\ hdChecked' = TRUE /\ UNCHANGED hdPhase
          /\ hdScored' = [by |-> "draft", with |-> hdPack["draft"], head |-> hdBytes[hdDraftAt]]
      BY <1>6, <2>2 DEF DraftMoe, Scored
    <3>2. hdDraftAt = TargetHead /\ hdBytes[TargetHead] = "target"
      BY <2>1 DEF HdBeforeServing, HdPacksFit
    <3>3. hdPack["draft"] = "target"
      BY <2>1, <2>2, <3>2 DEF Matches, HdPacksFit
    <3>4. HdTypeOK' /\ HdCountsPacks'
      BY <2>1, <3>1 DEF HdTypeOK, HdCountsPacks
    <3>5. HdBeforeServing'
      BY <2>1, <3>1 DEF HdBeforeServing
    <3>6. HdPacksFit'
      BY <2>1, <3>1, <3>3 DEF HdPacksFit
    <3>7. ScoresItsOwnHead'
      BY <3>1, <3>2, <3>3 DEF ScoresItsOwnHead
    <3>. QED  BY <3>4, <3>5, <3>6, <3>7
  <2>3. CASE ~Matches
    BY <1>6, <2>1, <2>3 DEF DraftMoe, HdTypeOK, HdBeforeServing, HdPacksFit, HdCountsPacks, ScoresItsOwnHead
  <2>. QED  BY <2>2, <2>3
<1>7. CASE VerifyCall
  <2>1. /\ hdPhase = "serve" /\ hdBytes[TargetHead] = "target"
        /\ UNCHANGED <<hdMode, hdPhase, hdBytes, hdDraftAt, hdChecked>>
    BY <1>7 DEF VerifyCall, HdBeforeServing
  <2>2. PICK fast \in BOOLEAN :
            Scored("target", IF fast THEN hdPack'["target"] ELSE hdBytes[TargetHead], TargetHead)
    BY <1>7 DEF VerifyCall
  <2>3. CASE hdBound["target"] = "stock"
    <3>1. Quantize("target", TargetHead, "target", "gated")
      BY <1>7, <2>1, <2>3 DEF VerifyCall
    <3>2. "draft" \in HdProcessors /\ "target" \in HdProcessors /\ TargetHead \in HdTensors /\ "target" \in Contents
      BY DEF HdProcessors, HdTensors, Contents
    <3>3. /\ hdPack' \in [HdProcessors -> Contents \cup {""}]
          /\ hdCache' \in [HdTensors -> Contents \cup {""}]
          /\ hdBound' \in [HdProcessors -> {"stock", "lazy", "int2", "moe", "gated"}]
          /\ hdCache[TargetHead] = "" => hdPack'["target"] = "target" /\ hdCopies' = hdCopies + 1
          /\ hdCache[TargetHead] # "" => hdPack'["target"] = hdCache[TargetHead] /\ hdCopies' = hdCopies
          /\ hdCache'[TargetHead] = hdPack'["target"]
          /\ hdCopies' \in Nat
          /\ hdBound'["target"] = "gated"
          /\ hdPack'["draft"] = hdPack["draft"] /\ hdBound'["draft"] = hdBound["draft"]
      <4>1. "gated" \in {"lazy", "int2", "moe", "gated"} /\ "draft" # "target"
        OBVIOUS
      <4>. HIDE DEF HdInv
      <4>2. HdTypeOK
        BY DEF HdInv
      <4>3. /\ hdPack' \in [HdProcessors -> Contents \cup {""}]
            /\ hdCache' \in [HdTensors -> Contents \cup {""}]
            /\ hdBound' \in [HdProcessors -> {"stock", "lazy", "int2", "moe", "gated"}]
            /\ hdCopies' \in Nat /\ hdCache'[TargetHead] = hdPack'["target"]
            /\ hdBound'["target"] = "gated"
        BY <3>1, <3>2, <4>1, <4>2, QuantizeFacts
      <4>4. /\ hdCache[TargetHead] = "" => hdPack'["target"] = "target" /\ hdCopies' = hdCopies + 1
            /\ hdCache[TargetHead] # "" => hdPack'["target"] = hdCache[TargetHead] /\ hdCopies' = hdCopies
        BY <3>1, <3>2, <4>1, <4>2, QuantizeFacts
      <4>5. \A q \in HdProcessors : q # "target" => hdPack'[q] = hdPack[q] /\ hdBound'[q] = hdBound[q]
        BY <3>1, <3>2, <4>1, <4>2, QuantizeFacts
      <4>. QED  BY <3>2, <4>1, <4>3, <4>4, <4>5
    <3>4. hdPack'["target"] = "target"
      BY <2>1, <3>3 DEF HdPacksFit
    <3>5. hdScored' = [by |-> "target", with |-> "target", head |-> "target"]
      BY <2>1, <2>2, <3>4 DEF Scored
    <3>6. HdCountsPacks'
      <4>1. CASE hdCache[TargetHead] = "" /\ hdMode.lane = "fast"
        <5>1. hdCopies = 0 /\ hdCopies' = hdCopies + 1
          BY <3>3, <4>1 DEF HdCountsPacks
        <5>2. hdCopies' = 1
          BY <5>1
        <5>3. hdCache'[TargetHead] # "" /\ hdBound'["draft"] # "moe"
          BY <3>3, <3>4, <4>1 DEF HdCountsPacks
        <5>. QED  BY <5>2, <5>3 DEF HdCountsPacks
      <4>2. CASE hdCache[TargetHead] # ""
        BY <2>1, <3>3, <3>4, <4>2 DEF HdCountsPacks
      <4>3. CASE hdMode.lane # "fast"
        BY <2>1, <4>3 DEF HdCountsPacks
      <4>. QED  BY <4>1, <4>2, <4>3
    <3>. QED  BY <2>1, <3>3, <3>4, <3>5, <3>6
              DEF HdTypeOK, HdBeforeServing, HdPacksFit, ScoresItsOwnHead
  <2>4. CASE hdBound["target"] # "stock"
    <3>1. UNCHANGED <<hdBound, hdPack, hdCache, hdCopies>>
      BY <1>7, <2>4 DEF VerifyCall
    <3>2. hdScored' = [by |-> "target", with |-> "target", head |-> "target"]
      BY <2>1, <2>2, <2>4, <3>1 DEF Scored, HdPacksFit
    <3>. QED  BY <2>1, <3>1, <3>2
              DEF HdTypeOK, HdBeforeServing, HdPacksFit, HdCountsPacks, ScoresItsOwnHead
  <2>. QED  BY <2>3, <2>4
<1>8. CASE UNCHANGED hdVars
  BY <1>8 DEF hdVars, HdTypeOK, HdBeforeServing, HdPacksFit, HdCountsPacks, ScoresItsOwnHead
<1>. QED  BY <1>1, <1>2, <1>3, <1>4, <1>5, <1>6, <1>7, <1>8 DEF HdNext

\* Whatever the allocator left in the drafter's own head, every call scores with the
\* weights it was handed, and the fast lane packs the head both share once.
THEOREM HeadsPacked == HdSpec => [](ScoresItsOwnHead /\ PackedOnce)
<1>1. ASSUME HdInv PROVE ScoresItsOwnHead /\ PackedOnce
  <2>1. ScoresItsOwnHead /\ HdCountsPacks
    BY <1>1 DEF HdInv
  <2>2. hdCopies \in {0, 1} => hdCopies <= 1
    OBVIOUS
  <2>3. PackedOnce
    BY <2>1, <2>2, Zenon DEF HdCountsPacks, PackedOnce
  <2>. QED  BY <2>1, <2>3
<1>. QED  BY <1>1, HdInitOK, HdNextOK, PTL DEF HdSpec

-----------------------------------------------------------------------------
(* CompressedHeads: the gate of the verify head                            *)

\* No request changes its row before sampling: _batch_is_safe does not ask for that.
NoneAdjusts == \A q \in VhRequests : ~q.adjusts

VhInv ==
    /\ vhRunning \in SUBSET VhSlots
    /\ vhParams \in [VhSlots -> VhRequests]
    /\ FastIsExact

LEMMA SafeIsCovered ==
    ASSUME NoneAdjusts, VhInv, NEW batch \in SUBSET vhRunning, NEW rows, BatchIsSafe(batch, rows),
           NEW s \in batch
    PROVE  Covered(vhParams[s])
<1>1. PICK q \in VhRequests : q = vhParams[s]
  BY DEF VhInv
<1>2. ~q.grammar /\ ~q.logprobs /\ (q.greedy \/ SampledFits(q)) /\ ~q.adjusts
  BY <1>1 DEF BatchIsSafe, Looked, NoneAdjusts
<1>3. q.topk \in Nat /\ VhRerank \in Nat
  BY VerifyHeadAssumption
<1>4. ASSUME q.topk <= VhRerank \div 4 PROVE q.topk * 4 <= VhRerank
  BY <1>3, <1>4
<1>. QED  BY <1>1, <1>2, <1>4 DEF Covered, SampledFits

\* A step on the compressed head has no request whose sampler could read past the
\* reranked tokens, for any slots, requests and limits, if none changes its row first.
THEOREM GateExact == ASSUME NoneAdjusts PROVE VhSpec => []FastIsExact
<1>1. VhInit => VhInv
  BY DEF VhInit, VhInv, FastIsExact
<1>2. VhInv /\ [VhNext]_vhVars => VhInv'
  <2>. SUFFICES ASSUME VhInv, [VhNext]_vhVars PROVE VhInv'
    OBVIOUS
  <2>1. CASE Admit
    BY <2>1 DEF Admit, VhInv, FastIsExact, Covered
  <2>2. CASE FinishRequest
    BY <2>2 DEF FinishRequest, VhInv, FastIsExact, Covered
  <2>3. CASE SampleStep
    <3>1. PICK batch \in SUBSET vhRunning, w \in VhWidths :
             /\ vhFast' = BatchIsSafe(batch, w * Cardinality(batch))
             /\ vhSampled' = [fast |-> vhFast', batch |-> {vhParams[s] : s \in batch}]
      BY <2>3 DEF SampleStep
    <3>2. UNCHANGED <<vhRunning, vhParams>>
      BY <2>3 DEF SampleStep
    <3>3. ASSUME vhSampled'.fast, NEW q \in vhSampled'.batch PROVE Covered(q)
      <4>1. BatchIsSafe(batch, w * Cardinality(batch))
        BY <3>1, <3>3
      <4>2. PICK s \in batch : q = vhParams[s]
        BY <3>1, <3>3
      <4>. QED  BY <4>1, <4>2, SafeIsCovered
    <3>4. FastIsExact'
      BY <3>3 DEF FastIsExact, Covered
    <3>. QED  BY <3>2, <3>4 DEF VhInv
  <2>4. CASE UNCHANGED vhVars
    BY <2>4 DEF vhVars, VhInv, FastIsExact, Covered
  <2>. QED  BY <2>1, <2>2, <2>3, <2>4 DEF VhNext
<1>3. VhInv => FastIsExact
  BY DEF VhInv
<1>. QED  BY <1>1, <1>2, <1>3, PTL DEF VhSpec

-----------------------------------------------------------------------------
(* The parts together                                                      *)

LEMMA GraphBehaves == MCSpec => DgSpec
<1>1. MCInit => DgInit
  BY DEF MCInit
<1>2. [MCNext]_all => [DgNext]_dgVars
  BY DEF MCNext, all, dgVars
<1>. QED  BY <1>1, <1>2, PTL DEF MCSpec, DgSpec

LEMMA PaddingBehaves == MCSpec => PrSpec
<1>1. MCInit => PrInit
  BY DEF MCInit
<1>2. [MCNext]_all => [PrNext]_prVars
  BY DEF MCNext, all, prVars
<1>. QED  BY <1>1, <1>2, PTL DEF MCSpec, PrSpec

LEMMA BlocksBehave == MCSpec => BdSpecification
<1>1. MCInit => BdInit
  BY DEF MCInit
<1>2. [MCNext]_all => [BdNext]_bdVars
  BY DEF MCNext, all, bdVars
<1>. QED  BY <1>1, <1>2, PTL DEF MCSpec, BdSpecification

LEMMA HeadsBehave == MCSpec => HdSpec
<1>1. MCInit => HdInit
  BY DEF MCInit
<1>2. [MCNext]_all => [HdNext]_hdVars
  BY DEF MCNext, all, hdVars
<1>. QED  BY <1>1, <1>2, PTL DEF MCSpec, HdSpec

LEMMA GateBehaves == MCSpec => VhSpec
<1>1. MCInit => VhInit
  BY DEF MCInit
<1>2. [MCNext]_all => [VhNext]_vhVars
  BY DEF MCNext, all, vhVars
<1>. QED  BY <1>1, <1>2, PTL DEF MCSpec, VhSpec

\* A replayed pass is an eager one, for any plan of passes, ranks, batches and captured
\* sizes: each rank reads the tensors of this pass, one forward runs for it, no capture
\* compiles, and the padding's experts are nobody's.
THEOREM GraphsReplayEager == MCSpec => []GraphAsEager
BY GraphBehaves, PaddingBehaves, GraphReplays, PaddedRowsRouted, PTL DEF GraphAsEager

\* What stands for a head is as good as the head, for any vocabulary, shards, lanes,
\* drafters and requests that do not change their row before sampling.
THEOREM HeadsAreExact == ASSUME NoneAdjusts PROVE MCSpec => []HeadsExact
BY BlocksBehave, HeadsBehave, GateBehaves, BlocksDrawnAsKept, HeadsPacked, GateExact, PTL
   DEF HeadsExact
-----------------------------------------------------------------------------
(* FusedUpdate: residues, by which items are shared out                    *)

LEMMA HasLeast ==
    ASSUME NEW S, S # {}, S \subseteq Nat
    PROVE  \E x \in S : \A y \in S : x <= y
<1>. DEFINE R == OpToRel(<, Nat)
<1>1. IsWellFoundedOn(R, Nat)
  BY NatLessThanWellFounded
<1>2. PICK x \in S : \A y \in S : ~(<<y, x>> \in R)
  BY <1>1, WFMin
<1>3. ASSUME NEW y \in S PROVE ~(y < x)
  BY <1>2 DEF OpToRel
<1>. QED  BY <1>3

LEMMA Division ==
    ASSUME NEW m \in Nat \ {0}, NEW a \in Nat
    PROVE  a \div m \in Nat /\ a % m \in 0 .. m - 1 /\ a = (a \div m) * m + (a % m)
OBVIOUS

LEMMA OneQuotient ==
    ASSUME NEW m \in Nat \ {0}, NEW p \in Nat, NEW q \in Nat,
           NEW r \in 0 .. m - 1, NEW s \in 0 .. m - 1, p * m + r = q * m + s
    PROVE  p = q /\ r = s
<1>1. ASSUME NEW x \in Nat, NEW y \in Nat, NEW u \in 0 .. m - 1, NEW v \in 0 .. m - 1,
             x * m + u = y * m + v, x + 1 <= y
      PROVE  FALSE
  <2>1. PICK d \in Nat : y = (x + 1) + d
    <3>1. y - (x + 1) \in Nat /\ y = (x + 1) + (y - (x + 1))
      BY <1>1
    <3>. QED  BY <3>1
  <2>2. PICK a, b, c : a = x * m /\ b = d * m /\ c = y * m
    OBVIOUS
  <2>3. c = (a + m) + b /\ a \in Nat /\ b \in Nat
    BY <2>1, <2>2
  <2>. QED  BY <1>1, <2>2, <2>3
<1>2. ~(p + 1 <= q) /\ ~(q + 1 <= p)
  BY <1>1
<1>3. p = q
  BY <1>2
<1>4. PICK a : a = p * m
  OBVIOUS
<1>5. a \in Nat
  BY <1>4
<1>. QED  BY <1>3, <1>4, <1>5

LEMMA Residue ==
    ASSUME NEW m \in Nat \ {0}, NEW q \in Nat, NEW r \in 0 .. m - 1
    PROVE  (q * m + r) % m = r /\ (q * m + r) \div m = q /\ q * m + r \in Nat
<1>1. PICK a : a = q * m + r
  OBVIOUS
<1>2. a \in Nat
  BY <1>1
<1>3. a \div m \in Nat /\ a % m \in 0 .. m - 1 /\ a = (a \div m) * m + (a % m)
  BY <1>2, Division
<1>4. PICK x, y : x = a \div m /\ y = a % m
  OBVIOUS
<1>5. x = q /\ y = r
  BY <1>1, <1>3, <1>4, OneQuotient
<1>. QED  BY <1>1, <1>2, <1>4, <1>5

\* Numbers of one residue are m apart.
LEMMA Strided ==
    ASSUME NEW m \in Nat \ {0}, NEW a \in Nat
    PROVE  /\ a < m => a % m = a
           /\ (a + m) % m = a % m
           /\ \A c \in Nat : c % m = a % m /\ a <= c /\ c < a + m => c = a
<1>1. PICK q, r : q = a \div m /\ r = a % m
  OBVIOUS
<1>2. q \in Nat /\ r \in 0 .. m - 1 /\ a = q * m + r
  BY <1>1, Division
<1>3. ASSUME a < m PROVE a % m = a
  <2>1. 0 \in Nat /\ a \in 0 .. m - 1 /\ a = 0 * m + a
    BY <1>3
  <2>. QED  BY <2>1, Residue
<1>4. (a + m) % m = r
  <2>1. PICK p : p = q + 1
    OBVIOUS
  <2>2. p \in Nat
    BY <1>2, <2>1
  <2>3. a + m = p * m + r
    <3>1. PICK x : x = q * m
      OBVIOUS
    <3>2. x \in Nat /\ p * m = x + m
      BY <1>2, <2>1, <3>1
    <3>. QED  BY <1>2, <3>1, <3>2
  <2>. QED  BY <1>2, <2>2, <2>3, Residue
<1>5. ASSUME NEW c \in Nat, c % m = a % m, a <= c, c < a + m PROVE c = a
  <2>1. PICK p : p = c \div m
    OBVIOUS
  <2>2. p \in Nat /\ c = p * m + r
    BY ZenonT(60), <1>1, <1>5, <2>1, Division
  <2>3. PICK x, y : x = q * m /\ y = p * m
    OBVIOUS
  <2>4. x \in Nat /\ y \in Nat
    BY <1>2, <2>2, <2>3
  <2>5. x <= y /\ y < x + m
    BY <1>2, <1>5, <2>2, <2>3, <2>4
  <2>6. PICK d : d = y - x
    OBVIOUS
  <2>7. d \in 0 .. m - 1 /\ q * m + d = p * m + 0 /\ 0 \in 0 .. m - 1
    BY <2>3, <2>4, <2>5, <2>6
  <2>8. q = p
    BY <1>2, <2>2, <2>7, OneQuotient
  <2>. QED  BY <1>2, <2>2, <2>8
<1>. QED  BY <1>1, <1>3, <1>4, <1>5

\* Which of b rows of m a number is in.
LEMMA InRow ==
    ASSUME NEW m \in Nat \ {0}, NEW n \in Nat, NEW a \in 0 .. n * m - 1
    PROVE  a \div m \in 0 .. n - 1 /\ a % m \in 0 .. m - 1 /\ a = (a \div m) * m + (a % m)
<1>1. PICK q, r, k : q = a \div m /\ r = a % m /\ k = n * m
  OBVIOUS
<1>2. k \in Nat /\ a \in Nat /\ a < k
  BY <1>1
<1>3. q \in Nat /\ r \in 0 .. m - 1 /\ a = q * m + r
  BY <1>1, <1>2, Division
<1>4. ASSUME n <= q PROVE FALSE
  <2>1. PICK d \in Nat : q = n + d
    <3>1. q - n \in Nat /\ q = n + (q - n)
      BY <1>3, <1>4
    <3>. QED  BY <3>1
  <2>2. PICK x, y : x = q * m /\ y = d * m
    OBVIOUS
  <2>3. x = k + y /\ y \in Nat
    BY <1>1, <2>1, <2>2
  <2>. QED  BY <1>2, <1>3, <2>2, <2>3
<1>5. q \in 0 .. n - 1
  BY <1>3, <1>4
<1>. QED  BY <1>1, <1>3, <1>5

LEMMA RowEnds ==
    ASSUME NEW m \in Nat \ {0}, NEW n \in Nat, NEW q \in 0 .. n - 1, NEW r \in 0 .. m - 1
    PROVE  q * m + r \in 0 .. n * m - 1
<1>1. PICK d \in Nat : n = (q + 1) + d
  <2>1. n - (q + 1) \in Nat /\ n = (q + 1) + (n - (q + 1))
    OBVIOUS
  <2>. QED  BY <2>1
<1>2. PICK x, y, z : x = q * m /\ y = d * m /\ z = n * m
  OBVIOUS
<1>3. z = (x + m) + y /\ x \in Nat /\ y \in Nat
  BY <1>1, <1>2
<1>. QED  BY <1>2, <1>3

-----------------------------------------------------------------------------
(* FusedUpdate: the barrier opens when all q, k and v are published        *)

FuPcs == {"queued", "conv", "sync", "reset", "spin", "passed", "recur", "done"}
FuItems == 0 .. MostSeqs * Units - 1
FuHeads == 0 .. MostSeqs * FuH - 1
ItemsNow == 0 .. fuRun.n * Units - 1
HeadsNow == 0 .. fuRun.n * FuH - 1

FuTypeOK ==
    /\ fuRun \in [no : Nat, n : Nat, wg : Nat, pad : Nat]
    /\ fuRun.wg # 0 => fuRun.n \in FuSeqs /\ fuRun.wg = GridSize(fuRun.n)
    /\ fuPc \in [AllGroups -> [FuWarp -> FuPcs]]
    /\ fuItem \in [AllGroups -> [FuWarp -> Nat]]
    /\ DOMAIN fuOwn = AllGroups /\ \A b \in AllGroups : DOMAIN fuOwn[b] = FuWarp
    /\ DOMAIN fuQkv = FuItems
    /\ DOMAIN fuOut = FuHeads \X FuWarp
    /\ fuBar \in Nat

\* The warps of a workgroup that has started pass the barrier together.
GroupTogether(b) ==
    LET pc == fuPc[b] IN
    /\ pc[0] = "queued" => \A w \in FuWarp : pc[w] = "queued"
    /\ pc[0] \in {"conv", "sync"} => \A w \in FuWarp : pc[w] \in {"conv", "sync"}
    /\ pc[0] \in {"reset", "spin", "passed"} => \A w \in FuWarp \ {0} : pc[w] = "sync"
    /\ pc[0] \in {"recur", "done"} => \A w \in FuWarp : pc[w] \in {"recur", "done"}

\* The counter says how many workgroups have arrived until the last of them resets it.
Arrived == {b \in Groups : fuPc[b][0] = "spin"}
Gathering ==
    /\ \A b \in Groups : fuPc[b][0] \in {"queued", "conv", "sync", "spin"}
    /\ fuBar = Cardinality(Arrived) /\ fuBar < fuRun.wg
Resetting ==
    /\ \E c \in Groups : fuPc[c][0] = "reset" /\ \A b \in Groups \ {c} : fuPc[b][0] = "spin"
    /\ fuBar = fuRun.wg
Open ==
    /\ \A b \in Groups : fuPc[b][0] \in {"spin", "passed", "recur", "done"}
    /\ fuBar = 0
BarrierCounted == (fuRun.wg # 0 => Gathering \/ Resetting \/ Open) /\ (fuRun.wg = 0 => fuBar = 0)

\* The items of the first phase that are a warp's, and the heads that are a workgroup's.
Stride == fuRun.wg * FuWarps
ItemsOf(b, w) == {i \in ItemsNow : i % Stride = FirstItem(b, w)}
HeadsOf(b) == {x \in HeadsNow : x % fuRun.wg = b}

Convolved(b, w) ==
    /\ fuPc[b][w] = "conv" =>
          /\ fuItem[b][w] % Stride = FirstItem(b, w)
          /\ \A i \in ItemsOf(b, w) : i < fuItem[b][w] => i \in fuOwn[b][w]
    /\ fuPc[b][w] \notin {"queued", "conv"} => \A i \in ItemsOf(b, w) : fuQkv[i] = fuRun.no

Updated(b, w) ==
    /\ fuPc[b][w] = "recur" =>
          /\ fuItem[b][w] % fuRun.wg = b
          /\ \A x \in HeadsOf(b) : /\ x < fuItem[b][w] => fuOut[<<x, w>>] = "own"
                                   /\ x >= fuItem[b][w] => fuOut[<<x, w>>] = "none"
    /\ fuPc[b][w] = "done" =>
          /\ \A x \in HeadsOf(b) : fuOut[<<x, w>>] = "own"
          /\ \A r \in 0 .. fuRun.pad - 1 : r % fuRun.wg = b => <<r, w>> \in fuZero
    /\ fuPc[b][w] \notin {"recur", "done"} => \A x \in HeadsOf(b) : fuOut[<<x, w>>] = "none"

FuInv ==
    /\ FuTypeOK /\ BarrierCounted
    /\ fuRun.wg # 0 =>
          /\ fuZero \subseteq (0 .. fuRun.pad - 1) \X FuWarp
          /\ \A b \in Groups : GroupTogether(b)
          /\ \A b \in Groups, w \in FuWarp : Convolved(b, w) /\ Updated(b, w)

LEMMA GridFacts ==
    ASSUME NEW n \in FuSeqs
    PROVE  /\ n \in Nat \ {0} /\ GridSize(n) \in Nat \ {0} /\ GridSize(n) <= FuResident
           /\ MostSeqs \in Nat \ {0}
           /\ 0 .. GridSize(n) - 1 \subseteq AllGroups
           /\ 0 .. n * FuH - 1 \subseteq FuHeads
           /\ 0 .. n * Units - 1 \subseteq FuItems
<1>1. n \in Nat \ {0} /\ FuH \in Nat \ {0} /\ FuHg \in Nat \ {0} /\ FuResident \in Nat
      /\ FuMaxWG \in Nat /\ 1 <= FuMaxWG /\ FuMaxWG <= FuResident
  BY FusedUpdateAssumption
<1>2. MostSeqs \in FuSeqs /\ n <= MostSeqs
  <2>1. \E k \in FuSeqs : \A m \in FuSeqs : m <= k
    BY FusedUpdateAssumption
  <2>. QED  BY <2>1 DEF MostSeqs
<1>3. MostSeqs \in Nat \ {0}
  BY <1>2, FusedUpdateAssumption
<1>4. PICK d \in Nat : MostSeqs = n + d
  <2>1. MostSeqs - n \in Nat /\ MostSeqs = n + (MostSeqs - n)
    BY <1>1, <1>2, <1>3
  <2>. QED  BY <2>1
<1>5. ASSUME NEW u \in Nat \ {0}
      PROVE  n * u \in Nat /\ n * u >= 1 /\ n * u <= MostSeqs * u
  <2>1. PICK c \in Nat : n = c + 1
    <3>1. n - 1 \in Nat /\ n = (n - 1) + 1
      BY <1>1
    <3>. QED  BY <3>1
  <2>2. PICK a, b, e, f : a = n * u /\ b = d * u /\ e = MostSeqs * u /\ f = c * u
    OBVIOUS
  <2>3. e = a + b /\ a = f + u /\ a \in Nat /\ b \in Nat /\ f \in Nat
    BY <1>1, <1>4, <2>1, <2>2
  <2>. QED  BY <2>2, <2>3
<1>6. Units \in Nat \ {0}
  BY <1>1 DEF Units
<1>7. PICK a, b : a = n * FuH /\ b = MostSeqs * FuH
  OBVIOUS
<1>8. a \in Nat /\ a >= 1 /\ a <= b /\ b \in Nat
  BY <1>1, <1>3, <1>5, <1>7
<1>9. GridSize(n) \in Nat /\ GridSize(n) >= 1 /\ GridSize(n) <= a /\ GridSize(n) <= FuResident
  BY <1>1, <1>7, <1>8 DEF GridSize, Larger, Smaller
<1>10. 0 .. GridSize(n) - 1 \subseteq AllGroups /\ 0 .. n * FuH - 1 \subseteq FuHeads
  BY <1>7, <1>8, <1>9 DEF AllGroups, FuHeads
<1>11. 0 .. n * Units - 1 \subseteq FuItems
  <2>1. PICK x, y : x = n * Units /\ y = MostSeqs * Units
    OBVIOUS
  <2>2. x \in Nat /\ x <= y /\ y \in Nat
    BY <1>3, <1>5, <1>6, <2>1
  <2>. QED  BY <2>1, <2>2 DEF FuItems
<1>. QED  BY <1>1, <1>3, <1>9, <1>10, <1>11

LEMMA RunFacts ==
    ASSUME FuTypeOK, fuRun.wg # 0
    PROVE  /\ fuRun.wg \in Nat \ {0} /\ fuRun.n \in Nat \ {0} /\ FuWarps \in Nat \ {0}
           /\ Stride \in Nat \ {0} /\ FuH \in Nat \ {0} /\ Units \in Nat \ {0}
           /\ fuRun.pad \in Nat /\ fuRun.no \in Nat /\ fuRun.wg <= FuResident
           /\ Groups \subseteq AllGroups /\ Groups = 0 .. fuRun.wg - 1 /\ 0 \in FuWarp
           /\ HeadsNow \subseteq FuHeads /\ ItemsNow \subseteq FuItems
           /\ ItemsNow \subseteq Nat /\ HeadsNow \subseteq Nat
<1>1. fuRun.n \in FuSeqs /\ fuRun.wg = GridSize(fuRun.n) /\ fuRun.pad \in Nat /\ fuRun.no \in Nat
  BY DEF FuTypeOK
<1>2. fuRun.wg \in Nat \ {0} /\ fuRun.n \in Nat \ {0} /\ FuWarps \in Nat \ {0} /\ FuH \in Nat \ {0}
      /\ FuHg \in Nat \ {0}
  BY <1>1, GridFacts, FusedUpdateAssumption
<1>3. Stride \in Nat \ {0}
  <2>1. \A x, y \in Nat \ {0} : x * y \in Nat \ {0}
    OBVIOUS
  <2>. QED  BY <1>2, <2>1 DEF Stride
<1>4. Units \in Nat \ {0} /\ 0 \in FuWarp
  BY <1>2 DEF Units, FuWarp
<1>. QED  BY <1>1, <1>2, <1>3, <1>4, GridFacts DEF Groups, HeadsNow, ItemsNow

\* A warp's first item is the least of its residue, and every residue is a warp's.
LEMMA WarpsShare ==
    ASSUME FuTypeOK, fuRun.wg # 0
    PROVE  /\ \A b \in Groups, w \in FuWarp : FirstItem(b, w) \in 0 .. Stride - 1
           /\ \A i \in ItemsNow : \E b \in Groups, w \in FuWarp : i \in ItemsOf(b, w)
<1>1. ASSUME NEW b \in Groups, NEW w \in FuWarp PROVE FirstItem(b, w) \in 0 .. Stride - 1
  <2>1. b * FuWarps + w \in 0 .. fuRun.wg * FuWarps - 1
    BY RunFacts, RowEnds DEF FuWarp
  <2>. QED  BY <2>1 DEF FirstItem, Stride
<1>2. ASSUME NEW i \in ItemsNow PROVE \E b \in Groups, w \in FuWarp : i \in ItemsOf(b, w)
  <2>1. PICK r : r = i % Stride
    OBVIOUS
  <2>2. r \in 0 .. fuRun.wg * FuWarps - 1
    BY <2>1, RunFacts, Division DEF Stride
  <2>3. PICK b, w : b = r \div FuWarps /\ w = r % FuWarps
    OBVIOUS
  <2>4. b \in 0 .. fuRun.wg - 1 /\ w \in 0 .. FuWarps - 1 /\ r = b * FuWarps + w
    BY <2>2, <2>3, RunFacts, InRow
  <2>. QED  BY <2>1, <2>4, RunFacts DEF FuWarp, ItemsOf, FirstItem
<1>. QED  BY <1>1, <1>2

LEMMA HeadsShared ==
    ASSUME FuTypeOK, fuRun.wg # 0
    PROVE  \A x \in Nat : x % fuRun.wg \in Groups
<1>. SUFFICES ASSUME NEW x \in Nat PROVE x % fuRun.wg \in Groups
  OBVIOUS
<1>1. x % fuRun.wg \in 0 .. fuRun.wg - 1
  BY RunFacts, Division
<1>. QED  BY <1>1, RunFacts

\* A head reads the q and k of its sequence and its group, and its own v.
LEMMA InputsFit ==
    ASSUME FuTypeOK, fuRun.wg # 0, NEW x \in HeadsNow
    PROVE  Inputs(x) \subseteq ItemsNow
<1>1. PICK n, hv, g : n = x \div FuH /\ hv = x % FuH /\ g = FuH \div FuHg
  OBVIOUS
<1>2. n \in 0 .. fuRun.n - 1 /\ hv \in 0 .. FuH - 1
  <2>1. x \in 0 .. fuRun.n * FuH - 1
    BY DEF HeadsNow
  <2>. QED  BY <1>1, <2>1, RunFacts, InRow
<1>3. FuHg \in Nat \ {0} /\ FuH \in Nat \ {0} /\ g \in Nat /\ FuH = g * FuHg
  <2>1. FuHg \in Nat \ {0} /\ FuH \in Nat \ {0} /\ FuH % FuHg = 0
    BY FusedUpdateAssumption
  <2>2. g \in Nat /\ FuH = g * FuHg + 0
    BY <1>1, <2>1, Division
  <2>3. g * FuHg \in Nat
    BY <2>1, <2>2
  <2>. QED  BY <2>1, <2>2, <2>3
<1>4. g \in Nat \ {0}
  BY <1>3
<1>5. hv \in 0 .. FuHg * g - 1
  BY <1>2, <1>3
<1>6. PICK hk : hk = hv \div g
  OBVIOUS
<1>7. hk \in 0 .. FuHg - 1
  BY <1>3, <1>4, <1>5, <1>6, InRow
<1>8. \A r \in 0 .. Units - 1 : n * Units + r \in ItemsNow
  BY <1>2, RunFacts, RowEnds DEF ItemsNow
<1>9. hk \in 0 .. Units - 1 /\ FuHg + hk \in 0 .. Units - 1 /\ 2 * FuHg + hv \in 0 .. Units - 1
  BY <1>2, <1>3, <1>7 DEF Units
<1>10. Inputs(x) = {n * Units + hk, (n * Units + FuHg) + hk, (n * Units + 2 * FuHg) + hv}
  BY <1>1, <1>6 DEF Inputs
<1>11. PICK k : k = n * Units
  OBVIOUS
<1>12. k \in Nat /\ (k + FuHg) + hk = k + (FuHg + hk) /\ (k + 2 * FuHg) + hv = k + (2 * FuHg + hv)
  <2>1. n \in Nat /\ Units \in Nat
    BY <1>2, RunFacts
  <2>2. k \in Nat
    BY <1>11, <2>1
  <2>3. hk \in Int /\ hv \in Int /\ FuHg \in Int
    BY <1>2, <1>3, <1>7, RunFacts
  <2>. QED  BY <2>2, <2>3
<1>13. k + hk \in ItemsNow /\ k + (FuHg + hk) \in ItemsNow /\ k + (2 * FuHg + hv) \in ItemsNow
  BY <1>8, <1>9, <1>11
<1>. QED  BY <1>10, <1>11, <1>12, <1>13

\* Behind the barrier every item of the first phase is this launch's.
LEMMA OpenPublished ==
    ASSUME FuInv, fuRun.wg # 0, NEW b \in Groups, fuPc[b][0] \in {"passed", "recur", "done"}
    PROVE  Open /\ \A i \in ItemsNow : fuQkv[i] = fuRun.no
<1>1. Open
  BY DEF FuInv, BarrierCounted, Gathering, Resetting
<1>2. ASSUME NEW c \in Groups, NEW w \in FuWarp PROVE fuPc[c][w] \notin {"queued", "conv"}
  <2>1. fuPc[c][0] \in {"spin", "passed", "recur", "done"} /\ GroupTogether(c)
    BY <1>1 DEF Open, FuInv
  <2>2. CASE w = 0
    BY <2>1, <2>2
  <2>3. CASE w # 0
    BY <2>1, <2>3 DEF GroupTogether
  <2>. QED  BY <2>2, <2>3
<1>3. ASSUME NEW i \in ItemsNow PROVE fuQkv[i] = fuRun.no
  <2>1. PICK c \in Groups, w \in FuWarp : i \in ItemsOf(c, w)
    BY WarpsShare DEF FuInv
  <2>2. Convolved(c, w)
    BY DEF FuInv
  <2>. QED  BY <1>2, <2>1, <2>2 DEF Convolved
<1>. QED  BY <1>1, <1>3

-----------------------------------------------------------------------------
(* FusedUpdate: the steps                                                  *)

\* What a step leaves to a warp whose own place it does not change.
LEMMA WarpKept ==
    ASSUME FuTypeOK, fuRun.wg # 0, fuRun' = fuRun, NEW c \in Groups, NEW v \in FuWarp,
           Convolved(c, v), Updated(c, v),
           fuPc'[c][v] = fuPc[c][v], fuItem'[c][v] = fuItem[c][v], fuOwn'[c][v] = fuOwn[c][v],
           \A i \in ItemsNow : fuQkv[i] = fuRun.no => fuQkv'[i] = fuRun.no,
           \A x \in HeadsOf(c) : fuOut'[<<x, v>>] = fuOut[<<x, v>>],
           fuZero \subseteq fuZero'
    PROVE  Convolved(c, v)' /\ Updated(c, v)'
<1>1. Convolved(c, v)'
  BY DEF Convolved, ItemsOf, ItemsNow, Stride
<1>2. Updated(c, v)'
  BY DEF Updated, HeadsOf, HeadsNow
<1>. QED  BY <1>1, <1>2

\* A step that moves one workgroup's leader on one side of the barrier.
LEMMA BarrierCountedKept ==
    ASSUME FuTypeOK, fuRun.wg # 0, fuRun' = fuRun, fuBar' = fuBar, BarrierCounted, NEW b \in Groups,
           \A c \in Groups \ {b} : fuPc'[c][0] = fuPc[c][0],
           NEW S \in {{"queued", "conv", "sync"}, {"passed", "recur", "done"}, {fuPc[b][0]}},
           fuPc[b][0] \in S, fuPc'[b][0] \in S
    PROVE  BarrierCounted'
<1>1. Groups' = Groups
  BY DEF Groups
<1>2. \A c \in Groups : fuPc'[c][0] = "spin" <=> fuPc[c][0] = "spin"
  OBVIOUS
<1>3. Arrived' = Arrived
  BY <1>1, <1>2 DEF Arrived
<1>4. Gathering => Gathering'
  BY <1>1, <1>3 DEF Gathering
<1>5. Resetting => Resetting'
  BY <1>1 DEF Resetting
<1>6. Open => Open'
  BY <1>1 DEF Open
<1>. QED  BY <1>4, <1>5, <1>6 DEF BarrierCounted

LEMMA PcChange ==
    ASSUME FuTypeOK, fuRun.wg # 0, NEW b \in Groups, NEW w \in FuWarp, NEW pc \in FuPcs, Go(b, w, pc)
    PROVE  /\ fuPc' \in [AllGroups -> [FuWarp -> FuPcs]]
           /\ fuPc'[b][w] = pc
           /\ \A c \in Groups, v \in FuWarp : c # b \/ v # w => fuPc'[c][v] = fuPc[c][v]
BY RunFacts DEF Go, FuTypeOK

LEMMA StartKeeps ==
    ASSUME FuInv, NEW b \in AllGroups, StartGroup(b) PROVE FuInv'
<1>1. FuTypeOK /\ b \in Groups /\ fuPc[b][0] = "queued" /\ fuRun' = fuRun
  BY DEF StartGroup, Queued, FuInv
<1>2. fuRun.wg # 0
  BY <1>1 DEF Groups, FuTypeOK
<1>3. Groups \subseteq AllGroups /\ 0 \in FuWarp /\ FuWarps \in Nat \ {0} /\ Groups' = Groups
  BY <1>1, <1>2, RunFacts DEF Groups
<1>4. /\ fuPc' = [fuPc EXCEPT ![b] = [w \in FuWarp |-> "conv"]]
      /\ fuItem' = [fuItem EXCEPT ![b] = [w \in FuWarp |-> FirstItem(b, w)]]
      /\ UNCHANGED <<fuOwn, fuQkv, fuBar, fuOut, fuZero>>
  BY DEF StartGroup
<1>5. \A w \in FuWarp : FirstItem(b, w) \in 0 .. Stride - 1 /\ Stride \in Nat \ {0}
  BY <1>1, <1>2, WarpsShare, RunFacts
<1>6. FuTypeOK'
  <2>1. fuPc' \in [AllGroups -> [FuWarp -> FuPcs]]
    BY <1>1, <1>3, <1>4 DEF FuTypeOK, FuPcs
  <2>2. [w \in FuWarp |-> FirstItem(b, w)] \in [FuWarp -> Nat]
    BY <1>5
  <2>3. fuItem' \in [AllGroups -> [FuWarp -> Nat]]
    BY <1>1, <1>3, <1>4, <2>2 DEF FuTypeOK
  <2>. QED  BY <1>1, <1>4, <2>1, <2>3 DEF FuTypeOK
<1>7. \A w \in FuWarp : fuPc'[b][w] = "conv" /\ fuItem'[b][w] = FirstItem(b, w)
  BY <1>1, <1>3, <1>4 DEF FuTypeOK
<1>8. \A c \in Groups \ {b} : fuPc'[c] = fuPc[c] /\ fuItem'[c] = fuItem[c]
  BY <1>1, <1>3, <1>4 DEF FuTypeOK
<1>9. BarrierCounted'
  BY <1>1, <1>2, <1>3, <1>4, <1>7, <1>8, BarrierCountedKept DEF FuInv
<1>10. \A c \in Groups : GroupTogether(c)'
  BY <1>2, <1>3, <1>7, <1>8 DEF GroupTogether, FuInv
<1>11. ASSUME NEW c \in Groups, NEW v \in FuWarp PROVE Convolved(c, v)' /\ Updated(c, v)'
  <2>1. Convolved(c, v) /\ Updated(c, v) /\ GroupTogether(c)
    BY <1>2 DEF FuInv
  <2>2. CASE c # b
    BY <1>1, <1>2, <1>4, <1>8, <2>1, <2>2, WarpKept
  <2>3. CASE c = b
    <3>1. fuPc[c][v] = "queued"
      BY <1>1, <2>1, <2>3 DEF GroupTogether
    <3>2. Updated(c, v)'
      BY <1>1, <1>4, <1>7, <2>1, <2>3, <3>1 DEF Updated, HeadsOf, HeadsNow
    <3>3. FirstItem(c, v) % Stride = FirstItem(c, v)
      BY <1>5, <2>3, Strided
    <3>4. \A i \in ItemsOf(c, v) : ~(i < FirstItem(c, v))
      <4>. SUFFICES ASSUME NEW i \in ItemsOf(c, v), i < FirstItem(c, v) PROVE FALSE
        OBVIOUS
      <4>1. i \in Nat /\ i < Stride /\ i % Stride = FirstItem(c, v)
        BY <1>1, <1>2, <1>5, <2>3, RunFacts DEF ItemsOf
      <4>2. i % Stride = i
        BY <1>5, <4>1, Strided
      <4>. QED  BY <1>5, <2>3, <4>1, <4>2
    <3>5. Stride' = Stride /\ ItemsOf(c, v)' = ItemsOf(c, v)
      BY <1>1 DEF Stride, ItemsOf, ItemsNow
    <3>6. Convolved(c, v)'
      BY <1>7, <2>3, <3>3, <3>4, <3>5 DEF Convolved
    <3>. QED  BY <3>2, <3>6
  <2>. QED  BY <2>2, <2>3
<1>. QED  BY <1>1, <1>2, <1>3, <1>4, <1>6, <1>9, <1>10, <1>11 DEF FuInv

LEMMA ConvolveKeeps ==
    ASSUME FuInv, NEW b \in AllGroups, NEW w \in FuWarp, Convolve(b, w) PROVE FuInv'
<1>1. /\ FuTypeOK /\ b \in Groups /\ fuPc[b][w] = "conv" /\ fuRun' = fuRun
      /\ fuOwn' = [fuOwn EXCEPT ![b][w] = @ \cup {fuItem[b][w]}]
      /\ fuItem' = [fuItem EXCEPT ![b][w] = @ + fuRun.wg * FuWarps]
      /\ UNCHANGED <<fuPc, fuQkv, fuBar, fuOut, fuZero>>
  BY DEF Convolve, At, FuInv
<1>2. fuRun.wg # 0
  BY <1>1 DEF Groups, FuTypeOK
<1>3. /\ Groups \subseteq AllGroups /\ 0 \in FuWarp /\ Stride \in Nat \ {0} /\ Groups' = Groups
      /\ ItemsNow \subseteq Nat
  BY <1>1, <1>2, RunFacts DEF Groups
<1>4. PICK o : o = fuItem[b][w]
  OBVIOUS
<1>5. o \in Nat /\ fuItem'[b][w] = o + Stride /\ fuOwn'[b][w] = fuOwn[b][w] \cup {o}
  BY <1>1, <1>3, <1>4 DEF FuTypeOK, Stride
<1>6. \A c \in Groups, v \in FuWarp : c # b \/ v # w =>
          fuItem'[c][v] = fuItem[c][v] /\ fuOwn'[c][v] = fuOwn[c][v]
  BY <1>1, <1>3 DEF FuTypeOK
<1>7. FuTypeOK'
  <2>1. o + fuRun.wg * FuWarps \in Nat
    BY <1>3, <1>5 DEF Stride
  <2>2. fuItem' \in [AllGroups -> [FuWarp -> Nat]]
    BY <1>1, <1>3, <1>4, <2>1 DEF FuTypeOK
  <2>3. DOMAIN fuOwn' = AllGroups /\ \A c \in AllGroups : DOMAIN fuOwn'[c] = FuWarp
    BY <1>1, <1>3 DEF FuTypeOK
  <2>. QED  BY <1>1, <2>2, <2>3 DEF FuTypeOK
<1>8. BarrierCounted'
  BY <1>1, <1>2, <1>3, BarrierCountedKept DEF FuInv
<1>9. \A c \in Groups : GroupTogether(c)'
  BY <1>1, <1>2, <1>3 DEF GroupTogether, FuInv
<1>10. ASSUME NEW c \in Groups, NEW v \in FuWarp PROVE Convolved(c, v)' /\ Updated(c, v)'
  <2>1. Convolved(c, v) /\ Updated(c, v)
    BY <1>2 DEF FuInv
  <2>2. CASE c # b \/ v # w
    BY <1>1, <1>2, <1>6, <2>1, <2>2, WarpKept
  <2>3. CASE c = b /\ v = w
    <3>1. Stride' = Stride /\ ItemsOf(c, v)' = ItemsOf(c, v)
      BY <1>1 DEF Stride, ItemsOf, ItemsNow
    <3>2. o % Stride = FirstItem(c, v) /\ \A i \in ItemsOf(c, v) : i < o => i \in fuOwn[c][v]
      BY <1>1, <1>4, <2>1, <2>3 DEF Convolved
    <3>3. (o + Stride) % Stride = FirstItem(c, v)
      BY <1>3, <1>5, <3>2, Strided
    <3>4. ASSUME NEW i \in ItemsOf(c, v), i < o + Stride PROVE i \in fuOwn'[c][v]
      <4>1. i \in Nat /\ i % Stride = o % Stride
        BY <1>3, <3>2 DEF ItemsOf
      <4>2. i < o \/ i = o
        BY <1>3, <1>5, <3>4, <4>1, Strided
      <4>. QED  BY <1>5, <2>3, <3>2, <4>2
    <3>5. Convolved(c, v)'
      BY <1>1, <1>5, <2>3, <3>1, <3>3, <3>4 DEF Convolved
    <3>6. Updated(c, v)'
      BY <1>1, <2>1, <2>3 DEF Updated, HeadsOf, HeadsNow
    <3>. QED  BY <3>5, <3>6
  <2>. QED  BY <2>2, <2>3
<1>. QED  BY <1>1, <1>2, <1>3, <1>7, <1>8, <1>9, <1>10 DEF FuInv

LEMMA FenceKeeps ==
    ASSUME FuInv, NEW b \in AllGroups, NEW w \in FuWarp, Fence(b, w) PROVE FuInv'
<1>1. /\ FuTypeOK /\ b \in Groups /\ fuPc[b][w] = "conv" /\ fuRun' = fuRun
      /\ fuItem[b][w] >= fuRun.n * Units
      /\ fuQkv' = Fenced(b, w) /\ fuOwn' = [fuOwn EXCEPT ![b][w] = {}] /\ Go(b, w, "sync")
      /\ UNCHANGED <<fuItem, fuBar, fuOut, fuZero>>
  BY DEF Fence, At, FuInv
<1>2. fuRun.wg # 0
  BY <1>1 DEF Groups, FuTypeOK
<1>3. /\ Groups \subseteq AllGroups /\ 0 \in FuWarp /\ Groups' = Groups
      /\ ItemsNow \subseteq FuItems /\ ItemsNow \subseteq Nat
  BY <1>1, <1>2, RunFacts DEF Groups
<1>4. /\ fuPc' \in [AllGroups -> [FuWarp -> FuPcs]] /\ fuPc'[b][w] = "sync"
      /\ \A c \in Groups, v \in FuWarp : c # b \/ v # w => fuPc'[c][v] = fuPc[c][v]
  BY <1>1, <1>2, PcChange DEF FuPcs
<1>5. \A i \in ItemsNow : /\ i \in fuOwn[b][w] => fuQkv'[i] = fuRun.no
                          /\ fuQkv[i] = fuRun.no => fuQkv'[i] = fuRun.no
  BY <1>1, <1>3 DEF Fenced, FuTypeOK
<1>6. \A c \in Groups, v \in FuWarp : c # b \/ v # w => fuOwn'[c][v] = fuOwn[c][v]
  BY <1>1, <1>3 DEF FuTypeOK
<1>7. FuTypeOK'
  <2>1. DOMAIN fuQkv' = FuItems
    BY <1>1 DEF Fenced, FuTypeOK
  <2>2. DOMAIN fuOwn' = AllGroups /\ \A c \in AllGroups : DOMAIN fuOwn'[c] = FuWarp
    BY <1>1, <1>3 DEF FuTypeOK
  <2>. QED  BY <1>1, <1>4, <2>1, <2>2 DEF FuTypeOK
<1>8. GroupTogether(b) /\ \A v \in FuWarp : fuPc[b][v] \in {"conv", "sync"}
  <2>1. GroupTogether(b) /\ fuPc[b][0] \in FuPcs
    BY <1>1, <1>2, <1>3 DEF FuInv, FuTypeOK
  <2>. QED  BY <1>1, <1>3, <2>1 DEF GroupTogether, FuPcs
<1>9. BarrierCounted'
  <2>1. fuPc[b][0] \in {"queued", "conv", "sync"} /\ fuPc'[b][0] \in {"queued", "conv", "sync"}
    BY <1>1, <1>3, <1>4, <1>8
  <2>2. \A c \in Groups \ {b} : fuPc'[c][0] = fuPc[c][0]
    BY <1>3, <1>4
  <2>. QED  BY <1>1, <1>2, <2>1, <2>2, BarrierCountedKept DEF FuInv
<1>10. ASSUME NEW c \in Groups PROVE GroupTogether(c)'
  <2>1. CASE c = b
    <3>1. \A v \in FuWarp : fuPc'[c][v] \in {"conv", "sync"}
      BY <1>1, <1>4, <1>8, <2>1
    <3>. QED  BY <1>3, <3>1 DEF GroupTogether
  <2>2. CASE c # b
    <3>1. GroupTogether(c) /\ \A v \in FuWarp : fuPc'[c][v] = fuPc[c][v]
      BY <1>2, <1>4, <2>2 DEF FuInv
    <3>. QED  BY <1>3, <3>1 DEF GroupTogether
  <2>. QED  BY <2>1, <2>2
<1>11. ASSUME NEW c \in Groups, NEW v \in FuWarp PROVE Convolved(c, v)' /\ Updated(c, v)'
  <2>1. Convolved(c, v) /\ Updated(c, v)
    BY <1>2 DEF FuInv
  <2>2. CASE c # b \/ v # w
    BY <1>1, <1>2, <1>4, <1>5, <1>6, <2>1, <2>2, WarpKept
  <2>3. CASE c = b /\ v = w
    <3>1. Stride' = Stride /\ ItemsOf(c, v)' = ItemsOf(c, v)
      BY <1>1 DEF Stride, ItemsOf, ItemsNow
    <3>2. \A i \in ItemsOf(c, v) : i < fuItem[c][v]
      <4>1. fuItem[c][v] \in Nat /\ fuRun.n * Units \in Nat
        <5>1. \A x, y \in Nat : x * y \in Nat
          OBVIOUS
        <5>2. fuRun.n * Units \in Nat
          BY <1>1, <1>2, <5>1, RunFacts
        <5>. QED  BY <1>1, <1>3, <5>2 DEF FuTypeOK
      <4>2. \A i \in ItemsOf(c, v) : i \in 0 .. fuRun.n * Units - 1
        BY DEF ItemsOf, ItemsNow
      <4>3. PICK z : z = fuRun.n * Units
        OBVIOUS
      <4>. QED  BY <1>1, <2>3, <4>1, <4>2, <4>3
    <3>3. \A i \in ItemsOf(c, v) : fuQkv'[i] = fuRun.no
      BY <1>1, <1>5, <2>1, <2>3, <3>2 DEF Convolved, ItemsOf
    <3>4. Convolved(c, v)'
      BY <1>1, <1>4, <2>3, <3>1, <3>3 DEF Convolved
    <3>5. Updated(c, v)'
      BY <1>1, <1>4, <2>1, <2>3 DEF Updated, HeadsOf, HeadsNow
    <3>. QED  BY <3>4, <3>5
  <2>. QED  BY <2>2, <2>3
<1>. QED  BY <1>1, <1>2, <1>3, <1>7, <1>9, <1>10, <1>11 DEF FuInv

Gate == {"sync", "reset", "spin", "passed"}

\* A workgroup's first warp moves on between the two __syncthreads.
LEMMA LeaderMoves ==
    ASSUME FuInv, fuRun.wg # 0, NEW b \in Groups, fuPc[b][0] \in Gate, NEW pc \in Gate,
           Go(b, 0, pc), UNCHANGED <<fuRun, fuItem, fuOwn, fuQkv, fuOut, fuZero>>,
           fuBar' \in Nat, BarrierCounted', \A w \in FuWarp \ {0} : fuPc[b][w] = "sync"
    PROVE  FuInv'
<1>1. FuTypeOK /\ Groups' = Groups /\ 0 \in FuWarp /\ Groups \subseteq AllGroups
  BY RunFacts DEF FuInv, Groups
<1>2. /\ fuPc' \in [AllGroups -> [FuWarp -> FuPcs]] /\ fuPc'[b][0] = pc
      /\ \A c \in Groups, v \in FuWarp : c # b \/ v # 0 => fuPc'[c][v] = fuPc[c][v]
  <2>1. pc \in FuPcs
    BY DEF Gate, FuPcs
  <2>. QED  BY <1>1, <2>1, PcChange
<1>3. FuTypeOK'
  BY <1>1, <1>2 DEF FuTypeOK
<1>4. ASSUME NEW c \in Groups PROVE GroupTogether(c)'
  <2>1. CASE c = b
    <3>1. \A w \in FuWarp \ {0} : fuPc'[c][w] = "sync"
      BY <1>2, <2>1
    <3>. QED  BY <1>1, <1>2, <2>1, <3>1 DEF GroupTogether, Gate
  <2>2. CASE c # b
    <3>1. GroupTogether(c) /\ \A v \in FuWarp : fuPc'[c][v] = fuPc[c][v]
      BY <1>2, <2>2 DEF FuInv
    <3>. QED  BY <1>1, <3>1 DEF GroupTogether
  <2>. QED  BY <2>1, <2>2
<1>5. ASSUME NEW c \in Groups, NEW v \in FuWarp PROVE Convolved(c, v)' /\ Updated(c, v)'
  <2>1. Convolved(c, v) /\ Updated(c, v)
    BY DEF FuInv
  <2>2. CASE c # b \/ v # 0
    BY <1>1, <1>2, <2>1, <2>2, WarpKept
  <2>3. CASE c = b /\ v = 0
    <3>1. Convolved(c, v)'
      BY <1>2, <2>1, <2>3 DEF Convolved, Gate, ItemsOf, ItemsNow, Stride
    <3>2. Updated(c, v)'
      BY <1>2, <2>1, <2>3 DEF Updated, Gate, HeadsOf, HeadsNow
    <3>. QED  BY <3>1, <3>2
  <2>. QED  BY <2>2, <2>3
<1>. QED  BY <1>1, <1>3, <1>4, <1>5 DEF FuInv

LEMMA GroupsFinite ==
    ASSUME FuTypeOK, fuRun.wg # 0
    PROVE  IsFiniteSet(Groups) /\ Cardinality(Groups) = fuRun.wg
<1>1. fuRun.wg \in Nat \ {0} /\ Groups = 0 .. fuRun.wg - 1
  BY RunFacts
<1>2. PICK n : n = fuRun.wg - 1
  OBVIOUS
<1>3. n \in Int /\ 0 \in Int /\ 0 <= n
  BY <1>1, <1>2
<1>4. IsFiniteSet(0 .. n) /\ Cardinality(0 .. n) = IF 0 > n THEN 0 ELSE (n - 0) + 1
  BY <1>3, FS_Interval
<1>. QED  BY <1>1, <1>2, <1>3, <1>4

LEMMA ArriveFuKeeps ==
    ASSUME FuInv, NEW b \in AllGroups, Arrive(b) PROVE FuInv'
<1>1. /\ FuTypeOK /\ b \in Groups /\ fuPc[b][0] = "sync" /\ GroupHasFenced(b)
      /\ fuBar' = fuBar + 1 /\ Go(b, 0, IF LastArrival(fuBar) THEN "reset" ELSE "spin")
      /\ UNCHANGED <<fuRun, fuItem, fuOwn, fuQkv, fuOut, fuZero>>
  BY DEF Arrive, At, FuInv
<1>2. fuRun.wg # 0
  BY <1>1 DEF Groups, FuTypeOK
<1>3. Groups \subseteq AllGroups /\ 0 \in FuWarp /\ Groups' = Groups /\ fuRun.wg \in Nat \ {0}
  BY <1>1, <1>2, RunFacts DEF Groups
<1>4. PICK pc : pc = IF LastArrival(fuBar) THEN "reset" ELSE "spin"
  OBVIOUS
<1>5. pc \in Gate /\ pc \in FuPcs /\ Go(b, 0, pc) /\ fuPc[b][0] \in Gate
  BY <1>1, <1>4 DEF Gate, FuPcs
<1>6. \A w \in FuWarp \ {0} : fuPc[b][w] = "sync"
  BY <1>1, <1>2 DEF FuInv, GroupTogether, GroupHasFenced
<1>7. /\ fuPc'[b][0] = pc
      /\ \A c \in Groups \ {b} : fuPc'[c][0] = fuPc[c][0]
  BY <1>1, <1>2, <1>3, <1>5, PcChange
<1>8. Gathering
  BY <1>1, <1>2 DEF FuInv, BarrierCounted, Resetting, Open
<1>9. fuBar \in Nat /\ fuBar < fuRun.wg /\ fuBar = Cardinality(Arrived)
      /\ b \notin Arrived /\ Arrived \in SUBSET Groups
  BY <1>1, <1>8 DEF Gathering, Arrived, FuTypeOK
<1>10. IsFiniteSet(Groups) /\ Cardinality(Groups) = fuRun.wg /\ IsFiniteSet(Arrived)
  BY <1>1, <1>2, <1>9, GroupsFinite, FS_Subset
<1>11. IsFiniteSet(Arrived \cup {b}) /\ Cardinality(Arrived \cup {b}) = fuBar + 1
  BY <1>9, <1>10, FS_AddElement
<1>12. BarrierCounted'
  <2>1. CASE fuBar = fuRun.wg - 1
    <3>1. Cardinality(Arrived \cup {b}) = Cardinality(Groups)
      BY <1>3, <1>9, <1>10, <1>11, <2>1
    <3>2. Arrived \cup {b} \in SUBSET Groups
      BY <1>1, <1>9
    <3>3. Arrived \cup {b} = Groups
      BY <1>10, <3>1, <3>2, FS_Subset
    <3>4. \A c \in Groups \ {b} : fuPc[c][0] = "spin"
      BY <3>3 DEF Arrived
    <3>5. fuPc'[b][0] = "reset"
      BY <1>4, <1>7, <2>1 DEF LastArrival
    <3>6. fuBar' = fuRun'.wg
      BY <1>1, <1>3, <1>9, <2>1
    <3>7. Resetting'
      BY <1>1, <1>3, <1>7, <3>4, <3>5, <3>6 DEF Resetting
    <3>. QED  BY <1>1, <1>2, <3>7 DEF BarrierCounted
  <2>2. CASE fuBar # fuRun.wg - 1
    <3>1. fuPc'[b][0] = "spin"
      BY <1>4, <1>7, <2>2 DEF LastArrival
    <3>2. Arrived' = Arrived \cup {b}
      BY <1>1, <1>3, <1>7, <3>1 DEF Arrived
    <3>3. fuBar' = Cardinality(Arrived') /\ fuBar' < fuRun'.wg
      BY <1>1, <1>3, <1>9, <1>11, <2>2, <3>2
    <3>4. \A c \in Groups : fuPc'[c][0] \in {"queued", "conv", "sync", "spin"}
      BY <1>7, <1>8, <3>1 DEF Gathering
    <3>5. Gathering'
      BY <1>3, <3>3, <3>4 DEF Gathering
    <3>. QED  BY <1>1, <1>2, <3>5 DEF BarrierCounted
  <2>. QED  BY <2>1, <2>2
<1>13. fuBar' \in Nat
  BY <1>1, <1>9
<1>. QED  BY <1>1, <1>2, <1>5, <1>6, <1>12, <1>13, LeaderMoves

LEMMA ResetKeeps ==
    ASSUME FuInv, NEW b \in AllGroups, ResetBarrier(b) PROVE FuInv'
<1>1. /\ FuTypeOK /\ b \in Groups /\ fuPc[b][0] = "reset" /\ fuBar' = 0 /\ Go(b, 0, "passed")
      /\ UNCHANGED <<fuRun, fuItem, fuOwn, fuQkv, fuOut, fuZero>>
  BY DEF ResetBarrier, At, FuInv
<1>2. fuRun.wg # 0
  BY <1>1 DEF Groups, FuTypeOK
<1>3. 0 \in FuWarp /\ Groups' = Groups
  BY <1>1, <1>2, RunFacts DEF Groups
<1>4. "passed" \in Gate /\ "passed" \in FuPcs /\ fuPc[b][0] \in Gate
  BY <1>1 DEF Gate, FuPcs
<1>5. /\ fuPc'[b][0] = "passed"
      /\ \A c \in Groups \ {b} : fuPc'[c][0] = fuPc[c][0]
  BY <1>1, <1>2, <1>3, <1>4, PcChange
<1>6. \A c \in Groups \ {b} : fuPc[c][0] = "spin"
  <2>1. Resetting
    BY <1>1, <1>2 DEF FuInv, BarrierCounted, Gathering, Open
  <2>2. PICK c \in Groups : fuPc[c][0] = "reset" /\ \A d \in Groups \ {c} : fuPc[d][0] = "spin"
    BY <2>1 DEF Resetting
  <2>3. c = b
    BY <1>1, <2>2
  <2>. QED  BY <2>2, <2>3
<1>7. Open'
  BY <1>1, <1>3, <1>5, <1>6 DEF Open
<1>8. BarrierCounted'
  BY <1>1, <1>2, <1>7 DEF BarrierCounted
<1>9. \A w \in FuWarp \ {0} : fuPc[b][w] = "sync"
  BY <1>1, <1>2 DEF FuInv, GroupTogether
<1>10. fuBar' \in Nat
  BY <1>1
<1>. QED  BY <1>1, <1>2, <1>4, <1>8, <1>9, <1>10, LeaderMoves

LEMMA StopSpinningKeeps ==
    ASSUME FuInv, NEW b \in AllGroups, StopSpinning(b) PROVE FuInv'
<1>1. /\ FuTypeOK /\ b \in Groups /\ fuPc[b][0] = "spin" /\ fuBar = 0 /\ fuBar' = 0
      /\ Go(b, 0, "passed")
      /\ UNCHANGED <<fuRun, fuItem, fuOwn, fuQkv, fuOut, fuZero>>
  BY DEF StopSpinning, At, Opened, FuInv
<1>2. fuRun.wg # 0
  BY <1>1 DEF Groups, FuTypeOK
<1>3. 0 \in FuWarp /\ Groups' = Groups
  BY <1>1, <1>2, RunFacts DEF Groups
<1>4. "passed" \in Gate /\ "passed" \in FuPcs /\ fuPc[b][0] \in Gate
  BY <1>1 DEF Gate, FuPcs
<1>5. /\ fuPc'[b][0] = "passed"
      /\ \A c \in Groups \ {b} : fuPc'[c][0] = fuPc[c][0]
  BY <1>1, <1>2, <1>3, <1>4, PcChange
<1>6. ~Gathering
  <2>. SUFFICES ASSUME Gathering PROVE FALSE
    OBVIOUS
  <2>1. b \in Arrived /\ Arrived \in SUBSET Groups /\ Cardinality(Arrived) = 0
    BY <1>1 DEF Arrived, Gathering
  <2>2. IsFiniteSet(Arrived)
    BY <1>1, <1>2, <2>1, GroupsFinite, FS_Subset
  <2>. QED  BY <2>1, <2>2, FS_EmptySet
<1>7. ~Resetting
  BY <1>1, <1>2 DEF Resetting
<1>8. Open
  BY <1>2, <1>6, <1>7 DEF FuInv, BarrierCounted
<1>9. Open'
  BY <1>1, <1>3, <1>5, <1>8 DEF Open
<1>10. BarrierCounted'
  BY <1>1, <1>2, <1>9 DEF BarrierCounted
<1>11. \A w \in FuWarp \ {0} : fuPc[b][w] = "sync"
  BY <1>1, <1>2 DEF FuInv, GroupTogether
<1>12. fuBar' \in Nat
  BY <1>1
<1>. QED  BY <1>1, <1>2, <1>4, <1>10, <1>11, <1>12, LeaderMoves

LEMMA LeaveFuKeeps ==
    ASSUME FuInv, NEW b \in AllGroups, LeaveBarrier(b) PROVE FuInv'
<1>1. /\ FuTypeOK /\ b \in Groups /\ fuPc[b][0] = "passed"
      /\ \A w \in FuWarp \ {0} : fuPc[b][w] = "sync"
      /\ fuPc' = [fuPc EXCEPT ![b] = [w \in FuWarp |-> "recur"]]
      /\ fuItem' = [fuItem EXCEPT ![b] = [w \in FuWarp |-> b]]
      /\ UNCHANGED <<fuRun, fuOwn, fuQkv, fuBar, fuOut, fuZero>>
  BY DEF LeaveBarrier, At, FuInv
<1>2. fuRun.wg # 0
  BY <1>1 DEF Groups, FuTypeOK
<1>3. /\ Groups \subseteq AllGroups /\ 0 \in FuWarp /\ Groups' = Groups
      /\ fuRun.wg \in Nat \ {0} /\ b \in 0 .. fuRun.wg - 1 /\ HeadsNow \subseteq Nat
  BY <1>1, <1>2, RunFacts DEF Groups
<1>4. \A w \in FuWarp : fuPc'[b][w] = "recur" /\ fuItem'[b][w] = b
  BY <1>1, <1>3 DEF FuTypeOK
<1>5. \A c \in Groups \ {b} : fuPc'[c] = fuPc[c] /\ fuItem'[c] = fuItem[c]
  BY <1>1, <1>3 DEF FuTypeOK
<1>6. FuTypeOK'
  <2>1. fuPc' \in [AllGroups -> [FuWarp -> FuPcs]]
    BY <1>1, <1>3 DEF FuTypeOK, FuPcs
  <2>2. [w \in FuWarp |-> b] \in [FuWarp -> Nat]
    BY <1>3
  <2>3. fuItem' \in [AllGroups -> [FuWarp -> Nat]]
    BY <1>1, <1>3, <2>2 DEF FuTypeOK
  <2>. QED  BY <1>1, <2>1, <2>3 DEF FuTypeOK
<1>7. BarrierCounted'
  <2>1. fuPc[b][0] \in {"passed", "recur", "done"} /\ fuPc'[b][0] \in {"passed", "recur", "done"}
    BY <1>1, <1>3, <1>4
  <2>2. \A c \in Groups \ {b} : fuPc'[c][0] = fuPc[c][0]
    BY <1>5
  <2>. QED  BY <1>1, <1>2, <2>1, <2>2, BarrierCountedKept DEF FuInv
<1>8. ASSUME NEW c \in Groups PROVE GroupTogether(c)'
  <2>1. CASE c = b
    BY <1>3, <1>4, <2>1 DEF GroupTogether
  <2>2. CASE c # b
    BY <1>2, <1>3, <1>5, <2>2 DEF GroupTogether, FuInv
  <2>. QED  BY <2>1, <2>2
<1>9. ASSUME NEW c \in Groups, NEW v \in FuWarp PROVE Convolved(c, v)' /\ Updated(c, v)'
  <2>1. Convolved(c, v) /\ Updated(c, v)
    BY <1>2 DEF FuInv
  <2>2. CASE c # b
    BY <1>1, <1>2, <1>5, <2>1, <2>2, WarpKept
  <2>3. CASE c = b
    <3>1. fuPc[c][v] \in {"passed", "sync"}
      BY <1>1, <2>3
    <3>2. Convolved(c, v)'
      <4>1. Stride' = Stride /\ ItemsOf(c, v)' = ItemsOf(c, v)
        BY <1>1 DEF Stride, ItemsOf, ItemsNow, FirstItem
      <4>2. \A i \in ItemsOf(c, v) : fuQkv[i] = fuRun.no
        BY <2>1, <3>1 DEF Convolved
      <4>3. fuPc'[c][v] = "recur"
        BY <1>4, <2>3
      <4>. QED  BY <1>1, <4>1, <4>2, <4>3 DEF Convolved
    <3>3. b % fuRun.wg = b
      <4>1. b \in Nat /\ b < fuRun.wg
        BY <1>3
      <4>. QED  BY <1>3, <4>1, Strided
    <3>4. \A x \in HeadsOf(b) : ~(x < b)
      <4>. SUFFICES ASSUME NEW x \in HeadsOf(b), x < b PROVE FALSE
        OBVIOUS
      <4>1. x \in Nat /\ x % fuRun.wg = b
        BY <1>3 DEF HeadsOf
      <4>3. x < fuRun.wg
        BY <1>3, <4>1
      <4>2. x % fuRun.wg = x
        BY <1>3, <4>1, <4>3, Strided
      <4>. QED  BY <1>3, <4>1, <4>2
    <3>5. \A x \in HeadsOf(b) : fuOut[<<x, v>>] = "none"
      BY <2>1, <2>3, <3>1 DEF Updated
    <3>6. HeadsOf(b)' = HeadsOf(b)
      BY <1>1 DEF HeadsOf, HeadsNow
    <3>7. Updated(c, v)'
      BY <1>1, <1>4, <2>3, <3>3, <3>4, <3>5, <3>6 DEF Updated
    <3>. QED  BY <3>2, <3>7
  <2>. QED  BY <2>2, <2>3
<1>. QED  BY <1>1, <1>2, <1>3, <1>6, <1>7, <1>8, <1>9 DEF FuInv

LEMMA RecurKeeps ==
    ASSUME FuInv, NEW b \in AllGroups, NEW w \in FuWarp, Recur(b, w) PROVE FuInv'
<1>1. /\ FuTypeOK /\ b \in Groups /\ fuPc[b][w] = "recur" /\ fuItem[b][w] < fuRun.n * FuH
      /\ fuItem' = [fuItem EXCEPT ![b][w] = @ + fuRun.wg]
      /\ UNCHANGED <<fuRun, fuPc, fuOwn, fuQkv, fuBar, fuZero>>
  BY DEF Recur, At, FuInv
<1>2. fuRun.wg # 0
  BY <1>1 DEF Groups, FuTypeOK
<1>3. /\ Groups \subseteq AllGroups /\ 0 \in FuWarp /\ Groups' = Groups
      /\ fuRun.wg \in Nat \ {0} /\ HeadsNow \subseteq Nat /\ HeadsNow \subseteq FuHeads
  BY <1>1, <1>2, RunFacts DEF Groups
<1>4. PICK o : o = fuItem[b][w]
  OBVIOUS
<1>5. o \in Nat /\ fuItem'[b][w] = o + fuRun.wg
  BY <1>1, <1>3, <1>4 DEF FuTypeOK
<1>6. Convolved(b, w) /\ Updated(b, w) /\ GroupTogether(b)
  BY <1>1, <1>2 DEF FuInv
<1>7. o % fuRun.wg = b /\ \A x \in HeadsOf(b) : /\ x < o => fuOut[<<x, w>>] = "own"
                                                /\ x >= o => fuOut[<<x, w>>] = "none"
  BY <1>1, <1>4, <1>6 DEF Updated
<1>8. o \in HeadsNow /\ o \in HeadsOf(b)
  <2>1. PICK z : z = fuRun.n * FuH
    OBVIOUS
  <2>2. z \in Nat
    <3>1. \A x, y \in Nat : x * y \in Nat
      OBVIOUS
    <3>. QED  BY <1>1, <1>2, <2>1, <3>1, RunFacts
  <2>3. o \in 0 .. z - 1
    BY <1>1, <1>4, <1>5, <2>1, <2>2
  <2>. QED  BY <1>7, <2>1, <2>3 DEF HeadsNow, HeadsOf
<1>9. fuOut[<<o, w>>] = "none"
  BY <1>5, <1>7, <1>8
<1>10. \A i \in Inputs(o) : fuQkv[i] = fuRun.no
  <2>1. fuPc[b][0] \in {"passed", "recur", "done"}
    <3>1. fuPc[b][0] \in FuPcs
      BY <1>1, <1>3 DEF FuTypeOK
    <3>. QED  BY <1>1, <1>6, <3>1 DEF GroupTogether, FuPcs
  <2>2. \A i \in ItemsNow : fuQkv[i] = fuRun.no
    BY <1>1, <1>2, <2>1, OpenPublished
  <2>. QED  BY <1>1, <1>2, <1>8, <2>2, InputsFit
<1>11. fuOut' = [fuOut EXCEPT ![<<o, w>>] = "own"]
  BY <1>4, <1>9, <1>10 DEF Recur
<1>12. /\ <<o, w>> \in DOMAIN fuOut /\ fuOut'[<<o, w>>] = "own"
       /\ \A c \in Groups, v \in FuWarp : \A x \in HeadsOf(c) :
             c # b \/ v # w \/ x # o => fuOut'[<<x, v>>] = fuOut[<<x, v>>]
  <2>1. <<o, w>> \in DOMAIN fuOut
    BY <1>1, <1>3, <1>8 DEF FuTypeOK
  <2>2. ASSUME NEW c \in Groups, NEW v \in FuWarp, NEW x \in HeadsOf(c), c # b \/ v # w \/ x # o
        PROVE  fuOut'[<<x, v>>] = fuOut[<<x, v>>]
    <3>1. x \in HeadsNow /\ x % fuRun.wg = c
      BY DEF HeadsOf
    <3>2. <<x, v>> # <<o, w>>
      BY <1>7, <2>2, <3>1
    <3>3. <<x, v>> \in DOMAIN fuOut
      BY <1>1, <1>3, <3>1 DEF FuTypeOK
    <3>. QED  BY <1>11, <3>2, <3>3
  <2>. QED  BY <1>11, <2>1, <2>2
<1>13. \A c \in Groups, v \in FuWarp : c # b \/ v # w => fuItem'[c][v] = fuItem[c][v]
  BY <1>1, <1>3 DEF FuTypeOK
<1>14. FuTypeOK'
  <2>1. o + fuRun.wg \in Nat
    BY <1>3, <1>5
  <2>2. fuItem' \in [AllGroups -> [FuWarp -> Nat]]
    BY <1>1, <1>3, <1>4, <2>1 DEF FuTypeOK
  <2>3. DOMAIN fuOut' = FuHeads \X FuWarp
    BY <1>1, <1>11 DEF FuTypeOK
  <2>. QED  BY <1>1, <2>2, <2>3 DEF FuTypeOK
<1>15. BarrierCounted'
  BY <1>1, <1>2, <1>3, BarrierCountedKept DEF FuInv
<1>16. \A c \in Groups : GroupTogether(c)'
  BY <1>1, <1>2, <1>3 DEF GroupTogether, FuInv
<1>17. ASSUME NEW c \in Groups, NEW v \in FuWarp PROVE Convolved(c, v)' /\ Updated(c, v)'
  <2>1. Convolved(c, v) /\ Updated(c, v)
    BY <1>2 DEF FuInv
  <2>2. CASE c # b \/ v # w
    BY <1>1, <1>2, <1>12, <1>13, <2>1, <2>2, WarpKept
  <2>3. CASE c = b /\ v = w
    <3>1. Convolved(c, v)'
      <4>1. Stride' = Stride /\ ItemsOf(c, v)' = ItemsOf(c, v)
        BY <1>1 DEF Stride, ItemsOf, ItemsNow, FirstItem
      <4>2. \A i \in ItemsOf(c, v) : fuQkv[i] = fuRun.no
        BY <1>1, <2>1, <2>3 DEF Convolved
      <4>3. fuPc'[c][v] = "recur"
        BY <1>1, <2>3
      <4>. QED  BY <1>1, <4>1, <4>2, <4>3 DEF Convolved
    <3>2. HeadsOf(c)' = HeadsOf(c)
      BY <1>1 DEF HeadsOf, HeadsNow
    <3>3. (o + fuRun.wg) % fuRun.wg = b
      BY <1>3, <1>5, <1>7, Strided
    <3>4. ASSUME NEW x \in HeadsOf(c)
          PROVE  /\ x < o + fuRun.wg => fuOut'[<<x, v>>] = "own"
                 /\ x >= o + fuRun.wg => fuOut'[<<x, v>>] = "none"
      <4>1. x \in Nat /\ x % fuRun.wg = o % fuRun.wg
        BY <1>3, <1>7, <2>3 DEF HeadsOf
      <4>9. \A z \in Nat : z % fuRun.wg = o % fuRun.wg /\ o <= z /\ z < o + fuRun.wg => z = o
        BY <1>3, <1>5, Strided
      <4>2. x < o + fuRun.wg => x < o \/ x = o
        BY <1>5, <4>1, <4>9
      <4>3. x >= o + fuRun.wg => x >= o /\ x # o
        BY <1>3, <1>5, <4>1
      <4>4. x # o => fuOut'[<<x, v>>] = fuOut[<<x, v>>]
        BY <1>12
      <4>5. x = o => fuOut'[<<x, v>>] = "own"
        BY <1>12, <2>3
      <4>6. (x < o => fuOut[<<x, v>>] = "own") /\ (x >= o => fuOut[<<x, v>>] = "none")
        BY <1>7, <2>3
      <4>7. x < o => x # o
        BY <1>5, <4>1
      <4>. QED  BY <4>2, <4>3, <4>4, <4>5, <4>6, <4>7
    <3>5. Updated(c, v)'
      BY <1>1, <1>5, <2>3, <3>2, <3>3, <3>4 DEF Updated
    <3>. QED  BY <3>1, <3>5
  <2>. QED  BY <2>2, <2>3
<1>. QED  BY <1>1, <1>2, <1>3, <1>14, <1>15, <1>16, <1>17 DEF FuInv

LEMMA ZeroKeeps ==
    ASSUME FuInv, NEW b \in AllGroups, NEW w \in FuWarp, ZeroPads(b, w) PROVE FuInv'
<1>1. /\ FuTypeOK /\ b \in Groups /\ fuPc[b][w] = "recur" /\ fuItem[b][w] >= fuRun.n * FuH
      /\ fuZero' = fuZero \cup {<<r, w>> : r \in {s \in 0 .. fuRun.pad - 1 : s % fuRun.wg = b}}
      /\ Go(b, w, "done")
      /\ UNCHANGED <<fuRun, fuItem, fuOwn, fuQkv, fuBar, fuOut>>
  BY DEF ZeroPads, At, FuInv
<1>2. fuRun.wg # 0
  BY <1>1 DEF Groups, FuTypeOK
<1>3. Groups \subseteq AllGroups /\ 0 \in FuWarp /\ Groups' = Groups
  BY <1>1, <1>2, RunFacts DEF Groups
<1>4. /\ fuPc' \in [AllGroups -> [FuWarp -> FuPcs]] /\ fuPc'[b][w] = "done"
      /\ \A c \in Groups, v \in FuWarp : c # b \/ v # w => fuPc'[c][v] = fuPc[c][v]
  BY <1>1, <1>2, PcChange DEF FuPcs
<1>5. FuTypeOK'
  BY <1>1, <1>4 DEF FuTypeOK
<1>6. GroupTogether(b) /\ fuPc[b][0] \in {"recur", "done"}
  <2>1. GroupTogether(b) /\ fuPc[b][0] \in FuPcs
    BY <1>1, <1>2, <1>3 DEF FuInv, FuTypeOK
  <2>. QED  BY <1>1, <1>3, <2>1 DEF GroupTogether, FuPcs
<1>7. BarrierCounted'
  <2>1. fuPc[b][0] \in {"passed", "recur", "done"} /\ fuPc'[b][0] \in {"passed", "recur", "done"}
    <3>1. CASE w = 0
      BY <1>4, <1>6, <3>1
    <3>2. CASE w # 0
      <4>1. fuPc'[b][0] = fuPc[b][0]
        BY <1>1, <1>3, <1>4, <3>2
      <4>. QED  BY <1>6, <4>1
    <3>. QED  BY <3>1, <3>2
  <2>2. \A c \in Groups \ {b} : fuPc'[c][0] = fuPc[c][0]
    BY <1>3, <1>4
  <2>. QED  BY <1>1, <1>2, <2>1, <2>2, BarrierCountedKept DEF FuInv
<1>8. ASSUME NEW c \in Groups PROVE GroupTogether(c)'
  <2>1. CASE c = b
    <3>1. \A v \in FuWarp : fuPc'[c][v] \in {"recur", "done"}
      BY <1>3, <1>4, <1>6, <2>1 DEF GroupTogether
    <3>. QED  BY <1>3, <3>1 DEF GroupTogether
  <2>2. CASE c # b
    <3>1. GroupTogether(c) /\ \A v \in FuWarp : fuPc'[c][v] = fuPc[c][v]
      BY <1>2, <1>4, <2>2 DEF FuInv
    <3>. QED  BY <1>3, <3>1 DEF GroupTogether
  <2>. QED  BY <2>1, <2>2
<1>9. fuZero' \subseteq (0 .. fuRun'.pad - 1) \X FuWarp
  BY <1>1, <1>2 DEF FuInv
<1>10. ASSUME NEW c \in Groups, NEW v \in FuWarp PROVE Convolved(c, v)' /\ Updated(c, v)'
  <2>1. Convolved(c, v) /\ Updated(c, v)
    BY <1>2 DEF FuInv
  <2>2. CASE c # b \/ v # w
    BY <1>1, <1>2, <1>4, <2>1, <2>2, WarpKept
  <2>3. CASE c = b /\ v = w
    <3>1. Convolved(c, v)'
      <4>1. Stride' = Stride /\ ItemsOf(c, v)' = ItemsOf(c, v)
        BY <1>1 DEF Stride, ItemsOf, ItemsNow, FirstItem
      <4>2. \A i \in ItemsOf(c, v) : fuQkv[i] = fuRun.no
        BY <1>1, <2>1, <2>3 DEF Convolved
      <4>3. fuPc'[c][v] = "done"
        BY <1>4, <2>3
      <4>. QED  BY <1>1, <4>1, <4>2, <4>3 DEF Convolved
    <3>2. HeadsOf(c)' = HeadsOf(c)
      BY <1>1 DEF HeadsOf, HeadsNow
    <3>3. \A x \in HeadsOf(c) : x < fuItem[c][v]
      <4>1. fuItem[c][v] \in Nat
        BY <1>1, <1>3 DEF FuTypeOK
      <4>2. PICK z : z = fuRun.n * FuH
        OBVIOUS
      <4>3. z \in Nat
        <5>1. \A x, y \in Nat : x * y \in Nat
          OBVIOUS
        <5>. QED  BY <1>1, <1>2, <4>2, <5>1, RunFacts
      <4>4. \A x \in HeadsOf(c) : x \in 0 .. z - 1
        BY <4>2 DEF HeadsOf, HeadsNow
      <4>. QED  BY <1>1, <2>3, <4>1, <4>2, <4>3, <4>4
    <3>4. \A x \in HeadsOf(c) : fuOut[<<x, v>>] = "own"
      BY <1>1, <2>1, <2>3, <3>3 DEF Updated
    <3>5. \A r \in 0 .. fuRun.pad - 1 : r % fuRun.wg = c => <<r, v>> \in fuZero'
      BY <1>1, <2>3
    <3>6. Updated(c, v)'
      BY <1>1, <1>4, <2>3, <3>2, <3>4, <3>5 DEF Updated
    <3>. QED  BY <3>1, <3>6
  <2>. QED  BY <2>2, <2>3
<1>. QED  BY <1>1, <1>2, <1>3, <1>5, <1>7, <1>8, <1>9, <1>10 DEF FuInv

LEMMA LaunchKeeps ==
    ASSUME FuInv, FuLaunch PROVE FuInv'
<1>1. /\ FuTypeOK /\ fuRun.wg = 0 /\ fuBar = 0 /\ fuRun.no \in Nat
      /\ fuPc' = [b \in AllGroups |-> [w \in FuWarp |-> IF b < fuRun'.wg THEN "queued" ELSE "done"]]
      /\ fuOut' = [x \in DOMAIN fuOut |-> "none"] /\ fuZero' = {}
      /\ UNCHANGED <<fuItem, fuOwn, fuQkv, fuBar>>
  BY DEF FuLaunch, FuInv, BarrierCounted, FuTypeOK
<1>2. PICK n \in FuSeqs, pad \in FuPads :
          fuRun' = [no |-> fuRun.no + 1, n |-> n, wg |-> GridSize(n), pad |-> pad]
  BY DEF FuLaunch
<1>3. n \in Nat \ {0} /\ GridSize(n) \in Nat \ {0} /\ pad \in Nat
  BY GridFacts, FusedUpdateAssumption
<1>4. fuRun'.n = n /\ fuRun'.wg = GridSize(n) /\ fuRun'.pad = pad
  BY <1>2
<1>5. fuRun' \in [no : Nat, n : Nat, wg : Nat, pad : Nat]
  BY <1>1, <1>2, <1>3
<1>6. fuPc' \in [AllGroups -> [FuWarp -> FuPcs]]
  BY <1>1 DEF FuPcs
<1>7. FuTypeOK'
  BY <1>1, <1>4, <1>5, <1>6 DEF FuTypeOK
<1>8. fuRun'.wg # 0
  BY <1>3, <1>4
<1>9. ASSUME NEW b \in Groups', NEW w \in FuWarp PROVE fuPc'[b][w] = "queued"
  <2>1. b \in 0 .. GridSize(n) - 1
    BY <1>4 DEF Groups
  <2>2. b \in AllGroups /\ b < fuRun'.wg
    BY <1>3, <1>4, <2>1, GridFacts
  <2>. QED  BY <1>1, <2>2
<1>10. 0 \in FuWarp
  BY FusedUpdateAssumption DEF FuWarp
<1>11. BarrierCounted'
  <2>1. Arrived' = {}
    BY <1>9, <1>10 DEF Arrived
  <2>2. Gathering'
    <3>1. Cardinality(Arrived') = 0
      BY <2>1, FS_EmptySet
    <3>2. fuBar' = Cardinality(Arrived') /\ fuBar' = 0 /\ 0 < fuRun'.wg
      BY <1>1, <1>3, <1>4, <3>1
    <3>3. fuBar' < fuRun'.wg
      BY <3>2
    <3>4. \A b \in Groups' : fuPc'[b][0] \in {"queued", "conv", "sync", "spin"}
      BY <1>9, <1>10
    <3>. QED  BY <3>2, <3>3, <3>4 DEF Gathering
  <2>. QED  BY <1>8, <2>2 DEF BarrierCounted
<1>12. \A b \in Groups' : GroupTogether(b)'
  BY <1>9, <1>10 DEF GroupTogether
<1>13. ASSUME NEW b \in Groups', NEW w \in FuWarp PROVE Convolved(b, w)' /\ Updated(b, w)'
  <2>1. Convolved(b, w)'
    BY <1>9 DEF Convolved
  <2>2. \A x \in HeadsOf(b)' : fuOut'[<<x, w>>] = "none"
    <3>1. HeadsOf(b)' \subseteq FuHeads
      <4>1. 0 .. n * FuH - 1 \subseteq FuHeads
        BY GridFacts
      <4>. QED  BY <1>4, <4>1 DEF HeadsOf, HeadsNow
    <3>. QED  BY <1>1, <3>1 DEF FuTypeOK
  <2>3. Updated(b, w)'
    BY <1>9, <2>2 DEF Updated
  <2>. QED  BY <2>1, <2>3
<1>. QED  BY <1>1, <1>7, <1>8, <1>11, <1>12, <1>13 DEF FuInv

LEMMA EndKeeps ==
    ASSUME FuInv, FuEnd PROVE FuInv'
<1>1. /\ FuTypeOK /\ fuRun.wg # 0 /\ \A b \in Groups, w \in FuWarp : fuPc[b][w] = "done"
      /\ fuRun' = [fuRun EXCEPT !.wg = 0]
      /\ UNCHANGED <<fuPc, fuItem, fuOwn, fuQkv, fuBar, fuOut, fuZero>>
  BY DEF FuEnd, FuFinished, FuInv
<1>2. fuRun' \in [no : Nat, n : Nat, wg : Nat, pad : Nat] /\ fuRun'.wg = 0
  BY <1>1 DEF FuTypeOK
<1>3. fuBar = 0
  <2>1. 0 \in Groups /\ 0 \in FuWarp
    BY <1>1, RunFacts
  <2>2. Open
    BY <1>1, <2>1, OpenPublished
  <2>. QED  BY <2>2 DEF Open
<1>4. FuTypeOK'
  BY <1>1, <1>2 DEF FuTypeOK
<1>. QED  BY <1>1, <1>2, <1>3, <1>4 DEF FuInv, BarrierCounted

LEMMA FuInitOK == FuInit => FuInv
<1>. SUFFICES ASSUME FuInit PROVE FuInv
  OBVIOUS
<1>1. fuRun = [no |-> 0, n |-> 0, wg |-> 0, pad |-> 0] /\ fuBar = 0
  BY DEF FuInit
<1>2. fuRun \in [no : Nat, n : Nat, wg : Nat, pad : Nat] /\ fuRun.wg = 0
  BY <1>1
<1>3. fuPc \in [AllGroups -> [FuWarp -> FuPcs]] /\ fuItem \in [AllGroups -> [FuWarp -> Nat]]
  BY DEF FuInit, OfWarps, FuPcs
<1>4. DOMAIN fuOwn = AllGroups /\ (\A b \in AllGroups : DOMAIN fuOwn[b] = FuWarp)
      /\ DOMAIN fuQkv = FuItems /\ DOMAIN fuOut = FuHeads \X FuWarp
  BY DEF FuInit, OfWarps, FuItems, FuHeads
<1>5. FuTypeOK
  BY <1>1, <1>2, <1>3, <1>4 DEF FuTypeOK
<1>. QED  BY <1>1, <1>2, <1>5 DEF FuInv, BarrierCounted

LEMMA FuStutter == FuInv /\ UNCHANGED fuVars => FuInv'
<1>. SUFFICES ASSUME FuInv, UNCHANGED fuVars PROVE FuInv'
  OBVIOUS
<1>1. /\ fuRun' = fuRun /\ fuPc' = fuPc /\ fuItem' = fuItem /\ fuOwn' = fuOwn /\ fuQkv' = fuQkv
      /\ fuBar' = fuBar /\ fuOut' = fuOut /\ fuZero' = fuZero
  BY DEF fuVars
<1>2. FuTypeOK' /\ BarrierCounted' /\ Groups' = Groups
  BY <1>1 DEF FuInv, FuTypeOK, BarrierCounted, Gathering, Resetting, Open, Arrived, Groups
<1>3. \A b \in Groups : GroupTogether(b)' = GroupTogether(b)
  BY <1>1 DEF GroupTogether
<1>4. \A b \in Groups, w \in FuWarp :
         Convolved(b, w)' = Convolved(b, w) /\ Updated(b, w)' = Updated(b, w)
  BY <1>1 DEF Convolved, Updated, ItemsOf, HeadsOf, ItemsNow, HeadsNow, Stride
<1>. QED  BY <1>1, <1>2, <1>3, <1>4 DEF FuInv

LEMMA FuNextOK == ASSUME FuInv, [FuNext]_fuVars PROVE FuInv'
<1>1. ASSUME NEW b \in AllGroups, GroupStep(b) PROVE FuInv'
  <2>1. CASE StartGroup(b)
    BY <2>1, StartKeeps
  <2>2. CASE Arrive(b)
    BY <2>2, ArriveFuKeeps
  <2>3. CASE ResetBarrier(b)
    BY <2>3, ResetKeeps
  <2>4. CASE StopSpinning(b)
    BY <2>4, StopSpinningKeeps
  <2>5. CASE LeaveBarrier(b)
    BY <2>5, LeaveFuKeeps
  <2>6. ASSUME NEW w \in FuWarp, Convolve(b, w) \/ Fence(b, w) \/ Recur(b, w) \/ ZeroPads(b, w)
        PROVE  FuInv'
    BY <2>6, ConvolveKeeps, FenceKeeps, RecurKeeps, ZeroKeeps
  <2>. QED  BY <1>1, <2>1, <2>2, <2>3, <2>4, <2>5, <2>6 DEF GroupStep
<1>. QED  BY <1>1, LaunchKeeps, EndKeeps, FuStutter DEF FuNext

\* What the next step of a launch needs, for every place its warps can be in.
SomebodyGoes ==
    \/ FuFinished
    \/ \E b \in Queued : (\A c \in Queued : b <= c) /\ Cardinality(OnDevice) < FuResident
    \/ \E b \in Groups, w \in FuWarp : fuPc[b][w] \in {"conv", "recur"}
    \/ \E b \in Groups : At(b, 0, "sync") /\ GroupHasFenced(b)
    \/ \E b \in Groups : At(b, 0, "reset") \/ (At(b, 0, "spin") /\ Opened)
    \/ \E b \in Groups : At(b, 0, "passed") /\ \A w \in FuWarp \ {0} : fuPc[b][w] = "sync"

LEMMA NobodyStuck == ASSUME FuInv, fuRun.wg # 0 PROVE SomebodyGoes
<1>. SUFFICES ASSUME ~SomebodyGoes PROVE FALSE
  OBVIOUS
<1>1. /\ FuTypeOK /\ Groups \subseteq AllGroups /\ Groups \subseteq Nat /\ 0 \in FuWarp
      /\ fuRun.wg \in Nat /\ fuRun.wg <= FuResident /\ Groups # {}
      /\ IsFiniteSet(Groups) /\ Cardinality(Groups) = fuRun.wg
  BY RunFacts, GroupsFinite DEF FuInv
<1>2. \A b \in Groups : fuPc[b][0] \in FuPcs /\ GroupTogether(b)
  BY <1>1 DEF FuInv, FuTypeOK
<1>3. Queued = {}
  <2>. SUFFICES ASSUME Queued # {} PROVE FALSE
    OBVIOUS
  <2>1. Queued \subseteq Groups
    BY DEF Queued
  <2>2. PICK b \in Queued : \A c \in Queued : b <= c
    BY <1>1, <2>1, HasLeast
  <2>3. OnDevice \in SUBSET Groups /\ OnDevice # Groups
    BY <2>1, <2>2 DEF OnDevice
  <2>4. Cardinality(OnDevice) <= Cardinality(Groups) /\ Cardinality(OnDevice) # Cardinality(Groups)
        /\ IsFiniteSet(OnDevice)
    BY <1>1, <2>3, FS_Subset
  <2>5. Cardinality(OnDevice) \in Nat
    BY <2>4, FS_CardinalityType
  <2>6. Cardinality(OnDevice) < FuResident
    BY <1>1, <2>4, <2>5, FusedUpdateAssumption
  <2>. QED  BY <2>2, <2>6 DEF SomebodyGoes
<1>4. \A b \in Groups, w \in FuWarp : fuPc[b][w] \notin {"conv", "recur"}
  BY DEF SomebodyGoes
<1>5. \A b \in Groups : fuPc[b][0] \in {"spin", "done"}
  <2>. SUFFICES ASSUME NEW b \in Groups PROVE fuPc[b][0] \in {"spin", "done"}
    OBVIOUS
  <2>1. fuPc[b][0] # "queued"
    BY <1>3 DEF Queued
  <2>2. fuPc[b][0] # "sync"
    BY <1>4 DEF SomebodyGoes, At, GroupHasFenced
  <2>3. fuPc[b][0] # "reset"
    BY DEF SomebodyGoes, At
  <2>4. fuPc[b][0] # "passed"
    BY <1>2 DEF SomebodyGoes, At, GroupTogether
  <2>. QED  BY <1>1, <1>2, <1>4, <2>1, <2>2, <2>3, <2>4 DEF FuPcs
<1>6. PICK b \in Groups : fuPc[b][0] = "spin"
  <2>. SUFFICES ASSUME \A b \in Groups : fuPc[b][0] = "done" PROVE FALSE
    BY <1>5
  <2>1. \A b \in Groups, w \in FuWarp : fuPc[b][w] = "done"
    BY <1>2, <1>4 DEF GroupTogether
  <2>. QED  BY <2>1 DEF SomebodyGoes, FuFinished
<1>7. ~Resetting
  BY <1>5 DEF Resetting
<1>8. ~Open
  BY <1>6 DEF Open, SomebodyGoes, At, Opened
<1>9. ~Gathering
  <2>. SUFFICES ASSUME Gathering PROVE FALSE
    OBVIOUS
  <2>1. Arrived = Groups
    BY <1>5 DEF Gathering, Arrived
  <2>. QED  BY <1>1, <2>1 DEF Gathering
<1>. QED  BY <1>7, <1>8, <1>9 DEF FuInv, BarrierCounted

LEMMA FusedAlways == FuSpec => []FuInv
BY FuInitOK, FuNextOK, PTL DEF FuSpec

LEMMA FuInvMeans ==
    ASSUME FuInv
    PROVE  UpdatedOnce /\ (fuRun.wg # 0 => SomebodyGoes) /\ (fuRun.wg = 0 => fuBar = 0)
<1>1. ASSUME FuFinished PROVE UpdatedOnce
  <2>1. FuTypeOK /\ fuRun.wg # 0 /\ \A b \in Groups, w \in FuWarp : fuPc[b][w] = "done" /\ Updated(b, w)
    BY <1>1 DEF FuFinished, FuInv
  <2>2. ASSUME NEW x \in HeadsNow, NEW w \in FuWarp PROVE fuOut[<<x, w>>] = "own"
    <3>1. x \in Nat
      BY <2>1, RunFacts
    <3>2. PICK b \in Groups : b = x % fuRun.wg
      BY <2>1, <3>1, HeadsShared
    <3>. QED  BY <2>1, <3>2 DEF Updated, HeadsOf
  <2>3. ASSUME NEW r \in 0 .. fuRun.pad - 1, NEW w \in FuWarp PROVE <<r, w>> \in fuZero
    <3>1. r \in Nat
      BY <2>1, RunFacts
    <3>2. PICK b \in Groups : b = r % fuRun.wg
      BY <2>1, <3>1, HeadsShared
    <3>. QED  BY <2>1, <3>2 DEF Updated
  <2>4. fuZero = (0 .. fuRun.pad - 1) \X FuWarp
    <3>1. fuZero \subseteq (0 .. fuRun.pad - 1) \X FuWarp
      BY <2>1 DEF FuInv
    <3>. QED  BY <2>3, <3>1
  <2>5. \A x \in (0 .. fuRun.n * FuH - 1) \X FuWarp : fuOut[x] = "own"
    BY <2>2 DEF HeadsNow
  <2>. QED  BY <2>4, <2>5 DEF UpdatedOnce
<1>2. ~FuFinished => UpdatedOnce
  BY DEF UpdatedOnce
<1>. QED  BY <1>1, <1>2, NobodyStuck DEF FuInv, BarrierCounted

\* However its workgroups start and its warps interleave, a fused launch updates every head of
\* every sequence once, from its own q, k and v, zeroes every pad row, never stops while it is
\* under way, and leaves the counter at zero: for any sequences, heads, warps, caps and
\* launches, as long as the device holds the capped grid.
THEOREM FusedUpdatesOnce ==
    FuSpec => [](UpdatedOnce /\ (fuRun.wg # 0 => SomebodyGoes) /\ (fuRun.wg = 0 => fuBar = 0))
BY FusedAlways, FuInvMeans, PTL

-----------------------------------------------------------------------------
(* SourcePatcher: what a hunk does to a tree                               *)

LEMMA EachStep ==
    ASSUME NEW S, 0 \in S, \A n \in Nat : n \in S => n + 1 \in S
    PROVE  \A n \in Nat : n \in S
<1>. SUFFICES ASSUME Nat \ S # {} PROVE FALSE
  OBVIOUS
<1>1. PICK x \in Nat \ S : \A y \in Nat \ S : x <= y
  BY HasLeast
<1>2. x - 1 \in Nat /\ x - 1 \notin Nat \ S
  BY <1>1
<1>3. x - 1 + 1 \in S
  BY <1>2
<1>. QED  BY <1>1, <1>3

\* A function that is defined by steps exists.
StepFunctions(n, D) == [1 .. n -> [D -> D]]
Unrolled(f, n, D, g, start) ==
    f \in [0 .. n -> D] /\ f[0] = start /\ \A i \in 1 .. n : f[i] = g[i][f[i - 1]]

LEMMA Unrolls ==
    ASSUME NEW n \in Nat, NEW D, NEW g \in StepFunctions(n, D), NEW start \in D
    PROVE  \E f : Unrolled(f, n, D, g, start)
<1>. SUFFICES \E f \in [0 .. n -> D] : f[0] = start /\ \A i \in 1 .. n : f[i] = g[i][f[i - 1]]
  BY DEF Unrolled
<1>0. g \in [1 .. n -> [D -> D]]
  BY DEF StepFunctions
<1>. DEFINE S == {k \in Nat : k <= n =>
                    \E f \in [0 .. k -> D] : f[0] = start /\ \A i \in 1 .. k : f[i] = g[i][f[i - 1]]}
<1>1. 0 \in S
  <2>1. [i \in 0 .. 0 |-> start] \in [0 .. 0 -> D] /\ [i \in 0 .. 0 |-> start][0] = start
    OBVIOUS
  <2>2. \A i \in 1 .. 0 : FALSE
    OBVIOUS
  <2>. QED  BY <2>1, <2>2
<1>2. ASSUME NEW k \in Nat, k \in S PROVE k + 1 \in S
  <2>. SUFFICES ASSUME k + 1 <= n
                PROVE  \E f \in [0 .. k + 1 -> D] :
                          f[0] = start /\ \A i \in 1 .. k + 1 : f[i] = g[i][f[i - 1]]
    OBVIOUS
  <2>1. PICK f \in [0 .. k -> D] : f[0] = start /\ \A i \in 1 .. k : f[i] = g[i][f[i - 1]]
    BY <1>2
  <2>2. f[k] \in D /\ k + 1 \in 1 .. n
    BY <2>1
  <2>3. PICK x \in D : x = g[k + 1][f[k]]
    BY <1>0, <2>2
  <2>4. PICK h : h = [i \in 0 .. k + 1 |-> IF i <= k THEN f[i] ELSE x]
    OBVIOUS
  <2>5. h \in [0 .. k + 1 -> D] /\ h[0] = start
    BY <2>1, <2>3, <2>4
  <2>6. ASSUME NEW i \in 1 .. k + 1 PROVE h[i] = g[i][h[i - 1]]
    <3>1. PICK j \in 0 .. k : j = i - 1
      OBVIOUS
    <3>2. h[j] = f[j]
      BY <2>4
    <3>3. CASE i <= k
      <4>1. i \in 1 .. k /\ h[i] = f[i] /\ f[i] = g[i][f[i - 1]]
        BY <2>1, <2>4, <3>3
      <4>. QED  BY <3>1, <3>2, <4>1
    <3>4. CASE i = k + 1
      <4>1. j = k /\ ~(i <= k)
        BY <3>1, <3>4
      <4>2. h[i] = x
        BY <2>4, <4>1
      <4>. QED  BY <2>3, <3>1, <3>2, <3>4, <4>1, <4>2
    <3>. QED  BY <3>3, <3>4
  <2>. QED  BY <2>5, <2>6
<1>. HIDE DEF S
<1>3. n \in S
  BY <1>1, <1>2, EachStep
<1>. QED  BY <1>3 DEF S

Trees == [DOMAIN SpPristine -> [Fragments -> Nat]]
HunkResults == [files : Trees, ok : BOOLEAN]
PassResults == [files : Trees, ok : Seq(BOOLEAN)]

LEMMA HunkIs ==
    ASSUME NEW p \in DOMAIN SpPatches
    PROVE  /\ SpPatches[p] \in Seq(HunksOf) /\ Len(SpPatches[p]) \in Nat \ {0}
           /\ \A h \in HunksOf : h.shapes \in Seq(ToSet(h.shapes))
<1>1. SpPatches[p] \in Seq(ToSet(SpPatches[p])) /\ ToSet(SpPatches[p]) \subseteq HunksOf
  BY PatchAssumption DEF HunksOf
<1>2. SpPatches[p] \in Seq(HunksOf)
  BY <1>1
<1>3. Len(SpPatches[p]) \in Nat \ {0}
  BY <1>2, PatchAssumption, EmptySeq
<1>4. \A h \in HunksOf : h.shapes \in Seq(ToSet(h.shapes))
  BY PatchAssumption DEF HunksOf
<1>. QED  BY <1>2, <1>3, <1>4

LEMMA PristineIsTree == Pristine \in Trees
<1>. DEFINE q(f) == [t \in Fragments |-> IF t \in SpPristine[f] THEN 1 ELSE 0]
<1>1. \A f \in DOMAIN SpPristine : q(f) \in [Fragments -> Nat]
  OBVIOUS
<1>2. Pristine = [f \in DOMAIN SpPristine |-> q(f)]
  BY DEF Pristine
<1>. HIDE DEF q
<1>. QED  BY <1>1, <1>2 DEF Trees

LEMMA ReplacedIs ==
    ASSUME NEW text \in [Fragments -> Nat], NEW s, AnchorFits(text, s)
    PROVE  /\ Replaced(text, s) \in [Fragments -> Nat]
           /\ \A t \in Fragments : (t # s.anchor \/ s.keeps) => Replaced(text, s)[t] >= text[t]
           /\ \A t \in Fragments : (t \in s.adds /\ (t # s.anchor \/ s.keeps)) =>
                 Replaced(text, s)[t] > 0
<1>1. s.anchor \in Fragments /\ text[s.anchor] = 1
  BY DEF AnchorFits, Count
<1>2. ASSUME NEW t \in Fragments
      PROVE  /\ Replaced(text, s)[t] \in Nat
             /\ (t # s.anchor \/ s.keeps) => Replaced(text, s)[t] >= text[t]
             /\ (t \in s.adds /\ (t # s.anchor \/ s.keeps)) => Replaced(text, s)[t] > 0
  <2>1. PICK a \in {0, 1} : (t \in s.adds => a = 1) /\ a = IF t \in s.adds THEN 1 ELSE 0
    OBVIOUS
  <2>2. PICK b \in {0, 1} : /\ b = IF t = s.anchor /\ ~s.keeps THEN 1 ELSE 0
                            /\ (t # s.anchor \/ s.keeps) => b = 0
    OBVIOUS
  <2>3. Replaced(text, s)[t] = text[t] + a - b
    BY <2>1, <2>2 DEF Replaced
  <2>4. text[t] \in Nat /\ (b = 1 => text[t] = 1)
    BY <1>1, <2>2
  <2>. QED  BY <2>1, <2>2, <2>3, <2>4
<1>3. Replaced(text, s) = [t \in Fragments |-> Replaced(text, s)[t]]
  BY DEF Replaced
<1>. QED  BY <1>2, <1>3

\* A hunk fails and leaves the tree; or it is in; or it puts a shape that fits in its place.
LEMMA ApplyIs ==
    ASSUME NEW files \in Trees, NEW h \in HunksOf
    PROVE  \/ Apply(files, h) = [files |-> files, ok |-> FALSE]
              /\ ~(h.file \in DOMAIN SpPristine /\ Applied(files[h.file], h))
           \/ Apply(files, h) = [files |-> files, ok |-> TRUE]
              /\ h.file \in DOMAIN SpPristine /\ Applied(files[h.file], h)
           \/ /\ h.file \in DOMAIN SpPristine /\ ~Applied(files[h.file], h)
              /\ \E s \in ToSet(h.shapes) :
                    /\ AnchorFits(files[h.file], s)
                    /\ Apply(files, h) = [files |-> [files EXCEPT ![h.file] =
                                                        Replaced(files[h.file], s)],
                                          ok |-> TRUE]
<1>. DEFINE text == files[h.file]
            fit == {i \in DOMAIN h.shapes : AnchorFits(text, h.shapes[i])}
            first == CHOOSE i \in fit : \A j \in fit : i <= j
<1>0. DOMAIN files = DOMAIN SpPristine
  BY DEF Trees
<1>1. CASE h.file \notin DOMAIN SpPristine
  BY <1>0, <1>1 DEF Apply
<1>2. CASE h.file \in DOMAIN SpPristine /\ Applied(text, h)
  BY <1>0, <1>2 DEF Apply
<1>3. CASE h.file \in DOMAIN SpPristine /\ ~Applied(text, h) /\ fit = {}
  BY SMTT(30), <1>0, <1>3 DEF Apply
<1>4. CASE h.file \in DOMAIN SpPristine /\ ~Applied(text, h) /\ fit # {}
  <2>1. h.shapes \in Seq(ToSet(h.shapes))
    BY HunkIs DEF HunksOf
  <2>2. fit \subseteq Nat
    BY <2>1
  <2>3. first \in fit
    BY <1>4, <2>2, HasLeast
  <2>4. h.shapes[first] \in ToSet(h.shapes) /\ AnchorFits(text, h.shapes[first])
    BY <2>1, <2>3 DEF ToSet
  <2>5. Apply(files, h) = [files |-> [files EXCEPT ![h.file] = Replaced(text, h.shapes[first])],
                           ok |-> TRUE]
    BY <1>0, <1>4 DEF Apply
  <2>. QED  BY <1>4, <2>4, <2>5
<1>. QED  BY <1>1, <1>2, <1>3, <1>4

LEMMA ApplyFacts ==
    ASSUME NEW files \in Trees, NEW h \in HunksOf
    PROVE  /\ Apply(files, h) \in HunkResults
           /\ Apply(files, h).files # files => h.file \in DOMAIN SpPristine
           /\ \A f \in DOMAIN SpPristine : f # h.file => Apply(files, h).files[f] = files[f]
           /\ ~Apply(files, h).ok => Apply(files, h).files = files
           /\ h.file \in DOMAIN SpPristine /\ Applied(files[h.file], h) =>
                 Apply(files, h) = [files |-> files, ok |-> TRUE]
<1>1. CASE Apply(files, h) = [files |-> files, ok |-> FALSE]
           /\ ~(h.file \in DOMAIN SpPristine /\ Applied(files[h.file], h))
  BY <1>1 DEF HunkResults
<1>2. CASE Apply(files, h) = [files |-> files, ok |-> TRUE]
           /\ h.file \in DOMAIN SpPristine /\ Applied(files[h.file], h)
  BY <1>2 DEF HunkResults
<1>3. ASSUME h.file \in DOMAIN SpPristine, ~Applied(files[h.file], h),
             NEW s \in ToSet(h.shapes), AnchorFits(files[h.file], s),
             Apply(files, h) = [files |-> [files EXCEPT ![h.file] = Replaced(files[h.file], s)],
                                ok |-> TRUE]
      PROVE  /\ Apply(files, h) \in HunkResults
             /\ \A f \in DOMAIN SpPristine : f # h.file => Apply(files, h).files[f] = files[f]
  <2>1. files[h.file] \in [Fragments -> Nat]
    BY <1>3 DEF Trees
  <2>2. Replaced(files[h.file], s) \in [Fragments -> Nat]
    BY <1>3, <2>1, ReplacedIs
  <2>3. [files EXCEPT ![h.file] = Replaced(files[h.file], s)] \in Trees
    BY <2>2 DEF Trees
  <2>4. \A f \in DOMAIN SpPristine : f # h.file => Apply(files, h).files[f] = files[f]
    BY <1>3 DEF Trees
  <2>. QED  BY <1>3, <2>3, <2>4 DEF HunkResults
<1>4. Apply(files, h).ok => h.file \in DOMAIN SpPristine
  BY ApplyIs
<1>. QED  BY <1>1, <1>2, <1>3, <1>4, ApplyIs

LEMMA ContinuedIs ==
    ASSUME NEW st \in HunkResults, NEW h \in HunksOf
    PROVE  /\ Continued(st, h) \in HunkResults
           /\ ~st.ok => Continued(st, h) = st
           /\ st.ok => Continued(st, h) = Apply(st.files, h)
<1>1. st.files \in Trees /\ st.ok \in BOOLEAN
  BY DEF HunkResults
<1>2. Apply(st.files, h) \in HunkResults
  BY <1>1, ApplyFacts
<1>3. CASE st.ok = TRUE
  BY <1>2, <1>3 DEF Continued
<1>4. CASE st.ok = FALSE
  BY <1>4 DEF Continued
<1>. QED  BY <1>1, <1>3, <1>4

LEMMA HunkByHunkIs ==
    ASSUME NEW files \in Trees, NEW p \in DOMAIN SpPatches
    PROVE  /\ HunkByHunk(files, p)[0] = [files |-> files, ok |-> TRUE]
           /\ \A j \in 1 .. Len(SpPatches[p]) :
                 HunkByHunk(files, p)[j] = Continued(HunkByHunk(files, p)[j - 1], SpPatches[p][j])
           /\ \A j \in 0 .. Len(SpPatches[p]) : HunkByHunk(files, p)[j] \in HunkResults
<1>. DEFINE n == Len(SpPatches[p])
            start == [files |-> files, ok |-> TRUE]
            g == [j \in 1 .. n |-> [x \in HunkResults |-> Continued(x, SpPatches[p][j])]]
            d == CHOOSE a : a = [j \in 0 .. n |-> IF j = 0 THEN start
                                                  ELSE Continued(a[j - 1], SpPatches[p][j])]
<1>1. n \in Nat /\ \A j \in 1 .. n : SpPatches[p][j] \in HunksOf
  BY HunkIs
<1>2. start \in HunkResults
  BY DEF HunkResults
<1>3. \A j \in 1 .. n : \A x \in HunkResults : Continued(x, SpPatches[p][j]) \in HunkResults
  BY <1>1, ContinuedIs
<1>4. g \in StepFunctions(n, HunkResults)
  BY <1>3 DEF StepFunctions
<1>5. PICK f \in [0 .. n -> HunkResults] : f[0] = start /\ \A j \in 1 .. n : f[j] = g[j][f[j - 1]]
  <2>. HIDE DEF g, n, start
  <2>1. \E f : Unrolled(f, n, HunkResults, g, start)
    BY <1>1, <1>2, <1>4, Unrolls
  <2>. QED  BY <2>1 DEF Unrolled
<1>6. ASSUME NEW j \in 1 .. n PROVE f[j] = Continued(f[j - 1], SpPatches[p][j])
  <2>1. j - 1 \in 0 .. n
    BY <1>1
  <2>2. f[j - 1] \in HunkResults /\ f[j] = g[j][f[j - 1]]
    BY <1>5, <2>1
  <2>. QED  BY <2>2
<1>7. f = [j \in 0 .. n |-> IF j = 0 THEN start ELSE Continued(f[j - 1], SpPatches[p][j])]
  <2>1. f = [j \in 0 .. n |-> f[j]]
    BY <1>5
  <2>2. ASSUME NEW j \in 0 .. n
        PROVE  f[j] = IF j = 0 THEN start ELSE Continued(f[j - 1], SpPatches[p][j])
    <3>1. CASE j = 0
      BY <1>5, <3>1
    <3>2. CASE j # 0
      <4>1. j \in 1 .. n
        BY <3>2
      <4>. QED  BY <1>6, <3>2, <4>1
    <3>. QED  BY <3>1, <3>2
  <2>. HIDE DEF n, start
  <2>. QED  BY <2>1, <2>2
<1>8. d = [j \in 0 .. n |-> IF j = 0 THEN start ELSE Continued(d[j - 1], SpPatches[p][j])]
  <2>. HIDE DEF n, start
  <2>. QED  BY <1>7
<1>9. HunkByHunk(files, p) = d
  BY DEF HunkByHunk
<1>10. d[0] = start
  <2>. HIDE DEF d, start
  <2>. QED  BY <1>1, <1>8
<1>11. ASSUME NEW j \in 1 .. n PROVE d[j] = Continued(d[j - 1], SpPatches[p][j])
  <2>1. j \in 0 .. n /\ j # 0
    BY <1>1
  <2>. HIDE DEF d, start, n
  <2>. QED  BY <1>8, <2>1
<1>12. \A j \in 0 .. n : d[j] \in HunkResults
  <2>. DEFINE S == {k \in Nat : k <= n => d[k] \in HunkResults}
  <2>. HIDE DEF d, start, n
  <2>1. 0 \in S
    BY <1>2, <1>10
  <2>2. ASSUME NEW k \in Nat, k \in S PROVE k + 1 \in S
    <3>1. PICK j : j = k + 1
      OBVIOUS
    <3>2. CASE j <= n
      <4>1. j \in 1 .. n /\ j - 1 = k /\ d[k] \in HunkResults
        BY <1>1, <2>2, <3>1, <3>2
      <4>2. d[j] \in HunkResults
        BY <1>3, <1>11, <4>1
      <4>. QED  BY <3>1, <4>2
    <3>. QED  BY <1>1, <3>1, <3>2
  <2>3. \A k \in Nat : k \in S
    <3>. HIDE DEF S
    <3>. QED  BY <2>1, <2>2, EachStep
  <2>. QED  BY <1>1, <2>3
<1>. QED  BY <1>9, <1>10, <1>11, <1>12

\* A patch that goes in goes in hunk by hunk.
LEMMA RunPatchIs ==
    ASSUME NEW files \in Trees, NEW p \in DOMAIN SpPatches
    PROVE  /\ RunPatch(files, p) \in HunkResults
           /\ RunPatch(files, p).ok =>
                 \A j \in 1 .. Len(SpPatches[p]) :
                    /\ HunkByHunk(files, p)[j] = Apply(HunkByHunk(files, p)[j - 1].files,
                                                       SpPatches[p][j])
                    /\ HunkByHunk(files, p)[j].ok
<1>. DEFINE n == Len(SpPatches[p])
            d == HunkByHunk(files, p)
            U == {k \in 0 .. n : ~d[n - k].ok}
<1>1. n \in Nat /\ \A j \in 1 .. n : SpPatches[p][j] \in HunksOf
  BY HunkIs
<1>2. \A j \in 1 .. n : d[j] = Continued(d[j - 1], SpPatches[p][j])
  BY HunkByHunkIs
<1>3. \A j \in 0 .. n : d[j] \in HunkResults
  BY HunkByHunkIs
<1>4. RunPatch(files, p) = d[n]
  BY DEF RunPatch
<1>. HIDE DEF d, n
<1>5. ASSUME d[n].ok PROVE U = {}
  <2>. SUFFICES ASSUME U # {} PROVE FALSE
    OBVIOUS
  <2>1. PICK k \in U : \A i \in U : k <= i
    <3>1. U \subseteq Nat
      BY <1>1
    <3>. HIDE DEF U
    <3>. QED  BY <3>1, HasLeast
  <2>2. k # 0 /\ k \in 1 .. n
    BY <1>1, <1>5, <2>1
  <2>3. PICK j : j = n - k
    OBVIOUS
  <2>4. PICK i : i = j + 1
    OBVIOUS
  <2>5. i \in 1 .. n /\ i - 1 = j /\ j \in 0 .. n /\ k - 1 \in 0 .. n /\ n - (k - 1) = i
    BY <1>1, <2>2, <2>3, <2>4
  <2>6. ~d[j].ok /\ d[i].ok
    BY <2>1, <2>3, <2>5
  <2>7. d[i] = Continued(d[j], SpPatches[p][i]) /\ d[j] \in HunkResults /\ SpPatches[p][i] \in HunksOf
    BY <1>1, <1>2, <1>3, <2>5
  <2>8. d[i] = d[j]
    BY <2>6, <2>7, ContinuedIs
  <2>. QED  BY <2>6, <2>8
<1>6. ASSUME d[n].ok, NEW j \in 0 .. n PROVE d[j].ok
  <2>1. PICK k : k = n - j
    OBVIOUS
  <2>2. k \in 0 .. n /\ n - k = j
    BY <1>1, <2>1
  <2>. QED  BY <1>5, <1>6, <2>2
<1>7. ASSUME d[n].ok, NEW j \in 1 .. n
      PROVE  d[j] = Apply(d[j - 1].files, SpPatches[p][j]) /\ d[j].ok
  <2>1. j - 1 \in 0 .. n /\ j \in 0 .. n
    BY <1>1
  <2>2. d[j - 1].ok /\ d[j].ok
    BY <1>6, <1>7, <2>1
  <2>. QED  BY <1>1, <1>2, <1>3, <2>1, <2>2, ContinuedIs
<1>8. n \in 0 .. n
  BY <1>1
<1>. QED  BY <1>3, <1>4, <1>7, <1>8 DEF d, n

LEMMA PatchedIs ==
    ASSUME NEW st \in PassResults, NEW p \in DOMAIN SpPatches
    PROVE  /\ Patched(st, p) \in PassResults
           /\ Patched(st, p).files = RunPatch(st.files, p).files
           /\ Patched(st, p).ok = Append(st.ok, RunPatch(st.files, p).ok)
           /\ st.ok \in Seq(BOOLEAN) /\ RunPatch(st.files, p).ok \in BOOLEAN
<1>1. st.files \in Trees /\ st.ok \in Seq(BOOLEAN)
  BY DEF PassResults
<1>2. PICK r : r = RunPatch(st.files, p)
  OBVIOUS
<1>3. r \in HunkResults
  BY <1>1, <1>2, RunPatchIs
<1>4. r.files \in Trees /\ r.ok \in BOOLEAN
  BY <1>3 DEF HunkResults
<1>5. Append(st.ok, r.ok) \in Seq(BOOLEAN)
  BY <1>1, <1>4
<1>6. Patched(st, p) = [files |-> r.files, ok |-> Append(st.ok, r.ok)]
  BY <1>2 DEF Patched
<1>. QED  BY <1>1, <1>2, <1>4, <1>5, <1>6 DEF PassResults

LEMMA PatchByPatchIs ==
    ASSUME NEW files \in Trees, NEW list \in Seq(DOMAIN SpPatches)
    PROVE  /\ PatchByPatch(files, list)[0] = [files |-> files, ok |-> <<>>]
           /\ \A i \in 1 .. Len(list) :
                 PatchByPatch(files, list)[i] = Patched(PatchByPatch(files, list)[i - 1], list[i])
           /\ \A i \in 0 .. Len(list) : PatchByPatch(files, list)[i] \in PassResults
<1>. DEFINE n == Len(list)
            start == [files |-> files, ok |-> <<>>]
            g == [i \in 1 .. n |-> [x \in PassResults |-> Patched(x, list[i])]]
            d == CHOOSE a : a = [i \in 0 .. n |-> IF i = 0 THEN start ELSE Patched(a[i - 1], list[i])]
<1>1. n \in Nat /\ \A i \in 1 .. n : list[i] \in DOMAIN SpPatches
  OBVIOUS
<1>2. start \in PassResults
  <2>1. <<>> \in Seq(BOOLEAN)
    OBVIOUS
  <2>. QED  BY <2>1 DEF PassResults
<1>3. \A i \in 1 .. n : \A x \in PassResults : Patched(x, list[i]) \in PassResults
  BY <1>1, PatchedIs
<1>4. g \in StepFunctions(n, PassResults)
  BY <1>3 DEF StepFunctions
<1>5. PICK f \in [0 .. n -> PassResults] : f[0] = start /\ \A i \in 1 .. n : f[i] = g[i][f[i - 1]]
  <2>. HIDE DEF g, n, start
  <2>1. \E f : Unrolled(f, n, PassResults, g, start)
    BY <1>1, <1>2, <1>4, Unrolls
  <2>. QED  BY <2>1 DEF Unrolled
<1>6. ASSUME NEW i \in 1 .. n PROVE f[i] = Patched(f[i - 1], list[i])
  <2>1. i - 1 \in 0 .. n
    BY <1>1
  <2>2. f[i - 1] \in PassResults /\ f[i] = g[i][f[i - 1]]
    BY <1>5, <2>1
  <2>. QED  BY <2>2
<1>7. f = [i \in 0 .. n |-> IF i = 0 THEN start ELSE Patched(f[i - 1], list[i])]
  <2>1. f = [i \in 0 .. n |-> f[i]]
    BY <1>5
  <2>2. ASSUME NEW i \in 0 .. n
        PROVE  f[i] = IF i = 0 THEN start ELSE Patched(f[i - 1], list[i])
    <3>1. CASE i = 0
      BY <1>5, <3>1
    <3>2. CASE i # 0
      <4>1. i \in 1 .. n
        BY <3>2
      <4>. QED  BY <1>6, <3>2, <4>1
    <3>. QED  BY <3>1, <3>2
  <2>. HIDE DEF n, start
  <2>. QED  BY <2>1, <2>2
<1>8. d = [i \in 0 .. n |-> IF i = 0 THEN start ELSE Patched(d[i - 1], list[i])]
  <2>. HIDE DEF n, start
  <2>. QED  BY <1>7
<1>9. PatchByPatch(files, list) = d
  BY DEF PatchByPatch
<1>10. d[0] = start
  <2>. HIDE DEF d, start
  <2>. QED  BY <1>1, <1>8
<1>11. ASSUME NEW i \in 1 .. n PROVE d[i] = Patched(d[i - 1], list[i])
  <2>1. i \in 0 .. n /\ i # 0
    BY <1>1
  <2>. HIDE DEF d, start, n
  <2>. QED  BY <1>8, <2>1
<1>12. \A i \in 0 .. n : d[i] \in PassResults
  <2>. DEFINE S == {k \in Nat : k <= n => d[k] \in PassResults}
  <2>. HIDE DEF d, start, n
  <2>1. 0 \in S
    BY <1>2, <1>10
  <2>2. ASSUME NEW k \in Nat, k \in S PROVE k + 1 \in S
    <3>1. PICK i : i = k + 1
      OBVIOUS
    <3>2. CASE i <= n
      <4>1. i \in 1 .. n /\ i - 1 = k /\ d[k] \in PassResults
        BY <1>1, <2>2, <3>1, <3>2
      <4>2. d[i] \in PassResults
        BY <1>3, <1>11, <4>1
      <4>. QED  BY <3>1, <4>2
    <3>. QED  BY <1>1, <3>1, <3>2
  <2>3. \A k \in Nat : k \in S
    <3>. HIDE DEF S
    <3>. QED  BY <2>1, <2>2, EachStep
  <2>. QED  BY <1>1, <2>3
<1>. QED  BY <1>9, <1>10, <1>11, <1>12

\* A pass of which no patch fails has every patch go in.
LEMMA AppendedRange ==
    ASSUME NEW T, NEW q \in Seq(T), NEW x \in T
    PROVE  ToSet(Append(q, x)) = ToSet(q) \cup {x}
<1>1. PICK s \in Seq(T) : s = Append(q, x)
  BY AppendProperties
<1>2. DOMAIN s = DOMAIN q \cup {Len(q) + 1} /\ s[Len(q) + 1] = x /\ \A i \in DOMAIN q : s[i] = q[i]
  BY <1>1
<1>3. \A y : y \in ToSet(s) <=> y \in ToSet(q) \cup {x}
  BY <1>2 DEF ToSet
<1>. QED  BY <1>1, <1>3

LEMMA RunPassIs ==
    ASSUME NEW files \in Trees, NEW list \in Seq(DOMAIN SpPatches)
    PROVE  /\ RunPass(files, list) \in PassResults
           /\ FALSE \notin ToSet(RunPass(files, list).ok) =>
                 \A i \in 1 .. Len(list) :
                    RunPatch(PatchByPatch(files, list)[i - 1].files, list[i]).ok
<1>. DEFINE n == Len(list)
            t == PatchByPatch(files, list)
            Broken(i) == FALSE \in ToSet(t[i].ok)
            U == {k \in 0 .. n : Broken(n - k)}
<1>1. n \in Nat /\ \A i \in 1 .. n : list[i] \in DOMAIN SpPatches
  OBVIOUS
<1>2. \A i \in 1 .. n : t[i] = Patched(t[i - 1], list[i])
  BY PatchByPatchIs
<1>3. \A i \in 0 .. n : t[i] \in PassResults
  BY PatchByPatchIs
<1>4. RunPass(files, list) = t[n]
  BY DEF RunPass
<1>. HIDE DEF t, n
<1>5. ASSUME NEW i \in 1 .. n
      PROVE  /\ RunPatch(t[i - 1].files, list[i]).ok \in BOOLEAN
             /\ ToSet(t[i].ok) = ToSet(t[i - 1].ok) \cup {RunPatch(t[i - 1].files, list[i]).ok}
  <2>1. PICK a : a = t[i - 1]
    OBVIOUS
  <2>2. i - 1 \in 0 .. n
    BY <1>1
  <2>3. a \in PassResults /\ list[i] \in DOMAIN SpPatches /\ t[i] = Patched(a, list[i])
    BY <1>1, <1>2, <1>3, <2>1, <2>2
  <2>4. PICK r : r = RunPatch(a.files, list[i]).ok
    OBVIOUS
  <2>5. t[i].ok = Append(a.ok, r) /\ a.ok \in Seq(BOOLEAN) /\ r \in BOOLEAN
    <3>1. Patched(a, list[i]).ok = Append(a.ok, RunPatch(a.files, list[i]).ok)
      BY <2>3, PatchedIs
    <3>2. a.ok \in Seq(BOOLEAN) /\ RunPatch(a.files, list[i]).ok \in BOOLEAN
      BY <2>3, PatchedIs
    <3>. QED  BY <2>3, <2>4, <3>1, <3>2
  <2>6. ToSet(Append(a.ok, r)) = ToSet(a.ok) \cup {r}
    BY <2>5, AppendedRange
  <2>. QED  BY <2>1, <2>4, <2>5, <2>6
<1>6. \A i \in 1 .. n : ~Broken(i) => ~Broken(i - 1)
  BY <1>5
<1>7. ASSUME ~Broken(n) PROVE U = {}
  <2>. HIDE DEF Broken
  <2>. SUFFICES ASSUME U # {} PROVE FALSE
    OBVIOUS
  <2>1. PICK k \in U : \A i \in U : k <= i
    <3>1. U \subseteq Nat
      BY <1>1
    <3>. HIDE DEF U
    <3>. QED  BY <3>1, HasLeast
  <2>2. k # 0 /\ k \in 1 .. n
    BY <1>1, <1>7, <2>1
  <2>3. PICK j : j = n - k
    OBVIOUS
  <2>4. PICK i : i = j + 1
    OBVIOUS
  <2>5. i \in 1 .. n /\ i - 1 = j /\ j \in 0 .. n /\ k - 1 \in 0 .. n /\ n - (k - 1) = i
    BY <1>1, <2>2, <2>3, <2>4
  <2>6. Broken(j) /\ ~Broken(i)
    BY <2>1, <2>3, <2>5
  <2>. QED  BY <1>6, <2>5, <2>6
<1>8. ASSUME ~Broken(n), NEW i \in 1 .. n
      PROVE  RunPatch(t[i - 1].files, list[i]).ok
  <2>1. PICK k : k = n - i
    OBVIOUS
  <2>2. k \in 0 .. n /\ n - k = i
    BY <1>1, <2>1
  <2>3. ~Broken(i)
    <3>. HIDE DEF Broken
    <3>. QED  BY <1>7, <1>8, <2>2
  <2>. QED  BY <1>5, <2>3
<1>9. n \in 0 .. n
  BY <1>1
<1>. QED  BY <1>3, <1>4, <1>8, <1>9 DEF t, n

-----------------------------------------------------------------------------
(* SourcePatcher: the launcher's hunks, by place, and the text before each *)

Image == RunPass(Pristine, SpBaked)
TreeBefore(i) == PatchByPatch(Image.files, SpLaunch)[i - 1].files

Places == {a \in Nat \X Nat : a[1] \in DOMAIN SpLaunch /\ a[2] \in DOMAIN SpPatches[SpLaunch[a[1]]]}
PastEnd == <<Len(SpLaunch) + 1, 1>>
HunkAt(a) == SpPatches[SpLaunch[a[1]]][a[2]]
LaunchHunks == {HunkAt(a) : a \in Places}

TextAt(a) ==
    IF a[1] \in DOMAIN SpLaunch THEN HunkByHunk(TreeBefore(a[1]), SpLaunch[a[1]])[a[2] - 1].files
    ELSE TreeBefore(a[1])

NextPlace(a) ==
    IF a[2] < Len(SpPatches[SpLaunch[a[1]]]) THEN <<a[1], a[2] + 1>> ELSE <<a[1] + 1, 1>>
Precedes(a, b) == a[1] < b[1] \/ (a[1] = b[1] /\ a[2] < b[2])

\* Every verdict of the audit is that the patch goes in.
AuditClear ==
    /\ FALSE \notin ToSet(Image.ok)
    /\ FALSE \notin ToSet(RunPass(Image.files, SpLaunch).ok)
    /\ \A p \in ToSet(SpBaked) \cup ToSet(SpLaunch) : RunPatch(TreeFor(p), p).ok

\* A hunk of the launcher puts its sentinel in, whichever shape fits, and no hunk takes
\* the sentinel of another out of its file.
Marked ==
    \A h \in LaunchHunks : \A s \in ToSet(h.shapes) :
       /\ h.sentinel \in s.adds
       /\ ~s.keeps => \A g \in LaunchHunks : g.file = h.file => g.sentinel # s.anchor

InTree(files, h) == h.file \in DOMAIN SpPristine /\ Applied(files[h.file], h)

LEMMA PlaceIs ==
    ASSUME NEW a \in Places
    PROVE  /\ a[1] \in Nat /\ a[2] \in Nat /\ a = <<a[1], a[2]>>
           /\ a[1] \in 1 .. Len(SpLaunch) /\ SpLaunch[a[1]] \in DOMAIN SpPatches
           /\ a[2] \in 1 .. Len(SpPatches[SpLaunch[a[1]]])
           /\ HunkAt(a) \in HunksOf /\ HunkAt(a) \in LaunchHunks
           /\ Len(SpPatches[SpLaunch[a[1]]]) \in Nat
<1>1. a[1] \in Nat /\ a[2] \in Nat /\ a = <<a[1], a[2]>>
  BY DEF Places
<1>2. a[1] \in 1 .. Len(SpLaunch) /\ SpLaunch[a[1]] \in DOMAIN SpPatches
  BY SMTT(30), PatchAssumption DEF Places
<1>3. SpPatches[SpLaunch[a[1]]] \in Seq(HunksOf)
  BY <1>2, HunkIs
<1>4. a[2] \in 1 .. Len(SpPatches[SpLaunch[a[1]]])
  BY <1>3 DEF Places
<1>. QED  BY <1>1, <1>2, <1>3, <1>4 DEF HunkAt, LaunchHunks

LEMMA PlacesInOrder ==
    /\ <<1, 1>> \in Places \cup {PastEnd}
    /\ \A a \in Places : NextPlace(a) \in Places \cup {PastEnd} /\ Precedes(a, PastEnd)
    /\ \A k \in Places \cup {PastEnd} :
          /\ k[1] \in Nat /\ k[2] \in Nat /\ k = <<k[1], k[2]>>
          /\ k = <<1, 1>> \/ Precedes(<<1, 1>>, k)
          /\ ~Precedes(PastEnd, k)
          /\ k[1] \in DOMAIN SpLaunch <=> k \in Places
    /\ \A a \in Places : ~Precedes(a, <<1, 1>>)
    /\ \A a, b \in Places : Precedes(b, NextPlace(a)) => b = a \/ Precedes(b, a)
    /\ \A a \in Places, k \in Places \cup {PastEnd} :
          Precedes(a, k) => NextPlace(a) = k \/ Precedes(NextPlace(a), k)
<1>1. PICK n \in Nat : n = Len(SpLaunch) /\ DOMAIN SpLaunch = 1 .. n
  <2>1. SpLaunch \in Seq(DOMAIN SpPatches)
    BY PatchAssumption
  <2>. QED  BY <2>1, LenProperties
<1>2. PastEnd = <<n + 1, 1>> /\ PastEnd[1] = n + 1 /\ PastEnd[2] = 1
  BY <1>1 DEF PastEnd
<1>3. ASSUME NEW i \in 1 .. n
      PROVE  /\ Len(SpPatches[SpLaunch[i]]) \in Nat \ {0}
             /\ DOMAIN SpPatches[SpLaunch[i]] = 1 .. Len(SpPatches[SpLaunch[i]])
  <2>1. SpLaunch[i] \in DOMAIN SpPatches
    BY <1>1, PatchAssumption
  <2>. QED  BY <2>1, HunkIs
<1>4. ASSUME NEW i \in 1 .. n, NEW j \in 1 .. Len(SpPatches[SpLaunch[i]]) PROVE <<i, j>> \in Places
  <2>1. i \in Nat /\ j \in Nat
    BY <1>3
  <2>. QED  BY <1>1, <1>3, <2>1 DEF Places
<1>5. ASSUME NEW a \in Places
      PROVE  a[1] \in 1 .. n /\ a[2] \in 1 .. Len(SpPatches[SpLaunch[a[1]]]) /\ a = <<a[1], a[2]>>
  BY <1>1, PlaceIs
<1>6. <<1, 1>> \in Places \cup {PastEnd}
  <2>1. CASE n = 0
    BY <1>2, <2>1
  <2>2. CASE n # 0
    <3>1. 1 \in 1 .. n
      BY <2>2
    <3>2. 1 \in 1 .. Len(SpPatches[SpLaunch[1]])
      BY <1>3, <3>1
    <3>. QED  BY <1>4, <3>1, <3>2
  <2>. QED  BY <2>1, <2>2
<1>7. ASSUME NEW a \in Places PROVE NextPlace(a) \in Places \cup {PastEnd} /\ Precedes(a, PastEnd)
  <2>1. PICK m \in Nat \ {0} : m = Len(SpPatches[SpLaunch[a[1]]]) /\ a[2] \in 1 .. m
    BY <1>3, <1>5
  <2>2. CASE a[2] < m
    <3>1. a[2] + 1 \in 1 .. m
      BY <2>1, <2>2
    <3>2. NextPlace(a) = <<a[1], a[2] + 1>>
      BY <2>1, <2>2 DEF NextPlace
    <3>. QED  BY <1>2, <1>4, <1>5, <2>1, <3>1, <3>2 DEF Precedes
  <2>3. CASE ~(a[2] < m)
    <3>1. NextPlace(a) = <<a[1] + 1, 1>>
      BY <2>1, <2>3 DEF NextPlace
    <3>2. CASE a[1] = n
      BY <1>2, <1>5, <3>1, <3>2 DEF Precedes
    <3>3. CASE a[1] # n
      <4>1. PICK i \in 1 .. n : i = a[1] + 1
        BY <1>5, <3>3
      <4>2. 1 \in 1 .. Len(SpPatches[SpLaunch[i]])
        BY <1>3
      <4>. QED  BY <1>2, <1>4, <1>5, <3>1, <4>1, <4>2 DEF Precedes
    <3>. QED  BY <3>2, <3>3
  <2>. QED  BY <2>2, <2>3
<1>8. ASSUME NEW k \in Places \cup {PastEnd}
      PROVE  /\ k[1] \in 1 .. n + 1 /\ k[2] \in Nat \ {0} /\ k = <<k[1], k[2]>>
             /\ k[1] \in 1 .. n <=> k \in Places
             /\ k[1] = n + 1 => k[2] = 1
  <2>1. CASE k \in Places
    BY <1>5, <2>1
  <2>2. CASE k = PastEnd
    <3>1. k \notin Places
      BY <1>2, <1>5, <2>2
    <3>. QED  BY <1>2, <2>2, <3>1
  <2>. QED  BY <2>1, <2>2
<1>9. ASSUME NEW k \in Places \cup {PastEnd}
      PROVE  (k = <<1, 1>> \/ Precedes(<<1, 1>>, k)) /\ ~Precedes(PastEnd, k)
  BY <1>2, <1>8 DEF Precedes
<1>10. ASSUME NEW a \in Places PROVE ~Precedes(a, <<1, 1>>)
  BY <1>5 DEF Precedes
<1>11. ASSUME NEW a \in Places, NEW b \in Places, Precedes(b, NextPlace(a))
       PROVE  b = a \/ Precedes(b, a)
  <2>1. PICK m : m = Len(SpPatches[SpLaunch[a[1]]])
    OBVIOUS
  <2>2. a[2] \in 1 .. m /\ m \in Nat /\ a[1] \in 1 .. n /\ b[1] \in 1 .. n /\ b[2] \in Nat /\ a[2] \in Nat
    BY <1>3, <1>5, <2>1
  <2>3. a = <<a[1], a[2]>> /\ b = <<b[1], b[2]>>
    BY <1>5
  <2>4. b[1] = a[1] => b[2] \in 1 .. m
    BY <1>5, <2>1
  <2>5. CASE a[2] < m
    <3>1. NextPlace(a) = <<a[1], a[2] + 1>>
      BY <2>1, <2>5 DEF NextPlace
    <3>. QED  BY <1>11, <2>2, <2>3, <3>1 DEF Precedes
  <2>6. CASE ~(a[2] < m)
    <3>1. NextPlace(a) = <<a[1] + 1, 1>>
      BY <2>1, <2>6 DEF NextPlace
    <3>2. b[1] < a[1] + 1 \/ (b[1] = a[1] + 1 /\ b[2] < 1)
      BY <1>11, <3>1 DEF Precedes
    <3>3. b[2] >= 1
      BY <1>5, <1>3
    <3>4. b[1] < a[1] \/ (b[1] = a[1] /\ b[2] <= a[2])
      BY <2>2, <2>4, <2>6, <3>2, <3>3
    <3>. QED  BY <2>2, <2>3, <3>4 DEF Precedes
  <2>. QED  BY <2>5, <2>6
<1>12. ASSUME NEW a \in Places, NEW k \in Places \cup {PastEnd}, Precedes(a, k)
       PROVE  NextPlace(a) = k \/ Precedes(NextPlace(a), k)
  <2>1. PICK m : m = Len(SpPatches[SpLaunch[a[1]]])
    OBVIOUS
  <2>2. a[2] \in 1 .. m /\ m \in Nat /\ a[1] \in 1 .. n /\ k[1] \in 1 .. n + 1 /\ k[2] \in Nat \ {0}
    BY <1>3, <1>5, <1>8, <2>1
  <2>3. k = <<k[1], k[2]>>
    BY <1>8
  <2>4. k[1] = a[1] => k[2] \in 1 .. m
    BY <1>5, <1>8, <2>1, <2>2
  <2>5. a[1] < k[1] \/ (a[1] = k[1] /\ a[2] < k[2])
    BY <1>12 DEF Precedes
  <2>6. CASE a[2] < m
    <3>1. NextPlace(a) = <<a[1], a[2] + 1>>
      BY <2>1, <2>6 DEF NextPlace
    <3>2. a[1] < k[1] \/ (a[1] = k[1] /\ (a[2] + 1 < k[2] \/ a[2] + 1 = k[2]))
      BY <2>2, <2>5
    <3>. QED  BY <2>3, <3>1, <3>2 DEF Precedes
  <2>7. CASE ~(a[2] < m)
    <3>1. NextPlace(a) = <<a[1] + 1, 1>>
      BY <2>1, <2>7 DEF NextPlace
    <3>2. a[1] + 1 < k[1] \/ (a[1] + 1 = k[1] /\ (1 < k[2] \/ 1 = k[2]))
      BY <2>2, <2>4, <2>5, <2>7
    <3>. QED  BY <2>3, <3>1, <3>2 DEF Precedes
  <2>. QED  BY <2>6, <2>7
<1>13. ASSUME NEW k \in Places \cup {PastEnd}
       PROVE  k[1] \in Nat /\ k[2] \in Nat /\ k = <<k[1], k[2]>> /\ (k[1] \in DOMAIN SpLaunch <=> k \in Places)
  BY <1>1, <1>8
<1>. QED  BY <1>6, <1>7, <1>9, <1>10, <1>11, <1>12, <1>13

\* The launcher's text before a place, and what the hunk there makes of it.
LEMMA TextAtIs ==
    ASSUME AuditClear
    PROVE  /\ Image \in PassResults /\ TextAt(<<1, 1>>) = Image.files /\ TextAt(PastEnd) = Meant
           /\ \A k \in Places \cup {PastEnd} : TextAt(k) \in Trees
           /\ \A a \in Places :
                 Apply(TextAt(a), HunkAt(a)).ok
                 /\ Apply(TextAt(a), HunkAt(a)).files = TextAt(NextPlace(a))
<1>. DEFINE n == Len(SpLaunch)
            t == PatchByPatch(Image.files, SpLaunch)
<1>1. Image \in PassResults
  BY PristineIsTree, PatchAssumption, RunPassIs DEF Image
<1>2. Image.files \in Trees
  BY <1>1 DEF PassResults
<1>3. SpLaunch \in Seq(DOMAIN SpPatches)
  BY PatchAssumption
<1>4. n \in Nat /\ DOMAIN SpLaunch = 1 .. n /\ \A i \in 1 .. n : SpLaunch[i] \in DOMAIN SpPatches
  BY <1>3
<1>5. t[0] = [files |-> Image.files, ok |-> <<>>]
  BY <1>2, <1>3, PatchByPatchIs
<1>6. \A i \in 1 .. n : t[i] = Patched(t[i - 1], SpLaunch[i])
  BY <1>2, <1>3, PatchByPatchIs
<1>7. \A i \in 0 .. n : t[i] \in PassResults
  BY <1>2, <1>3, PatchByPatchIs
<1>8. \A i \in 1 .. n : RunPatch(t[i - 1].files, SpLaunch[i]).ok
  BY <1>2, <1>3, RunPassIs DEF AuditClear
<1>9. Meant = t[n].files
  BY DEF Meant, RunPass, Image
<1>10. \A i : TreeBefore(i) = t[i - 1].files
  BY DEF TreeBefore
<1>. HIDE DEF t, n
<1>11. ASSUME NEW i \in 1 .. n + 1 PROVE TreeBefore(i) \in Trees
  <2>1. i - 1 \in 0 .. n
    BY <1>4
  <2>. QED  BY <1>7, <1>10, <2>1 DEF PassResults
<1>12. ASSUME NEW i \in 1 .. n
       PROVE  /\ HunkByHunk(TreeBefore(i), SpLaunch[i])[0].files = TreeBefore(i)
              /\ TreeBefore(i + 1) =
                    HunkByHunk(TreeBefore(i), SpLaunch[i])[Len(SpPatches[SpLaunch[i]])].files
              /\ RunPatch(TreeBefore(i), SpLaunch[i]).ok
  <2>1. i - 1 \in 0 .. n /\ i \in 1 .. n + 1
    BY <1>4
  <2>2. TreeBefore(i) \in Trees /\ SpLaunch[i] \in DOMAIN SpPatches
    BY <1>4, <1>11, <2>1
  <2>3. TreeBefore(i) = t[i - 1].files
    BY <1>10
  <2>4. TreeBefore(i + 1) = t[i].files
    <3>1. i + 1 - 1 = i
      BY <1>4
    <3>. QED  BY <1>10, <3>1
  <2>5. t[i].files = RunPatch(t[i - 1].files, SpLaunch[i]).files
    <3>1. t[i - 1] \in PassResults /\ t[i] = Patched(t[i - 1], SpLaunch[i])
      BY <1>6, <1>7, <2>1
    <3>. QED  BY <2>2, <3>1, PatchedIs
  <2>6. HunkByHunk(TreeBefore(i), SpLaunch[i])[0].files = TreeBefore(i)
    <3>1. HunkByHunk(TreeBefore(i), SpLaunch[i])[0] = [files |-> TreeBefore(i), ok |-> TRUE]
      BY <2>2, HunkByHunkIs
    <3>. QED  BY <3>1
  <2>7. RunPatch(TreeBefore(i), SpLaunch[i]).ok
    BY <1>8, <2>3
  <2>. QED  BY <2>3, <2>4, <2>5, <2>6, <2>7 DEF RunPatch
<1>13. ASSUME NEW i \in 1 .. n + 1 PROVE TextAt(<<i, 1>>) = TreeBefore(i)
  <2>1. CASE i \in 1 .. n
    BY <1>4, <1>12, <2>1 DEF TextAt
  <2>2. CASE i \notin 1 .. n
    BY <1>4, <2>2 DEF TextAt
  <2>. QED  BY <2>1, <2>2
<1>14. TextAt(<<1, 1>>) = Image.files
  <2>1. 1 \in 1 .. n + 1
    BY <1>4
  <2>2. TreeBefore(1) = t[0].files
    BY <1>10
  <2>. QED  BY <1>5, <1>13, <2>1, <2>2
<1>15. TextAt(PastEnd) = Meant
  <2>1. n + 1 \in 1 .. n + 1 /\ n + 1 - 1 = n
    BY <1>4
  <2>2. PastEnd = <<n + 1, 1>>
    BY DEF PastEnd, n
  <2>3. TreeBefore(n + 1) = t[n].files
    <3>1. PICK i : i = n + 1
      OBVIOUS
    <3>2. TreeBefore(i) = t[i - 1].files
      BY <1>10
    <3>3. i - 1 = n
      BY <1>4, <3>1
    <3>. QED  BY <3>1, <3>2, <3>3
  <2>. QED  BY <1>9, <1>13, <2>1, <2>2, <2>3
<1>16. ASSUME NEW a \in Places
       PROVE  /\ TextAt(a) \in Trees /\ Apply(TextAt(a), HunkAt(a)).ok
              /\ Apply(TextAt(a), HunkAt(a)).files = TextAt(NextPlace(a))
  <2>1. PICK i \in 1 .. n, j \in Nat : a = <<i, j>> /\ j \in 1 .. Len(SpPatches[SpLaunch[i]])
    BY PlaceIs DEF n
  <2>2. PICK p \in DOMAIN SpPatches : p = SpLaunch[i]
    BY <1>4
  <2>3. PICK files \in Trees : files = TreeBefore(i)
    BY <1>4, <1>11
  <2>4. PICK m \in Nat \ {0} : m = Len(SpPatches[p])
    BY HunkIs
  <2>5. PICK d : d = HunkByHunk(files, p)
    OBVIOUS
  <2>6. j \in 1 .. m /\ j - 1 \in 0 .. m /\ j \in 0 .. m
    BY <2>1, <2>2, <2>4
  <2>7. d[j - 1] \in HunkResults /\ d[j] \in HunkResults
    BY <2>4, <2>5, <2>6, HunkByHunkIs
  <2>8. RunPatch(files, p).ok
    BY <1>12, <2>2, <2>3
  <2>9. d[j] = Apply(d[j - 1].files, SpPatches[p][j]) /\ d[j].ok
    BY <2>4, <2>5, <2>6, <2>8, RunPatchIs
  <2>10. TextAt(a) = d[j - 1].files
    BY <1>4, <2>1, <2>2, <2>3, <2>5 DEF TextAt
  <2>11. HunkAt(a) = SpPatches[p][j]
    BY <2>1, <2>2 DEF HunkAt
  <2>12. TextAt(NextPlace(a)) = d[j].files
    <3>1. CASE j < m
      <4>1. NextPlace(a) = <<i, j + 1>>
        BY <2>1, <2>2, <2>4, <3>1 DEF NextPlace
      <4>2. j + 1 - 1 = j
        OBVIOUS
      <4>. QED  BY <1>4, <2>2, <2>3, <2>5, <4>1, <4>2 DEF TextAt
    <3>2. CASE ~(j < m)
      <4>1. NextPlace(a) = <<i + 1, 1>> /\ j = m
        BY <2>1, <2>2, <2>4, <2>6, <3>2 DEF NextPlace
      <4>2. i + 1 \in 1 .. n + 1
        BY <1>4
      <4>3. TextAt(<<i + 1, 1>>) = TreeBefore(i + 1)
        BY <1>13, <4>2
      <4>4. TreeBefore(i + 1) = d[m].files
        BY <1>12, <2>2, <2>3, <2>4, <2>5
      <4>. QED  BY <4>1, <4>3, <4>4
    <3>. QED  BY <3>1, <3>2
  <2>13. d[j - 1].files \in Trees
    BY <2>7 DEF HunkResults
  <2>. QED  BY <2>9, <2>10, <2>11, <2>12, <2>13
<1>17. TextAt(PastEnd) \in Trees
  <2>1. n \in 0 .. n
    BY <1>4
  <2>. QED  BY <1>7, <1>9, <1>15, <2>1 DEF PassResults
<1>. QED  BY <1>1, <1>14, <1>15, <1>16, <1>17

\* A hunk that goes in leaves its sentinel and those of the others where they are.
LEMMA MarksKept ==
    ASSUME Marked, NEW files \in Trees, NEW h \in LaunchHunks, Apply(files, h).ok
    PROVE  /\ InTree(Apply(files, h).files, h)
           /\ \A g \in LaunchHunks : InTree(files, g) => InTree(Apply(files, h).files, g)
<1>1. LaunchHunks \subseteq HunksOf
  BY PlaceIs DEF LaunchHunks
<1>2. \A g \in LaunchHunks : \A s \in ToSet(g.shapes) : g.sentinel \in s.adds /\ s.adds \subseteq Fragments
  BY <1>1 DEF Marked, Fragments
<1>3. CASE Apply(files, h) = [files |-> files, ok |-> TRUE]
           /\ h.file \in DOMAIN SpPristine /\ Applied(files[h.file], h)
  BY <1>3 DEF InTree
<1>4. ASSUME h.file \in DOMAIN SpPristine, NEW s \in ToSet(h.shapes), AnchorFits(files[h.file], s),
             Apply(files, h) = [files |-> [files EXCEPT ![h.file] = Replaced(files[h.file], s)],
                                ok |-> TRUE]
      PROVE  /\ InTree(Apply(files, h).files, h)
             /\ \A g \in LaunchHunks : InTree(files, g) => InTree(Apply(files, h).files, g)
  <2>1. PICK text : text = files[h.file]
    OBVIOUS
  <2>2. text \in [Fragments -> Nat]
    BY <1>4, <2>1 DEF Trees
  <2>3. PICK new : new = Replaced(text, s)
    OBVIOUS
  <2>4. /\ new \in [Fragments -> Nat]
        /\ \A t \in Fragments : (t # s.anchor \/ s.keeps) => new[t] >= text[t]
        /\ \A t \in Fragments : (t \in s.adds /\ (t # s.anchor \/ s.keeps)) => new[t] > 0
    BY <1>4, <2>1, <2>2, <2>3, ReplacedIs
  <2>5. \A g \in LaunchHunks : g.file = h.file => (g.sentinel # s.anchor \/ s.keeps)
    BY <1>4 DEF Marked
  <2>6. PICK after : after = Apply(files, h).files
    OBVIOUS
  <2>7. after[h.file] = new /\ \A f \in DOMAIN SpPristine : f # h.file => after[f] = files[f]
    BY <1>4, <2>1, <2>3, <2>6 DEF Trees
  <2>8. h.sentinel \in s.adds /\ h.sentinel \in Fragments
    BY <1>2, <1>4
  <2>9. new[h.sentinel] > 0
    BY <2>4, <2>5, <2>8
  <2>10. InTree(after, h)
    BY <1>4, <2>7, <2>8, <2>9 DEF InTree, Applied, Count
  <2>11. ASSUME NEW g \in LaunchHunks, InTree(files, g) PROVE InTree(after, g)
    <3>1. CASE g.file # h.file
      BY <2>7, <2>11, <3>1 DEF InTree
    <3>2. CASE g.file = h.file
      <4>1. Count(text, g.sentinel) > 0
        BY <2>1, <2>11, <3>2 DEF InTree, Applied
      <4>2. g.sentinel \in Fragments /\ text[g.sentinel] > 0
        BY <4>1 DEF Count
      <4>3. new[g.sentinel] >= text[g.sentinel] /\ new[g.sentinel] \in Nat /\ text[g.sentinel] \in Nat
        BY <2>2, <2>4, <2>5, <3>2, <4>2
      <4>4. new[g.sentinel] > 0
        BY <4>2, <4>3
      <4>. QED  BY <1>4, <2>7, <3>2, <4>2, <4>4 DEF InTree, Applied, Count
    <3>. QED  BY <3>1, <3>2
  <2>. QED  BY <2>6, <2>10, <2>11
<1>. QED  BY <1>1, <1>3, <1>4, ApplyIs

-----------------------------------------------------------------------------
(* SourcePatcher: a hunk on the text of its file                           *)

Fitting(text, h) == {i \in DOMAIN h.shapes : AnchorFits(text, h.shapes[i])}
GoesIn(text, h) == Applied(text, h) \/ Fitting(text, h) # {}
TextAfter(text, h) ==
    IF Applied(text, h) \/ Fitting(text, h) = {} THEN text
    ELSE Replaced(text, h.shapes[CHOOSE i \in Fitting(text, h) :
                                    \A j \in Fitting(text, h) : i <= j])

\* What a hunk does to its file is settled by that file's text.
LEMMA ApplyIsLocal ==
    ASSUME NEW files \in Trees, NEW h \in HunksOf, h.file \in DOMAIN SpPristine
    PROVE  /\ Apply(files, h).ok <=> GoesIn(files[h.file], h)
           /\ Apply(files, h).files[h.file] = TextAfter(files[h.file], h)
<1>0. DOMAIN files = DOMAIN SpPristine
  BY DEF Trees
<1>1. PICK text : text = files[h.file]
  OBVIOUS
<1>2. PICK fit : fit = {i \in DOMAIN h.shapes : AnchorFits(text, h.shapes[i])}
  OBVIOUS
<1>3. PICK new : new = Replaced(text, h.shapes[CHOOSE i \in fit : \A j \in fit : i <= j])
  OBVIOUS
<1>4. Apply(files, h) =
         IF Applied(text, h) THEN [files |-> files, ok |-> TRUE]
         ELSE IF fit = {} THEN [files |-> files, ok |-> FALSE]
         ELSE [files |-> [files EXCEPT ![h.file] = new], ok |-> TRUE]
  BY <1>0, <1>1, <1>2, <1>3 DEF Apply
<1>5. Fitting(text, h) = fit
  BY <1>2 DEF Fitting
<1>6. TextAfter(text, h) = IF Applied(text, h) \/ fit = {} THEN text ELSE new
  BY <1>3, <1>5 DEF TextAfter
<1>7. GoesIn(text, h) <=> Applied(text, h) \/ fit # {}
  BY <1>5 DEF GoesIn
<1>8. [files EXCEPT ![h.file] = new][h.file] = new
  BY <1>0
<1>9. CASE Applied(text, h)
  BY <1>1, <1>4, <1>6, <1>7, <1>9
<1>10. CASE ~Applied(text, h) /\ fit = {}
  BY <1>1, <1>4, <1>6, <1>7, <1>10
<1>11. CASE ~Applied(text, h) /\ fit # {}
  BY <1>1, <1>4, <1>6, <1>7, <1>8, <1>11
<1>. QED  BY <1>9, <1>10, <1>11

\* No hunk puts back the closing lines of a file that was cut short of them.
LEMMA CutStaysCut ==
    ASSUME NEW files \in Trees, NEW h \in HunksOf, NEW f \in DOMAIN SpPristine,
           files[f][Closing] = 0
    PROVE  Apply(files, h).files[f][Closing] = 0
<1>1. Closing \in Fragments
  BY PatchAssumption DEF Fragments
<1>2. \A s \in ToSet(h.shapes) : Closing \notin s.adds
  BY PatchAssumption DEF HunksOf
<1>3. CASE f # h.file
  BY <1>3, ApplyFacts
<1>4. ASSUME f = h.file, NEW s \in ToSet(h.shapes), AnchorFits(files[h.file], s),
             Apply(files, h) = [files |-> [files EXCEPT ![h.file] = Replaced(files[h.file], s)],
                                ok |-> TRUE]
      PROVE  Apply(files, h).files[f][Closing] = 0
  <2>1. PICK text \in [Fragments -> Nat] : text = files[f]
    BY DEF Trees
  <2>2. s.anchor # Closing
    BY <1>4, <2>1 DEF AnchorFits, Count
  <2>3. Replaced(text, s)[Closing] = text[Closing]
    BY <1>1, <1>2, <1>4, <2>1, <2>2 DEF Replaced
  <2>4. Apply(files, h).files[f] = Replaced(text, s)
    BY <1>4, <2>1 DEF Trees
  <2>. QED  BY <2>1, <2>3, <2>4
<1>. QED  BY <1>3, <1>4, ApplyIs

-----------------------------------------------------------------------------
(* SourcePatcher: the invariant, and the theorem                           *)

SpPhases == {"audit", "image", "stopped", "run", "serve", "failed"}
ClearReport ==
    [alone |-> [p \in ToSet(SpBaked) \cup ToSet(SpLaunch) |-> RunPatch(TreeFor(p), p).ok],
     ordered |-> ToSet(Image.ok) \cup ToSet(RunPass(Image.files, SpLaunch).ok)]

\* The launcher has come as far as place k in a file, in this start or in one before.
Reached(f, k) ==
    /\ spFiles[f] = TextAt(k)[f]
    /\ \A a \in Places : Precedes(a, k) /\ HunkAt(a).file = f => InTree(spFiles, HunkAt(a))

SpTypeOK ==
    /\ spFiles \in Trees /\ spAt \in Places \cup {PastEnd} /\ spPhase \in SpPhases
    /\ spTorn \subseteq DOMAIN SpPristine

\* A file that no stop cut short is that of some place, and this start has not passed it.
Ahead(f, k) ==
    /\ Reached(f, k)
    /\ spPhase = "run" => spAt = k \/ Precedes(spAt, k)
    /\ spPhase = "serve" => k = PastEnd

WholeOrAhead ==
    spPhase \in {"stopped", "run", "serve"} =>
       \A f \in DOMAIN SpPristine \ spTorn : \E k \in Places \cup {PastEnd} : Ahead(f, k)

\* A file that was cut short stays so, and no start fails unless there is one.
TornCut ==
    /\ \A f \in spTorn : spFiles[f][Closing] = 0
    /\ spPhase \in {"audit", "image"} => spTorn = {}
    /\ spPhase = "failed" => spTorn # {}

SpInv ==
    /\ SpTypeOK /\ WholeOrAhead /\ TornCut
    /\ spPhase # "audit" => spReport = ClearReport

LEMMA SpInitOK == SpInit => SpInv
BY PristineIsTree, PlacesInOrder
   DEF SpInit, SpInv, SpTypeOK, SpPhases, WholeOrAhead, TornCut

LEMMA AuditKeeps == SpInv /\ Audit => SpInv'
<1>. SUFFICES ASSUME SpInv, Audit PROVE SpInv'
  OBVIOUS
<1>1. spPhase = "audit" /\ spPhase' = "image" /\ UNCHANGED <<spFiles, spAt, spStarted, spTorn>>
  BY DEF Audit
<1>2. spReport' = ClearReport
  BY DEF Audit, ClearReport, Image
<1>3. SpTypeOK'
  BY <1>1 DEF SpInv, SpTypeOK, SpPhases
<1>4. WholeOrAhead'
  BY <1>1 DEF WholeOrAhead
<1>5. TornCut'
  BY <1>1 DEF SpInv, TornCut
<1>. QED  BY <1>2, <1>3, <1>4, <1>5 DEF SpInv

LEMMA BuildImageKeeps == AuditClear /\ SpInv /\ BuildImage => SpInv'
<1>. SUFFICES ASSUME AuditClear, SpInv, BuildImage PROVE SpInv'
  OBVIOUS
<1>1. /\ spPhase = "image" /\ spFiles' = Image.files /\ spPhase' = "stopped"
      /\ UNCHANGED <<spReport, spAt, spStarted, spTorn>>
  BY DEF BuildImage, Image, AuditClear
<1>2. Image.files \in Trees /\ TextAt(<<1, 1>>) = Image.files
  BY TextAtIs DEF PassResults
<1>3. spTorn = {}
  BY <1>1 DEF SpInv, TornCut
<1>4. SpTypeOK'
  BY <1>1, <1>2 DEF SpInv, SpTypeOK, SpPhases
<1>5. WholeOrAhead'
  <2>1. <<1, 1>> \in Places \cup {PastEnd} /\ \A a \in Places : ~Precedes(a, <<1, 1>>)
    BY PlacesInOrder
  <2>2. \A f \in DOMAIN SpPristine : Reached(f, <<1, 1>>)'
    BY <1>1, <1>2, <2>1 DEF Reached
  <2>3. \A f \in DOMAIN SpPristine : Ahead(f, <<1, 1>>)'
    BY <1>1, <2>2 DEF Ahead
  <2>. QED  BY <2>1, <2>3 DEF WholeOrAhead
<1>6. TornCut'
  BY <1>1, <1>3 DEF TornCut
<1>. QED  BY <1>1, <1>4, <1>5, <1>6 DEF SpInv

\* The files alone say how far the launcher has come in one of them.
LEMMA ReachedKept ==
    ASSUME NEW f, NEW k, Reached(f, k), UNCHANGED spFiles
    PROVE  Reached(f, k)'
BY DEF Reached

LEMMA StartContainerKeeps == SpInv /\ StartContainer => SpInv'
<1>. SUFFICES ASSUME SpInv, StartContainer PROVE SpInv'
  OBVIOUS
<1>1. /\ spPhase \in {"stopped", "serve"} /\ spPhase' = "run" /\ spAt' = <<1, 1>>
      /\ UNCHANGED <<spFiles, spReport, spTorn>>
  BY DEF StartContainer
<1>2. SpTypeOK'
  BY <1>1, PlacesInOrder DEF SpInv, SpTypeOK, SpPhases
<1>3. WholeOrAhead'
  <2>1. ASSUME NEW f \in DOMAIN SpPristine \ spTorn
        PROVE  \E k \in Places \cup {PastEnd} : Ahead(f, k)'
    <3>1. PICK k \in Places \cup {PastEnd} : Reached(f, k)
      BY <1>1 DEF SpInv, WholeOrAhead, Ahead
    <3>2. Reached(f, k)'
      BY <1>1, <3>1, ReachedKept
    <3>3. spAt' = k \/ Precedes(spAt', k)
      BY <1>1, PlacesInOrder
    <3>. QED  BY <1>1, <3>2, <3>3 DEF Ahead
  <2>. QED  BY <1>1, <2>1 DEF WholeOrAhead
<1>4. TornCut'
  BY <1>1 DEF SpInv, TornCut
<1>. QED  BY <1>1, <1>2, <1>3, <1>4 DEF SpInv

\* A hunk of a file no stop cut short goes in, as it did or as it will, and takes the file to
\* a place that the start has not passed.
LEMMA LaunchHunkOnWhole ==
    ASSUME AuditClear, Marked, SpInv, spPhase = "run", spAt \in Places,
           HunkAt(spAt).file \notin spTorn
    PROVE  LET r == Apply(spFiles, HunkAt(spAt))
               f == HunkAt(spAt).file
           IN  /\ r.ok
               /\ \E k \in Places \cup {PastEnd} :
                     /\ r.files[f] = TextAt(k)[f]
                     /\ \A a \in Places : Precedes(a, k) /\ HunkAt(a).file = f =>
                                             InTree(r.files, HunkAt(a))
                     /\ NextPlace(spAt) = k \/ Precedes(NextPlace(spAt), k)
<1>1. PICK h : h = HunkAt(spAt)
  OBVIOUS
<1>2. spFiles \in Trees /\ h \in HunksOf /\ h \in LaunchHunks
  BY <1>1, PlaceIs DEF SpInv, SpTypeOK
<1>3. TextAt(spAt) \in Trees /\ Apply(TextAt(spAt), h).ok
      /\ Apply(TextAt(spAt), h).files = TextAt(NextPlace(spAt))
  BY <1>1, TextAtIs
<1>4. h.file \in DOMAIN SpPristine \ spTorn
  <2>1. h.file \in DOMAIN SpPristine
    <3>1. DOMAIN TextAt(spAt) = DOMAIN SpPristine
      BY <1>3 DEF Trees
    <3>. QED  BY <1>3, <3>1 DEF Apply
  <2>. QED  BY <1>1, <2>1
<1>5. PICK k \in Places \cup {PastEnd} : Reached(h.file, k) /\ (spAt = k \/ Precedes(spAt, k))
  BY <1>4 DEF SpInv, WholeOrAhead, Ahead
<1>6. PICK r : r = Apply(spFiles, h)
  OBVIOUS
<1>7. CASE spAt = k
  <2>1. spFiles[h.file] = TextAt(spAt)[h.file]
    BY <1>5, <1>7 DEF Reached
  <2>2. r.ok /\ r.files[h.file] = TextAt(NextPlace(spAt))[h.file]
    <3>1. r.ok <=> GoesIn(spFiles[h.file], h)
      BY <1>2, <1>4, <1>6, ApplyIsLocal
    <3>2. r.files[h.file] = TextAfter(spFiles[h.file], h)
      BY <1>2, <1>4, <1>6, ApplyIsLocal
    <3>3. GoesIn(TextAt(spAt)[h.file], h)
      BY <1>2, <1>3, <1>4, ApplyIsLocal
    <3>4. TextAt(NextPlace(spAt))[h.file] = TextAfter(TextAt(spAt)[h.file], h)
      BY <1>2, <1>3, <1>4, ApplyIsLocal
    <3>. QED  BY <2>1, <3>1, <3>2, <3>3, <3>4
  <2>3. NextPlace(spAt) \in Places \cup {PastEnd}
    BY PlacesInOrder
  <2>4. ASSUME NEW a \in Places, Precedes(a, NextPlace(spAt)), HunkAt(a).file = h.file
        PROVE  InTree(r.files, HunkAt(a))
    <3>1. a = spAt \/ Precedes(a, spAt)
      BY <2>4, PlacesInOrder
    <3>2. HunkAt(a) \in LaunchHunks
      BY PlaceIs
    <3>3. CASE a = spAt
      BY <1>1, <1>2, <1>6, <2>2, <3>3, MarksKept
    <3>4. CASE Precedes(a, spAt)
      <4>1. InTree(spFiles, HunkAt(a))
        BY <1>5, <1>7, <2>4, <3>4 DEF Reached
      <4>. QED  BY <1>2, <1>6, <2>2, <3>2, <4>1, MarksKept
    <3>. QED  BY <3>1, <3>3, <3>4
  <2>. QED  BY <1>1, <1>6, <2>2, <2>3, <2>4
<1>8. CASE Precedes(spAt, k)
  <2>1. InTree(spFiles, h)
    BY <1>1, <1>5, <1>8 DEF Reached
  <2>2. r = [files |-> spFiles, ok |-> TRUE]
    BY <1>2, <1>6, <2>1, ApplyFacts DEF InTree
  <2>3. NextPlace(spAt) = k \/ Precedes(NextPlace(spAt), k)
    BY <1>8, PlacesInOrder
  <2>4. r.ok /\ r.files = spFiles
    BY <2>2
  <2>. QED  BY <1>1, <1>5, <1>6, <2>3, <2>4 DEF Reached
<1>. QED  BY <1>5, <1>7, <1>8

\* A hunk leaves every other file at a place that the start has not passed.
LEMMA OtherFileAhead ==
    ASSUME AuditClear, Marked, SpInv, spPhase = "run", spAt \in Places,
           NEW f \in DOMAIN SpPristine \ spTorn, f # HunkAt(spAt).file
    PROVE  LET r == Apply(spFiles, HunkAt(spAt))
           IN  \E k \in Places \cup {PastEnd} :
                  /\ r.files[f] = TextAt(k)[f]
                  /\ \A a \in Places : Precedes(a, k) /\ HunkAt(a).file = f =>
                                          InTree(r.files, HunkAt(a))
                  /\ NextPlace(spAt) = k \/ Precedes(NextPlace(spAt), k)
<1>1. PICK h : h = HunkAt(spAt)
  OBVIOUS
<1>2. spFiles \in Trees /\ h \in HunksOf
  BY <1>1, PlaceIs DEF SpInv, SpTypeOK
<1>3. TextAt(spAt) \in Trees /\ Apply(TextAt(spAt), h).files = TextAt(NextPlace(spAt))
  BY <1>1, TextAtIs
<1>4. PICK k \in Places \cup {PastEnd} : Reached(f, k) /\ (spAt = k \/ Precedes(spAt, k))
  BY DEF SpInv, WholeOrAhead, Ahead
<1>5. PICK r : r = Apply(spFiles, h)
  OBVIOUS
<1>6. r.files[f] = spFiles[f]
  BY <1>1, <1>2, <1>5, ApplyFacts
<1>7. ASSUME NEW a \in Places, HunkAt(a).file = f, InTree(spFiles, HunkAt(a))
      PROVE  InTree(r.files, HunkAt(a))
  BY <1>6, <1>7 DEF InTree
<1>8. CASE spAt = k
  <2>1. TextAt(NextPlace(spAt))[f] = TextAt(spAt)[f]
    BY <1>1, <1>2, <1>3, ApplyFacts
  <2>2. r.files[f] = TextAt(NextPlace(spAt))[f]
    BY <1>4, <1>6, <1>8, <2>1 DEF Reached
  <2>3. ASSUME NEW a \in Places, Precedes(a, NextPlace(spAt)), HunkAt(a).file = f
        PROVE  InTree(r.files, HunkAt(a))
    <3>1. a # spAt
      BY <1>1, <2>3
    <3>2. Precedes(a, spAt)
      BY <2>3, <3>1, PlacesInOrder
    <3>3. InTree(spFiles, HunkAt(a))
      BY <1>4, <1>8, <2>3, <3>2 DEF Reached
    <3>. QED  BY <1>7, <2>3, <3>3
  <2>4. NextPlace(spAt) \in Places \cup {PastEnd}
    BY PlacesInOrder
  <2>. QED  BY <1>1, <1>5, <2>2, <2>3, <2>4
<1>9. CASE Precedes(spAt, k)
  <2>1. NextPlace(spAt) = k \/ Precedes(NextPlace(spAt), k)
    BY <1>9, PlacesInOrder
  <2>2. ASSUME NEW a \in Places, Precedes(a, k), HunkAt(a).file = f
        PROVE  InTree(r.files, HunkAt(a))
    BY <1>4, <1>7, <2>2 DEF Reached
  <2>3. r.files[f] = TextAt(k)[f]
    BY <1>4, <1>6 DEF Reached
  <2>. QED  BY <1>1, <1>5, <2>1, <2>2, <2>3
<1>. QED  BY <1>4, <1>8, <1>9

LEMMA LaunchHunkKeeps == AuditClear /\ Marked /\ SpInv /\ LaunchHunk => SpInv'
<1>. SUFFICES ASSUME AuditClear, Marked, SpInv, LaunchHunk PROVE SpInv'
  OBVIOUS
<1>1. PICK r : r = Apply(spFiles, HunkAt(spAt))
  OBVIOUS
<1>2. /\ spPhase = "run" /\ spFiles' = r.files /\ spAt' = NextPlace(spAt)
      /\ r.ok => spPhase' = "run"
      /\ ~r.ok => spPhase' = "failed"
      /\ UNCHANGED <<spReport, spStarted, spTorn>>
  BY <1>1 DEF LaunchHunk, HunkAt, NextPlace
<1>3. spAt \in Places
  BY PlacesInOrder DEF LaunchHunk, SpInv, SpTypeOK
<1>4. spFiles \in Trees /\ HunkAt(spAt) \in HunksOf
  BY <1>3, PlaceIs DEF SpInv, SpTypeOK
<1>5. r \in HunkResults
  BY <1>1, <1>4, ApplyFacts
<1>6. r.ok \/ ~r.ok
  OBVIOUS
<1>7. SpTypeOK'
  <2>1. NextPlace(spAt) \in Places \cup {PastEnd}
    BY <1>3, PlacesInOrder
  <2>2. r.files \in Trees
    BY <1>5 DEF HunkResults
  <2>3. spPhase' \in SpPhases
    BY <1>2, <1>6 DEF SpPhases
  <2>. QED  BY <1>2, <2>1, <2>2, <2>3 DEF SpInv, SpTypeOK
<1>8. HunkAt(spAt).file \notin spTorn => r.ok
  BY <1>1, <1>2, <1>3, LaunchHunkOnWhole
<1>9. WholeOrAhead'
  <2>1. ASSUME NEW f \in DOMAIN SpPristine \ spTorn, r.ok
        PROVE  \E k \in Places \cup {PastEnd} : Ahead(f, k)'
    <3>1. PICK k \in Places \cup {PastEnd} :
             /\ r.files[f] = TextAt(k)[f]
             /\ \A a \in Places : Precedes(a, k) /\ HunkAt(a).file = f => InTree(r.files, HunkAt(a))
             /\ NextPlace(spAt) = k \/ Precedes(NextPlace(spAt), k)
      <4>1. CASE f = HunkAt(spAt).file
        BY <1>1, <1>2, <1>3, <4>1, LaunchHunkOnWhole
      <4>2. CASE f # HunkAt(spAt).file
        BY <1>1, <1>2, <1>3, <4>2, OtherFileAhead
      <4>. QED  BY <4>1, <4>2
    <3>2. Reached(f, k)'
      BY <1>2, <3>1 DEF Reached
    <3>. QED  BY <1>2, <2>1, <3>1, <3>2 DEF Ahead
  <2>. QED  BY <1>2, <2>1 DEF WholeOrAhead
<1>10. TornCut'
  <2>1. \A f \in spTorn : r.files[f][Closing] = 0
    BY <1>1, <1>4, CutStaysCut DEF SpInv, SpTypeOK, TornCut
  <2>. QED  BY <1>2, <1>6, <1>8, <2>1 DEF TornCut
<1>. QED  BY <1>2, <1>6, <1>7, <1>9, <1>10 DEF SpInv

LEMMA ParseFailsKeeps == SpInv /\ ParseFails => SpInv'
<1>. SUFFICES ASSUME SpInv, ParseFails PROVE SpInv'
  OBVIOUS
<1>1. /\ spPhase = "run" /\ spPhase' = "failed" /\ spTorn # {}
      /\ UNCHANGED <<spFiles, spReport, spAt, spStarted, spTorn>>
  BY DEF ParseFails
<1>2. SpTypeOK'
  BY <1>1 DEF SpInv, SpTypeOK, SpPhases
<1>3. WholeOrAhead'
  BY <1>1 DEF WholeOrAhead
<1>4. TornCut'
  BY <1>1 DEF SpInv, TornCut
<1>. QED  BY <1>1, <1>2, <1>3, <1>4 DEF SpInv

LEMMA ServeKeeps == SpInv /\ Serve => SpInv'
<1>. SUFFICES ASSUME SpInv, Serve PROVE SpInv'
  OBVIOUS
<1>1. /\ spPhase = "run" /\ spAt[1] \notin DOMAIN SpLaunch
      /\ spPhase' = "serve" \/ (spPhase' = "failed" /\ spTorn # {})
      /\ UNCHANGED <<spFiles, spReport, spAt, spStarted, spTorn>>
  BY DEF Serve
<1>2. spAt = PastEnd
  BY <1>1, PlacesInOrder DEF SpInv, SpTypeOK
<1>3. SpTypeOK'
  BY <1>1 DEF SpInv, SpTypeOK, SpPhases
<1>4. WholeOrAhead'
  <2>1. ASSUME NEW f \in DOMAIN SpPristine \ spTorn
        PROVE  \E k \in Places \cup {PastEnd} : Reached(f, k)' /\ k = PastEnd
    <3>1. PICK k \in Places \cup {PastEnd} : Reached(f, k) /\ (spAt = k \/ Precedes(spAt, k))
      BY <1>1 DEF SpInv, WholeOrAhead, Ahead
    <3>2. k = PastEnd
      BY <1>2, <3>1, PlacesInOrder
    <3>3. Reached(f, k)'
      BY <1>1, <3>1, ReachedKept
    <3>. QED  BY <3>2, <3>3
  <2>. QED  BY <1>1, <2>1 DEF WholeOrAhead, Ahead
<1>5. TornCut'
  BY <1>1 DEF SpInv, TornCut
<1>. QED  BY <1>1, <1>3, <1>4, <1>5 DEF SpInv

LEMMA StopKeeps == SpInv /\ Stop => SpInv'
<1>. SUFFICES ASSUME SpInv, Stop PROVE SpInv'
  OBVIOUS
<1>1. /\ spPhase = "run" /\ spPhase' = "stopped"
      /\ UNCHANGED <<spFiles, spReport, spAt, spStarted, spTorn>>
  BY DEF Stop
<1>2. SpTypeOK'
  BY <1>1 DEF SpInv, SpTypeOK, SpPhases
<1>3. WholeOrAhead'
  <2>1. ASSUME NEW f \in DOMAIN SpPristine \ spTorn
        PROVE  \E k \in Places \cup {PastEnd} : Reached(f, k)'
    BY <1>1, ReachedKept DEF SpInv, WholeOrAhead, Ahead
  <2>. QED  BY <1>1, <2>1 DEF WholeOrAhead, Ahead
<1>4. TornCut'
  BY <1>1 DEF SpInv, TornCut
<1>. QED  BY <1>1, <1>2, <1>3, <1>4 DEF SpInv

\* What a cut write leaves is a text, and it is short of the closing lines.
LEMMA CutIs ==
    ASSUME NEW f \in DOMAIN SpPristine, NEW text \in [Fragments -> Nat],
           NEW n \in 0 .. Len(SpLines[f])
    PROVE  Cut(text, f, n) \in [Fragments -> Nat] /\ Cut(text, f, n)[Closing] = 0
<1>1. Closing \in Fragments /\ Closing \notin ToSet(SpLines[f])
  BY PatchAssumption DEF Fragments
<1>2. ToSet(SubSeq(SpLines[f], 1, n)) \subseteq ToSet(SpLines[f])
  BY DEF ToSet
<1>3. \A t \in Fragments :
         (IF t \in ToSet(SubSeq(SpLines[f], 1, n)) THEN text[t] ELSE 0) \in Nat
  OBVIOUS
<1>. QED  BY <1>1, <1>2, <1>3 DEF Cut

LEMMA StopTornKeeps == SpInv /\ StopTorn => SpInv'
<1>. SUFFICES ASSUME SpInv, StopTorn PROVE SpInv'
  OBVIOUS
<1>1. PICK h, new : h = HunkAt(spAt) /\ new = Apply(spFiles, h).files
  OBVIOUS
<1>2. PICK n \in 0 .. Len(SpLines[h.file]) :
         /\ spPhase = "run" /\ spPhase' = "stopped" /\ new # spFiles
         /\ spFiles' = [spFiles EXCEPT ![h.file] = Cut(new[h.file], h.file, n)]
         /\ spTorn' = spTorn \cup {h.file}
         /\ UNCHANGED <<spReport, spAt, spStarted>>
  BY <1>1 DEF StopTorn, HunkAt
<1>3. spAt \in Places
  BY PlacesInOrder DEF StopTorn, SpInv, SpTypeOK
<1>4. spFiles \in Trees /\ h \in HunksOf
  BY <1>1, <1>3, PlaceIs DEF SpInv, SpTypeOK
<1>5. h.file \in DOMAIN SpPristine /\ new \in Trees
  BY <1>1, <1>2, <1>4, ApplyFacts DEF HunkResults
<1>6. PICK part : part = Cut(new[h.file], h.file, n)
  OBVIOUS
<1>7. part \in [Fragments -> Nat] /\ part[Closing] = 0
  <2>1. new[h.file] \in [Fragments -> Nat]
    BY <1>5 DEF Trees
  <2>. QED  BY <1>5, <1>6, <2>1, CutIs
<1>8. /\ spFiles' \in Trees /\ spFiles'[h.file] = part
      /\ \A f \in DOMAIN SpPristine : f # h.file => spFiles'[f] = spFiles[f]
  BY <1>2, <1>4, <1>5, <1>6, <1>7 DEF Trees
<1>9. SpTypeOK'
  BY <1>2, <1>5, <1>8 DEF SpInv, SpTypeOK, SpPhases
<1>10. WholeOrAhead'
  <2>1. ASSUME NEW f \in DOMAIN SpPristine \ spTorn'
        PROVE  \E k \in Places \cup {PastEnd} : Reached(f, k)'
    <3>1. f \in DOMAIN SpPristine \ spTorn /\ f # h.file
      BY <1>2
    <3>2. PICK k \in Places \cup {PastEnd} : Reached(f, k)
      BY <1>2, <3>1 DEF SpInv, WholeOrAhead, Ahead
    <3>3. spFiles'[f] = spFiles[f]
      BY <1>8, <3>1
    <3>4. Reached(f, k)'
      BY <3>2, <3>3 DEF Reached, InTree
    <3>. QED  BY <3>4
  <2>. QED  BY <1>2, <2>1 DEF WholeOrAhead, Ahead
<1>11. TornCut'
  <2>1. ASSUME NEW f \in spTorn' PROVE spFiles'[f][Closing] = 0
    <3>1. CASE f = h.file
      BY <1>7, <1>8, <3>1
    <3>2. CASE f # h.file
      BY <1>2, <1>8, <3>2 DEF SpInv, SpTypeOK, TornCut
    <3>. QED  BY <3>1, <3>2
  <2>. QED  BY <1>2, <2>1 DEF TornCut
<1>. QED  BY <1>2, <1>9, <1>10, <1>11 DEF SpInv

LEMMA SpStutterKeeps == SpInv /\ UNCHANGED spVars => SpInv'
<1>. SUFFICES ASSUME SpInv, UNCHANGED spVars PROVE SpInv'
  OBVIOUS
<1>1. UNCHANGED <<spFiles, spReport, spAt, spPhase, spStarted, spTorn>>
  BY DEF spVars
<1>2. SpTypeOK' /\ TornCut'
  BY <1>1 DEF SpInv, SpTypeOK, TornCut
<1>3. WholeOrAhead'
  <2>1. \A f, k : Ahead(f, k) => Ahead(f, k)'
    BY <1>1, ReachedKept DEF Ahead
  <2>. QED  BY <1>1, <2>1 DEF SpInv, WholeOrAhead
<1>. QED  BY <1>1, <1>2, <1>3 DEF SpInv

LEMMA SpInvImplies == AuditClear /\ SpInv => PatchedOnce
<1>. SUFFICES ASSUME AuditClear, SpInv PROVE PatchedOnce
  OBVIOUS
<1>1. AppliesTwice
  BY DEF SpInv, TornCut, AppliesTwice
<1>2. ASSUME spPhase = "serve", NEW f \in DOMAIN SpPristine
      PROVE  IF f \in spTorn THEN spFiles[f][Closing] = 0 ELSE spFiles[f] = Meant[f]
  <2>1. CASE f \in spTorn
    BY <2>1 DEF SpInv, TornCut
  <2>2. CASE f \notin spTorn
    <3>1. Reached(f, PastEnd)
      BY <1>2, <2>2 DEF SpInv, WholeOrAhead, Ahead
    <3>. QED  BY <2>2, <3>1, TextAtIs DEF Reached
  <2>. QED  BY <2>1, <2>2
<1>3. ASSUME spPhase # "audit"
      PROVE  AllClear /\ \A p \in DOMAIN spReport.alone : spReport.alone[p]
  <2>1. spReport = ClearReport
    BY <1>3 DEF SpInv
  <2>2. AllClear
    BY <2>1 DEF AllClear, ClearReport, AuditClear
  <2>3. \A p \in DOMAIN spReport.alone : spReport.alone[p]
    BY <2>1 DEF ClearReport, AuditClear
  <2>. QED  BY <2>2, <2>3
<1>. QED  BY <1>1, <1>2, <1>3 DEF PatchedOnce

\* However often the container is stopped on the way, and wherever, what serves is, file by
\* file, the text of one run that nothing interrupted; a file that a stop left half written
\* is the only exception, stays short of its closing lines, and is the only thing on which a
\* start fails: for any patches, image and launcher that the audit calls clear, as long as
\* the launcher's hunks put the sentinels in that they look for and leave one another's
\* alone.
THEOREM PatchesGoInOnce ==
    ASSUME AuditClear, Marked
    PROVE  SpSpec => []PatchedOnce
<1>1. SpInit => SpInv
  BY SpInitOK
<1>2. SpInv /\ [SpNext]_spVars => SpInv'
  BY AuditKeeps, BuildImageKeeps, StartContainerKeeps, LaunchHunkKeeps, ParseFailsKeeps,
     ServeKeeps, StopKeeps, StopTornKeeps, SpStutterKeeps DEF SpNext
<1>3. SpInv => PatchedOnce
  BY SpInvImplies
<1>. QED  BY <1>1, <1>2, <1>3, PTL DEF SpSpec
-----------------------------------------------------------------------------
(* KvGroups: dividing and rounding up                                      *)

LEMMA ProductsOrdered ==
    /\ \A x, y \in Nat : x * y \in Nat /\ x * y = y * x
    /\ \A x, y, z \in Nat : x <= y => x * z <= y * z /\ z * x <= z * y
    /\ \A x, y, z \in Nat : (x * y) * z = x * (y * z)
<1>1. ASSUME NEW x \in Nat, NEW y \in Nat, NEW z \in Nat, x <= y PROVE x * z <= y * z /\ z * x <= z * y
  <2>1. PICK d \in Nat : y = x + d
    <3>1. y - x \in Nat /\ y = x + (y - x)
      BY <1>1
    <3>. QED  BY <3>1
  <2>2. y * z = x * z + d * z /\ d * z \in Nat /\ x * z \in Nat
    BY <2>1
  <2>3. z * y = y * z /\ z * x = x * z
    OBVIOUS
  <2>. QED  BY <2>2, <2>3
<1>2. \A x, y, z \in Nat : (x * y) * z = x * (y * z)
  OBVIOUS
<1>. QED  BY <1>1, <1>2

\* The quotient is the largest number whose product fits.
LEMMA QuotientIs ==
    ASSUME NEW a \in Nat, NEW b \in Nat \ {0}
    PROVE  /\ a \div b \in Nat /\ (a \div b) * b <= a
           /\ \A k \in Nat : k * b <= a => k <= a \div b
<1>1. PICK q, r : q = a \div b /\ r = a % b
  OBVIOUS
<1>2. q \in Nat /\ r \in 0 .. b - 1 /\ a = q * b + r /\ q * b \in Nat
  BY <1>1, Division, ProductsOrdered
<1>3. ASSUME NEW k \in Nat, k * b <= a PROVE k <= q
  <2>. SUFFICES ASSUME q + 1 <= k PROVE FALSE
    BY <1>2
  <2>1. (q + 1) * b <= k * b
    BY <1>2, ProductsOrdered
  <2>2. (q + 1) * b = q * b + b
    BY <1>2
  <2>3. PICK u, v : u = q * b /\ v = k * b
    OBVIOUS
  <2>4. u \in Nat /\ v \in Nat
    BY <1>2, <2>3, ProductsOrdered
  <2>. QED  BY <1>2, <1>3, <2>1, <2>2, <2>3, <2>4
<1>. QED  BY <1>1, <1>2, <1>3

\* Rounded up, the least number whose product covers.
LEMMA CeilingIs ==
    ASSUME NEW a \in Nat \ {0}, NEW b \in Nat \ {0}
    PROVE  /\ CeilDiv(a, b) \in Nat \ {0} /\ a <= CeilDiv(a, b) * b
           /\ \A k \in Nat : a <= k * b => CeilDiv(a, b) <= k
<1>1. PICK n \in Nat : n = a + b - 1
  OBVIOUS
<1>2. CeilDiv(a, b) = n \div b
  BY <1>1 DEF CeilDiv
<1>3. PICK q, r : q = n \div b /\ r = n % b
  OBVIOUS
<1>4. q \in Nat /\ r \in 0 .. b - 1 /\ n = q * b + r
  BY <1>3, Division
<1>5. PICK u \in Nat : u = q * b
  BY <1>4, ProductsOrdered
<1>6. a <= u
  BY <1>1, <1>4, <1>5
<1>7. q # 0
  BY <1>5, <1>6
<1>8. ASSUME NEW k \in Nat, a <= k * b PROVE q <= k
  <2>. SUFFICES ASSUME k + 1 <= q PROVE FALSE
    BY <1>4
  <2>1. (k + 1) * b <= q * b
    BY <1>4, ProductsOrdered
  <2>2. PICK v \in Nat : v = k * b
    BY ProductsOrdered
  <2>3. (k + 1) * b = v + b
    BY <2>2
  <2>. QED  BY <1>1, <1>4, <1>5, <1>8, <2>1, <2>2, <2>3
<1>. QED  BY <1>2, <1>3, <1>4, <1>5, <1>6, <1>7, <1>8

\* The largest of some bounded numbers.
LEMMA LargestIs ==
    ASSUME NEW b \in Nat, NEW S, S \subseteq 0 .. b, S # {}
    PROVE  Max(S) \in S /\ \A x \in S : x <= Max(S)
<1>. DEFINE T == {b - x : x \in S}
<1>1. T \subseteq Nat /\ T # {}
  <2>1. \A x \in S : b - x \in Nat
    OBVIOUS
  <2>. QED  BY <2>1
<1>2. PICK t \in T : \A u \in T : t <= u
  <2>. HIDE DEF T
  <2>. QED  BY <1>1, HasLeast
<1>3. PICK y \in S : t = b - y
  BY <1>2
<1>4. \A x \in S : y >= x
  <2>. SUFFICES ASSUME NEW x \in S PROVE y >= x
    OBVIOUS
  <2>1. b - y <= b - x
    BY <1>2, <1>3
  <2>. QED  BY <2>1
<1>5. Max(S) \in S /\ \A x \in S : Max(S) >= x
  BY <1>4 DEF Max
<1>. QED  BY <1>5

LEMMA PartialSumsIs ==
    ASSUME NEW s \in Seq(Nat)
    PROVE  /\ PartialSums(s)[0] = 0
           /\ \A i \in 1 .. Len(s) : PartialSums(s)[i] = PartialSums(s)[i - 1] + s[i]
<1>. DEFINE n == Len(s)
            d == CHOOSE f : f = [i \in 0 .. n |-> IF i = 0 THEN 0 ELSE f[i - 1] + s[i]]
            g == [i \in 1 .. n |-> [x \in Nat |-> x + s[i]]]
<1>1. n \in Nat /\ \A i \in 1 .. n : s[i] \in Nat
  OBVIOUS
<1>2. g \in StepFunctions(n, Nat)
  BY <1>1 DEF StepFunctions
<1>3. PICK f \in [0 .. n -> Nat] : f[0] = 0 /\ \A i \in 1 .. n : f[i] = g[i][f[i - 1]]
  <2>. HIDE DEF g, n
  <2>1. \E f : Unrolled(f, n, Nat, g, 0)
    BY <1>1, <1>2, Unrolls
  <2>. QED  BY <2>1 DEF Unrolled
<1>4. ASSUME NEW i \in 1 .. n PROVE f[i] = f[i - 1] + s[i]
  <2>1. i - 1 \in 0 .. n
    BY <1>1
  <2>2. f[i - 1] \in Nat /\ f[i] = g[i][f[i - 1]]
    BY <1>3, <2>1
  <2>. QED  BY <2>2
<1>5. f = [i \in 0 .. n |-> IF i = 0 THEN 0 ELSE f[i - 1] + s[i]]
  <2>1. f = [i \in 0 .. n |-> f[i]]
    BY <1>3
  <2>2. ASSUME NEW i \in 0 .. n PROVE f[i] = IF i = 0 THEN 0 ELSE f[i - 1] + s[i]
    <3>1. CASE i = 0
      BY <1>3, <3>1
    <3>2. CASE i # 0
      <4>1. i \in 1 .. n
        BY <3>2
      <4>. QED  BY <1>4, <3>2, <4>1
    <3>. QED  BY <3>1, <3>2
  <2>. HIDE DEF n
  <2>. QED  BY <2>1, <2>2
<1>6. d = [i \in 0 .. n |-> IF i = 0 THEN 0 ELSE d[i - 1] + s[i]]
  <2>. HIDE DEF n
  <2>. QED  BY <1>5
<1>7. PartialSums(s) = d
  BY DEF PartialSums
<1>8. d[0] = 0
  <2>. HIDE DEF d
  <2>. QED  BY <1>1, <1>6
<1>9. ASSUME NEW i \in 1 .. n PROVE d[i] = d[i - 1] + s[i]
  <2>1. i \in 0 .. n /\ i # 0
    BY <1>1
  <2>. HIDE DEF d, n
  <2>. QED  BY <1>6, <2>1
<1>. QED  BY <1>7, <1>8, <1>9

\* A sum of counts: at least one for each, and a product when all are equal.
LEMMA SumIs ==
    ASSUME NEW s \in Seq(Nat)
    PROVE  /\ Sum(s) \in Nat
           /\ \A i \in 1 .. Len(s) : s[i] <= Sum(s)
           /\ (\A i \in 1 .. Len(s) : s[i] >= 1) => Sum(s) >= Len(s)
           /\ \A c \in Nat : (\A i \in 1 .. Len(s) : s[i] = c) => Sum(s) = Len(s) * c
<1>1. PICK n \in Nat : n = Len(s) /\ \A i \in 1 .. n : s[i] \in Nat
  OBVIOUS
<1>2. PICK f : f = PartialSums(s)
  OBVIOUS
<1>3. f[0] = 0 /\ \A i \in 1 .. n : f[i] = f[i - 1] + s[i]
  BY <1>1, <1>2, PartialSumsIs
<1>4. Sum(s) = f[n]
  BY <1>1, <1>2 DEF Sum
<1>. DEFINE Ones == \A i \in 1 .. n : s[i] >= 1
            Same(c) == \A i \in 1 .. n : s[i] = c
            Good(k) == /\ f[k] \in Nat /\ (\A j \in 1 .. k : s[j] <= f[k]) /\ (Ones => f[k] >= k)
                       /\ \A c \in Nat : Same(c) => f[k] = k * c
            S == {k \in Nat : k <= n => Good(k)}
<1>5. 0 \in S
  BY <1>3
<1>6. ASSUME NEW k \in Nat, k \in S PROVE k + 1 \in S
  <2>. SUFFICES ASSUME k + 1 <= n PROVE Good(k + 1)
    OBVIOUS
  <2>1. PICK i : i = k + 1
    OBVIOUS
  <2>2. i \in 1 .. n /\ i - 1 = k /\ i \in Nat
    BY <1>1, <2>1
  <2>3. f[i] = f[k] + s[i] /\ s[i] \in Nat /\ f[k] \in Nat
    BY <1>1, <1>3, <1>6, <2>2
  <2>4. f[i] \in Nat
    BY <2>3
  <2>5. Ones => f[i] >= i
    <3>. SUFFICES ASSUME Ones PROVE f[i] >= i
      OBVIOUS
    <3>1. f[k] >= k /\ s[i] >= 1
      BY <1>6, <2>2
    <3>. QED  BY <2>1, <2>3, <3>1
  <2>6. ASSUME NEW c \in Nat, Same(c) PROVE f[i] = i * c
    <3>1. f[k] = k * c /\ s[i] = c
      BY <1>6, <2>2, <2>6
    <3>2. (k + 1) * c = k * c + c
      OBVIOUS
    <3>. QED  BY <2>1, <2>3, <3>1, <3>2
  <2>7. \A j \in 1 .. i : s[j] <= f[i]
    <3>. SUFFICES ASSUME NEW j \in 1 .. i PROVE s[j] <= f[i]
      OBVIOUS
    <3>1. CASE j = i
      BY <2>3, <3>1
    <3>2. CASE j # i
      <4>1. j \in 1 .. k /\ j \in 1 .. n
        BY <2>1, <2>2, <3>2
      <4>2. s[j] <= f[k] /\ s[j] \in Nat
        BY <1>1, <1>6, <2>2, <4>1
      <4>. QED  BY <2>3, <4>2
    <3>. QED  BY <3>1, <3>2
  <2>8. Good(i)
    <3>. HIDE DEF Ones, Same
    <3>. QED  BY <2>4, <2>5, <2>6, <2>7
  <2>. QED  BY <2>1, <2>8
<1>7. \A k \in Nat : k \in S
  <2>. HIDE DEF S
  <2>. QED  BY <1>5, <1>6, EachStep
<1>8. Good(n)
  BY <1>1, <1>7
<1>. QED  BY <1>1, <1>4, <1>8

LEMMA MostIs ==
    ASSUME NEW s \in Seq(Nat), s # <<>>
    PROVE  /\ Most(s) \in Nat /\ \E i \in 1 .. Len(s) : Most(s) = s[i]
           /\ \A i \in 1 .. Len(s) : s[i] <= Most(s)
<1>1. PICK n \in Nat \ {0} : n = Len(s) /\ DOMAIN s = 1 .. n /\ \A i \in 1 .. n : s[i] \in Nat
  BY EmptySeq
<1>2. PICK b \in Nat : \A i \in 1 .. n : s[i] <= b
  BY <1>1, SumIs
<1>3. PICK S : S = ToSet(s)
  OBVIOUS
<1>4. S = {s[i] : i \in 1 .. n}
  BY <1>1, <1>3 DEF ToSet
<1>5. S \subseteq 0 .. b
  BY <1>1, <1>2, <1>4
<1>6. S # {}
  <2>1. 1 \in 1 .. n
    BY <1>1
  <2>. QED  BY <1>4, <2>1
<1>7. Max(S) \in S /\ \A x \in S : x <= Max(S)
  BY <1>5, <1>6, LargestIs
<1>8. Most(s) = Max(S)
  BY <1>3 DEF Most
<1>. QED  BY <1>1, <1>4, <1>7, <1>8

-----------------------------------------------------------------------------
(* KvGroups: cutting a model's buckets                                     *)

Layers(i) == kgModel[i].layers
Buckets == DOMAIN kgModel

LEMMA ModelIs ==
    ASSUME kgModel \in KgBuckets
    PROVE  /\ Len(kgModel) \in Nat \ {0} /\ Buckets = 1 .. Len(kgModel)
           /\ \A i \in Buckets : Layers(i) \in Nat \ {0} /\ kgModel[i].blocks \in Nat \ {0}
           /\ \A T : \A f \in [Buckets -> T] : f \in Seq(T) /\ f # <<>> /\ Len(f) = Len(kgModel)
<1>1. kgModel # <<>> /\ kgModel \in Seq([layers : Nat \ {0}, blocks : Nat \ {0}])
  BY KvGroupsAssumption
<1>2. PICK n : n = Len(kgModel)
  OBVIOUS
<1>3. n \in Nat /\ n # 0 /\ DOMAIN kgModel = 1 .. n
  BY <1>1, <1>2, EmptySeq
<1>4. \A i \in 1 .. n : kgModel[i] \in [layers : Nat \ {0}, blocks : Nat \ {0}]
  <2>1. PICK R : R = [layers : Nat \ {0}, blocks : Nat \ {0}]
    OBVIOUS
  <2>2. kgModel \in Seq(R)
    BY <1>1, <2>1
  <2>3. \A i \in 1 .. n : kgModel[i] \in R
    BY <1>2, <2>2
  <2>. QED  BY <2>1, <2>3
<1>5. ASSUME NEW T, NEW f \in [1 .. n -> T] PROVE f \in Seq(T) /\ f # <<>> /\ Len(f) = n
  <2>1. f \in Seq(T) /\ Len(f) = n
    BY <1>3, SeqDef, LenProperties
  <2>. QED  BY <1>3, <2>1
<1>. QED  BY <1>2, <1>3, <1>4, <1>5 DEF Layers, Buckets

LEMMA SizesIs ==
    ASSUME kgModel \in KgBuckets
    PROVE  /\ Most(Sizes) \in Nat \ {0} /\ \A i \in Buckets : Layers(i) <= Most(Sizes)
           /\ Upstream \in Nat \ {0}
<1>1. PICK n \in Nat \ {0} : n = Len(kgModel) /\ Buckets = 1 .. n
  BY ModelIs
<1>2. PICK s : s = Sizes
  OBVIOUS
<1>3. s = [i \in Buckets |-> Layers(i)]
  BY <1>2 DEF Sizes, Layers, Buckets
<1>4. \A i \in Buckets : Layers(i) \in Nat /\ Layers(i) \in Nat \ {0}
  BY ModelIs
<1>5. s \in [Buckets -> Nat]
  BY <1>3, <1>4
<1>6. s \in Seq(Nat) /\ s # <<>> /\ Len(s) = n
  BY <1>1, <1>5, ModelIs
<1>7. Most(s) \in Nat /\ (\E i \in 1 .. n : Most(s) = s[i]) /\ \A i \in 1 .. n : s[i] <= Most(s)
  BY <1>6, MostIs
<1>8. Most(s) \in Nat \ {0} /\ \A i \in Buckets : Layers(i) <= Most(s)
  BY <1>1, <1>3, <1>4, <1>7
<1>9. Least(s) \in Nat \ {0}
  <2>1. PICK S : S = ToSet(s)
    OBVIOUS
  <2>2. S = {s[i] : i \in 1 .. n}
    BY <1>6, <2>1 DEF ToSet
  <2>3. S # {} /\ S \subseteq Nat \ {0} /\ S \subseteq Nat
    BY <1>1, <1>3, <1>4, <2>2
  <2>4. \E x \in S : \A y \in S : x <= y
    BY <2>3, HasLeast
  <2>5. Min(S) \in S
    BY <2>4 DEF Min
  <2>. QED  BY <2>1, <2>3, <2>5 DEF Least
<1>10. Upstream = Most(s) \/ Upstream = Least(s)
  BY <1>2 DEF Upstream
<1>. QED  BY <1>2, <1>8, <1>9, <1>10

\* How a size of group cuts the buckets, and that the size the groups come out with, which
\* is no larger, cuts them the same.
LEMMA CutsIs ==
    ASSUME kgModel \in KgBuckets, NEW g \in Nat \ {0}
    PROVE  /\ \A i \in Buckets : /\ Cuts(g)[i] \in Nat \ {0}
                                 /\ CeilDiv(Layers(i), Cuts(g)[i]) \in Nat \ {0}
                                 /\ CeilDiv(Layers(i), Cuts(g)[i]) <= Effective(g)
                                 /\ Layers(i) <= Cuts(g)[i] * CeilDiv(Layers(i), Cuts(g)[i])
           /\ \E i \in Buckets : Effective(g) = CeilDiv(Layers(i), Cuts(g)[i])
           /\ Effective(g) \in Nat \ {0} /\ Effective(g) <= Most(Sizes)
           /\ Sum(Cuts(g)) \in Nat /\ Blocks(g) \in Nat \ {0}
           /\ Cuts(Effective(g)) = Cuts(g)
<1>1. PICK n \in Nat \ {0} : n = Len(kgModel) /\ Buckets = 1 .. n
  BY ModelIs
<1>2. \A i \in Buckets : Layers(i) \in Nat \ {0} /\ kgModel[i].blocks \in Nat \ {0}
  BY ModelIs
<1>3. \A x \in Nat \ {0} : \A i \in Buckets :
         /\ Cuts(x)[i] = CeilDiv(Layers(i), x)
         /\ Cuts(x)[i] \in Nat \ {0} /\ Layers(i) <= Cuts(x)[i] * x
         /\ \A k \in Nat : Layers(i) <= k * x => Cuts(x)[i] <= k
  BY <1>2, CeilingIs DEF Cuts, Layers, Buckets
<1>4. ASSUME NEW i \in Buckets
      PROVE  /\ CeilDiv(Layers(i), Cuts(g)[i]) \in Nat \ {0}
             /\ Layers(i) <= Cuts(g)[i] * CeilDiv(Layers(i), Cuts(g)[i])
             /\ CeilDiv(Layers(i), Cuts(g)[i]) <= g
             /\ CeilDiv(Layers(i), Cuts(g)[i]) <= Layers(i)
  <2>1. PICK a \in Nat \ {0} : a = Layers(i)
    BY <1>2
  <2>2. PICK c \in Nat \ {0} : c = Cuts(g)[i] /\ a <= c * g
    BY <1>3, <2>1
  <2>3. a <= g * c /\ a <= a * c
    BY <2>2, ProductsOrdered
  <2>4. /\ CeilDiv(a, c) \in Nat \ {0} /\ a <= CeilDiv(a, c) * c
        /\ CeilDiv(a, c) <= g /\ CeilDiv(a, c) <= a
    BY <2>3, CeilingIs
  <2>5. CeilDiv(a, c) * c = c * CeilDiv(a, c)
    BY <2>4, ProductsOrdered
  <2>. QED  BY <2>1, <2>2, <2>4, <2>5
<1>5. PICK t : t = [i \in Buckets |-> CeilDiv(Layers(i), Cuts(g)[i])]
  OBVIOUS
<1>6. Effective(g) = Most(t)
  BY <1>5 DEF Effective, Layers, Buckets
<1>7. t \in [Buckets -> Nat]
  BY <1>4, <1>5
<1>8. t \in Seq(Nat) /\ t # <<>> /\ Len(t) = n
  BY <1>1, <1>7, ModelIs
<1>9. Most(t) \in Nat /\ (\E i \in 1 .. n : Most(t) = t[i]) /\ \A i \in 1 .. n : t[i] <= Most(t)
  BY <1>8, MostIs
<1>10. \A i \in Buckets : CeilDiv(Layers(i), Cuts(g)[i]) <= Effective(g)
  BY <1>1, <1>5, <1>6, <1>9
<1>11. PICK i \in Buckets : Effective(g) = CeilDiv(Layers(i), Cuts(g)[i])
  BY <1>1, <1>5, <1>6, <1>9
<1>12. Effective(g) \in Nat \ {0} /\ Effective(g) <= g /\ Effective(g) <= Most(Sizes)
  <2>1. Layers(i) <= Most(Sizes) /\ Most(Sizes) \in Nat /\ Layers(i) \in Nat
    BY <1>2, SizesIs
  <2>. QED  BY <1>4, <1>11, <2>1
<1>13. Sum(Cuts(g)) \in Nat
  <2>1. PICK c : c = Cuts(g)
    OBVIOUS
  <2>2. c = [j \in Buckets |-> Cuts(g)[j]]
    BY <2>1 DEF Cuts, Buckets
  <2>3. c \in [Buckets -> Nat]
    BY <1>3, <2>2
  <2>4. c \in Seq(Nat)
    BY <2>3, ModelIs
  <2>. QED  BY <2>1, <2>4, SumIs
<1>14. Blocks(g) \in Nat \ {0}
  <2>1. PICK b : b = [j \in Buckets |-> Cuts(g)[j] * kgModel[j].blocks]
    OBVIOUS
  <2>2. ASSUME NEW j \in Buckets
        PROVE  Cuts(g)[j] * kgModel[j].blocks \in Nat /\ Cuts(g)[j] * kgModel[j].blocks >= 1
    <3>1. PICK x \in Nat \ {0}, y \in Nat \ {0} : x = Cuts(g)[j] /\ y = kgModel[j].blocks
      BY <1>2, <1>3
    <3>2. x * y \in Nat /\ 1 * y <= x * y
      BY ProductsOrdered
    <3>. QED  BY <3>1, <3>2
  <2>3. b \in [Buckets -> Nat]
    BY <2>1, <2>2
  <2>4. b \in Seq(Nat) /\ Len(b) = n
    BY <1>1, <2>3, ModelIs
  <2>5. \A j \in 1 .. Len(b) : b[j] >= 1
    BY <1>1, <2>1, <2>2, <2>4
  <2>6. Sum(b) \in Nat /\ Sum(b) >= n
    BY <2>4, <2>5, SumIs
  <2>7. Blocks(g) = Sum(b)
    BY <2>1 DEF Blocks, Buckets
  <2>. QED  BY <2>6, <2>7
<1>15. ASSUME NEW j \in Buckets PROVE Cuts(Effective(g))[j] = Cuts(g)[j]
  <2>1. PICK e \in Nat \ {0} : e = Effective(g) /\ e <= g
    BY <1>12
  <2>2. PICK a \in Nat \ {0} : a = Layers(j)
    BY <1>2
  <2>3. PICK c \in Nat \ {0} : c = Cuts(g)[j] /\ \A k \in Nat : a <= k * g => c <= k
    BY <1>3, <2>2
  <2>4. PICK d \in Nat \ {0} : /\ d = Cuts(e)[j] /\ a <= d * e
                               /\ \A k \in Nat : a <= k * e => d <= k
    BY <1>3, <2>2
  <2>5. d * e <= d * g /\ d * e \in Nat /\ d * g \in Nat
    BY <2>1, ProductsOrdered
  <2>6. c <= d
    BY <2>3, <2>4, <2>5
  <2>7. PICK w \in Nat : w = CeilDiv(a, c) /\ a <= c * w /\ w <= e
    BY <1>4, <1>10, <2>1, <2>2, <2>3
  <2>8. c * w <= c * e /\ c * w \in Nat /\ c * e \in Nat
    BY <2>7, ProductsOrdered
  <2>9. d <= c
    BY <2>4, <2>7, <2>8
  <2>. QED  BY <2>1, <2>3, <2>4, <2>6, <2>9
<1>16. Cuts(Effective(g)) = Cuts(g)
  BY <1>15 DEF Cuts, Buckets
<1>. QED  BY <1>3, <1>4, <1>10, <1>11, <1>12, <1>13, <1>14, <1>16

\* The search ends with the first of the best candidates.
LEMMA BestIs ==
    ASSUME kgModel \in KgBuckets, Candidates # {}
    PROVE  /\ Best \in Candidates
           /\ \A h \in Candidates : Best * Blocks(Best) <= h * Blocks(h)
<1>. DEFINE cost(g) == g * Blocks(g)
            number(g) == Sum(Cuts(g))
<1>1. Most(Sizes) \in Nat
  BY SizesIs
<1>2. ASSUME NEW g \in Candidates
      PROVE  g \in Nat \ {0} /\ g \in Nat /\ cost(g) \in Nat /\ number(g) \in Nat
  <2>1. g \in 1 .. Most(Sizes)
    BY DEF Candidates
  <2>2. g \in Nat \ {0}
    BY <1>1, <2>1
  <2>3. Blocks(g) \in Nat /\ Sum(Cuts(g)) \in Nat
    BY <2>2, CutsIs
  <2>. QED  BY <2>2, <2>3, ProductsOrdered
<1>. HIDE DEF cost, number
<1>3. PICK g1 \in Candidates : \A h \in Candidates : cost(g1) <= cost(h)
  <2>1. PICK S : S = {cost(g) : g \in Candidates}
    OBVIOUS
  <2>2. S # {} /\ S \subseteq Nat
    BY <1>2, <2>1
  <2>3. PICK x \in S : \A y \in S : x <= y
    BY <2>2, HasLeast
  <2>. QED  BY <2>1, <2>3
<1>4. PICK C1 : C1 = {g \in Candidates : cost(g) = cost(g1)}
  OBVIOUS
<1>5. PICK g2 \in C1 : \A h \in C1 : number(g2) <= number(h)
  <2>1. PICK S : S = {number(g) : g \in C1}
    OBVIOUS
  <2>2. S # {} /\ S \subseteq Nat
    BY <1>2, <1>4, <2>1
  <2>3. PICK x \in S : \A y \in S : x <= y
    BY <2>2, HasLeast
  <2>. QED  BY <2>1, <2>3
<1>6. PICK C2 : C2 = {g \in C1 : number(g) = number(g2)}
  OBVIOUS
<1>7. PICK g3 \in C2 : \A h \in C2 : g3 <= h
  <2>1. C2 # {} /\ C2 \subseteq Nat
    BY <1>2, <1>4, <1>6
  <2>. QED  BY <2>1, HasLeast
<1>8. g3 \in Candidates /\ cost(g3) = cost(g1) /\ number(g3) = number(g2)
  BY <1>4, <1>6, <1>7
<1>9. \A g, h : Before(g, h) <=> (cost(g) < cost(h) \/ (cost(g) = cost(h) /\ number(g) < number(h)))
  BY DEF Before, cost, number
<1>10. ASSUME NEW h \in Candidates PROVE ~Before(h, g3)
  <2>1. /\ cost(g1) <= cost(h) /\ cost(h) \in Nat /\ cost(g1) \in Nat /\ number(h) \in Nat
        /\ number(g2) \in Nat
    BY <1>2, <1>3, <1>4, <1>5
  <2>2. cost(h) = cost(g1) => number(g2) <= number(h)
    BY <1>4, <1>5
  <2>. QED  BY <1>8, <1>9, <2>1, <2>2
<1>11. ASSUME NEW h \in Candidates, h < g3 PROVE Before(g3, h)
  <2>1. /\ cost(g1) <= cost(h) /\ cost(h) \in Nat /\ cost(g1) \in Nat /\ number(h) \in Nat
        /\ number(g2) \in Nat /\ h \in Nat /\ g3 \in Nat
    BY <1>2, <1>3, <1>4, <1>5, <1>8
  <2>2. cost(h) = cost(g1) => number(g2) <= number(h)
    BY <1>4, <1>5
  <2>3. ~(cost(h) = cost(g1) /\ number(h) = number(g2))
    BY <1>4, <1>6, <1>7, <1>11, <2>1
  <2>. QED  BY <1>8, <1>9, <2>1, <2>2, <2>3
<1>12. \E g \in Candidates : /\ \A h \in Candidates : ~Before(h, g)
                             /\ \A h \in Candidates : h < g => Before(g, h)
  BY <1>8, <1>10, <1>11
<1>13. Best \in Candidates /\ \A h \in Candidates : ~Before(h, Best)
  BY <1>12 DEF Best
<1>14. ASSUME NEW h \in Candidates PROVE cost(Best) <= cost(h)
  <2>1. ~Before(h, Best) /\ cost(Best) \in Nat /\ cost(h) \in Nat
    BY <1>2, <1>13
  <2>. QED  BY <1>9, <2>1
<1>. QED  BY <1>13, <1>14 DEF cost

-----------------------------------------------------------------------------
(* KvGroups: the invariant, and the theorem                                *)

GroupsOf(g) == [i \in Buckets |-> [j \in 1 .. Cuts(g)[i] |-> CeilDiv(Layers(i), Cuts(g)[i])]]
RequestsIn(groups) ==
    (KgPool \div LargestGroup(groups)) \div Sum([i \in Buckets |-> Len(groups[i]) * kgModel[i].blocks])

Searching == kgEnv.opt /\ kgEnv.forced = 0 /\ kgEnv.config

KgInv ==
    /\ kgModel \in KgBuckets /\ kgEnv \in KgEnvs
    /\ kgPicked = 0 => kgGroups = <<>>
    /\ kgPicked # 0 /\ Searching => kgPicked = Best
    /\ kgGroups # <<>> => kgGroups = GroupsOf(kgPicked) /\ kgRequests = RequestsIn(kgGroups)

LEMMA KgInitOK == KgInit => KgInv
BY DEF KgInit, KgInv

LEMMA KgNextOK == KgInv /\ [KgNext]_kgVars => KgInv'
<1>. SUFFICES ASSUME KgInv, [KgNext]_kgVars PROVE KgInv'
  OBVIOUS
<1>1. CASE PickGroupSize
  <2>1. kgPicked = 0 /\ kgGroups = <<>> /\ UNCHANGED <<kgEnv, kgModel, kgGroups, kgRequests>>
    BY <1>1 DEF PickGroupSize, KgInv
  <2>2. Searching => kgPicked' = Best
    BY <1>1 DEF PickGroupSize, Searching
  <2>3. Best' = Best /\ (Searching' <=> Searching)
    BY <2>1 DEF Best, Candidates, Before, Upstream, Effective, Blocks, Cuts, Sizes, Searching
  <2>. QED  BY <2>1, <2>2, <2>3 DEF KgInv
<1>2. CASE Allocate
  <2>1. /\ kgPicked # 0 /\ UNCHANGED <<kgEnv, kgModel, kgPicked>>
        /\ kgGroups' = GroupsOf(kgPicked)
        /\ kgRequests' = RequestsIn(kgGroups')
    BY <1>2 DEF Allocate, GroupsOf, RequestsIn, Layers, Buckets
  <2>2. Best' = Best /\ (Searching' <=> Searching)
    BY <2>1 DEF Best, Candidates, Before, Upstream, Effective, Blocks, Cuts, Sizes, Searching
  <2>3. GroupsOf(kgPicked)' = GroupsOf(kgPicked)
    BY <2>1 DEF GroupsOf, Cuts, Layers, Buckets
  <2>4. RequestsIn(kgGroups)' = RequestsIn(kgGroups')
    BY <2>1 DEF RequestsIn, Buckets
  <2>. QED  BY <2>1, <2>2, <2>3, <2>4 DEF KgInv
<1>3. CASE UNCHANGED kgVars
  <2>1. UNCHANGED <<kgEnv, kgModel, kgPicked, kgGroups, kgRequests>>
    BY <1>3 DEF kgVars
  <2>2. Best' = Best /\ (Searching' <=> Searching)
    BY <2>1 DEF Best, Candidates, Before, Upstream, Effective, Blocks, Cuts, Sizes, Searching
  <2>3. GroupsOf(kgPicked)' = GroupsOf(kgPicked) /\ RequestsIn(kgGroups)' = RequestsIn(kgGroups)
    BY <2>1 DEF GroupsOf, RequestsIn, Cuts, Layers, Buckets
  <2>. QED  BY <2>1, <2>2, <2>3 DEF KgInv
<1>. QED  BY <1>1, <1>2, <1>3 DEF KgNext

\* What the allocator makes of a size: groups of the effective size, and a pool divided by
\* what a request takes of it.
LEMMA GroupsIs ==
    ASSUME kgModel \in KgBuckets, NEW g \in Nat \ {0}
    PROVE  /\ LargestGroup(GroupsOf(g)) = Effective(g)
           /\ RequestsIn(GroupsOf(g)) = Held(g)
           /\ \A i \in Buckets : Sum(GroupsOf(g)[i]) >= Layers(i)
<1>. DEFINE size(i) == CeilDiv(Layers(i), Cuts(g)[i])
<1>1. \A i \in Buckets : /\ Cuts(g)[i] \in Nat \ {0} /\ size(i) \in Nat \ {0} /\ size(i) <= Effective(g)
                         /\ Layers(i) <= Cuts(g)[i] * size(i)
  BY CutsIs
<1>2. PICK i0 \in Buckets : Effective(g) = size(i0)
  BY CutsIs
<1>3. Effective(g) \in Nat
  BY CutsIs
<1>. HIDE DEF size
<1>4. PICK G : G = GroupsOf(g)
  OBVIOUS
<1>5. G = [i \in Buckets |-> [j \in 1 .. Cuts(g)[i] |-> size(i)]]
  BY <1>4 DEF GroupsOf, size
<1>6. ASSUME NEW i \in Buckets
      PROVE  /\ G[i] \in Seq(Nat) /\ Len(G[i]) = Cuts(g)[i] /\ ToSet(G[i]) = {size(i)}
             /\ \A j \in 1 .. Len(G[i]) : G[i][j] = size(i)
  <2>1. PICK c \in Nat \ {0} : c = Cuts(g)[i]
    BY <1>1
  <2>2. PICK q : q = [j \in 1 .. c |-> size(i)]
    OBVIOUS
  <2>3. q \in Seq(Nat) /\ Len(q) = c /\ DOMAIN q = 1 .. c
    <3>1. q \in [1 .. c -> Nat]
      BY <1>1, <2>2
    <3>. QED  BY <2>1, <3>1, SeqDef, LenProperties
  <2>4. 1 \in 1 .. c
    OBVIOUS
  <2>5. ToSet(q) = {size(i)}
    BY <2>2, <2>3, <2>4 DEF ToSet
  <2>. QED  BY <1>5, <2>1, <2>2, <2>3, <2>5
<1>7. LargestGroup(G) = Effective(g)
  <2>1. PICK S : S = UNION {ToSet(G[i]) : i \in DOMAIN G}
    OBVIOUS
  <2>2. DOMAIN G = Buckets
    BY <1>5
  <2>3. \A x : x \in S <=> \E i \in Buckets : x = size(i)
    BY <1>6, <2>1, <2>2
  <2>4. S \subseteq 0 .. Effective(g) /\ Effective(g) \in S
    BY <1>1, <1>2, <1>3, <2>3
  <2>5. Max(S) \in S /\ \A x \in S : x <= Max(S)
    BY <1>3, <2>4, LargestIs
  <2>6. Max(S) = Effective(g)
    <3>1. PICK m, e : m = Max(S) /\ e = Effective(g)
      OBVIOUS
    <3>2. m \in 0 .. e /\ e <= m /\ e \in Nat
      BY <1>3, <2>4, <2>5, <3>1
    <3>. QED  BY <3>1, <3>2
  <2>. QED  BY <2>1, <2>6 DEF LargestGroup
<1>8. RequestsIn(G) = Held(g)
  <2>1. [i \in Buckets |-> Len(G[i]) * kgModel[i].blocks] = [i \in Buckets |-> Cuts(g)[i] * kgModel[i].blocks]
    BY <1>6
  <2>. QED  BY <1>7, <2>1 DEF RequestsIn, Held, Blocks, Buckets
<1>9. ASSUME NEW i \in Buckets PROVE Sum(G[i]) >= Layers(i)
  <2>1. PICK c \in Nat \ {0}, w \in Nat \ {0} : c = Cuts(g)[i] /\ w = size(i) /\ Layers(i) <= c * w
    BY <1>1
  <2>2. Sum(G[i]) = c * w
    BY <1>6, <2>1, SumIs
  <2>. QED  BY <2>1, <2>2
<1>. QED  BY <1>4, <1>7, <1>8, <1>9

\* A size whose blocks cost a request less of the pool holds no fewer requests.
LEMMA CheaperHolds ==
    ASSUME NEW a \in Nat, NEW b \in Nat \ {0}, NEW c \in Nat \ {0},
           NEW d \in Nat \ {0}, NEW e \in Nat \ {0}, b * c <= d * e
    PROVE  (a \div d) \div e <= (a \div b) \div c
<1>1. PICK p \in Nat : p = a \div d /\ p * d <= a
  BY QuotientIs
<1>2. PICK q \in Nat : q = p \div e /\ q * e <= p
  BY QuotientIs
<1>3. q * (b * c) <= q * (d * e)
  BY ProductsOrdered
<1>4. q * (d * e) = (q * e) * d
  BY ProductsOrdered
<1>5. (q * e) * d <= p * d
  BY <1>2, ProductsOrdered
<1>6. q * (b * c) = (q * c) * b
  BY ProductsOrdered
<1>7. PICK u, v, w, x \in Nat : u = (q * c) * b /\ v = q * (d * e) /\ w = p * d /\ x = q * c
  BY ProductsOrdered
<1>8. x * b <= a
  BY <1>1, <1>3, <1>4, <1>5, <1>6, <1>7, ProductsOrdered
<1>9. x <= a \div b /\ a \div b \in Nat
  BY <1>7, <1>8, QuotientIs
<1>10. q <= (a \div b) \div c
  BY <1>7, <1>9, QuotientIs
<1>. QED  BY <1>1, <1>2, <1>10

LEMMA KgInvImplies == KgInv => CapacityBest
<1>. SUFFICES ASSUME KgInv, kgGroups # <<>>, kgEnv.opt, kgEnv.forced = 0, kgEnv.config, Candidates # {}
              PROVE  /\ LargestGroup(kgGroups) = kgPicked
                     /\ \A g \in 1 .. Most(Sizes) :
                           Sum(Cuts(g)) <= kgEnv.maxGroups =>
                              Effective(g) * Blocks(g) >= kgPicked * Blocks(kgPicked)
                     /\ Sum(Cuts(Upstream)) <= kgEnv.maxGroups => kgRequests >= Held(Upstream)
                     /\ \A i \in DOMAIN kgModel : Sum(kgGroups[i]) >= kgModel[i].layers
  BY DEF CapacityBest
<1>1. kgModel \in KgBuckets /\ kgPicked = Best /\ kgGroups = GroupsOf(kgPicked) /\ kgRequests = RequestsIn(kgGroups)
  BY DEF KgInv, Searching
<1>2. /\ kgPicked \in Candidates
      /\ \A h \in Candidates : kgPicked * Blocks(kgPicked) <= h * Blocks(h)
  BY <1>1, BestIs
<1>3. Most(Sizes) \in Nat
  BY <1>1, SizesIs
<1>4. kgPicked \in Nat \ {0} /\ Effective(kgPicked) = kgPicked
  BY <1>2, <1>3 DEF Candidates
<1>5. ASSUME NEW g \in Nat \ {0}, Sum(Cuts(g)) <= kgEnv.maxGroups
      PROVE  kgPicked * Blocks(kgPicked) <= Effective(g) * Blocks(g)
  <2>1. PICK e \in Nat \ {0} : e = Effective(g) /\ e <= Most(Sizes) /\ Cuts(e) = Cuts(g)
    BY <1>1, CutsIs
  <2>2. Effective(e) = e /\ Blocks(e) = Blocks(g) /\ Sum(Cuts(e)) <= kgEnv.maxGroups
    BY <1>5, <2>1 DEF Effective, Blocks
  <2>3. e \in Candidates
    BY <1>3, <2>1, <2>2 DEF Candidates
  <2>. QED  BY <1>2, <2>1, <2>2, <2>3
<1>6. LargestGroup(kgGroups) = kgPicked
  BY <1>1, <1>4, GroupsIs
<1>7. ASSUME NEW g \in 1 .. Most(Sizes), Sum(Cuts(g)) <= kgEnv.maxGroups
      PROVE  Effective(g) * Blocks(g) >= kgPicked * Blocks(kgPicked)
  <2>1. g \in Nat \ {0}
    BY <1>3
  <2>. QED  BY <1>5, <1>7, <2>1
<1>8. ASSUME Sum(Cuts(Upstream)) <= kgEnv.maxGroups PROVE kgRequests >= Held(Upstream)
  <2>1. PICK u \in Nat \ {0} : u = Upstream
    BY <1>1, SizesIs
  <2>2. PICK d \in Nat \ {0}, e \in Nat \ {0} : d = Effective(u) /\ e = Blocks(u)
    BY <1>1, CutsIs
  <2>3. PICK b \in Nat \ {0}, c \in Nat \ {0} : b = kgPicked /\ c = Blocks(kgPicked)
    BY <1>1, <1>4, CutsIs
  <2>4. b * c <= d * e
    BY <1>5, <1>8, <2>1, <2>2, <2>3
  <2>5. KgPool \in Nat
    BY KvGroupsAssumption
  <2>6. (KgPool \div d) \div e <= (KgPool \div b) \div c
    BY <2>4, <2>5, CheaperHolds
  <2>7. kgRequests = Held(kgPicked)
    BY <1>1, <1>4, GroupsIs
  <2>8. Held(kgPicked) = (KgPool \div b) \div c /\ Held(Upstream) = (KgPool \div d) \div e
    BY <1>4, <2>1, <2>2, <2>3 DEF Held
  <2>. QED  BY <2>6, <2>7, <2>8
<1>9. \A i \in DOMAIN kgModel : Sum(kgGroups[i]) >= kgModel[i].layers
  BY <1>1, <1>4, GroupsIs DEF Layers, Buckets
<1>. QED  BY <1>6, <1>7, <1>8, <1>9

\* The search for a group size gives up no capacity: for any buckets of layers, costs of a
\* block, limit on the number of groups and size of the pool, no size of group within the
\* limit, canonical or not, lets the pool hold more requests.
THEOREM GroupsHoldMost == KgSpec => []CapacityBest
<1>1. KgInv => CapacityBest
  BY KgInvImplies
<1>. QED  BY <1>1, KgInitOK, KgNextOK, PTL DEF KgSpec

-----------------------------------------------------------------------------
(* BlockDrafter: whose text a page holds                                   *)

BdRequests == [turn : Nat \ {0}, len : Nat, n : Nat \ {0}]
Room == BdStride * BdPage

\* Two entries that name one block are one entry.
Owned(tables) ==
    \A s, t \in BdSlots, p, q \in Pages :
        tables[s][p] # 0 /\ tables[s][p] = tables[t][q] => s = t /\ p = q
TablesFit(tables) == \A s \in BdSlots, p \in Pages : tables[s][p] \in 0 .. BdBlocks

\* The page a text ends in is resident, unless the text ends with it: the rows that follow
\* go to the block that holds the rows before them.
LastResident ==
    \A s \in BdSlots, p \in Pages :
        /\ bdReq[s] # Absent
        /\ p * BdPage < bdReq[s].len /\ bdReq[s].len < (p + 1) * BdPage
        => bdTable[s][p] # 0

CtTypeOK ==
    /\ bdReq = [s \in BdSlots |-> bdReq[s]]
    /\ \A s \in BdSlots : bdReq[s] # Absent => bdReq[s] \in BdRequests /\ bdReq[s].len <= Room
    /\ DOMAIN bdTable = BdSlots /\ TablesFit(bdTable) /\ Len(bdMapping) \in Nat
    /\ bdTurn \in [turns : Nat, passes : Nat]
    /\ DOMAIN bdKv = 0 .. BdBlocks
    /\ \A b \in 0 .. BdBlocks : DOMAIN bdKv[b] = 0 .. BdPage - 1

RowsKnown ==
    /\ bdKvRows \in {"none", "rows"}
    /\ bdPhase \in {"profiled", "serving"} => bdKvRows = "rows"

CtInv == CtTypeOK /\ Owned(bdTable) /\ LastResident /\ RowsKnown /\ ContextIsText

LEMMA PagesFit ==
    /\ BdPage \in Nat \ {0} /\ BdStride \in Nat \ {0} /\ BdBlocks \in Nat /\ BdWindow \in Nat
    /\ BdPage \in Nat /\ BdStride \in Nat /\ 0 \in 0 .. BdBlocks
BY BlockDrafterAssumption

-----------------------------------------------------------------------------
(* The rows of a pass, one request's after the other's                     *)

\* A concatenation of sequences as a function of how many are put together.
Joins(f, seqs) ==
    DOMAIN f = 1 .. Len(seqs) /\ \A i \in 1 .. Len(seqs) : f[i] = IF i = 1 THEN seqs[1] ELSE f[i - 1] \o seqs[i]

LEMMA Joined ==
    ASSUME NEW D, NEW seqs \in Seq(Seq(D)), Len(seqs) # 0
    PROVE  \E f : Joins(f, seqs) /\ FlattenSeq(seqs) = f[Len(seqs)]
<1>. DEFINE n == Len(seqs)
            g == [i \in 1 .. n |-> [z \in Seq(D) |-> z \o seqs[i]]]
            F == CHOOSE f : f = [i \in 1 .. n |-> IF i = 1 THEN seqs[i] ELSE f[i - 1] \o seqs[i]]
<1>1. n \in Nat /\ n # 0 /\ \A i \in 1 .. n : seqs[i] \in Seq(D)
  OBVIOUS
<1>2. g \in StepFunctions(n, Seq(D))
  BY <1>1 DEF StepFunctions
<1>3. <<>> \in Seq(D)
  OBVIOUS
<1>4. PICK h : Unrolled(h, n, Seq(D), g, <<>>)
  BY <1>1, <1>2, <1>3, Unrolls
<1>5. PICK k : k = [i \in 1 .. n |-> h[i]]
  OBVIOUS
<1>6. ASSUME NEW i \in 1 .. n PROVE k[i] = IF i = 1 THEN seqs[i] ELSE k[i - 1] \o seqs[i]
  <2>1. h[i] = g[i][h[i - 1]] /\ h \in [0 .. n -> Seq(D)] /\ h[0] = <<>>
    BY <1>4 DEF Unrolled
  <2>2. h[i - 1] \in Seq(D)
    <3>1. i - 1 \in 0 .. n
      BY <1>1
    <3>. QED  BY <2>1, <3>1
  <2>3. h[i] = h[i - 1] \o seqs[i]
    BY <2>1, <2>2
  <2>4. CASE i = 1
    <3>1. h[i - 1] = <<>> /\ seqs[i] \in Seq(D)
      BY <1>1, <2>1, <2>4
    <3>2. <<>> \o seqs[i] = seqs[i]
      BY <3>1
    <3>. QED  BY <1>5, <2>3, <2>4, <3>1, <3>2
  <2>5. CASE i # 1
    <3>1. i - 1 \in 1 .. n
      BY <1>1, <2>5
    <3>. QED  BY <1>5, <2>3, <2>5, <3>1
  <2>. QED  BY <2>4, <2>5
<1>7. k = [i \in 1 .. n |-> IF i = 1 THEN seqs[i] ELSE k[i - 1] \o seqs[i]]
  BY SMTT(30), <1>5, <1>6
<1>8. F = [i \in 1 .. n |-> IF i = 1 THEN seqs[i] ELSE F[i - 1] \o seqs[i]]
  BY Zenon, <1>7
<1>9. FlattenSeq(seqs) = F[n]
  BY DEF FlattenSeq
<1>. HIDE DEF F
<1>10. Joins(F, seqs)
  BY <1>1, <1>8 DEF Joins
<1>. QED  BY <1>9, <1>10

\* What a sequence of sequences holds, it holds flattened too, and nothing else.
LEMMA Flattened ==
    ASSUME NEW D, NEW seqs \in Seq(Seq(D))
    PROVE  /\ FlattenSeq(seqs) \in Seq(D)
           /\ \A j \in 1 .. Len(FlattenSeq(seqs)) :
                 \E i \in 1 .. Len(seqs) : \E k \in 1 .. Len(seqs[i]) : FlattenSeq(seqs)[j] = seqs[i][k]
           /\ \A i \in 1 .. Len(seqs) : \A k \in 1 .. Len(seqs[i]) :
                 \E j \in 1 .. Len(FlattenSeq(seqs)) : FlattenSeq(seqs)[j] = seqs[i][k]
<1>. DEFINE n == Len(seqs)
            Holds(s, m) ==
                /\ s \in Seq(D)
                /\ \A j \in 1 .. Len(s) : \E i \in 1 .. m : \E k \in 1 .. Len(seqs[i]) : s[j] = seqs[i][k]
                /\ \A i \in 1 .. m : \A k \in 1 .. Len(seqs[i]) : \E j \in 1 .. Len(s) : s[j] = seqs[i][k]
<1>1. n \in Nat /\ \A i \in 1 .. n : seqs[i] \in Seq(D)
  OBVIOUS
<1>. HIDE DEF Holds
<1>2. CASE n = 0
  <2>1. FlattenSeq(seqs) = seqs
    BY <1>2 DEF FlattenSeq
  <2>2. seqs \in Seq(D) /\ \A i \in 1 .. n : FALSE
    BY <1>1, <1>2
  <2>. QED  BY <2>1, <2>2
<1>3. CASE n # 0
  <2>1. PICK f : Joins(f, seqs) /\ FlattenSeq(seqs) = f[n]
    BY <1>3, Joined
  <2>. DEFINE S == {m \in Nat : m \in 1 .. n => Holds(f[m], m)}
  <2>2. 0 \in S
    OBVIOUS
  <2>3. ASSUME NEW m \in Nat, m \in S PROVE m + 1 \in S
    <3>. SUFFICES ASSUME m + 1 \in 1 .. n PROVE Holds(f[m + 1], m + 1)
      OBVIOUS
    <3>0. PICK l \in Nat : l = m + 1
      OBVIOUS
    <3>1. l \in 1 .. n /\ seqs[l] \in Seq(D)
      BY <1>1, <3>0
    <3>2. CASE m = 0
      <4>1. l = 1
        BY <3>0, <3>2
      <4>10. f[l] = seqs[l]
        BY <2>1, <3>1, <4>1 DEF Joins
      <4>2. \A i \in 1 .. l : i = l
        BY <4>1
      <4>3. l \in 1 .. l
        BY <4>1
      <4>4. Holds(f[l], l)
        BY <3>1, <4>1, <4>10, <4>2, <4>3 DEF Holds
      <4>. QED  BY <3>0, <4>4
    <3>3. CASE m # 0
      <4>1. m \in 1 .. n /\ Holds(f[m], m)
        <5>1. m \in 1 .. n
          BY <1>1, <3>0, <3>1, <3>3
        <5>. QED  BY <2>3, <5>1
      <4>2. f[l] = f[m] \o seqs[l]
        <5>1. l # 1 /\ l - 1 = m
          BY <3>0, <3>3
        <5>. QED  BY <2>1, <3>1, <5>1 DEF Joins
      <4>3. PICK a, b : a = f[m] /\ b = seqs[l]
        OBVIOUS
      <4>4. a \in Seq(D) /\ b \in Seq(D) /\ Len(a) \in Nat /\ Len(b) \in Nat
        BY <3>1, <4>1, <4>3 DEF Holds
      <4>5. PICK c : c = a \o b
        OBVIOUS
      <4>6. /\ c \in Seq(D) /\ Len(c) = Len(a) + Len(b)
            /\ \A j \in 1 .. Len(a) : c[j] = a[j]
            /\ \A j \in 1 .. Len(b) : c[Len(a) + j] = b[j]
        BY <4>4, <4>5
      <4>7. ASSUME NEW j \in 1 .. Len(c)
            PROVE  \E i \in 1 .. l : \E k \in 1 .. Len(seqs[i]) : c[j] = seqs[i][k]
        <5>1. CASE j <= Len(a)
          <6>1. j \in 1 .. Len(a)
            BY <4>4, <4>6, <5>1
          <6>2. PICK i \in 1 .. m : \E k \in 1 .. Len(seqs[i]) : a[j] = seqs[i][k]
            BY <4>1, <4>3, <6>1 DEF Holds
          <6>3. i \in 1 .. l
            BY <3>0
          <6>. QED  BY <4>6, <6>1, <6>2, <6>3
        <5>2. CASE j > Len(a)
          <6>1. PICK k \in 1 .. Len(b) : j = Len(a) + k
            <7>1. j - Len(a) \in 1 .. Len(b) /\ j = Len(a) + (j - Len(a))
              BY <4>4, <4>6, <5>2
            <7>. QED  BY <7>1
          <6>2. c[j] = b[k]
            BY <4>6, <6>1
          <6>3. l \in 1 .. l
            BY <3>1
          <6>. QED  BY <4>3, <6>2, <6>3
        <5>. QED  BY <4>4, <4>6, <5>1, <5>2
      <4>8. ASSUME NEW i \in 1 .. l, NEW k \in 1 .. Len(seqs[i])
            PROVE  \E j \in 1 .. Len(c) : c[j] = seqs[i][k]
        <5>1. CASE i = l
          <6>1. PICK j \in Nat : j = Len(a) + k
            BY <4>4
          <6>2. k \in 1 .. Len(b) /\ j \in 1 .. Len(c)
            <7>1. k \in 1 .. Len(b)
              BY <4>3, <5>1
            <7>. QED  BY <4>4, <4>6, <6>1, <7>1
          <6>3. c[j] = b[k]
            BY <4>6, <6>1, <6>2
          <6>. QED  BY <4>3, <5>1, <6>2, <6>3
        <5>2. CASE i # l
          <6>1. i \in 1 .. m
            BY <3>0, <5>2
          <6>2. PICK j \in 1 .. Len(a) : a[j] = seqs[i][k]
            BY <4>1, <4>3, <6>1 DEF Holds
          <6>3. j \in 1 .. Len(c)
            BY <4>4, <4>6
          <6>. QED  BY <4>6, <6>2, <6>3
        <5>. QED  BY <5>1, <5>2
      <4>9. Holds(c, l)
        BY <4>6, <4>7, <4>8 DEF Holds
      <4>10. c = f[l]
        BY <4>2, <4>3, <4>5
      <4>. QED  BY <3>0, <4>9, <4>10
    <3>. QED  BY <3>2, <3>3
  <2>. HIDE DEF S
  <2>4. n \in S
    BY <1>1, <2>2, <2>3, EachStep
  <2>5. n \in 1 .. n
    BY <1>1, <1>3
  <2>6. Holds(f[n], n)
    BY <2>4, <2>5 DEF S
  <2>. QED  BY <2>1, <2>6 DEF Holds
<1>. QED  BY <1>2, <1>3

-----------------------------------------------------------------------------
(* The blocks a step is given                                              *)

Ranked(v, D) ==
    IsFiniteSet(D) /\ (\A d \in D : v[d] \in Int) /\ \A c, d \in D : v[c] = v[d] => c = d

LEMMA RankTaken ==
    \A v, D : Ranked(v, D) => \A j \in 0 .. Cardinality(D) - 1 : \E x \in D : Rank(v, D, x) = j
BY EveryRank DEF Ranked

\* Of a set of numbers there is one with as many below it as one likes.
LEMMA CountBelow ==
    ASSUME NEW F, F \subseteq Nat, IsFiniteSet(F), NEW k \in 0 .. Cardinality(F) - 1
    PROVE  \E b \in F : Cardinality({c \in F : c < b}) = k
<1>. DEFINE v == [x \in F |-> 0 - x]
<1>1. \A d \in F : v[d] \in Int
  OBVIOUS
<1>4. \A c, d \in F : v[c] = v[d] => c = d
  OBVIOUS
<1>2. ASSUME NEW b \in F PROVE Above(v, F, b) = {c \in F : c < b}
  <2>1. \A c \in F : v[c] > v[b] <=> c < b
    OBVIOUS
  <2>. QED  BY <2>1 DEF Above
<1>. HIDE DEF v
<1>5. Ranked(v, F) /\ k \in 0 .. Cardinality(F) - 1
  BY <1>1, <1>4 DEF Ranked
<1>6. \A j \in 0 .. Cardinality(F) - 1 : \E x \in F : Rank(v, F, x) = j
  BY <1>5, RankTaken, Zenon
<1>3. PICK b \in F : Rank(v, F, b) = k
  BY <1>5, <1>6
<1>. QED  BY <1>2, <1>3 DEF Rank

\* Entries of a set of pages that come before one.
EntriesBefore(N, x) == {y \in N : y[1] < x[1] \/ (y[1] = x[1] /\ y[2] < x[2])}

LEMMA PlacesCounted ==
    ASSUME NEW N, N \subseteq BdSlots \X Pages, IsFiniteSet(N), NEW x \in N, NEW y \in N
    PROVE  /\ Cardinality(EntriesBefore(N, x)) \in 0 .. Cardinality(N) - 1
           /\ Cardinality(EntriesBefore(N, x)) = Cardinality(EntriesBefore(N, y)) => x = y
<1>1. BdSlots \subseteq Nat /\ Pages \subseteq Nat
  BY BlockFacts, PagesFit DEF Pages
<1>2. ASSUME NEW a \in N
      PROVE  /\ a[1] \in Nat /\ a[2] \in Nat /\ a = <<a[1], a[2]>>
             /\ EntriesBefore(N, a) \in SUBSET N /\ a \notin EntriesBefore(N, a)
             /\ IsFiniteSet(EntriesBefore(N, a)) /\ Cardinality(EntriesBefore(N, a)) \in Nat
  <2>0. PICK c \in BdSlots, d \in Pages : a = <<c, d>>
    OBVIOUS
  <2>1. a[1] \in Nat /\ a[2] \in Nat /\ a = <<a[1], a[2]>>
    BY <1>1, <2>0
  <2>2. EntriesBefore(N, a) \in SUBSET N /\ a \notin EntriesBefore(N, a)
    BY <2>1 DEF EntriesBefore
  <2>. QED  BY <2>1, <2>2, FS_Subset, FS_CardinalityType
<1>3. ASSUME NEW a \in N, NEW b \in N, a \in EntriesBefore(N, b)
      PROVE  Cardinality(EntriesBefore(N, a)) # Cardinality(EntriesBefore(N, b))
  <2>1. EntriesBefore(N, a) \in SUBSET EntriesBefore(N, b)
    <3>1. \A c \in N : c[1] \in Nat /\ c[2] \in Nat
      BY <1>2
    <3>. QED  BY <1>3, <3>1 DEF EntriesBefore
  <2>2. EntriesBefore(N, a) # EntriesBefore(N, b)
    BY <1>2, <1>3
  <2>. QED  BY <1>2, <2>1, <2>2, FS_Subset
<1>4. x # y => x \in EntriesBefore(N, y) \/ y \in EntriesBefore(N, x)
  <2>1. PICK a, b, c, d : a = x[1] /\ b = x[2] /\ c = y[1] /\ d = y[2]
    OBVIOUS
  <2>2. a \in Nat /\ b \in Nat /\ c \in Nat /\ d \in Nat /\ x = <<a, b>> /\ y = <<c, d>>
    BY <1>2, <2>1
  <2>3. x # y => a < c \/ (a = c /\ b < d) \/ c < a \/ (c = a /\ d < b)
    BY <2>2
  <2>. QED  BY <2>1, <2>3 DEF EntriesBefore
<1>5. Cardinality(EntriesBefore(N, x)) \in 0 .. Cardinality(N) - 1
  <2>1. Cardinality(N) \in Nat
    BY FS_CardinalityType
  <2>2. EntriesBefore(N, x) # N
    BY <1>2
  <2>3. Cardinality(EntriesBefore(N, x)) <= Cardinality(N) /\ Cardinality(EntriesBefore(N, x)) # Cardinality(N)
    BY <1>2, <2>2, FS_Subset
  <2>. QED  BY <1>2, <2>1, <2>3
<1>. QED  BY <1>3, <1>4, <1>5

\* The block a page that needs one is given.
BlockGiven(S, x) ==
    CHOOSE b \in Free : Cardinality({c \in Free : c < b}) = Cardinality(EntriesBefore(Needed(S), x))

LEMMA GivenIs ==
    ASSUME NEW S, S \subseteq BdSlots, Cardinality(Needed(S)) <= Cardinality(Free)
    PROVE  /\ \A x \in Needed(S) : BlockGiven(S, x) \in Free
           /\ \A x, y \in Needed(S) : BlockGiven(S, x) = BlockGiven(S, y) => x = y
<1>. DEFINE N == Needed(S)
            below(b) == Cardinality({c \in Free : c < b})
<1>1. IsFiniteSet(Free) /\ Free \subseteq Nat /\ Cardinality(Free) \in Nat
  <2>1. Free \in SUBSET (1 .. BdBlocks)
    BY DEF Free
  <2>2. BdBlocks \in Nat
    BY PagesFit
  <2>3. IsFiniteSet(1 .. BdBlocks)
    BY <2>2, FS_Interval
  <2>4. Free \subseteq Nat
    BY <2>1, <2>2
  <2>5. IsFiniteSet(Free)
    BY <2>1, <2>3, FS_Subset
  <2>. QED  BY <2>4, <2>5, FS_CardinalityType
<1>2. N \subseteq BdSlots \X Pages /\ IsFiniteSet(N)
  <2>1. IsFiniteSet(BdSlots)
    BY BlockDrafterAssumption
  <2>2. 0 \in Int /\ BdStride - 1 \in Int
    BY PagesFit
  <2>3. IsFiniteSet(Pages)
    BY <2>2, FS_Interval DEF Pages
  <2>4. IsFiniteSet(BdSlots \X Pages)
    BY <2>1, <2>3, FS_Product
  <2>5. N \in SUBSET (BdSlots \X Pages)
    BY DEF Needed
  <2>. QED  BY <2>4, <2>5, FS_Subset
<1>. HIDE DEF N
<1>3. ASSUME NEW x \in N
      PROVE  BlockGiven(S, x) \in Free /\ below(BlockGiven(S, x)) = Cardinality(EntriesBefore(N, x))
  <2>1. PICK k : k = Cardinality(EntriesBefore(N, x))
    OBVIOUS
  <2>2. k \in 0 .. Cardinality(N) - 1
    BY <1>2, <2>1, PlacesCounted
  <2>3. Cardinality(N) \in Nat
    BY <1>2, FS_CardinalityType
  <2>4. Cardinality(N) <= Cardinality(Free)
    BY DEF N
  <2>5. k \in 0 .. Cardinality(Free) - 1
    BY <1>1, <2>2, <2>3, <2>4
  <2>6. \E b \in Free : below(b) = k
    BY <1>1, <2>5, CountBelow
  <2>7. BlockGiven(S, x) = CHOOSE b \in Free : below(b) = k
    BY <2>1 DEF BlockGiven, N
  <2>. HIDE DEF below
  <2>8. BlockGiven(S, x) \in Free /\ below(BlockGiven(S, x)) = k
    BY <2>6, <2>7
  <2>. QED  BY <2>1, <2>8 DEF below
<1>. HIDE DEF below
<1>4. ASSUME NEW x \in N, NEW y \in N, BlockGiven(S, x) = BlockGiven(S, y) PROVE x = y
  <2>1. Cardinality(EntriesBefore(N, x)) = Cardinality(EntriesBefore(N, y))
    BY <1>3, <1>4
  <2>. QED  BY <1>2, <2>1, PlacesCounted
<1>. QED  BY <1>3, <1>4 DEF N

\* The tables of a step: a page keeps its block, loses it to the window, or is given one
\* that nobody has.
TablesOfStep(T, S, valid) ==
    /\ TablesFit(T) /\ Owned(T)
    /\ \A s \in BdSlots, p \in Pages :
          /\ s \notin S => T[s][p] = bdTable[s][p]
          /\ T[s][p] # 0 => T[s][p] = bdTable[s][p] \/ <<s, p>> \in Needed(S)
          /\ bdTable[s][p] # 0 \/ <<s, p>> \in Needed(S) =>
                \/ T[s][p] # 0
                \/ (p + 1) * BdPage <= bdReq[s].len + valid[s] - BdWindow

LEMMA TablesAre ==
    ASSUME NEW S, S \subseteq BdSlots, Cardinality(Needed(S)) <= Cardinality(Free),
           NEW valid, NEW evict, TablesFit(bdTable), Owned(bdTable)
    PROVE  TablesOfStep(Tables(S, valid, evict), S, valid)
<1>. DEFINE T == Tables(S, valid, evict)
            N == Needed(S)
            gone(s, p) == evict /\ s \in S /\ (p + 1) * BdPage <= bdReq[s].len + valid[s] - BdWindow
<1>1. ASSUME NEW s \in BdSlots, NEW p \in Pages
      PROVE  T[s][p] = IF gone(s, p) THEN 0
                       ELSE IF <<s, p>> \in N THEN BlockGiven(S, <<s, p>>) ELSE bdTable[s][p]
  BY Zenon DEF Tables, BlockGiven, EntriesBefore
<1>2. ASSUME NEW s \in BdSlots, NEW p \in Pages, <<s, p>> \in N
      PROVE  s \in S /\ bdTable[s][p] = 0
  BY <1>2 DEF Needed
<1>3. ASSUME NEW s \in BdSlots, NEW p \in Pages, gone(s, p)
      PROVE  s \in S /\ (p + 1) * BdPage <= bdReq[s].len + valid[s] - BdWindow
  BY <1>3
<1>4. \A x \in N : BlockGiven(S, x) \in Free /\ \A y \in N : BlockGiven(S, x) = BlockGiven(S, y) => x = y
  BY GivenIs
<1>5. ASSUME NEW b \in Free
      PROVE  b \in 0 .. BdBlocks /\ b # 0 /\ \A s \in BdSlots, p \in Pages : bdTable[s][p] # b
  <2>1. BdBlocks \in Nat
    BY PagesFit
  <2>. QED  BY <2>1 DEF Free
<1>. HIDE DEF T, N, gone
<1>6. ASSUME NEW s \in BdSlots, NEW p \in Pages
      PROVE  \/ T[s][p] = 0 /\ gone(s, p)
             \/ <<s, p>> \in N /\ T[s][p] = BlockGiven(S, <<s, p>>)
             \/ <<s, p>> \notin N /\ T[s][p] = bdTable[s][p]
  BY <1>1
<1>7. 0 \in 0 .. BdBlocks
  BY PagesFit
<1>8. TablesFit(T)
  <2>1. ASSUME NEW s \in BdSlots, NEW p \in Pages PROVE T[s][p] \in 0 .. BdBlocks
    <3>1. <<s, p>> \in N => BlockGiven(S, <<s, p>>) \in 0 .. BdBlocks
      BY <1>4, <1>5
    <3>2. bdTable[s][p] \in 0 .. BdBlocks
      BY DEF TablesFit
    <3>. QED  BY <1>6, <1>7, <3>1, <3>2
  <2>. QED  BY <2>1 DEF TablesFit
<1>9. ASSUME NEW s \in BdSlots, NEW t \in BdSlots, NEW p \in Pages, NEW q \in Pages,
             T[s][p] # 0, T[s][p] = T[t][q]
      PROVE  s = t /\ p = q
  <2>1. CASE <<s, p>> \in N /\ T[s][p] = BlockGiven(S, <<s, p>>)
    <3>1. T[s][p] \in Free
      BY <1>4, <2>1
    <3>2. T[t][q] # bdTable[t][q]
      BY <1>5, <1>9, <3>1
    <3>3. <<t, q>> \in N /\ T[t][q] = BlockGiven(S, <<t, q>>)
      BY <1>6, <1>9, <3>2
    <3>4. <<s, p>> = <<t, q>>
      BY <1>4, <1>9, <2>1, <3>3
    <3>. QED  BY <3>4
  <2>2. CASE <<s, p>> \notin N /\ T[s][p] = bdTable[s][p]
    <3>1. T[t][q] \notin Free
      BY <1>5, <1>9, <2>2
    <3>2. T[t][q] = bdTable[t][q]
      BY <1>4, <1>6, <1>9, <3>1
    <3>3. bdTable[s][p] # 0 /\ bdTable[s][p] = bdTable[t][q]
      BY <1>9, <2>2, <3>2
    <3>. QED  BY <3>3 DEF Owned
  <2>. QED  BY <1>6, <1>9, <2>1, <2>2
<1>10. ASSUME NEW s \in BdSlots, NEW p \in Pages
       PROVE  /\ s \notin S => T[s][p] = bdTable[s][p]
              /\ T[s][p] # 0 => T[s][p] = bdTable[s][p] \/ <<s, p>> \in N
              /\ bdTable[s][p] # 0 \/ <<s, p>> \in N =>
                    \/ T[s][p] # 0
                    \/ (p + 1) * BdPage <= bdReq[s].len + valid[s] - BdWindow
  <2>1. s \notin S => ~gone(s, p) /\ <<s, p>> \notin N
    BY <1>2, <1>3
  <2>2. <<s, p>> \in N => BlockGiven(S, <<s, p>>) # 0
    BY <1>4, <1>5
  <2>. QED  BY <1>3, <1>6, <2>1, <2>2
<1>11. Owned(T)
  BY <1>9 DEF Owned
<1>. QED  BY <1>8, <1>10, <1>11 DEF T, N, TablesOfStep

-----------------------------------------------------------------------------
(* Where a pass writes                                                     *)

LEMMA PageFacts ==
    ASSUME NEW x \in 0 .. Room - 1
    PROVE  /\ x \in Nat /\ x \div BdPage \in Pages /\ x % BdPage \in 0 .. BdPage - 1
           /\ x = (x \div BdPage) * BdPage + (x % BdPage)
           /\ Smaller(x \div BdPage, BdStride - 1) = x \div BdPage
<1>1. BdPage \in Nat \ {0} /\ BdStride \in Nat \ {0}
  BY PagesFit
<1>2. PICK n : n = Room
  OBVIOUS
<1>3. n \in Nat
  BY <1>1, <1>2 DEF Room
<1>4. x \in Nat /\ x < BdStride * BdPage
  BY <1>2, <1>3 DEF Room
<1>5. PICK q, r : q = x \div BdPage /\ r = x % BdPage
  OBVIOUS
<1>6. q \in Nat /\ r \in 0 .. BdPage - 1 /\ x = q * BdPage + r
  BY <1>1, <1>4, <1>5, Division
<1>7. ~(q >= BdStride)
  <2>. SUFFICES ASSUME q >= BdStride PROVE FALSE
    OBVIOUS
  <2>1. PICK d \in Nat : q = BdStride + d
    <3>1. q - BdStride \in Nat /\ q = BdStride + (q - BdStride)
      BY <1>1, <1>6
    <3>. QED  BY <3>1
  <2>2. PICK a, b, c : a = q * BdPage /\ b = BdStride * BdPage /\ c = d * BdPage
    OBVIOUS
  <2>3. a = b + c /\ b \in Nat /\ c \in Nat
    BY <1>1, <2>1, <2>2
  <2>. QED  BY <1>4, <1>6, <2>2, <2>3
<1>8. q \in 0 .. BdStride - 1 /\ q <= BdStride - 1
  BY <1>1, <1>6, <1>7
<1>. QED  BY <1>4, <1>5, <1>6, <1>8 DEF Pages, Smaller

\* The place of a position is the place of no other position of any request.
LEMMA PositionIs ==
    ASSUME NEW T, TablesFit(T), Owned(T), NEW s \in BdSlots, NEW t \in BdSlots,
           NEW x \in 0 .. Room - 1, NEW y \in 0 .. Room - 1,
           SlotAt(T, t, y) = [block |-> T[s][x \div BdPage], at |-> x % BdPage]
    PROVE  t = s /\ y = x
<1>1. PICK p, o : p = x \div BdPage /\ o = x % BdPage
  OBVIOUS
<1>10. PICK q, u : q = y \div BdPage /\ u = y % BdPage
  OBVIOUS
<1>2. /\ p \in Pages /\ q \in Pages /\ x = p * BdPage + o /\ y = q * BdPage + u
      /\ Smaller(q, BdStride - 1) = q
  BY <1>1, <1>10, PageFacts
<1>3. T[s][p] \in Int /\ T[s][p] >= 0
  BY <1>2, PagesFit DEF TablesFit
<1>4. PICK place : place = [block |-> T[s][p], at |-> o] /\ SlotAt(T, t, y) = place
  BY <1>1
<1>5. BlockAt(T, t, y) = T[t][q]
  BY <1>10, <1>2 DEF BlockAt
<1>6. place # Pad
  <2>1. place.block = T[s][p] /\ Pad.block = -1
    BY <1>4 DEF Pad
  <2>. QED  BY <1>3, <2>1
<1>7. T[t][q] # 0 /\ place = [block |-> T[t][q], at |-> u]
  BY <1>10, <1>4, <1>5, <1>6 DEF SlotAt, Resident
<1>8. T[t][q] = T[s][p] /\ u = o
  <2>1. place.block = T[s][p] /\ place.at = o
    BY <1>4
  <2>2. place.block = T[t][q] /\ place.at = u
    BY <1>7
  <2>. QED  BY <2>1, <2>2
<1>9. t = s /\ q = p
  BY <1>2, <1>7, <1>8 DEF Owned
<1>11. x = p * BdPage + o /\ y = q * BdPage + u
  BY <1>2
<1>12. u = o
  BY <1>8
<1>13. y = x
  BY <1>9, <1>11, <1>12, Zenon
<1>. QED  BY <1>9, <1>13

\* No position is placed in the null block.
LEMMA NullIsNoPlace ==
    ASSUME NEW T, NEW t, NEW y, NEW o PROVE SlotAt(T, t, y) # [block |-> 0, at |-> o] /\ Pad # [block |-> 0, at |-> o]
<1>1. PICK place : place = [block |-> 0, at |-> o]
  OBVIOUS
<1>2. place.block = 0
  BY <1>1
<1>3. Pad.block = -1
  BY DEF Pad
<1>4. Pad # place
  BY <1>2, <1>3
<1>5. ASSUME BlockAt(T, t, y) # 0 PROVE SlotAt(T, t, y) # place
  <2>1. SlotAt(T, t, y).block = BlockAt(T, t, y)
    BY <1>5 DEF SlotAt, Resident
  <2>. QED  BY <1>2, <1>5, <2>1
<1>6. BlockAt(T, t, y) = 0 => SlotAt(T, t, y) = Pad
  BY DEF SlotAt, Resident
<1>. QED  BY <1>1, <1>4, <1>5, <1>6

RowAt(s, k, valid) == [slot |-> s, pos |-> bdReq[s].len + k - 1, valid |-> k <= valid[s]]
BdRows == [slot : BdSlots, pos : Nat, valid : BOOLEAN]

\* A batch of requests that are there.
InFlight(slots) == IsBatch(slots) /\ \A s \in ToSet(slots) : bdReq[s] # Absent

\* The rows of a batch are those of its requests' tokens.
RowsOfBatch(rows, slots, valid) ==
    /\ rows \in Seq(BdRows)
    /\ \A j \in 1 .. Len(rows) : \E s \in ToSet(slots) : \E k \in 1 .. bdReq[s].n :
          rows[j] = RowAt(s, k, valid)
    /\ \A s \in ToSet(slots) : \A k \in 1 .. bdReq[s].n : \E j \in 1 .. Len(rows) :
          rows[j] = RowAt(s, k, valid)

LEMMA RowsAre ==
    ASSUME CtTypeOK, NEW slots, InFlight(slots), NEW valid
    PROVE  RowsOfBatch(ContextRows(slots, valid), slots, valid)
<1>. DEFINE seqs == [i \in DOMAIN slots |-> [k \in 1 .. bdReq[slots[i]].n |-> RowAt(slots[i], k, valid)]]
            n == Len(slots)
<1>1. slots \in Seq(BdSlots) /\ n \in Nat /\ DOMAIN slots = 1 .. n
  BY DEF InFlight, IsBatch
<1>2. ToSet(slots) = {slots[i] : i \in 1 .. n}
  BY <1>1 DEF ToSet
<1>3. ASSUME NEW i \in 1 .. n
      PROVE  /\ slots[i] \in BdSlots /\ slots[i] \in ToSet(slots)
             /\ bdReq[slots[i]].n \in Nat /\ bdReq[slots[i]].len \in Nat
  <2>1. slots[i] \in BdSlots /\ slots[i] \in ToSet(slots)
    BY <1>1, <1>2
  <2>. QED  BY <2>1 DEF InFlight, CtTypeOK, BdRequests
<1>4. ContextRows(slots, valid) = FlattenSeq(seqs)
  BY DEF ContextRows, RowAt
<1>5. ASSUME NEW i \in 1 .. n
      PROVE  /\ seqs[i] \in Seq(BdRows) /\ Len(seqs[i]) = bdReq[slots[i]].n
             /\ \A k \in 1 .. bdReq[slots[i]].n : seqs[i][k] = RowAt(slots[i], k, valid)
  <2>1. PICK m \in Nat : m = bdReq[slots[i]].n
    BY <1>3
  <2>2. PICK r : r = [k \in 1 .. m |-> RowAt(slots[i], k, valid)]
    OBVIOUS
  <2>3. \A k \in 1 .. m : RowAt(slots[i], k, valid) \in BdRows
    <3>1. ASSUME NEW k \in 1 .. m PROVE bdReq[slots[i]].len + k - 1 \in Nat
      BY <1>3
    <3>2. \A k \in 1 .. m : (k <= valid[slots[i]]) \in BOOLEAN
      OBVIOUS
    <3>. QED  BY <1>3, <3>1, <3>2 DEF RowAt, BdRows
  <2>4. r \in [1 .. m -> BdRows]
    BY <2>2, <2>3
  <2>5. r \in Seq(BdRows) /\ Len(r) = m
    BY <2>4, SeqDef
  <2>6. seqs[i] = r
    BY <1>1, <2>1, <2>2
  <2>. QED  BY <2>1, <2>2, <2>5, <2>6
<1>6. seqs \in Seq(Seq(BdRows)) /\ Len(seqs) = n
  <2>1. seqs \in [1 .. n -> Seq(BdRows)]
    BY <1>1, <1>5
  <2>. QED  BY <1>1, <2>1, SeqDef
<1>. HIDE DEF seqs
<1>7. PICK rows : rows = FlattenSeq(seqs)
  OBVIOUS
<1>8. /\ rows \in Seq(BdRows)
      /\ \A j \in 1 .. Len(rows) : \E i \in 1 .. n : \E k \in 1 .. Len(seqs[i]) : rows[j] = seqs[i][k]
      /\ \A i \in 1 .. n : \A k \in 1 .. Len(seqs[i]) : \E j \in 1 .. Len(rows) : rows[j] = seqs[i][k]
  <2>1. /\ FlattenSeq(seqs) \in Seq(BdRows)
        /\ \A j \in 1 .. Len(FlattenSeq(seqs)) :
              \E i \in 1 .. Len(seqs) : \E k \in 1 .. Len(seqs[i]) : FlattenSeq(seqs)[j] = seqs[i][k]
        /\ \A i \in 1 .. Len(seqs) : \A k \in 1 .. Len(seqs[i]) :
              \E j \in 1 .. Len(FlattenSeq(seqs)) : FlattenSeq(seqs)[j] = seqs[i][k]
    BY <1>6, Flattened
  <2>. QED  BY <1>6, <1>7, <2>1
<1>9. ASSUME NEW j \in 1 .. Len(rows)
      PROVE  \E s \in ToSet(slots) : \E k \in 1 .. bdReq[s].n : rows[j] = RowAt(s, k, valid)
  <2>1. PICK i \in 1 .. n : \E k \in 1 .. Len(seqs[i]) : rows[j] = seqs[i][k]
    BY <1>8
  <2>2. PICK k \in 1 .. Len(seqs[i]) : rows[j] = seqs[i][k]
    BY <2>1
  <2>3. k \in 1 .. bdReq[slots[i]].n /\ rows[j] = RowAt(slots[i], k, valid)
    BY <1>5, <2>2
  <2>. QED  BY <1>3, <2>3
<1>10. ASSUME NEW s \in ToSet(slots), NEW k \in 1 .. bdReq[s].n
       PROVE  \E j \in 1 .. Len(rows) : rows[j] = RowAt(s, k, valid)
  <2>1. PICK i \in 1 .. n : s = slots[i]
    BY <1>2
  <2>. QED  BY <1>5, <1>8, <2>1
<1>. QED  BY <1>4, <1>7, <1>8, <1>9, <1>10 DEF RowsOfBatch

LEMMA MappingIs ==
    ASSUME NEW T, NEW rows \in Seq(BdRows), Len(bdMapping) \in Nat
    PROVE  /\ Len(Mapping(T, rows)) \in Nat
           /\ \A j \in 1 .. Len(rows) :
                 Mapping(T, rows)[j] = IF rows[j].valid THEN SlotAt(T, rows[j].slot, rows[j].pos) ELSE Pad
<1>1. PICK m \in Nat, l \in Nat : m = Len(rows) /\ l = Len(bdMapping)
  OBVIOUS
<1>2. Larger(m, l) \in Nat /\ m <= Larger(m, l)
  BY <1>1 DEF Larger
<1>3. PICK n \in Nat : n = Larger(m, l)
  BY <1>2
<1>4. DOMAIN rows = 1 .. m
  BY <1>1
<1>. DEFINE at(i) == IF i \in DOMAIN rows
                     THEN MappedTo(T, rows[i], IF i \in DOMAIN bdMapping THEN bdMapping[i] ELSE Pad)
                     ELSE bdMapping[i]
<1>5. Mapping(T, rows) = [i \in 1 .. n |-> at(i)]
  BY <1>1, <1>3 DEF Mapping
<1>6. ASSUME NEW j \in 1 .. m
      PROVE  at(j) = IF rows[j].valid THEN SlotAt(T, rows[j].slot, rows[j].pos) ELSE Pad
  BY <1>4 DEF MappedTo
<1>. HIDE DEF at
<1>7. Len(Mapping(T, rows)) = n
  BY <1>5
<1>8. \A j \in 1 .. m : j \in 1 .. n
  BY <1>2, <1>3
<1>. QED  BY <1>1, <1>5, <1>6, <1>7, <1>8

\* Query rows of a block that are placed at pl; context rows that are mapped to it.
Asked(T, slots, valid, pl) ==
    \E s \in ToSet(slots) : \E q \in 0 .. Queries - 1 : SlotAt(T, s, bdReq[s].len + valid[s] + q) = pl
HeldIn(rows, mapping, pl) == {i \in DOMAIN rows : mapping[i] = pl}

KvOfPass(kv, T, slots, rows, mapping, valid) ==
    /\ DOMAIN kv = 0 .. BdBlocks
    /\ \A b \in 0 .. BdBlocks : DOMAIN kv[b] = 0 .. BdPage - 1
    /\ \A b \in 0 .. BdBlocks, o \in 0 .. BdPage - 1 : \A pl :
          pl = [block |-> b, at |-> o] /\ ~Asked(T, slots, valid, pl) =>
             /\ HeldIn(rows, mapping, pl) = {} => kv[b][o] = bdKv[b][o]
             /\ HeldIn(rows, mapping, pl) # {} =>
                   \E i \in HeldIn(rows, mapping, pl) :
                      kv[b][o] = [turn |-> bdReq[rows[i].slot].turn, pos |-> rows[i].pos,
                                  kind |-> IF rows[i].valid THEN "text" ELSE "rejected"]

LEMMA KvIs ==
    ASSUME NEW T, NEW slots, NEW rows, NEW mapping, NEW valid, CtTypeOK
    PROVE  KvOfPass(KvAfter(T, slots, rows, mapping, valid), T, slots, rows, mapping, valid)
<1>. DEFINE queries == {[slot |-> s, pos |-> bdReq[s].len + valid[s] + q] :
                           s \in ToSet(slots), q \in 0 .. Queries - 1}
            askedAt(b, o) == {q \in queries : SlotAt(T, q.slot, q.pos) = [block |-> b, at |-> o]}
            heldAt(b, o) == {i \in DOMAIN rows : mapping[i] = [block |-> b, at |-> o]}
            asked(b, o) == LET q == CHOOSE x \in askedAt(b, o) : TRUE
                           IN  [turn |-> bdReq[q.slot].turn, pos |-> q.pos, kind |-> "query"]
            of(i) == [turn |-> bdReq[rows[i].slot].turn, pos |-> rows[i].pos,
                      kind |-> IF rows[i].valid THEN "text" ELSE "rejected"]
            kv == KvAfter(T, slots, rows, mapping, valid)
<1>1. kv = [b \in DOMAIN bdKv |-> [o \in DOMAIN bdKv[b] |->
              IF askedAt(b, o) # {} THEN asked(b, o)
              ELSE IF heldAt(b, o) # {} THEN of(CHOOSE i \in heldAt(b, o) : TRUE)
              ELSE bdKv[b][o]]]
  BY DEF KvAfter
<1>2. ASSUME NEW b, NEW o, ~Asked(T, slots, valid, [block |-> b, at |-> o]) PROVE askedAt(b, o) = {}
  <2>. SUFFICES ASSUME NEW x \in askedAt(b, o) PROVE FALSE
    OBVIOUS
  <2>1. PICK s \in ToSet(slots), q \in 0 .. Queries - 1 : x = [slot |-> s, pos |-> bdReq[s].len + valid[s] + q]
    OBVIOUS
  <2>2. SlotAt(T, x.slot, x.pos) = [block |-> b, at |-> o]
    OBVIOUS
  <2>. QED  BY <1>2, <2>1, <2>2 DEF Asked
<1>3. ASSUME NEW b, NEW o PROVE heldAt(b, o) = HeldIn(rows, mapping, [block |-> b, at |-> o])
  BY DEF HeldIn
<1>. HIDE DEF queries, askedAt, heldAt, asked, of, kv
<1>4. DOMAIN bdKv = 0 .. BdBlocks /\ \A b \in 0 .. BdBlocks : DOMAIN bdKv[b] = 0 .. BdPage - 1
  BY DEF CtTypeOK
<1>5. ASSUME NEW b \in 0 .. BdBlocks
      PROVE  DOMAIN kv[b] = 0 .. BdPage - 1
  BY <1>1, <1>4
<1>6. ASSUME NEW b \in 0 .. BdBlocks, NEW o \in 0 .. BdPage - 1, askedAt(b, o) = {}
      PROVE  /\ heldAt(b, o) = {} => kv[b][o] = bdKv[b][o]
             /\ heldAt(b, o) # {} => \E i \in heldAt(b, o) : kv[b][o] = of(i)
  <2>1. kv[b][o] = IF heldAt(b, o) # {} THEN of(CHOOSE i \in heldAt(b, o) : TRUE) ELSE bdKv[b][o]
    BY <1>1, <1>4, <1>6
  <2>2. heldAt(b, o) # {} => (CHOOSE i \in heldAt(b, o) : TRUE) \in heldAt(b, o)
    BY Zenon
  <2>. QED  BY <2>1, <2>2
<1>7. DOMAIN kv = 0 .. BdBlocks
  BY <1>1, <1>4
<1>8. ASSUME NEW b \in 0 .. BdBlocks, NEW o \in 0 .. BdPage - 1,
             ~Asked(T, slots, valid, [block |-> b, at |-> o])
      PROVE  /\ HeldIn(rows, mapping, [block |-> b, at |-> o]) = {} => kv[b][o] = bdKv[b][o]
             /\ HeldIn(rows, mapping, [block |-> b, at |-> o]) # {} =>
                   \E i \in HeldIn(rows, mapping, [block |-> b, at |-> o]) : kv[b][o] = of(i)
  BY <1>2, <1>3, <1>6, <1>8
<1>. QED  BY <1>5, <1>7, <1>8 DEF of, kv, KvOfPass

-----------------------------------------------------------------------------
(* A pass keeps the text                                                   *)

\* Requests, of which each has room for its step, and what the target accepts of them.
Accepts(slots, valid) ==
    /\ InFlight(slots)
    /\ \A s \in ToSet(slots) : /\ s \in BdSlots /\ bdReq[s] \in BdRequests
                               /\ valid[s] \in 1 .. bdReq[s].n
                               /\ bdReq[s].len + bdReq[s].n + Queries <= Room

LEMMA RowFacts ==
    ASSUME NEW s, NEW k, NEW valid
    PROVE  /\ RowAt(s, k, valid).slot = s /\ RowAt(s, k, valid).pos = bdReq[s].len + k - 1
           /\ k <= valid[s] => RowAt(s, k, valid).valid
           /\ ~(k <= valid[s]) => ~RowAt(s, k, valid).valid
<1>1. RowAt(s, k, valid).slot = s /\ RowAt(s, k, valid).pos = bdReq[s].len + k - 1
  BY DEF RowAt
<1>2. RowAt(s, k, valid).valid = (k <= valid[s])
  BY DEF RowAt
<1>. QED  BY <1>1, <1>2, Zenon

LEMMA StepFits ==
    ASSUME NEW slots, NEW valid, Accepts(slots, valid), NEW s \in ToSet(slots)
    PROVE  /\ bdReq[s].len \in Nat /\ bdReq[s].n \in Nat /\ valid[s] \in Nat /\ Room \in Nat
           /\ \A q \in 0 .. Queries - 1 : bdReq[s].len + valid[s] + q \in 0 .. Room - 1
           /\ \A k \in 1 .. bdReq[s].n : bdReq[s].len + k - 1 \in 0 .. Room - 1
<1>1. PICK n, l, v, Q : n = bdReq[s].n /\ l = bdReq[s].len /\ v = valid[s] /\ Q = Queries
  OBVIOUS
<1>2. n \in Nat /\ l \in Nat /\ v \in 1 .. n /\ l + n + Q <= Room
  BY <1>1 DEF Accepts, BdRequests
<1>3. BdPage \in Nat /\ BdStride \in Nat
  BY PagesFit
<1>4. Room \in Nat
  BY <1>3 DEF Room
<1>5. PICK R \in Nat : R = Room
  BY <1>4
<1>6. Q \in Nat /\ Q >= 2
  BY <1>1, BlockFacts
<1>7. v \in Nat
  BY <1>2
<1>8. \A q \in 0 .. Q - 1 : l + v + q \in 0 .. R - 1
  BY <1>2, <1>5, <1>6, <1>7
<1>9. \A k \in 1 .. n : l + k - 1 \in 0 .. R - 1
  BY <1>2, <1>5, <1>6
<1>. QED  BY <1>1, <1>2, <1>4, <1>5, <1>7, <1>8, <1>9

\* What is written where a position is placed is of that position, and beyond the text.
LEMMA WritesFollow ==
    ASSUME CtTypeOK, NEW slots, NEW valid, Accepts(slots, valid), NEW T, TablesFit(T), Owned(T),
           NEW s \in BdSlots, NEW x \in 0 .. Room - 1, T[s][x \div BdPage] # 0,
           NEW pl, pl = [block |-> T[s][x \div BdPage], at |-> x % BdPage]
    PROVE  LET rows == ContextRows(slots, valid)
               mapping == Mapping(T, rows)
           IN  /\ Asked(T, slots, valid, pl) => s \in ToSet(slots) /\ x >= bdReq[s].len + valid[s]
               /\ \A j \in HeldIn(rows, mapping, pl) :
                     /\ s \in ToSet(slots)
                     /\ \E k \in 1 .. bdReq[s].n :
                           rows[j] = RowAt(s, k, valid) /\ k <= valid[s] /\ x = bdReq[s].len + k - 1
<1>1. PICK rows : rows = ContextRows(slots, valid)
  OBVIOUS
<1>2. PICK mapping : mapping = Mapping(T, rows)
  OBVIOUS
<1>3. ToSet(slots) \subseteq BdSlots /\ InFlight(slots)
  BY DEF Accepts
<1>4. /\ rows \in Seq(BdRows)
      /\ \A j \in 1 .. Len(rows) : \E t \in ToSet(slots) : \E k \in 1 .. bdReq[t].n :
            rows[j] = RowAt(t, k, valid)
  BY <1>1, <1>3, RowsAre DEF RowsOfBatch
<1>5. \A j \in 1 .. Len(rows) :
         mapping[j] = IF rows[j].valid THEN SlotAt(T, rows[j].slot, rows[j].pos) ELSE Pad
  BY <1>2, <1>4, MappingIs DEF CtTypeOK
<1>6. pl # Pad
  <2>1. PICK b : b = T[s][x \div BdPage]
    OBVIOUS
  <2>2. x \div BdPage \in Pages
    BY PageFacts
  <2>3. b \in 0 .. BdBlocks /\ BdBlocks \in Nat
    BY <2>1, <2>2, PagesFit DEF TablesFit
  <2>4. pl.block = b
    BY <2>1
  <2>5. Pad.block = -1
    BY DEF Pad
  <2>. QED  BY <2>3, <2>4, <2>5
<1>7. ASSUME Asked(T, slots, valid, pl) PROVE s \in ToSet(slots) /\ x >= bdReq[s].len + valid[s]
  <2>1. PICK t \in ToSet(slots), q \in 0 .. Queries - 1 : SlotAt(T, t, bdReq[t].len + valid[t] + q) = pl
    BY <1>7 DEF Asked
  <2>2. PICK y : y = bdReq[t].len + valid[t] + q
    OBVIOUS
  <2>3. y \in 0 .. Room - 1 /\ bdReq[t].len \in Nat /\ valid[t] \in Nat
    BY <2>2, StepFits
  <2>4. t \in BdSlots /\ SlotAt(T, t, y) = [block |-> T[s][x \div BdPage], at |-> x % BdPage]
    BY <1>3, <2>1, <2>2
  <2>5. t = s /\ y = x
    BY <2>3, <2>4, PositionIs
  <2>6. q \in Nat
    BY BlockFacts
  <2>7. PICK l \in Nat, v \in Nat : l = bdReq[t].len /\ v = valid[t]
    BY <2>3
  <2>8. y >= l + v
    BY <2>2, <2>6, <2>7
  <2>. QED  BY <2>5, <2>7, <2>8
<1>8. ASSUME NEW j \in HeldIn(rows, mapping, pl)
      PROVE  /\ s \in ToSet(slots)
             /\ \E k \in 1 .. bdReq[s].n :
                   rows[j] = RowAt(s, k, valid) /\ k <= valid[s] /\ x = bdReq[s].len + k - 1
  <2>1. DOMAIN rows = 1 .. Len(rows)
    BY <1>4
  <2>2. j \in 1 .. Len(rows) /\ mapping[j] = pl
    BY <2>1 DEF HeldIn
  <2>3. rows[j].valid /\ SlotAt(T, rows[j].slot, rows[j].pos) = pl
    BY <1>5, <1>6, <2>2, Zenon
  <2>4. PICK t \in ToSet(slots) : \E k \in 1 .. bdReq[t].n : rows[j] = RowAt(t, k, valid)
    BY <1>4, <2>2
  <2>5. PICK k \in 1 .. bdReq[t].n : rows[j] = RowAt(t, k, valid)
    BY <2>4
  <2>6. rows[j].slot = t /\ rows[j].pos = bdReq[t].len + k - 1 /\ k <= valid[t]
    <3>1. PICK row : row = RowAt(t, k, valid) /\ row = rows[j]
      BY <2>5
    <3>2. row.valid
      BY <2>3, <3>1
    <3>3. ~(k <= valid[t]) => ~row.valid
      BY <3>1, RowFacts
    <3>4. k <= valid[t]
      BY <3>2, <3>3
    <3>6. RowAt(t, k, valid).slot = t /\ RowAt(t, k, valid).pos = bdReq[t].len + k - 1
      BY DEF RowAt
    <3>5. row.slot = t /\ row.pos = bdReq[t].len + k - 1
      BY <3>1, <3>6, Zenon
    <3>. QED  BY <3>1, <3>4, <3>5, Zenon
  <2>7. PICK y : y = bdReq[t].len + k - 1
    OBVIOUS
  <2>8. y \in 0 .. Room - 1
    BY <2>7, StepFits
  <2>9. t \in BdSlots /\ SlotAt(T, t, y) = [block |-> T[s][x \div BdPage], at |-> x % BdPage]
    BY <1>3, <2>3, <2>6, <2>7
  <2>10. t = s /\ y = x
    BY <2>8, <2>9, PositionIs
  <2>. QED  BY <2>5, <2>6, <2>7, <2>10
<1>. QED  BY <1>1, <1>2, <1>7, <1>8

\* The text a pass leaves: what was there, of the requests in the batch with what is accepted.
LengthAfter(slots, valid, s) ==
    IF s \in ToSet(slots) THEN bdReq[s].len + valid[s] ELSE bdReq[s].len
TextHeld(kv, T, s, x) ==
    T[s][x \div BdPage] # 0 =>
        kv[T[s][x \div BdPage]][x % BdPage] = [turn |-> bdReq[s].turn, pos |-> x, kind |-> "text"]

TextLeft(T, mapping, kv, slots, valid) ==
    /\ \A s \in BdSlots : bdReq[s] # Absent =>
          \A x \in 0 .. LengthAfter(slots, valid, s) - 1 : TextHeld(kv, T, s, x)
    /\ \A o \in 0 .. BdPage - 1 : kv[0][o] = Nothing
    /\ DOMAIN kv = 0 .. BdBlocks
    /\ \A b \in 0 .. BdBlocks : DOMAIN kv[b] = 0 .. BdPage - 1
    /\ Len(mapping) \in Nat

LEMMA TextKept ==
    ASSUME CtInv, NEW slots, NEW valid, Accepts(slots, valid), NEW evict,
           Cardinality(Needed(ToSet(slots))) <= Cardinality(Free),
           NEW T, T = Tables(ToSet(slots), valid, evict),
           NEW rows, rows = ContextRows(slots, valid), NEW mapping, mapping = Mapping(T, rows),
           NEW kv, kv = KvAfter(T, slots, rows, mapping, valid)
    PROVE  TextLeft(T, mapping, kv, slots, valid)
<1>. DEFINE S == ToSet(slots)
<1>1. T = Tables(S, valid, evict)
  OBVIOUS
<1>2. rows = ContextRows(slots, valid)
  OBVIOUS
<1>3. mapping = Mapping(T, rows)
  OBVIOUS
<1>4. kv = KvAfter(T, slots, rows, mapping, valid)
  OBVIOUS
<1>5. S \subseteq BdSlots /\ InFlight(slots) /\ CtTypeOK /\ Owned(bdTable) /\ TablesFit(bdTable)
  BY DEF Accepts, CtInv, CtTypeOK
<1>6. /\ TablesFit(T) /\ Owned(T)
      /\ \A s \in BdSlots, p \in Pages :
            /\ s \notin S => T[s][p] = bdTable[s][p]
            /\ T[s][p] # 0 => T[s][p] = bdTable[s][p] \/ <<s, p>> \in Needed(S)
  <2>1. TablesOfStep(T, S, valid)
    BY <1>1, <1>5, TablesAre
  <2>. QED  BY <2>1 DEF TablesOfStep
<1>7. /\ rows \in Seq(BdRows)
      /\ \A s \in S : \A k \in 1 .. bdReq[s].n : \E j \in 1 .. Len(rows) : rows[j] = RowAt(s, k, valid)
  <2>1. RowsOfBatch(rows, slots, valid)
    BY <1>2, <1>5, RowsAre
  <2>. QED  BY <2>1 DEF RowsOfBatch
<1>8. /\ Len(mapping) \in Nat
      /\ \A j \in 1 .. Len(rows) :
            mapping[j] = IF rows[j].valid THEN SlotAt(T, rows[j].slot, rows[j].pos) ELSE Pad
  BY <1>3, <1>5, <1>7, MappingIs DEF CtTypeOK
<1>9. /\ DOMAIN kv = 0 .. BdBlocks /\ \A b \in 0 .. BdBlocks : DOMAIN kv[b] = 0 .. BdPage - 1
  <2>1. KvOfPass(kv, T, slots, rows, mapping, valid)
    BY <1>4, <1>5, KvIs
  <2>. QED  BY <2>1 DEF KvOfPass
<1>10. ASSUME NEW b \in 0 .. BdBlocks, NEW o \in 0 .. BdPage - 1, NEW pl, pl = [block |-> b, at |-> o],
              ~Asked(T, slots, valid, pl)
       PROVE  /\ HeldIn(rows, mapping, pl) = {} => kv[b][o] = bdKv[b][o]
              /\ HeldIn(rows, mapping, pl) # {} =>
                    \E i \in HeldIn(rows, mapping, pl) :
                       kv[b][o] = [turn |-> bdReq[rows[i].slot].turn, pos |-> rows[i].pos,
                                   kind |-> IF rows[i].valid THEN "text" ELSE "rejected"]
  <2>1. KvOfPass(kv, T, slots, rows, mapping, valid)
    BY <1>4, <1>5, KvIs
  <2>. QED  BY <1>10, <2>1 DEF KvOfPass
<1>11. ASSUME NEW s \in BdSlots, NEW x \in 0 .. Room - 1, T[s][x \div BdPage] # 0,
              NEW pl, pl = [block |-> T[s][x \div BdPage], at |-> x % BdPage]
       PROVE  /\ Asked(T, slots, valid, pl) => s \in S /\ x >= bdReq[s].len + valid[s]
              /\ \A j \in HeldIn(rows, mapping, pl) :
                     /\ s \in S
                     /\ \E k \in 1 .. bdReq[s].n :
                           rows[j] = RowAt(s, k, valid) /\ k <= valid[s] /\ x = bdReq[s].len + k - 1
  BY <1>2, <1>3, <1>5, <1>6, <1>11, WritesFollow
<1>12. ASSUME NEW o \in 0 .. BdPage - 1 PROVE kv[0][o] = Nothing
  <2>1. PICK pl : pl = [block |-> 0, at |-> o]
    OBVIOUS
  <2>2. ~Asked(T, slots, valid, pl)
    BY <2>1, NullIsNoPlace DEF Asked
  <2>3. HeldIn(rows, mapping, pl) = {}
    <3>1. DOMAIN rows = 1 .. Len(rows)
      BY <1>7
    <3>2. \A j \in 1 .. Len(rows) : mapping[j] # pl
      BY <1>8, <2>1, NullIsNoPlace
    <3>. QED  BY <3>1, <3>2 DEF HeldIn
  <2>4. 0 \in 0 .. BdBlocks
    BY PagesFit
  <2>5. kv[0][o] = bdKv[0][o]
    BY <1>10, <2>1, <2>2, <2>3, <2>4
  <2>6. DOMAIN bdKv[0] = 0 .. BdPage - 1
    BY <1>5, <2>4 DEF CtTypeOK
  <2>7. \A u \in DOMAIN bdKv[0] : bdKv[0][u] = Nothing
    BY DEF CtInv, ContextIsText
  <2>. QED  BY <2>5, <2>6, <2>7
<1>13. ASSUME NEW s \in BdSlots, bdReq[s] # Absent, NEW x \in 0 .. LengthAfter(slots, valid, s) - 1,
              T[s][x \div BdPage] # 0
       PROVE  kv[T[s][x \div BdPage]][x % BdPage] = [turn |-> bdReq[s].turn, pos |-> x, kind |-> "text"]
  <2>1. PICK l, L : l = bdReq[s].len /\ L = LengthAfter(slots, valid, s)
    OBVIOUS
  <2>2. bdReq[s] \in BdRequests /\ l \in Nat /\ l <= Room
    BY <1>5, <1>13, <2>1 DEF CtTypeOK, BdRequests
  <2>3. PICK R \in Nat : R = Room
    BY PagesFit DEF Room
  <2>4. L \in Nat /\ L <= R /\ (s \notin S => L = l) /\ (s \in S => L = l + valid[s] /\ valid[s] \in Nat)
    <3>1. CASE s \notin S
      BY <2>1, <2>2, <2>3, <3>1 DEF LengthAfter
    <3>2. CASE s \in S
      <4>1. PICK v, n : v = valid[s] /\ n = bdReq[s].n
        OBVIOUS
      <4>2. v \in 1 .. n /\ n \in Nat /\ l + n + Queries <= R
        BY <2>1, <2>3, <3>2, <4>1 DEF Accepts, BdRequests
      <4>3. L = l + v
        BY <2>1, <3>2, <4>1 DEF LengthAfter
      <4>4. Queries \in Nat /\ v \in Nat
        BY <4>2, BlockFacts
      <4>. QED  BY <2>2, <3>2, <4>1, <4>2, <4>3, <4>4
    <3>. QED  BY <3>1, <3>2
  <2>5. x \in 0 .. L - 1
    BY <1>13, <2>1
  <2>6. x \in 0 .. Room - 1
    BY <2>3, <2>4, <2>5
  <2>7. PICK p, o : p = x \div BdPage /\ o = x % BdPage
    OBVIOUS
  <2>8. p \in Pages /\ o \in 0 .. BdPage - 1 /\ x = p * BdPage + o
    BY <2>6, <2>7, PageFacts
  <2>9. PICK b : b = T[s][p]
    OBVIOUS
  <2>10. b \in 0 .. BdBlocks /\ b # 0
    BY <1>6, <1>13, <2>7, <2>8, <2>9 DEF TablesFit
  <2>11. PICK pl : pl = [block |-> b, at |-> o]
    OBVIOUS
  <2>12. /\ Asked(T, slots, valid, pl) => s \in S /\ x >= l + valid[s]
         /\ \A j \in HeldIn(rows, mapping, pl) :
                /\ s \in S
                /\ \E k \in 1 .. bdReq[s].n :
                      rows[j] = RowAt(s, k, valid) /\ k <= valid[s] /\ x = l + k - 1
    BY <1>11, <1>13, <2>1, <2>6, <2>7, <2>9, <2>11
  <2>13. ~Asked(T, slots, valid, pl)
    BY <2>4, <2>5, <2>12
  <2>14. /\ HeldIn(rows, mapping, pl) = {} => kv[b][o] = bdKv[b][o]
         /\ HeldIn(rows, mapping, pl) # {} =>
               \E i \in HeldIn(rows, mapping, pl) :
                  kv[b][o] = [turn |-> bdReq[rows[i].slot].turn, pos |-> rows[i].pos,
                              kind |-> IF rows[i].valid THEN "text" ELSE "rejected"]
    BY <1>10, <2>8, <2>10, <2>11, <2>13
  <2>. SUFFICES kv[b][o] = [turn |-> bdReq[s].turn, pos |-> x, kind |-> "text"]
    BY <2>7, <2>9
  <2>15. CASE x < l
    <3>1. HeldIn(rows, mapping, pl) = {}
      <4>. SUFFICES ASSUME NEW j \in HeldIn(rows, mapping, pl) PROVE FALSE
        OBVIOUS
      <4>1. PICK k \in 1 .. bdReq[s].n : x = l + k - 1
        BY <2>12
      <4>2. k \in Int /\ k >= 1
        BY <2>2 DEF BdRequests
      <4>. QED  BY <2>2, <2>5, <2>15, <4>1, <4>2
    <3>2. <<s, p>> \notin Needed(S)
      <4>. SUFFICES ASSUME <<s, p>> \in Needed(S) PROVE FALSE
        OBVIOUS
      <4>1. bdTable[s][p] = 0 /\ (p + 1) * BdPage > l
        BY <2>1 DEF Needed
      <4>2. p * BdPage < l
        <5>1. PICK a : a = p * BdPage
          OBVIOUS
        <5>2. a \in Nat
          BY <2>8, <5>1, PagesFit DEF Pages
        <5>. QED  BY <2>2, <2>8, <2>15, <5>1, <5>2
      <4>3. l < (p + 1) * BdPage
        <5>0. p + 1 \in Nat /\ BdPage \in Nat
          BY <2>8, PagesFit DEF Pages
        <5>1. PICK a : a = (p + 1) * BdPage
          OBVIOUS
        <5>2. a \in Nat
          BY <5>0, <5>1
        <5>. QED  BY <2>2, <4>1, <5>1, <5>2
      <4>. QED  BY <1>13, <2>1, <2>8, <4>1, <4>2, <4>3 DEF CtInv, LastResident
    <3>3. b = bdTable[s][p]
      BY <1>6, <2>8, <2>9, <2>10, <3>2
    <3>4. x \in 0 .. l - 1
      BY <2>2, <2>5, <2>15
    <3>5. bdKv[b][o] = [turn |-> bdReq[s].turn, pos |-> x, kind |-> "text"]
      <4>1. \A y \in 0 .. bdReq[s].len - 1 : bdTable[s][y \div BdPage] # 0 =>
               bdKv[bdTable[s][y \div BdPage]][y % BdPage] = [turn |-> bdReq[s].turn, pos |-> y, kind |-> "text"]
        BY <1>13 DEF CtInv, ContextIsText
      <4>. QED  BY <2>1, <2>7, <2>10, <3>3, <3>4, <4>1
    <3>. QED  BY <2>14, <3>1, <3>5
  <2>16. CASE ~(x < l)
    <3>1. s \in S
      BY <2>2, <2>4, <2>5, <2>16
    <3>2. PICK v, n : v = valid[s] /\ n = bdReq[s].n
      OBVIOUS
    <3>3. v \in 1 .. n /\ n \in Nat /\ L = l + v
      BY <2>4, <3>1, <3>2 DEF Accepts, BdRequests
    <3>4. PICK k \in 1 .. n : x = l + k - 1 /\ k <= v
      <4>1. x - l + 1 \in 1 .. n /\ x = l + (x - l + 1) - 1 /\ x - l + 1 <= v
        BY <2>2, <2>5, <2>16, <3>3
      <4>. QED  BY <4>1
    <3>5. PICK j \in 1 .. Len(rows) : rows[j] = RowAt(s, k, valid)
      BY <1>7, <3>1, <3>2
    <3>6. rows[j].slot = s /\ rows[j].pos = x /\ rows[j].valid
      BY <2>1, <3>2, <3>4, <3>5, RowFacts
    <3>7. mapping[j] = SlotAt(T, s, x)
      BY <1>8, <3>6
    <3>8. SlotAt(T, s, x) = pl
      <4>1. BlockAt(T, s, x) = b
        BY <2>6, <2>7, <2>9, PageFacts DEF BlockAt
      <4>. QED  BY <2>7, <2>10, <2>11, <4>1 DEF SlotAt, Resident
    <3>9. j \in HeldIn(rows, mapping, pl)
      <4>1. DOMAIN rows = 1 .. Len(rows)
        BY <1>7
      <4>. QED  BY <3>7, <3>8, <4>1 DEF HeldIn
    <3>10. PICK i \in HeldIn(rows, mapping, pl) :
              kv[b][o] = [turn |-> bdReq[rows[i].slot].turn, pos |-> rows[i].pos,
                          kind |-> IF rows[i].valid THEN "text" ELSE "rejected"]
      BY <2>14, <3>9
    <3>11. PICK m \in 1 .. bdReq[s].n : rows[i] = RowAt(s, m, valid) /\ m <= valid[s] /\ x = l + m - 1
      BY <2>12
    <3>12. rows[i].slot = s /\ rows[i].pos = x /\ rows[i].valid
      BY <2>1, <3>11, RowFacts
    <3>. QED  BY <3>10, <3>12
  <2>. QED  BY <2>15, <2>16
<1>14. \A s \in BdSlots : bdReq[s] # Absent =>
          \A x \in 0 .. LengthAfter(slots, valid, s) - 1 : TextHeld(kv, T, s, x)
  BY <1>13 DEF TextHeld
<1>. QED  BY <1>8, <1>9, <1>12, <1>14 DEF TextLeft

\* The target accepts at least a token of a request and no more than it was asked for.
LEMMA OutcomesAre ==
    ASSUME CtTypeOK, NEW S, S \subseteq BdSlots, \A s \in S : bdReq[s] # Absent, NEW valid \in Outcomes(S)
    PROVE  \A s \in S : valid[s] \in 1 .. bdReq[s].n
<1>1. PICK m \in BdPrompts : \A q \in BdPrompts : q <= m
  BY BlockDrafterAssumption
<1>2. (CHOOSE p \in BdPrompts : \A q \in BdPrompts : q <= p) \in BdPrompts
  BY <1>1, Zenon
<1>3. PICK M \in Nat : M = CHOOSE p \in BdPrompts : \A q \in BdPrompts : q <= p
  BY <1>2, BlockDrafterAssumption
<1>7. Queries \in Nat
  BY BlockFacts
<1>8. Larger(Queries, M) \in Nat
  BY <1>3, <1>7 DEF Larger
<1>4. PICK L \in Nat : L = Larger(Queries, M)
  BY <1>8
<1>5. valid \in [S -> 1 .. L] /\
      \A s \in S : IF bdReq[s].len = 0 \/ bdEnv.varies = "block" THEN valid[s] = bdReq[s].n
                   ELSE valid[s] <= bdReq[s].n
  BY <1>3, <1>4 DEF Outcomes
<1>6. ASSUME NEW s \in S PROVE valid[s] \in 1 .. bdReq[s].n
  <2>1. bdReq[s].n \in Nat \ {0}
    BY <1>6 DEF CtTypeOK, BdRequests
  <2>2. valid[s] \in Nat /\ 1 <= valid[s]
    BY <1>4, <1>5
  <2>3. valid[s] <= bdReq[s].n
    BY <1>5, <2>1
  <2>. QED  BY <2>1, <2>2, <2>3
<1>. QED  BY <1>6

LEMMA CtPassOK == ASSUME CtInv, BdPass PROVE CtInv'
<1>1. PICK slots \in Batches :
        /\ Cardinality(Needed(ToSet(slots))) <= Cardinality(Free)
        /\ \E valid \in Outcomes(ToSet(slots)), evict \in Evictions :
            /\ \E tables \in {Tables(ToSet(slots), valid, evict)} :
               \E rows \in {ContextRows(slots, valid)} :
               \E mapping \in {Mapping(tables, rows)} :
                /\ bdTable' = tables /\ bdMapping' = mapping
                /\ bdKv' = KvAfter(tables, slots, rows, mapping, valid)
            /\ bdReq' = [s \in BdSlots |->
                   IF s \in ToSet(slots) THEN [bdReq[s] EXCEPT !.len = @ + valid[s], !.n = Queries]
                   ELSE bdReq[s]]
  BY Zenon DEF BdPass
<1>2. PICK valid \in Outcomes(ToSet(slots)), evict \in Evictions :
            /\ \E tables \in {Tables(ToSet(slots), valid, evict)} :
               \E rows \in {ContextRows(slots, valid)} :
               \E mapping \in {Mapping(tables, rows)} :
                /\ bdTable' = tables /\ bdMapping' = mapping
                /\ bdKv' = KvAfter(tables, slots, rows, mapping, valid)
            /\ bdReq' = [s \in BdSlots |->
                   IF s \in ToSet(slots) THEN [bdReq[s] EXCEPT !.len = @ + valid[s], !.n = Queries]
                   ELSE bdReq[s]]
  BY Zenon, <1>1
<1>. DEFINE S == ToSet(slots)
<1>3. PICK T : T = Tables(S, valid, evict)
  OBVIOUS
<1>4. PICK rows : rows = ContextRows(slots, valid)
  OBVIOUS
<1>5. PICK mapping : mapping = Mapping(T, rows)
  OBVIOUS
<1>6. PICK kv : kv = KvAfter(T, slots, rows, mapping, valid)
  OBVIOUS
<1>7. bdTable' = T /\ bdMapping' = mapping /\ bdKv' = kv
  BY Zenon, <1>2, <1>3, <1>4, <1>5, <1>6
<1>8. bdReq' = [s \in BdSlots |->
                   IF s \in S THEN [bdReq[s] EXCEPT !.len = @ + valid[s], !.n = Queries] ELSE bdReq[s]]
  BY Zenon, <1>2
<1>9. CtTypeOK /\ Owned(bdTable) /\ LastResident /\ RowsKnown /\ TablesFit(bdTable)
  BY DEF CtInv, CtTypeOK
<1>10. IsBatch(slots) /\ S \subseteq BdSlots /\ \A s \in S : bdReq[s] # Absent
  <2>1. PICK some \in SUBSET {s \in BdSlots : bdReq[s] # Absent} : slots \in SetToSeqs(some)
    BY DEF Batches
  <2>2. IsBatch(slots)
    BY BatchesRight
  <2>3. S \subseteq some
    BY <2>1 DEF SetToSeqs, ToSet
  <2>. QED  BY <2>1, <2>2, <2>3
<1>11. \A s \in S : valid[s] \in 1 .. bdReq[s].n
  BY <1>9, <1>10, OutcomesAre
<1>12. \A s \in BdSlots : bdReq[s] # Absent => bdReq[s] \in BdRequests /\ bdReq[s].len <= Room
  BY <1>9 DEF CtTypeOK
<1>13. \A s \in BdSlots : bdReq[s] # Absent => bdReq[s].len + bdReq[s].n + Queries <= Room
  BY Zenon DEF BdPass, Room
<1>14. Accepts(slots, valid)
  BY <1>10, <1>11, <1>12, <1>13 DEF Accepts, InFlight
<1>15. /\ TablesFit(T) /\ Owned(T)
       /\ \A s \in BdSlots, p \in Pages :
             /\ s \notin S => T[s][p] = bdTable[s][p]
             /\ bdTable[s][p] # 0 \/ <<s, p>> \in Needed(S) =>
                   \/ T[s][p] # 0
                   \/ (p + 1) * BdPage <= bdReq[s].len + valid[s] - BdWindow
  <2>1. TablesOfStep(T, S, valid)
    BY Zenon, <1>1, <1>3, <1>9, <1>10, TablesAre
  <2>. QED  BY <2>1 DEF TablesOfStep
<1>16. /\ \A s \in BdSlots : bdReq[s] # Absent =>
             \A x \in 0 .. LengthAfter(slots, valid, s) - 1 : TextHeld(kv, T, s, x)
       /\ \A o \in 0 .. BdPage - 1 : kv[0][o] = Nothing
       /\ DOMAIN kv = 0 .. BdBlocks
       /\ \A b \in 0 .. BdBlocks : DOMAIN kv[b] = 0 .. BdPage - 1
       /\ Len(mapping) \in Nat
  <2>1. TextLeft(T, mapping, kv, slots, valid)
    BY Zenon, <1>1, <1>3, <1>4, <1>5, <1>6, <1>14, TextKept
  <2>. QED  BY <2>1 DEF TextLeft
<1>17. ASSUME NEW s \in BdSlots, bdReq'[s] # Absent
       PROVE  /\ bdReq[s] # Absent /\ bdReq'[s] \in BdRequests
              /\ bdReq'[s].len = LengthAfter(slots, valid, s) /\ bdReq'[s].turn = bdReq[s].turn
              /\ bdReq'[s].len \in Nat /\ bdReq'[s].len <= Room
              /\ s \in S => /\ bdReq'[s].len = bdReq[s].len + valid[s] /\ bdReq[s].len \in Nat
                            /\ bdReq[s].n \in Nat /\ valid[s] \in 1 .. bdReq[s].n
  <2>1. CASE s \notin S
    <3>1. bdReq'[s] = bdReq[s]
      BY Zenon, <1>8, <2>1
    <3>. QED  BY <1>12, <1>17, <2>1, <3>1 DEF LengthAfter, BdRequests
  <2>2. CASE s \in S
    <3>1. bdReq'[s] = [bdReq[s] EXCEPT !.len = @ + valid[s], !.n = Queries]
      BY Zenon, <1>8, <2>2
    <3>2. PICK t, l, n, v : t = bdReq[s].turn /\ l = bdReq[s].len /\ n = bdReq[s].n /\ v = valid[s]
      OBVIOUS
    <3>3. bdReq[s] = [turn |-> t, len |-> l, n |-> n] /\ t \in Nat \ {0} /\ l \in Nat /\ n \in Nat
      BY <1>10, <1>12, <2>2, <3>2 DEF BdRequests
    <3>4. v \in 1 .. n /\ l + n + Queries <= Room
      BY <1>10, <1>11, <1>13, <2>2, <3>2
    <3>5. bdReq'[s] = [turn |-> t, len |-> l + v, n |-> Queries]
      BY <3>1, <3>2, <3>3
    <3>6. Queries \in Nat \ {0} /\ v \in Nat /\ l + v \in Nat
      BY <3>3, <3>4, BlockFacts
    <3>7. PICK R \in Nat : R = Room
      BY PagesFit DEF Room
    <3>8. l + v <= Room
      BY <3>3, <3>4, <3>6, <3>7
    <3>9. bdReq'[s] \in BdRequests /\ bdReq'[s].len = l + v /\ bdReq'[s].turn = t
      BY <3>3, <3>5, <3>6 DEF BdRequests
    <3>10. LengthAfter(slots, valid, s) = l + v
      BY <2>2, <3>2 DEF LengthAfter
    <3>. QED  BY <1>10, <2>2, <3>2, <3>3, <3>4, <3>6, <3>8, <3>9, <3>10
  <2>. QED  BY <2>1, <2>2
<1>18. CtTypeOK'
  <2>1. bdReq' = [s \in BdSlots |-> bdReq'[s]]
    BY Zenon, <1>8
  <2>2. DOMAIN T = BdSlots
    BY <1>3 DEF Tables
  <2>3. bdTurn' \in [turns : Nat, passes : Nat]
    <3>1. bdTurn' = [bdTurn EXCEPT !.passes = @ + 1]
      BY Zenon DEF BdPass
    <3>. QED  BY <1>9, <3>1 DEF CtTypeOK
  <2>. QED  BY <1>7, <1>15, <1>16, <1>17, <2>1, <2>2, <2>3 DEF CtTypeOK, TablesFit
<1>19. LastResident'
  <2>. SUFFICES ASSUME NEW s \in BdSlots, NEW p \in Pages, bdReq'[s] # Absent,
                       p * BdPage < bdReq'[s].len, bdReq'[s].len < (p + 1) * BdPage
                PROVE  T[s][p] # 0
    BY <1>7 DEF LastResident
  <2>1. CASE s \notin S
    <3>1. bdReq'[s] = bdReq[s]
      BY Zenon, <1>8, <2>1
    <3>2. bdTable[s][p] # 0
      BY <1>9, <3>1 DEF LastResident
    <3>. QED  BY <1>15, <2>1, <3>2
  <2>2. CASE s \in S
    <3>1. PICK l, v, n : l = bdReq[s].len /\ v = valid[s] /\ n = bdReq[s].n
      OBVIOUS
    <3>2. /\ l \in Nat /\ n \in Nat /\ v \in 1 .. n /\ bdReq'[s].len = l + v
      BY <1>17, <2>2, <3>1
    <3>3. PICK a, c : a = p * BdPage /\ c = (p + 1) * BdPage
      OBVIOUS
    <3>4. p \in Nat /\ p + 1 \in Nat /\ BdPage \in Nat /\ BdWindow \in Nat
      BY PagesFit DEF Pages
    <3>5. a \in Nat /\ c \in Nat
      BY <3>3, <3>4
    <3>6. a < l + v /\ l + v < c /\ v \in Nat
      BY <3>2, <3>3
    <3>7. ~(c <= l + v - BdWindow)
      BY <3>2, <3>4, <3>5, <3>6
    <3>8. c > l /\ a < l + n + BdSpec
      BY <3>2, <3>5, <3>6, BlockFacts
    <3>9. bdTable[s][p] # 0 \/ <<s, p>> \in Needed(S)
      BY <2>2, <3>1, <3>3, <3>8 DEF Needed
    <3>. QED  BY <1>15, <3>1, <3>3, <3>7, <3>9
  <2>. QED  BY <2>1, <2>2
<1>20. ContextIsText'
  <2>1. ASSUME NEW s \in BdSlots, bdReq'[s] # Absent, NEW x \in 0 .. bdReq'[s].len - 1,
               T[s][x \div BdPage] # 0
        PROVE  kv[T[s][x \div BdPage]][x % BdPage] = [turn |-> bdReq'[s].turn, pos |-> x, kind |-> "text"]
    <3>1. TextHeld(kv, T, s, x) /\ bdReq'[s].turn = bdReq[s].turn
      BY <1>16, <1>17, <2>1
    <3>. QED  BY <2>1, <3>1 DEF TextHeld
  <2>2. \A o \in DOMAIN kv[0] : kv[0][o] = Nothing
    <3>1. 0 \in 0 .. BdBlocks
      BY PagesFit
    <3>. QED  BY <1>16, <3>1
  <2>3. bdKvRows' = bdKvRows /\ bdPhase' = bdPhase
    BY Zenon DEF BdPass
  <2>4. bdKvRows # "garbage" /\ (bdPhase = "serving" => bdKvRows = "rows")
    BY DEF CtInv, ContextIsText
  <2>. QED  BY <1>7, <2>1, <2>2, <2>3, <2>4 DEF ContextIsText
<1>21. RowsKnown'
  BY Zenon, <1>9 DEF RowsKnown, BdPass
<1>22. Owned(bdTable)'
  BY <1>7, <1>15 DEF Owned
<1>. QED  BY <1>18, <1>19, <1>20, <1>21, <1>22 DEF CtInv

LEMMA CtInitOK == BdInit => CtInv
<1>. SUFFICES ASSUME BdInit PROVE CtInv
  OBVIOUS
<1>1. /\ bdReq = [s \in BdSlots |-> Absent] /\ bdTable = [s \in BdSlots |-> [p \in Pages |-> 0]]
      /\ bdKv = [b \in 0 .. BdBlocks |-> [o \in 0 .. BdPage - 1 |-> Nothing]]
      /\ bdMapping = <<>> /\ bdKvRows = "none" /\ bdPhase = "new"
  BY DEF BdInit
<1>2. 0 \in 0 .. BdBlocks
  BY PagesFit
<1>3. Len(bdMapping) \in Nat
  BY <1>1
<1>8. bdTurn \in [turns : Nat, passes : Nat]
  BY DEF BdInit
<1>4. CtTypeOK
  BY <1>1, <1>2, <1>3, <1>8 DEF CtTypeOK, TablesFit
<1>5. Owned(bdTable)
  BY <1>1 DEF Owned
<1>6. LastResident
  BY <1>1 DEF LastResident
<1>7. ContextIsText
  BY <1>1, <1>2 DEF ContextIsText
<1>. QED  BY <1>1, <1>4, <1>5, <1>6, <1>7 DEF CtInv, RowsKnown

LEMMA CtNextOK == ASSUME CtInv, [BdNext]_bdVars PROVE CtInv'
<1>. DEFINE kept == <<bdReq, bdTable, bdKv, bdMapping, bdTurn>>
<1>0. ASSUME UNCHANGED kept, RowsKnown' PROVE CtInv'
  <2>1. CtTypeOK' /\ Owned(bdTable)' /\ LastResident'
    BY <1>0 DEF CtInv, CtTypeOK, TablesFit, Owned, LastResident
  <2>2. bdKvRows' # "garbage" /\ (bdPhase' = "serving" => bdKvRows' = "rows")
    BY <1>0 DEF RowsKnown
  <2>3. ContextIsText'
    BY <1>0, <2>2 DEF CtInv, ContextIsText
  <2>. QED  BY <1>0, <2>1, <2>3 DEF CtInv
<1>1. RowsKnown
  BY DEF CtInv
<1>2. CASE BdLoad
  BY <1>0, <1>1, <1>2 DEF BdLoad, RowsKnown, Dense
<1>3. CASE BdProcess
  BY <1>0, <1>1, <1>3 DEF BdProcess, RowsKnown
<1>4. CASE BdProfile
  BY <1>0, <1>1, <1>4 DEF BdProfile, RowsKnown
<1>5. CASE BdCapture
  BY <1>0, <1>1, <1>5 DEF BdCapture, RowsKnown
<1>6. CASE BdPass
  BY <1>6, CtPassOK
<1>7. ASSUME NEW s \in BdSlots, BdArrive(s) PROVE CtInv'
  <2>1. PICK p \in BdPrompts : bdReq' = [bdReq EXCEPT ![s] = [turn |-> bdTurn.turns + 1, len |-> 0, n |-> p]]
    BY <1>7 DEF BdArrive
  <2>2. UNCHANGED <<bdPhase, bdKvRows, bdTable, bdKv, bdMapping>> /\ bdTurn' = [bdTurn EXCEPT !.turns = @ + 1]
    BY <1>7 DEF BdArrive
  <2>3. CtTypeOK /\ Owned(bdTable) /\ LastResident /\ ContextIsText
    BY DEF CtInv
  <2>4. PICK r : r = [turn |-> bdTurn.turns + 1, len |-> 0, n |-> p]
    OBVIOUS
  <2>5. r \in BdRequests /\ r.len = 0
    <3>1. bdTurn.turns + 1 \in Nat \ {0} /\ p \in Nat \ {0} /\ 0 \in Nat
      BY <2>3, BlockDrafterAssumption DEF CtTypeOK
    <3>. QED  BY <2>4, <3>1 DEF BdRequests
  <2>6. DOMAIN bdReq = BdSlots
    BY <2>3 DEF CtTypeOK
  <2>7. bdReq' = [q \in BdSlots |-> bdReq'[q]] /\ bdReq'[s] = r /\ \A q \in BdSlots : q # s => bdReq'[q] = bdReq[q]
    BY <2>1, <2>4, <2>6
  <2>8. PICK R \in Nat : R = Room
    BY PagesFit DEF Room
  <2>9. 0 <= Room
    BY <2>8
  <2>10. bdTurn' \in [turns : Nat, passes : Nat]
    BY <2>2, <2>3 DEF CtTypeOK
  <2>11. ASSUME NEW q \in BdSlots, bdReq'[q] # Absent PROVE bdReq'[q] \in BdRequests /\ bdReq'[q].len <= Room
    BY <2>3, <2>5, <2>7, <2>9, <2>11 DEF CtTypeOK
  <2>12. CtTypeOK'
    BY <2>2, <2>3, <2>7, <2>10, <2>11 DEF CtTypeOK, TablesFit
  <2>13. LastResident'
    <3>. SUFFICES ASSUME NEW q \in BdSlots, NEW g \in Pages, bdReq'[q] # Absent,
                         g * BdPage < bdReq'[q].len, bdReq'[q].len < (g + 1) * BdPage
                  PROVE  bdTable[q][g] # 0
      BY <2>2 DEF LastResident
    <3>1. CASE q = s
      <4>1. PICK a : a = g * BdPage
        OBVIOUS
      <4>2. a \in Nat
        BY <4>1, PagesFit DEF Pages
      <4>. QED  BY <2>5, <2>7, <3>1, <4>1, <4>2
    <3>2. CASE q # s
      BY <2>3, <2>7, <3>2 DEF LastResident
    <3>. QED  BY <3>1, <3>2
  <2>14. ContextIsText'
    <3>1. ASSUME NEW q \in BdSlots, bdReq'[q] # Absent, NEW x \in 0 .. bdReq'[q].len - 1,
                 bdTable[q][x \div BdPage] # 0
          PROVE  bdKv[bdTable[q][x \div BdPage]][x % BdPage]
                    = [turn |-> bdReq'[q].turn, pos |-> x, kind |-> "text"]
      <4>1. q # s
        <5>1. \A y \in 0 .. 0 - 1 : FALSE
          OBVIOUS
        <5>. QED  BY <2>5, <2>7, <3>1, <5>1
      <4>. QED  BY <2>3, <2>7, <3>1, <4>1 DEF ContextIsText
    <3>2. /\ \A o \in DOMAIN bdKv[0] : bdKv[0][o] = Nothing
          /\ bdKvRows # "garbage" /\ (bdPhase = "serving" => bdKvRows = "rows")
      BY <2>3 DEF ContextIsText
    <3>. QED  BY <2>2, <3>1, <3>2 DEF ContextIsText
  <2>15. RowsKnown' /\ Owned(bdTable)'
    BY <1>1, <2>2, <2>3 DEF RowsKnown, Owned
  <2>. QED  BY <2>12, <2>13, <2>14, <2>15 DEF CtInv
<1>8. ASSUME NEW s \in BdSlots, BdFinish(s) PROVE CtInv'
  <2>1. /\ bdReq' = [bdReq EXCEPT ![s] = Absent] /\ bdTable' = [bdTable EXCEPT ![s] = [p \in Pages |-> 0]]
        /\ UNCHANGED <<bdPhase, bdKvRows, bdKv, bdMapping, bdTurn>>
    BY <1>8 DEF BdFinish
  <2>2. CtTypeOK /\ Owned(bdTable) /\ LastResident /\ ContextIsText
    BY DEF CtInv
  <2>3. DOMAIN bdReq = BdSlots /\ DOMAIN bdTable = BdSlots
    BY <2>2 DEF CtTypeOK
  <2>4. /\ bdReq' = [q \in BdSlots |-> bdReq'[q]] /\ DOMAIN bdTable' = BdSlots
        /\ bdReq'[s] = Absent /\ \A q \in BdSlots : q # s => bdReq'[q] = bdReq[q]
    BY <2>1, <2>3
  <2>5. /\ \A q \in BdSlots : q # s => bdTable'[q] = bdTable[q]
        /\ \A p \in Pages : bdTable'[s][p] = 0
    BY <2>1, <2>3
  <2>6. 0 \in 0 .. BdBlocks
    BY PagesFit
  <2>7. \A q \in BdSlots, p \in Pages : bdTable'[q][p] \in 0 .. BdBlocks
    BY <2>2, <2>5, <2>6 DEF CtTypeOK, TablesFit
  <2>8. CtTypeOK'
    BY <2>1, <2>2, <2>4, <2>7 DEF CtTypeOK, TablesFit
  <2>9. Owned(bdTable)'
    BY <2>2, <2>5 DEF Owned
  <2>10. LastResident'
    BY <2>2, <2>4, <2>5 DEF LastResident
  <2>11. ContextIsText'
    <3>1. ASSUME NEW q \in BdSlots, bdReq'[q] # Absent, NEW x \in 0 .. bdReq'[q].len - 1,
                 bdTable'[q][x \div BdPage] # 0
          PROVE  bdKv[bdTable'[q][x \div BdPage]][x % BdPage]
                    = [turn |-> bdReq'[q].turn, pos |-> x, kind |-> "text"]
      <4>1. q # s
        BY <2>4, <3>1
      <4>2. bdReq'[q] = bdReq[q] /\ bdTable'[q] = bdTable[q]
        BY <2>4, <2>5, <4>1
      <4>. QED  BY <2>2, <3>1, <4>2 DEF ContextIsText
    <3>2. /\ \A o \in DOMAIN bdKv[0] : bdKv[0][o] = Nothing
          /\ bdKvRows # "garbage" /\ (bdPhase = "serving" => bdKvRows = "rows")
      BY <2>2 DEF ContextIsText
    <3>. QED  BY <2>1, <3>1, <3>2 DEF ContextIsText
  <2>12. RowsKnown'
    BY <1>1, <2>1 DEF RowsKnown
  <2>. QED  BY <2>8, <2>9, <2>10, <2>11, <2>12 DEF CtInv
<1>9. CASE UNCHANGED bdVars
  BY <1>0, <1>1, <1>9 DEF bdVars, RowsKnown
<1>. QED  BY <1>2, <1>3, <1>4, <1>5, <1>6, <1>7, <1>8, <1>9 DEF BdNext

\* A request's resident pages hold its accepted text and nothing else is written to the null
\* block, for any prompts, page and window sizes, blocks, batches and acceptances.
THEOREM PagesHoldText == BdSpecification => []ContextIsText
<1>1. CtInv => ContextIsText
  BY DEF CtInv
<1>. QED  BY <1>1, CtInitOK, CtNextOK, PTL DEF BdSpecification

LEMMA GroupsBehave == MCSpec => KgSpec
<1>1. MCInit => KgInit
  BY Zenon DEF MCInit
<1>2. [MCNext]_all => [KgNext]_kgVars
  BY Zenon DEF MCNext, all, kgVars
<1>. QED  BY <1>1, <1>2, PTL DEF MCSpec, KgSpec

\* The KV cache is grouped for the most capacity, and a drafter's pages hold the text.
THEOREM CacheIsSound == MCSpec => []CacheSound
BY BlocksBehave, GroupsBehave, PagesHoldText, GroupsHoldMost, PTL DEF CacheSound

-----------------------------------------------------------------------------
(* UnifiedAttention: the blocks of a grid                                  *)

\* Sums of a sequence's first elements grow with their number.
LEMMA PrefixesGrow ==
    ASSUME NEW s \in Seq(Nat), NEW n \in Nat, n = Len(s)
    PROVE  \A i \in 0 .. n : \A j \in 0 .. i :
              /\ PartialSums(s)[j] \in Nat /\ PartialSums(s)[i] \in Nat
              /\ PartialSums(s)[j] <= PartialSums(s)[i]
<1>1. \A i \in 1 .. n : s[i] \in Nat
  OBVIOUS
<1>2. PICK f : f = PartialSums(s)
  OBVIOUS
<1>3. f[0] = 0 /\ \A i \in 1 .. n : f[i] = f[i - 1] + s[i]
  BY <1>2, PartialSumsIs
<1>. DEFINE S == {k \in Nat : k <= n => f[k] \in Nat /\ \A j \in 0 .. k : f[j] \in Nat /\ f[j] <= f[k]}
<1>4. 0 \in S
  BY <1>3
<1>5. ASSUME NEW k \in Nat, k \in S PROVE k + 1 \in S
  <2>. SUFFICES ASSUME k + 1 <= n
                PROVE  f[k + 1] \in Nat /\ \A j \in 0 .. k + 1 : f[j] \in Nat /\ f[j] <= f[k + 1]
    OBVIOUS
  <2>1. PICK i : i = k + 1
    OBVIOUS
  <2>2. i \in 1 .. n /\ i - 1 = k
    BY <2>1
  <2>3. f[i] = f[k] + s[i] /\ s[i] \in Nat /\ f[k] \in Nat /\ \A j \in 0 .. k : f[j] \in Nat /\ f[j] <= f[k]
    BY <1>1, <1>3, <1>5, <2>2
  <2>4. ASSUME NEW j \in 0 .. i PROVE f[j] \in Nat /\ f[j] <= f[i]
    <3>1. j = i \/ j \in 0 .. k
      BY <2>1
    <3>. QED  BY <2>3, <3>1
  <2>. QED  BY <2>1, <2>3, <2>4
<1>6. \A k \in Nat : k \in S
  <2>. HIDE DEF S
  <2>. QED  BY <1>4, <1>5, EachStep
<1>. QED  BY <1>2, <1>6

\* Quotients of parts add up to no more than the quotient of the whole.
LEMMA QuotientsAdd ==
    ASSUME NEW m \in Nat \ {0}, NEW a \in Nat, NEW b \in Nat, NEW c \in Nat, a + b <= c
    PROVE  (a \div m) + (b \div m) <= c \div m
<1>1. PICK x, y, z : x = a \div m /\ y = b \div m /\ z = c \div m
  OBVIOUS
<1>2. x \in Nat /\ y \in Nat /\ z \in Nat /\ x * m <= a /\ y * m <= b /\ c < z * m + m
  <2>1. x \in Nat /\ \E r \in 0 .. m - 1 : a = x * m + r
    BY <1>1, Division
  <2>2. y \in Nat /\ \E r \in 0 .. m - 1 : b = y * m + r
    BY <1>1, Division
  <2>3. z \in Nat /\ \E r \in 0 .. m - 1 : c = z * m + r
    BY <1>1, Division
  <2>4. x * m \in Nat /\ y * m \in Nat /\ z * m \in Nat
    BY <2>1, <2>2, <2>3, ProductsOrdered
  <2>5. PICK u, v, w : u = x * m /\ v = y * m /\ w = z * m
    OBVIOUS
  <2>. QED  BY <2>1, <2>2, <2>3, <2>4, <2>5
<1>3. ASSUME z + 1 <= x + y PROVE FALSE
  <2>1. (z + 1) * m <= (x + y) * m
    BY <1>2, <1>3, ProductsOrdered
  <2>2. (z + 1) * m = z * m + m /\ (x + y) * m = x * m + y * m
    BY <1>2
  <2>3. PICK u, v, w : u = x * m /\ v = y * m /\ w = z * m
    OBVIOUS
  <2>4. u \in Nat /\ v \in Nat /\ w \in Nat
    BY <1>2, <2>3, ProductsOrdered
  <2>. QED  BY <1>2, <2>1, <2>2, <2>3, <2>4
<1>. QED  BY <1>1, <1>2, <1>3

\* A grid covers its batch: as many blocks as the kernel looks for, of rows enough.
Covers(call) ==
    /\ call.batch \in UaBatches /\ call.shape.ratio \in 1 .. StockRows
    /\ call.blockM \in Nat /\ call.blockQ \in Nat \ {0}
    /\ call.blockQ * call.shape.ratio <= call.blockM
    /\ call.blocks = (Tokens(call.batch) \div call.blockQ) + Len(call.batch)

LEMMA BatchIs ==
    ASSUME NEW b \in UaBatches
    PROVE  /\ b \in Seq(Nat) /\ b # <<>> /\ Len(b) \in Nat \ {0} /\ DOMAIN b = 1 .. Len(b)
           /\ \A i \in 1 .. Len(b) : b[i] \in Nat \ {0}
           /\ Tokens(b) = Sum(b) /\ Tokens(b) \in Nat
           /\ Longest(b) \in Nat /\ \A i \in 1 .. Len(b) : b[i] <= Longest(b)
           /\ \E i \in 1 .. Len(b) : b[i] = Longest(b)
<1>1. b \in Seq(Nat \ {0}) /\ b # <<>>
  BY UnifiedAttentionAssumption
<1>2. b \in Seq(Nat) /\ Len(b) \in Nat \ {0} /\ DOMAIN b = 1 .. Len(b) /\ \A i \in 1 .. Len(b) : b[i] \in Nat \ {0}
  BY <1>1, EmptySeq
<1>3. Tokens(b) = Sum(b) /\ Tokens(b) \in Nat
  BY <1>2, SumIs DEF Tokens, Sum
<1>4. Longest(b) = Most(b)
  BY DEF Longest, Most
<1>. QED  BY <1>1, <1>2, <1>3, <1>4, MostIs

LEMMA OneBlock ==
    ASSUME NEW call, Covers(call), NEW i \in DOMAIN call.batch, NEW p \in 0 .. call.batch[i] - 1
    PROVE  Cardinality(BlocksFor(call, i, p)) = 1
<1>1. PICK batch, m, n, q, ratio :
         /\ batch = call.batch /\ m = call.blockQ /\ n = Len(batch)
         /\ q = call.blockM /\ ratio = call.shape.ratio
  OBVIOUS
<1>2. /\ batch \in Seq(Nat) /\ n \in Nat \ {0} /\ m \in Nat \ {0} /\ q \in Nat /\ ratio \in Nat /\ m * ratio <= q
      /\ i \in 1 .. n /\ batch[i] \in Nat /\ i \in 0 .. n /\ i - 1 \in 0 .. n /\ n \in 0 .. n /\ p \in Nat
      /\ Tokens(batch) = Sum(batch) /\ Sum(batch) = PartialSums(batch)[n]
      /\ call.blocks = (Tokens(batch) \div m) + n
  <2>1. batch \in UaBatches /\ n \in Nat \ {0} /\ i \in 1 .. n
    BY <1>1, BatchIs DEF Covers
  <2>2. batch \in Seq(Nat) /\ batch[i] \in Nat /\ Tokens(batch) = Sum(batch)
    BY <1>1, <2>1, BatchIs
  <2>3. Sum(batch) = PartialSums(batch)[n]
    BY <1>1 DEF Sum
  <2>4. m \in Nat \ {0} /\ q \in Nat /\ ratio \in Nat /\ m * ratio <= q
    <3>1. /\ call.blockQ \in Nat \ {0} /\ call.blockM \in Nat
          /\ call.blockQ * call.shape.ratio <= call.blockM
      BY Zenon DEF Covers
    <3>2. ratio \in 1 .. StockRows
      BY <1>1, Zenon DEF Covers
    <3>3. ratio \in Nat
      BY <3>2 DEF StockRows
    <3>. QED  BY <1>1, <3>1, <3>3, Zenon
  <2>5. call.blocks = (Tokens(batch) \div m) + n
    BY <1>1 DEF Covers
  <2>6. i \in 0 .. n /\ i - 1 \in 0 .. n /\ n \in 0 .. n
    BY <2>1
  <2>7. p \in Nat
    <3>1. p \in 0 .. batch[i] - 1
      BY <1>1, Zenon
    <3>. QED  BY <2>2, <3>1
  <2>. QED  BY <2>1, <2>2, <2>3, <2>4, <2>5, <2>6, <2>7, Zenon
<1>3. PICK a, b, c : a = PartialSums(batch)[i - 1] /\ b = PartialSums(batch)[i] /\ c = PartialSums(batch)[n]
  OBVIOUS
<1>4. a \in Nat /\ b \in Nat /\ c \in Nat /\ b <= c
  BY <1>1, <1>2, <1>3, PrefixesGrow
<1>5. b = a + batch[i]
  BY <1>1, <1>2, <1>3, PartialSumsIs
<1>6. PICK A, B, C, k : A = a \div m /\ B = b \div m /\ C = c \div m /\ k = p \div m
  OBVIOUS
<1>7. A \in Nat /\ B \in Nat /\ C \in Nat /\ k \in Nat
  BY <1>2, <1>4, <1>6, Division
<1>8. A + k <= B
  <2>1. a + p <= b
    <3>1. PICK u : u = batch[i]
      OBVIOUS
    <3>2. u \in Nat /\ b = a + u
      BY <1>2, <1>5, <3>1
    <3>3. p \in 0 .. u - 1
      BY <1>1, <3>1
    <3>. QED  BY <1>4, <3>2, <3>3
  <2>. QED  BY <1>2, <1>4, <1>6, <2>1, QuotientsAdd
<1>9. B <= C
  <2>1. (b \div m) + (0 \div m) <= c \div m
    <3>1. b + 0 <= c /\ 0 \in Nat /\ m \in Nat \ {0}
      BY <1>2, <1>4
    <3>. QED  BY <1>4, <3>1, QuotientsAdd
  <2>2. 0 \div m \in Nat
    BY <1>2, Division
  <2>. QED  BY <1>6, <1>7, <2>1, <2>2
<1>10. FirstBlock(call, i) = A + i - 1 /\ FirstBlock(call, i + 1) = B + i
  <2>1. i + 1 - 1 = i /\ B + (i + 1) - 1 = B + i
    BY <1>2, <1>7
  <2>2. FirstBlock(call, i + 1) = B + (i + 1) - 1
    BY <1>1, <1>2, <1>3, <1>6, <2>1 DEF FirstBlock
  <2>. QED  BY <1>1, <1>3, <1>6, <2>1, <2>2 DEF FirstBlock
<1>11. call.blocks = C + n
  BY <1>1, <1>2, <1>3, <1>6
<1>12. m \in Nat /\ p \in Nat /\ i \in Nat \ {0} /\ n \in Nat /\ i <= n
  BY <1>2
<1>13. PICK r \in 0 .. m - 1 : p = k * m + r
  BY <1>2, <1>6, Division
<1>. DEFINE x == A + i - 1 + k
<1>14. ASSUME NEW d \in BlocksFor(call, i, p) PROVE d = x
  <2>1. PICK e, w : e = d - (A + i - 1) /\ w = e * m
    OBVIOUS
  <2>2. e \in Nat /\ d \in Int /\ d = A + i - 1 + e
    <3>1. d \in A + i - 1 .. B + i - 1
      <4>1. d \in FirstBlock(call, i) .. FirstBlock(call, i + 1) - 1
        BY <1>14 DEF BlocksFor
      <4>. QED  BY <1>7, <1>10, <1>12, <4>1
    <3>. QED  BY <1>7, <1>12, <2>1, <3>1
  <2>3. w <= p /\ p < w + m
    BY <1>1, <1>10, <1>14, <2>1 DEF BlocksFor
  <2>4. w \in Nat
    BY <1>2, <2>1, <2>2, ProductsOrdered
  <2>5. p - w \in 0 .. m - 1 /\ p = e * m + (p - w)
    BY <1>12, <2>1, <2>3, <2>4
  <2>6. k * m + r = e * m + (p - w)
    BY <1>13, <2>5
  <2>7. e = k
    <3>1. PICK s : s = p - w
      OBVIOUS
    <3>2. s \in 0 .. m - 1 /\ k * m + r = e * m + s /\ m \in Nat \ {0}
      BY <1>2, <2>5, <2>6, <3>1
    <3>. QED  BY <1>7, <2>2, <3>2, OneQuotient
  <2>. QED  BY <2>2, <2>7
<1>15. x \in BlocksFor(call, i, p)
  <2>1. PICK w : w = k * m
    OBVIOUS
  <2>2. w \in Nat /\ w <= p /\ p < w + m
    BY <1>2, <1>7, <1>13, <2>1, ProductsOrdered
  <2>3. x \in FirstBlock(call, i) .. FirstBlock(call, i + 1) - 1 /\ x < call.blocks
    BY <1>7, <1>8, <1>9, <1>10, <1>11, <1>12
  <2>4. x - FirstBlock(call, i) = k
    BY <1>2, <1>7, <1>10
  <2>5. (p - w + 1) * ratio <= q
    <3>1. PICK y \in Nat : y = p - w + 1 /\ y <= m
      <4>1. p - w + 1 \in Nat /\ p - w + 1 <= m
        BY <1>12, <2>2
      <4>. QED  BY <4>1
    <3>2. y * ratio <= m * ratio /\ y * ratio \in Nat /\ m * ratio \in Nat
      BY <1>2, <3>1, ProductsOrdered
    <3>3. PICK u, v : u = y * ratio /\ v = m * ratio
      OBVIOUS
    <3>. QED  BY <1>2, <3>1, <3>2, <3>3
  <2>6. (x - FirstBlock(call, i)) * call.blockQ = w
    BY <1>1, <2>1, <2>4
  <2>. HIDE DEF x
  <2>. QED  BY <1>1, <2>2, <2>3, <2>5, <2>6 DEF BlocksFor
<1>16. BlocksFor(call, i, p) = {x}
  <2>. HIDE DEF x
  <2>. QED  BY <1>14, <1>15
<1>. QED  BY <1>16, FS_Singleton

-----------------------------------------------------------------------------
(* UnifiedAttention: selection, launch and return                          *)

\* The selection takes the call for a verify batch that fills a block.
FillsBlock(call) ==
    /\ call.kv = "fp8" /\ Longest(call.batch) > 1 /\ call.shape.head = 256
    /\ Wide(call.batch, call.shape)

UaInv ==
    /\ uaStep \in {"idle", "selected", "done"}
    /\ uaStep # "selected" => uaPending = 0
    /\ uaStep # "idle" => Covers(uaCall)
    /\ uaStep = "selected" =>
          /\ uaCall.backend = "aiter" /\ uaCall.kernel = "split"
          /\ uaPending = IF FillsBlock(uaCall) THEN 64 ELSE 0
          /\ {"blockM", "blockQ", "blocks"} \subseteq DOMAIN uaCall
    /\ uaStep = "done" =>
          /\ uaCall.backend = "triton" /\ uaCall.kernel = "split" =>
                Tokens(uaCall.batch) <= Max({UaEnv.threshold, UaEnv.rows})
          /\ uaCall.backend = "aiter" /\ uaCall.kernel = "split" /\ FillsBlock(uaCall) =>
                uaCall.blockQ = AtLeastOne(64 \div uaCall.shape.ratio)

\* A block of m rows holds the rows of the positions that it is given.
LEMMA PositionsFit ==
    ASSUME NEW m \in Nat, NEW ratio \in 1 .. StockRows, StockRows <= m
    PROVE  /\ AtLeastOne(m \div ratio) = m \div ratio /\ m \div ratio \in Nat \ {0}
           /\ (m \div ratio) * ratio <= m /\ m < (m \div ratio) * ratio + ratio
<1>1. ratio \in Nat \ {0} /\ ratio <= m
  BY DEF StockRows
<1>2. PICK d : d = m \div ratio
  OBVIOUS
<1>3. PICK r \in 0 .. ratio - 1 : m = d * ratio + r
  BY <1>1, <1>2, Division
<1>4. d \in Nat
  BY <1>1, <1>2, Division
<1>5. PICK v : v = d * ratio
  OBVIOUS
<1>6. v \in Nat
  BY <1>1, <1>4, <1>5, ProductsOrdered
<1>7. ratio \in Nat /\ m = v + r
  BY <1>1, <1>3, <1>5
<1>8. v <= m /\ m < v + ratio
  BY <1>6, <1>7
<1>9. d # 0
  <2>. SUFFICES ASSUME d = 0 PROVE FALSE
    OBVIOUS
  <2>1. v = 0
    BY <1>1, <1>5
  <2>. QED  BY <1>1, <1>8, <2>1
<1>10. AtLeastOne(d) = d
  BY <1>4, <1>9 DEF AtLeastOne
<1>. QED  BY <1>2, <1>4, <1>5, <1>8, <1>9, <1>10

\* So every kernel's grid covers its batch.
LEMMA GridCovers ==
    ASSUME NEW call, call.batch \in UaBatches, call.shape \in UaShapes,
           call.blockM \in Nat, StockRows <= call.blockM,
           call.blockQ = AtLeastOne(call.blockM \div call.shape.ratio),
           call.blocks = (Tokens(call.batch) \div call.blockQ) + Len(call.batch)
    PROVE  Covers(call)
<1>1. call.shape.ratio \in 1 .. StockRows
  BY UnifiedAttentionAssumption
<1>2. call.blockQ \in Nat \ {0} /\ call.blockQ * call.shape.ratio <= call.blockM
  BY <1>1, PositionsFit
<1>. QED  BY <1>1, <1>2 DEF Covers

\* A batch that the other backend splits has a row of scratch for each token.
LEMMA SplitHasRows ==
    ASSUME NEW b \in UaBatches, SplitFits(b)
    PROVE  Tokens(b) <= Max({UaEnv.threshold, UaEnv.rows})
<1>1. PICK t, r : t = UaEnv.threshold /\ r = UaEnv.rows /\ t \in Nat /\ r \in Nat
  BY UnifiedAttentionAssumption
<1>2. t <= Max({t, r}) /\ Max({t, r}) \in Nat
  <2>1. {t, r} \subseteq 0 .. t + r /\ {t, r} # {} /\ t + r \in Nat
    BY <1>1
  <2>. QED  BY <1>1, <2>1, LargestIs
<1>3. CASE Longest(b) > 1
  BY <1>3 DEF SplitFits
<1>4. CASE ~(Longest(b) > 1)
  <2>1. PICK n \in Nat : n = Len(b) /\ b \in Seq(Nat) /\ \A i \in 1 .. n : b[i] \in Nat \ {0}
    BY BatchIs
  <2>2. \A i \in 1 .. n : b[i] = 1
    <3>1. Longest(b) \in Nat /\ \A i \in 1 .. n : b[i] <= Longest(b)
      BY <2>1, BatchIs
    <3>. QED  BY <1>4, <2>1, <3>1
  <2>3. Tokens(b) = n * 1
    BY <2>1, <2>2, BatchIs, SumIs
  <2>4. n <= t
    BY <1>1, <2>1 DEF SplitFits
  <2>. QED  BY <1>1, <1>2, <2>1, <2>3, <2>4
<1>. QED  BY <1>3, <1>4

LEMMA UaInitOK == UaInit => UaInv
BY DEF UaInit, UaInv

LEMMA SelectOK == ASSUME UaInv, SelectDecode PROVE UaInv'
<1>1. PICK b, c, s, kv, tile, splits :
         /\ b \in UaBatches /\ s \in UaShapes
         /\ uaPending' = Narrowed((kv = "fp8" /\ Longest(b) > 1 /\ s.head = 256) /\ Wide(b, s))
         /\ uaCall' = [backend |-> "aiter", batch |-> b, context |-> c, shape |-> s, kv |-> kv,
                       kernel |-> "split", blockM |-> StockRows, blockQ |-> StockPositions(s),
                       blocks |-> StockBlocks(b, StockPositions(s)), tile |-> tile,
                       splits |-> splits]
  <2>. DEFINE mine(b, s, kv) == kv = "fp8" /\ Longest(b) > 1 /\ s.head = 256
              wide(b, s, kv) == mine(b, s, kv) /\ Wide(b, s)
              tile(b, s, kv) == IF wide(b, s, kv) THEN 32 ELSE 16
              programs(b, s, kv) ==
                  IF wide(b, s, kv) THEN ((Tokens(b) \div (64 \div s.ratio)) + Len(b)) * s.kvHeads
                  ELSE StockBlocks(b, StockPositions(s)) * s.kvHeads
              splits(b, c, s, kv) ==
                  IF mine(b, s, kv) THEN Splits(c, tile(b, s, kv), programs(b, s, kv)) ELSE 8
  <2>1. PICK b \in UaBatches, c \in UaContexts, s \in UaShapes, kv \in {"fp8", "bf16"} :
          /\ uaPending' = Narrowed(wide(b, s, kv))
          /\ uaCall' = [backend |-> "aiter", batch |-> b, context |-> c, shape |-> s, kv |-> kv,
                        kernel |-> "split", blockM |-> StockRows, blockQ |-> StockPositions(s),
                        blocks |-> StockBlocks(b, StockPositions(s)), tile |-> tile(b, s, kv),
                        splits |-> splits(b, c, s, kv)]
    BY Zenon DEF SelectDecode
  <2>2. PICK t, sp : t = tile(b, s, kv) /\ sp = splits(b, c, s, kv)
    OBVIOUS
  <2>. HIDE DEF splits, tile
  <2>. QED  BY Zenon, <2>1, <2>2
<1>2. uaStep' = "selected"
  BY DEF SelectDecode
<1>3. /\ uaCall'.batch = b /\ uaCall'.shape = s /\ uaCall'.blockM = StockRows /\ uaCall'.kv = kv
      /\ uaCall'.blockQ = AtLeastOne(StockRows \div s.ratio)
      /\ uaCall'.blocks = (Tokens(b) \div uaCall'.blockQ) + Len(b)
      /\ b \in UaBatches /\ s \in UaShapes
      /\ uaCall'.backend = "aiter" /\ uaCall'.kernel = "split"
  BY <1>1 DEF StockPositions, StockBlocks
<1>4. StockRows \in Nat /\ StockRows <= StockRows
  BY DEF StockRows
<1>5. Covers(uaCall')
  <2>1. PICK new : new = uaCall'
    OBVIOUS
  <2>2. /\ new.batch \in UaBatches /\ new.shape \in UaShapes /\ new.blockM \in Nat
        /\ StockRows <= new.blockM /\ new.blockQ = AtLeastOne(new.blockM \div new.shape.ratio)
        /\ new.blocks = (Tokens(new.batch) \div new.blockQ) + Len(new.batch)
    BY <1>3, <1>4, <2>1
  <2>. QED  BY <2>1, <2>2, GridCovers
<1>6. Covers(uaCall)'
  BY Zenon, <1>5
<1>7. uaPending' = IF FillsBlock(uaCall') THEN 64 ELSE 0
  BY Zenon, <1>1, <1>3 DEF Narrowed, FillsBlock
<1>8. {"blockM", "blockQ", "blocks"} \subseteq DOMAIN uaCall'
  BY <1>1
<1>. QED  BY <1>2, <1>3, <1>5, <1>7, <1>8 DEF UaInv, Covers, FillsBlock

LEMMA LaunchOK == ASSUME UaInv, LaunchDecode PROVE UaInv'
<1>1. PICK call : call = uaCall
  OBVIOUS
<1>2. /\ Covers(call) /\ call.backend = "aiter" /\ call.kernel = "split"
      /\ uaPending = IF FillsBlock(call) THEN 64 ELSE 0
      /\ "blockM" \in DOMAIN call /\ "blockQ" \in DOMAIN call /\ "blocks" \in DOMAIN call
  BY <1>1 DEF UaInv, LaunchDecode
<1>3. uaPending' = 0 /\ uaStep' = "done"
  BY DEF LaunchDecode
<1>4. CASE ~FillsBlock(call)
  <2>1. uaCall' = call
    BY <1>1, <1>2, <1>4 DEF LaunchDecode
  <2>. QED  BY <1>2, <1>3, <1>4, <2>1 DEF UaInv, Covers, FillsBlock
<1>5. CASE FillsBlock(call)
  <2>. DEFINE q == AtLeastOne(64 \div call.shape.ratio)
  <2>1. uaCall' = [call EXCEPT !.blockM = 64, !.blockQ = q, !.blocks = ShimBlocks(call.batch, q)]
    BY <1>1, <1>2, <1>5 DEF LaunchDecode
  <2>2. call.shape.ratio \in 1 .. StockRows /\ 64 \in Nat /\ StockRows <= 64
    BY <1>2 DEF Covers, StockRows
  <2>3. q \in Nat \ {0} /\ q * call.shape.ratio <= 64
    BY <2>2, PositionsFit
  <2>4. PICK new : new = uaCall'
    OBVIOUS
  <2>5. /\ new.batch = call.batch /\ new.shape = call.shape /\ new.kv = call.kv
        /\ new.backend = "aiter" /\ new.kernel = "split"
    BY <1>2, <2>1, <2>4
  <2>6. new.blockM = 64 /\ new.blockQ = q /\ new.blocks = (Tokens(call.batch) \div q) + Len(call.batch)
    BY <1>2, <2>1, <2>4 DEF ShimBlocks
  <2>7. Covers(new) /\ FillsBlock(new)
    BY <1>2, <1>5, <2>2, <2>3, <2>5, <2>6 DEF Covers, FillsBlock
  <2>. QED  BY <1>3, <2>4, <2>5, <2>6, <2>7 DEF UaInv, Covers, FillsBlock
<1>. QED  BY <1>4, <1>5

LEMMA PrefillOK == ASSUME UaInv, Prefill PROVE UaInv'
<1>. DEFINE tuned(b, s, kv) == kv = "fp8" /\ Longest(b) >= 256 /\ s.head = 512
            rowsOf(b, s, kv) == IF tuned(b, s, kv) THEN 32 ELSE 64
            positionsOf(b, s, kv) ==
                IF tuned(b, s, kv) THEN PrefillPositions(rowsOf(b, s, kv), s)
                ELSE AtLeastOne(64 \div s.ratio)
<1>1. PICK b \in UaBatches, s \in UaShapes, kv \in {"fp8", "bf16"} :
        uaCall' = [backend |-> "aiter", batch |-> b, context |-> 0, shape |-> s, kv |-> kv,
                   kernel |-> "whole", blockM |-> rowsOf(b, s, kv),
                   blockQ |-> positionsOf(b, s, kv),
                   blocks |-> StockBlocks(b, positionsOf(b, s, kv)), tile |-> 16, splits |-> 1]
  BY Zenon DEF Prefill
<1>2. PICK rows, positions : rows = rowsOf(b, s, kv) /\ positions = positionsOf(b, s, kv)
  OBVIOUS
<1>3. rows \in {32, 64} /\ positions = AtLeastOne(rows \div s.ratio)
  BY <1>2 DEF PrefillPositions
<1>. HIDE DEF rowsOf, positionsOf
<1>4. PICK new : new = uaCall'
  OBVIOUS
<1>5. /\ new.batch = b /\ new.shape = s /\ new.blockM = rows /\ new.blockQ = positions
      /\ new.blocks = StockBlocks(b, positions) /\ new.kernel = "whole"
  BY <1>1, <1>2, <1>4
<1>6. rows \in Nat /\ StockRows <= rows
  BY <1>3 DEF StockRows
<1>7. Covers(new)
  <2>1. /\ new.batch \in UaBatches /\ new.shape \in UaShapes /\ new.blockM \in Nat
        /\ StockRows <= new.blockM
    BY <1>1, <1>5, <1>6
  <2>2. /\ new.blockQ = AtLeastOne(new.blockM \div new.shape.ratio)
        /\ new.blocks = (Tokens(new.batch) \div new.blockQ) + Len(new.batch)
    BY <1>3, <1>5 DEF StockBlocks
  <2>. QED  BY <2>1, <2>2, GridCovers
<1>8. uaStep' = "done" /\ uaPending' = 0
  BY DEF Prefill, UaInv
<1>. QED  BY <1>4, <1>5, <1>7, <1>8 DEF UaInv, Covers, FillsBlock

LEMMA TritonOK == ASSUME UaInv, TritonAttention PROVE UaInv'
<1>1. PICK b \in UaBatches, s \in UaShapes :
          uaCall' = [backend |-> "triton", batch |-> b, context |-> 0, shape |-> s, kv |-> "fp8",
                     kernel |-> IF SplitFits(b) THEN "split" ELSE "whole",
                     blockM |-> StockRows, blockQ |-> StockPositions(s),
                     blocks |-> StockBlocks(b, StockPositions(s)), tile |-> 16, splits |-> 16]
  BY Zenon DEF TritonAttention
<1>2. uaStep' = "done" /\ uaPending' = 0
  BY DEF TritonAttention, UaInv
<1>3. PICK new : new = uaCall'
  OBVIOUS
<1>4. /\ new.batch = b /\ new.shape = s /\ new.blockM = StockRows
      /\ new.blockQ = AtLeastOne(StockRows \div s.ratio)
      /\ new.blocks = (Tokens(b) \div new.blockQ) + Len(b) /\ new.backend = "triton"
      /\ new.kernel = IF SplitFits(b) THEN "split" ELSE "whole"
  BY <1>1, <1>3 DEF StockBlocks, StockPositions
<1>5. StockRows \in Nat /\ StockRows <= StockRows
  BY DEF StockRows
<1>6. Covers(new)
  <2>1. /\ new.batch \in UaBatches /\ new.shape \in UaShapes /\ new.blockM \in Nat
        /\ StockRows <= new.blockM /\ new.blockQ = AtLeastOne(new.blockM \div new.shape.ratio)
        /\ new.blocks = (Tokens(new.batch) \div new.blockQ) + Len(new.batch)
    BY <1>4, <1>5
  <2>. QED  BY <2>1, GridCovers
<1>7. new.kernel = "split" => Tokens(b) <= Max({UaEnv.threshold, UaEnv.rows})
  BY <1>4, SplitHasRows
<1>. QED  BY <1>2, <1>3, <1>4, <1>6, <1>7 DEF UaInv, Covers, FillsBlock

LEMMA UaNextOK == ASSUME UaInv, [UaNext]_uaVars PROVE UaInv'
<1>1. CASE Return
  BY <1>1 DEF UaInv, Return
<1>2. CASE UNCHANGED uaVars
  BY Zenon, <1>2 DEF UaInv, uaVars, Covers, FillsBlock
<1>. QED  BY <1>1, <1>2, SelectOK, LaunchOK, PrefillOK, TritonOK DEF UaNext

LEMMA QueriesServed == UaInv => EveryQueryOnce
BY OneBlock DEF UaInv, EveryQueryOnce

\* Rows that are the same for every sequence fill the wide block, and it holds them.
LEMMA StreamsServed == UaInv => WideStreamsOnce
<1>. SUFFICES ASSUME UaInv, uaStep = "done", uaCall.backend = "aiter", uaCall.kernel = "split",
                     uaCall.kv = "fp8"
              PROVE  WideStreamsOnce
  BY DEF WideStreamsOnce
<1>1. PICK call, b, n, ratio :
         call = uaCall /\ b = call.batch /\ n = Longest(b) /\ ratio = call.shape.ratio
  OBVIOUS
<1>2. SUFFICES ASSUME call.shape.head = 256, n > 1, \A i \in DOMAIN b : b[i] = n,
                      n * ratio \in 52 .. 64
               PROVE  call.blockQ >= n
  BY <1>1 DEF WideStreamsOnce
<1>3. b \in UaBatches /\ ratio \in 1 .. StockRows
  BY <1>1 DEF UaInv, Covers
<1>4. PICK k \in Nat \ {0} : k = Len(b) /\ b \in Seq(Nat) /\ DOMAIN b = 1 .. k /\ Tokens(b) = Sum(b) /\ n \in Nat
  BY <1>1, <1>3, BatchIs
<1>5. Tokens(b) = k * n
  <2>1. \A i \in 1 .. Len(b) : b[i] = n
    BY <1>2, <1>4
  <2>2. Sum(b) = Len(b) * n
    BY <1>4, <2>1, SumIs
  <2>. QED  BY <1>4, <2>2
<1>6. RoundUp(Tokens(b), Len(b)) = n
  <2>1. k * n = n * k /\ n * k \in Nat
    BY <1>4, ProductsOrdered
  <2>2. k - 1 \in 0 .. k - 1
    BY <1>4
  <2>3. (n * k + (k - 1)) \div k = n
    BY <1>4, <2>2, Residue
  <2>4. PICK u : u = n * k
    OBVIOUS
  <2>5. u + k - 1 = u + (k - 1)
    BY <1>4, <2>1, <2>4
  <2>. QED  BY <1>4, <1>5, <2>1, <2>3, <2>4, <2>5 DEF RoundUp
<1>7. Wide(b, call.shape)
  BY <1>1, <1>2, <1>6 DEF Wide
<1>8. FillsBlock(call)
  BY <1>1, <1>2, <1>7 DEF FillsBlock
<1>9. call.blockQ = AtLeastOne(64 \div ratio)
  BY <1>1, <1>8 DEF UaInv
<1>10. PICK d : d = 64 \div ratio
  OBVIOUS
<1>11. d \in Nat /\ 64 < d * ratio + ratio /\ call.blockQ = d /\ ratio \in Nat
  <2>1. 64 \in Nat /\ StockRows <= 64
    BY DEF StockRows
  <2>. QED  BY <1>3, <1>9, <1>10, <2>1, PositionsFit
<1>12. ASSUME d + 1 <= n PROVE FALSE
  <2>1. (d + 1) * ratio <= n * ratio
    BY <1>4, <1>11, <1>12, ProductsOrdered
  <2>2. (d + 1) * ratio = d * ratio + ratio
    BY <1>11
  <2>. QED  BY <1>2, <1>11, <2>1, <2>2
<1>. QED  BY <1>4, <1>11, <1>12

\* Every query of a batch is computed by one block of one launch, and a verify batch that
\* fills a wide block streams each cache once: for any batches, contexts and geometries.
THEOREM QueriesOnce == UaSpec => [](EveryQueryOnce /\ WideStreamsOnce)
BY UaInitOK, UaNextOK, QueriesServed, StreamsServed, PTL DEF UaSpec

-----------------------------------------------------------------------------
(* R4dAttention: the rows of a batch and the launches it is cut into       *)

RowsCounted(b, n) == n \in Nat /\ n = Len(b) /\ DOMAIN b = 1 .. n /\ \A i \in 1 .. n : b[i].q \in Nat

\* Rows follow one another in the batch's tokens.
LEMMA FirstToks ==
    ASSUME NEW b, NEW n, RowsCounted(b, n)
    PROVE  /\ FirstTok(b, 1) = 1
           /\ \A i \in 1 .. n + 1 : FirstTok(b, i) \in Nat \ {0}
           /\ \A i \in 1 .. n : FirstTok(b, i + 1) = FirstTok(b, i) + b[i].q
           /\ \A i \in 1 .. n + 1 : \A j \in 1 .. i : FirstTok(b, j) <= FirstTok(b, i)
           /\ TokensIn(b) = FirstTok(b, n + 1) - 1
<1>1. PICK s : s = [k \in DOMAIN b |-> b[k].q]
  OBVIOUS
<1>2. n \in Nat /\ s = [k \in 1 .. n |-> b[k].q] /\ \A i \in 1 .. n : b[i].q \in Nat
  BY <1>1 DEF RowsCounted
<1>3. s \in Seq(Nat) /\ Len(s) = n /\ \A i \in 1 .. n : s[i] = b[i].q
  BY <1>2
<1>4. PICK f : f = PartialSums(s)
  OBVIOUS
<1>5. f[0] = 0 /\ \A i \in 1 .. n : f[i] = f[i - 1] + s[i]
  BY <1>3, <1>4, PartialSumsIs
<1>6. \A i \in 0 .. n : \A j \in 0 .. i : f[j] \in Nat /\ f[i] \in Nat /\ f[j] <= f[i]
  BY <1>2, <1>3, <1>4, PrefixesGrow
<1>7. \A i : FirstTok(b, i) = f[i - 1] + 1
  BY <1>1, <1>4 DEF FirstTok
<1>8. ASSUME NEW i \in 1 .. n + 1 PROVE FirstTok(b, i) \in Nat \ {0}
  <2>1. i - 1 \in 0 .. n /\ i - 1 \in 0 .. i - 1
    BY <1>2
  <2>2. f[i - 1] \in Nat
    BY <1>6, <2>1
  <2>. QED  BY <1>7, <2>2
<1>9. ASSUME NEW i \in 1 .. n PROVE FirstTok(b, i + 1) = FirstTok(b, i) + b[i].q
  <2>1. i + 1 - 1 = i /\ i - 1 \in 0 .. n /\ i - 1 \in 0 .. i - 1 /\ i \in 0 .. n
    BY <1>2
  <2>2. f[i - 1] \in Nat /\ f[i] = f[i - 1] + b[i].q /\ b[i].q \in Nat
    BY <1>2, <1>3, <1>5, <1>6, <2>1
  <2>3. FirstTok(b, i + 1) = f[i] + 1 /\ FirstTok(b, i) = f[i - 1] + 1
    BY <1>7, <2>1
  <2>. QED  BY <2>2, <2>3
<1>10. ASSUME NEW i \in 1 .. n + 1, NEW j \in 1 .. i PROVE FirstTok(b, j) <= FirstTok(b, i)
  <2>1. i - 1 \in 0 .. n /\ j - 1 \in 0 .. i - 1
    BY <1>2
  <2>2. f[j - 1] \in Nat /\ f[i - 1] \in Nat /\ f[j - 1] <= f[i - 1]
    BY <1>6, <2>1
  <2>. QED  BY <1>7, <2>2
<1>11. FirstTok(b, 1) = 1
  BY <1>5, <1>7
<1>12. TokensIn(b) = FirstTok(b, n + 1) - 1
  BY DEF TokensIn, RowsCounted
<1>. QED  BY <1>8, <1>9, <1>10, <1>11, <1>12

\* A token is of one row.
TokenOfRow(b, r, t) == t \in FirstTok(b, r) .. FirstTok(b, r + 1) - 1

LEMMA OneRow ==
    ASSUME NEW b, NEW n, RowsCounted(b, n), NEW t, NEW r \in 1 .. n, TokenOfRow(b, r, t),
           NEW s \in 1 .. n, TokenOfRow(b, s, t)
    PROVE  s = r
<1>1. n \in Nat
  BY DEF RowsCounted
<1>2. /\ \A i \in 1 .. n + 1 : FirstTok(b, i) \in Nat
      /\ \A i \in 1 .. n + 1 : \A j \in 1 .. i : FirstTok(b, j) <= FirstTok(b, i)
  BY FirstToks
<1>3. ASSUME NEW x \in 1 .. n, NEW y \in 1 .. n, TokenOfRow(b, x, t), TokenOfRow(b, y, t), x < y PROVE FALSE
  <2>1. x + 1 \in 1 .. y /\ x + 1 \in 1 .. n + 1 /\ y \in 1 .. n + 1
    BY <1>1, <1>3
  <2>2. FirstTok(b, x + 1) \in Nat /\ FirstTok(b, y) \in Nat /\ FirstTok(b, x + 1) <= FirstTok(b, y)
    BY <1>2, <2>1
  <2>3. t \in FirstTok(b, x) .. FirstTok(b, x + 1) - 1 /\ t \in FirstTok(b, y) .. FirstTok(b, y + 1) - 1
    BY <1>3 DEF TokenOfRow
  <2>4. t <= FirstTok(b, x + 1) - 1 /\ FirstTok(b, y) <= t /\ t \in Int
    BY <2>3
  <2>. QED  BY <2>2, <2>4
<1>4. ~(r < s) /\ ~(s < r)
  BY <1>3
<1>. QED  BY <1>1, <1>4

LEMMA RowOfToken ==
    ASSUME NEW b, NEW n, RowsCounted(b, n), NEW t \in 1 .. TokensIn(b)
    PROVE  \E r \in 1 .. n : TokenOfRow(b, r, t)
<1>0. n \in Nat
  BY DEF RowsCounted
<1>1. /\ FirstTok(b, 1) = 1 /\ \A i \in 1 .. n + 1 : FirstTok(b, i) \in Nat
      /\ TokensIn(b) = FirstTok(b, n + 1) - 1
  BY FirstToks
<1>2. FirstTok(b, n + 1) \in Nat /\ t \in Nat \ {0} /\ t < FirstTok(b, n + 1)
  <2>1. n + 1 \in 1 .. n + 1
    BY <1>0
  <2>. QED  BY <1>1, <2>1
<1>. DEFINE S == {i \in 1 .. n + 1 : t < FirstTok(b, i)}
<1>3. PICK i \in S : \A j \in S : i <= j
  <2>1. n + 1 \in S
    BY <1>0, <1>2
  <2>2. S \subseteq Nat
    BY <1>0
  <2>. HIDE DEF S
  <2>. QED  BY <2>1, <2>2, HasLeast
<1>4. i # 1
  BY <1>1, <1>2, <1>3
<1>5. PICK r : r = i - 1
  OBVIOUS
<1>6. r \in 1 .. n /\ r \in 1 .. n + 1 /\ r + 1 = i /\ r < i
  BY <1>0, <1>3, <1>4, <1>5
<1>7. ~(r \in S)
  BY <1>3, <1>6
<1>8. FirstTok(b, r) <= t /\ t < FirstTok(b, r + 1) /\ FirstTok(b, r) \in Nat /\ FirstTok(b, r + 1) \in Nat
  BY <1>1, <1>2, <1>3, <1>6, <1>7
<1>9. TokenOfRow(b, r, t)
  BY <1>2, <1>8 DEF TokenOfRow
<1>. QED  BY <1>6, <1>9

\* The end of the run of rows that starts at i.
EndOf(b, i) ==
    CHOOSE j \in i .. Len(b) :
        /\ \A k \in i .. j : b[k].q = b[i].q
        /\ j = Len(b) \/ b[j + 1].q # b[i].q
Starts(b) == {i \in DOMAIN b : b[i].q > 0 /\ (i = 1 \/ b[i - 1].q # b[i].q)}

LEMMA PlanIs == ASSUME NEW b PROVE Plan(b) = {RunFrom(b, i, EndOf(b, i) - i + 1) : i \in Starts(b)}
BY DEF Plan, EndOf, Starts

LEMMA EndIs ==
    ASSUME NEW b, NEW n, RowsCounted(b, n), NEW i \in 1 .. n
    PROVE  /\ EndOf(b, i) \in i .. n
           /\ \A k \in i .. EndOf(b, i) : b[k].q = b[i].q
           /\ EndOf(b, i) = n \/ b[EndOf(b, i) + 1].q # b[i].q
<1>0. n \in Nat /\ n = Len(b) /\ i \in Nat
  BY DEF RowsCounted
<1>. DEFINE T == {k \in 0 .. n - i : k = n - i \/ b[i + k + 1].q # b[i].q}
<1>1. PICK d \in T : \A k \in T : d <= k
  <2>1. n - i \in T
    BY <1>0
  <2>2. T \subseteq Nat
    BY <1>0
  <2>. HIDE DEF T
  <2>. QED  BY <2>1, <2>2, HasLeast
<1>2. d \in Nat /\ d <= n - i
  BY <1>0, <1>1
<1>. DEFINE S == {k \in Nat : k <= d => b[i + k].q = b[i].q}
<1>3. 0 \in S
  BY <1>0
<1>4. ASSUME NEW k \in Nat, k \in S PROVE k + 1 \in S
  <2>. SUFFICES ASSUME k + 1 <= d PROVE b[i + (k + 1)].q = b[i].q
    OBVIOUS
  <2>1. ~(k \in T) /\ k \in 0 .. n - i /\ k # n - i
    BY <1>0, <1>1, <1>2
  <2>2. b[i + k + 1].q = b[i].q
    BY <2>1
  <2>3. i + k + 1 = i + (k + 1)
    BY <1>0
  <2>. QED  BY <2>2, <2>3
<1>5. \A k \in Nat : k \in S
  <2>. HIDE DEF S
  <2>. QED  BY <1>3, <1>4, EachStep
<1>6. \A k \in i .. i + d : b[k].q = b[i].q
  <2>. SUFFICES ASSUME NEW k \in i .. i + d PROVE b[k].q = b[i].q
    OBVIOUS
  <2>1. k - i \in Nat /\ k - i <= d /\ i + (k - i) = k
    BY <1>0, <1>2
  <2>2. b[i + (k - i)].q = b[i].q
    BY <1>5, <2>1
  <2>. QED  BY <2>1, <2>2
<1>7. i + d \in i .. n /\ (i + d = n \/ b[i + d + 1].q # b[i].q)
  BY <1>0, <1>1, <1>2
<1>8. \E j \in i .. Len(b) :
          /\ \A k \in i .. j : b[k].q = b[i].q
          /\ j = Len(b) \/ b[j + 1].q # b[i].q
  BY <1>0, <1>6, <1>7
<1>. QED  BY <1>0, <1>8 DEF EndOf

\* Every row with tokens is in a run.
LEMMA EachInRun ==
    ASSUME NEW b, NEW n, RowsCounted(b, n), NEW r \in 1 .. n, b[r].q > 0
    PROVE  \E i \in Starts(b) : r \in i .. EndOf(b, i)
<1>0. n \in Nat /\ n = Len(b) /\ DOMAIN b = 1 .. n
  BY DEF RowsCounted
<1>. DEFINE T == {i \in 1 .. r : \A k \in i .. r : b[k].q = b[r].q}
<1>1. PICK i \in T : \A k \in T : i <= k
  <2>1. r \in T
    OBVIOUS
  <2>2. T \subseteq Nat
    OBVIOUS
  <2>. HIDE DEF T
  <2>. QED  BY <2>1, <2>2, HasLeast
<1>2. i \in 1 .. n /\ i <= r /\ (\A k \in i .. r : b[k].q = b[r].q) /\ b[i].q = b[r].q
  BY <1>0, <1>1
<1>3. i = 1 \/ b[i - 1].q # b[i].q
  <2>. SUFFICES ASSUME i # 1, b[i - 1].q = b[i].q PROVE FALSE
    OBVIOUS
  <2>1. \A k \in i - 1 .. r : k = i - 1 \/ k \in i .. r
    BY <1>2
  <2>2. i - 1 \in 1 .. r
    BY <1>2
  <2>3. i - 1 \in T
    BY <1>2, <2>1, <2>2
  <2>. QED  BY <1>1, <1>2, <2>3
<1>4. i \in Starts(b)
  BY <1>0, <1>2, <1>3 DEF Starts
<1>5. PICK e : e = EndOf(b, i)
  OBVIOUS
<1>6. e \in i .. n /\ (e = n \/ b[e + 1].q # b[i].q)
  BY <1>2, <1>5, EndIs
<1>7. r <= e
  <2>. SUFFICES ASSUME e + 1 <= r PROVE FALSE
    BY <1>2, <1>6
  <2>1. e + 1 \in i .. r /\ e # n
    BY <1>0, <1>2, <1>6
  <2>. QED  BY <1>2, <1>6, <2>1
<1>. QED  BY <1>2, <1>4, <1>5, <1>7

\* Within a run tokens are as far apart as rows.
LEMMA WithinRun ==
    ASSUME NEW b, NEW n, RowsCounted(b, n), NEW i \in 1 .. n, NEW s \in i .. EndOf(b, i)
    PROVE  FirstTok(b, s) = FirstTok(b, i) + (s - i) * b[i].q
<1>0. n \in Nat /\ i \in Nat /\ s \in Nat
  <2>1. EndOf(b, i) \in i .. n
    BY EndIs
  <2>. QED  BY <2>1 DEF RowsCounted
<1>1. PICK e \in i .. n : e = EndOf(b, i) /\ \A k \in i .. e : b[k].q = b[i].q
  BY EndIs
<1>2. PICK q \in Nat : q = b[i].q
  BY DEF RowsCounted
<1>. DEFINE S == {k \in Nat : i + k <= e => FirstTok(b, i + k) = FirstTok(b, i) + k * q}
<1>3. FirstTok(b, i) \in Nat /\ \A k \in 1 .. n : FirstTok(b, k + 1) = FirstTok(b, k) + b[k].q
  <2>1. i \in 1 .. n + 1
    BY <1>0
  <2>. QED  BY <2>1, FirstToks
<1>4. 0 \in S
  BY <1>0, <1>2, <1>3
<1>5. ASSUME NEW k \in Nat, k \in S PROVE k + 1 \in S
  <2>. SUFFICES ASSUME i + (k + 1) <= e PROVE FirstTok(b, i + (k + 1)) = FirstTok(b, i) + (k + 1) * q
    OBVIOUS
  <2>1. PICK m : m = i + k
    OBVIOUS
  <2>2. m \in i .. e /\ m \in 1 .. n /\ m + 1 = i + (k + 1) /\ i + k <= e
    BY <1>0, <2>1
  <2>3. FirstTok(b, m) = FirstTok(b, i) + k * q
    BY <1>5, <2>1, <2>2
  <2>4. FirstTok(b, m + 1) = FirstTok(b, m) + q
    BY <1>1, <1>2, <1>3, <2>2
  <2>5. PICK v, w : v = k * q /\ w = (k + 1) * q
    OBVIOUS
  <2>6. v \in Nat
    BY <2>5, ProductsOrdered
  <2>7. w = v + q
    <3>1. (k + 1) * q = k * q + q
      OBVIOUS
    <3>. QED  BY <2>5, <3>1
  <2>8. FirstTok(b, i) + w = FirstTok(b, i) + v + q
    BY <1>3, <2>6, <2>7
  <2>9. FirstTok(b, m + 1) = FirstTok(b, i) + v + q
    BY <2>3, <2>4, <2>5
  <2>. QED  BY <2>2, <2>5, <2>8, <2>9
<1>6. \A k \in Nat : k \in S
  <2>. HIDE DEF S
  <2>. QED  BY <1>4, <1>5, EachStep
<1>7. s - i \in Nat /\ i + (s - i) = s /\ s <= e
  BY <1>0, <1>1
<1>8. FirstTok(b, i + (s - i)) = FirstTok(b, i) + (s - i) * q
  BY <1>6, <1>7
<1>. QED  BY <1>2, <1>7, <1>8

\* The rows, out of dom, that launches answer a token for.
LaunchRows(ls, dom, t) ==
    {s \in dom : \E l \in ls :
        /\ s \in l.first .. l.first + l.seqs - 1
        /\ t - l.tok \in (s - l.first) * l.q .. (s - l.first + 1) * l.q - 1}

LEMMA RunAnswers ==
    ASSUME NEW b, NEW n, RowsCounted(b, n), NEW i \in 1 .. n, NEW s \in i .. EndOf(b, i), NEW t \in Int
    PROVE  t - FirstTok(b, i) \in (s - i) * b[i].q .. (s - i + 1) * b[i].q - 1 <=> TokenOfRow(b, s, t)
<1>1. EndOf(b, i) \in i .. n /\ n \in Nat /\ b[s].q = b[i].q /\ b[i].q \in Nat
  <2>1. EndOf(b, i) \in i .. n /\ \A k \in i .. EndOf(b, i) : b[k].q = b[i].q
    BY EndIs
  <2>2. n \in Nat /\ b[i].q \in Nat
    BY DEF RowsCounted
  <2>. QED  BY <2>1, <2>2
<1>2. s \in 1 .. n /\ s - i \in Nat /\ i \in 1 .. n + 1
  BY <1>1
<1>3. FirstTok(b, s) = FirstTok(b, i) + (s - i) * b[i].q
  BY WithinRun
<1>4. FirstTok(b, s + 1) = FirstTok(b, s) + b[i].q /\ FirstTok(b, i) \in Nat
  BY <1>1, <1>2, FirstToks
<1>5. PICK d, q, v, w, x : d = s - i /\ q = b[i].q /\ v = d * q /\ w = (d + 1) * q /\ x = FirstTok(b, i)
  OBVIOUS
<1>6. d \in Nat /\ q \in Nat /\ x \in Nat
  BY <1>1, <1>2, <1>4, <1>5
<1>7. v \in Nat
  BY <1>5, <1>6, ProductsOrdered
<1>8. w = v + q
  <2>1. (d + 1) * q = d * q + q
    BY <1>6
  <2>. QED  BY <1>5, <2>1
<1>9. FirstTok(b, s) = x + v /\ FirstTok(b, s + 1) = x + v + q
  BY <1>3, <1>4, <1>5
<1>10. t - x \in v .. w - 1 <=> t \in x + v .. x + v + q - 1
  BY <1>6, <1>7, <1>8
<1>11. t - x \in v .. w - 1 <=> TokenOfRow(b, s, t)
  <2>1. TokenOfRow(b, s, t) <=> t \in FirstTok(b, s) .. FirstTok(b, s + 1) - 1
    BY DEF TokenOfRow
  <2>2. FirstTok(b, s) .. FirstTok(b, s + 1) - 1 = x + v .. x + v + q - 1
    <3>1. PICK y, z : y = FirstTok(b, s) /\ z = FirstTok(b, s + 1)
      OBVIOUS
    <3>2. y = x + v /\ z = x + v + q
      BY <1>9, <3>1
    <3>3. y .. z - 1 = x + v .. x + v + q - 1
      BY <1>6, <1>7, <3>2
    <3>. QED  BY <3>1, <3>3
  <2>. QED  BY <1>10, <2>1, <2>2
<1>12. x = FirstTok(b, i) /\ v = (s - i) * b[i].q /\ w = (s - i + 1) * b[i].q
  BY <1>5
<1>. QED  BY <1>11, <1>12

\* The runs of a batch answer each token once, for its own row.
LEMMA PlanAnswers ==
    ASSUME NEW b, NEW n, RowsCounted(b, n), NEW r \in 1 .. n, NEW t \in Int, TokenOfRow(b, r, t)
    PROVE  LaunchRows(Plan(b), 1 .. n, t) = {r}
<1>0. n \in Nat /\ n = Len(b) /\ DOMAIN b = 1 .. n
  BY DEF RowsCounted
<1>1. ASSUME NEW i \in Starts(b), NEW l, l = RunFrom(b, i, EndOf(b, i) - i + 1)
      PROVE  /\ i \in 1 .. n /\ EndOf(b, i) \in i .. n
             /\ l.first = i /\ l.first + l.seqs - 1 = EndOf(b, i)
             /\ l.q = b[i].q /\ l.tok = FirstTok(b, i)
  <2>1. i \in 1 .. n
    BY <1>0 DEF Starts
  <2>2. EndOf(b, i) \in i .. n
    BY <2>1, EndIs
  <2>3. l.first = i /\ l.seqs = EndOf(b, i) - i + 1 /\ l.q = b[i].q /\ l.tok = FirstTok(b, i)
    BY <1>1 DEF RunFrom
  <2>4. i + (EndOf(b, i) - i + 1) - 1 = EndOf(b, i)
    BY <1>0, <2>1, <2>2
  <2>. QED  BY <2>1, <2>2, <2>3, <2>4
<1>2. ASSUME NEW s \in LaunchRows(Plan(b), 1 .. n, t) PROVE s = r
  <2>1. PICK l \in Plan(b) :
           /\ s \in l.first .. l.first + l.seqs - 1
           /\ t - l.tok \in (s - l.first) * l.q .. (s - l.first + 1) * l.q - 1
    BY <1>2 DEF LaunchRows
  <2>2. PICK i \in Starts(b) : l = RunFrom(b, i, EndOf(b, i) - i + 1)
    BY PlanIs
  <2>3. i \in 1 .. n /\ s \in i .. EndOf(b, i)
    BY <1>1, <2>1, <2>2
  <2>4. t - FirstTok(b, i) \in (s - i) * b[i].q .. (s - i + 1) * b[i].q - 1
    BY <1>1, <2>1, <2>2
  <2>5. TokenOfRow(b, s, t)
    BY <2>3, <2>4, RunAnswers
  <2>6. s \in 1 .. n
    BY <1>2 DEF LaunchRows
  <2>. QED  BY <2>5, <2>6, OneRow
<1>3. r \in LaunchRows(Plan(b), 1 .. n, t)
  <2>1. b[r].q > 0
    <3>1. FirstTok(b, r + 1) = FirstTok(b, r) + b[r].q /\ FirstTok(b, r) \in Nat
      <4>1. r \in 1 .. n + 1
        BY <1>0
      <4>. QED  BY <4>1, FirstToks
    <3>2. b[r].q \in Nat
      BY DEF RowsCounted
    <3>3. FirstTok(b, r) <= t /\ t <= FirstTok(b, r + 1) - 1
      BY DEF TokenOfRow
    <3>. QED  BY <3>1, <3>2, <3>3
  <2>2. PICK i \in Starts(b) : r \in i .. EndOf(b, i)
    BY <2>1, EachInRun
  <2>3. PICK l : l = RunFrom(b, i, EndOf(b, i) - i + 1)
    OBVIOUS
  <2>4. l \in Plan(b)
    BY <2>3, PlanIs
  <2>5. i \in 1 .. n
    BY <1>1, <2>3
  <2>6. t - FirstTok(b, i) \in (r - i) * b[i].q .. (r - i + 1) * b[i].q - 1
    BY <2>2, <2>5, RunAnswers
  <2>7. /\ r \in l.first .. l.first + l.seqs - 1
        /\ t - l.tok \in (r - l.first) * l.q .. (r - l.first + 1) * l.q - 1
    BY <1>1, <2>2, <2>3, <2>6
  <2>. QED  BY <2>4, <2>7 DEF LaunchRows
<1>. QED  BY <1>2, <1>3

\* Rows that two batches begin with have their tokens at the same places.
LEMMA SameToks ==
    ASSUME NEW b, NEW n, RowsCounted(b, n), NEW d, NEW m, RowsCounted(d, m), n <= m,
           \A i \in 1 .. n : d[i].q = b[i].q
    PROVE  \A i \in 1 .. n + 1 : FirstTok(d, i) = FirstTok(b, i)
<1>0. n \in Nat /\ m \in Nat
  BY DEF RowsCounted
<1>. DEFINE S == {k \in Nat : k <= n => FirstTok(d, k + 1) = FirstTok(b, k + 1)}
<1>1. 0 \in S
  BY FirstToks
<1>2. ASSUME NEW k \in Nat, k \in S PROVE k + 1 \in S
  <2>. SUFFICES ASSUME k + 1 <= n PROVE FirstTok(d, (k + 1) + 1) = FirstTok(b, (k + 1) + 1)
    OBVIOUS
  <2>1. k + 1 \in 1 .. n /\ k + 1 \in 1 .. m /\ k <= n
    BY <1>0
  <2>2. FirstTok(d, k + 1) = FirstTok(b, k + 1)
    BY <1>2, <2>1
  <2>3. FirstTok(b, (k + 1) + 1) = FirstTok(b, k + 1) + b[k + 1].q
    BY <2>1, FirstToks
  <2>4. FirstTok(d, (k + 1) + 1) = FirstTok(d, k + 1) + d[k + 1].q
    BY <2>1, FirstToks
  <2>. QED  BY <2>1, <2>2, <2>3, <2>4
<1>3. \A k \in Nat : k \in S
  <2>. HIDE DEF S
  <2>. QED  BY <1>1, <1>2, EachStep
<1>4. ASSUME NEW i \in 1 .. n + 1 PROVE FirstTok(d, i) = FirstTok(b, i)
  <2>1. i - 1 \in Nat /\ i - 1 <= n /\ (i - 1) + 1 = i
    BY <1>0
  <2>2. FirstTok(d, (i - 1) + 1) = FirstTok(b, (i - 1) + 1)
    BY <1>3, <2>1
  <2>. QED  BY <2>1, <2>2
<1>. QED  BY <1>4

-----------------------------------------------------------------------------
(* R4dAttention: the scratch                                               *)

\* More context is cut into no fewer splits.
LEMMA SplitsGrow ==
    ASSUME NEW n \in 1 .. RaMaxSeqs, NEW c \in Nat, NEW d \in Nat, c <= d
    PROVE  SplitsOf(n, c) \in Nat /\ SplitsOf(n, d) \in Nat /\ SplitsOf(n, c) <= SplitsOf(n, d)
           /\ SplitsOf(n, d) <= CeilDiv(d, 16) + 1
<1>1. PICK k \in Nat : k = RaTarget \div n
  <2>1. n \in Nat \ {0} /\ RaTarget \in Nat
    BY R4dAttentionAssumption
  <2>. QED  BY <2>1, Division
<1>2. CeilDiv(c, 16) \in Nat /\ CeilDiv(d, 16) \in Nat /\ CeilDiv(c, 16) <= CeilDiv(d, 16)
  BY DEF CeilDiv
<1>3. PICK x \in Nat, y \in Nat : x = CeilDiv(c, 16) /\ y = CeilDiv(d, 16) /\ x <= y
  BY <1>2
<1>4. SplitsOf(n, c) = Larger(1, Smaller(x, k)) /\ SplitsOf(n, d) = Larger(1, Smaller(y, k))
  BY <1>1, <1>3 DEF SplitsOf
<1>5. /\ Larger(1, Smaller(x, k)) \in Nat /\ Larger(1, Smaller(y, k)) \in Nat
      /\ Larger(1, Smaller(x, k)) <= Larger(1, Smaller(y, k)) /\ Larger(1, Smaller(y, k)) <= y + 1
  BY <1>3 DEF Larger, Smaller
<1>. QED  BY <1>3, <1>4, <1>5

\* A launch of served size fits, for the scratch is the largest that any may want.
LEMMA LaunchFits ==
    ASSUME raScratch = ScratchSize, NEW l, l.seqs \in 1 .. RaMaxSeqs, l.q \in Nat,
           NEW told \in 0 .. RaMaxLen
    PROVE  FitsLaunch(l, told)
<1>. SUFFICES ASSUME DecodeTakes(l.q)
              PROVE  l.q * RaGqa <= RaRows /\ ScratchFor(l.seqs, l.q, told) <= raScratch
  BY DEF FitsLaunch
<1>1. PICK n, q, m, g : n = l.seqs /\ q = l.q /\ m = MaxDecodeQ /\ g = RaGqa
  OBVIOUS
<1>2. /\ n \in 1 .. RaMaxSeqs /\ n \in Nat /\ q \in Nat /\ g \in Nat \ {0} /\ RaRows \in Nat
      /\ RaMaxLen \in Nat /\ RaMaxSeqs \in Nat
  BY <1>1, R4dAttentionAssumption
<1>3. m \in Nat /\ q <= m
  <2>1. m \in Nat
    BY <1>1, <1>2, Division DEF MaxDecodeQ
  <2>. QED  BY <1>1, <2>1 DEF DecodeTakes
<1>4. m * g <= RaRows
  <2>1. PICK r \in 0 .. g - 1 : RaRows = m * g + r
    BY <1>1, <1>2, Division DEF MaxDecodeQ
  <2>2. PICK v \in Nat : v = m * g
    BY <1>2, <1>3, ProductsOrdered
  <2>3. RaRows = v + r /\ r \in Nat
    BY <1>2, <2>1, <2>2
  <2>. QED  BY <2>2, <2>3
<1>5. q * g <= RaRows
  <2>1. q * g <= m * g /\ q * g \in Nat /\ m * g \in Nat
    BY <1>2, <1>3, ProductsOrdered
  <2>2. PICK v, w : v = q * g /\ w = m * g
    OBVIOUS
  <2>. QED  BY <1>2, <1>4, <2>1, <2>2
<1>. DEFINE sizes == {ScratchFor(k, m, RaMaxLen) : k \in 1 .. RaMaxSeqs}
<1>6. PICK top \in Nat : top = CeilDiv(RaMaxLen, 16) + 1
  <2>1. RaMaxLen \in Nat
    BY <1>2
  <2>. QED  BY <2>1 DEF CeilDiv
<1>7. PICK bound \in Nat : bound = (RaMaxSeqs * m) * top
  BY <1>2, <1>3, <1>6, ProductsOrdered
<1>8. ASSUME NEW k \in 1 .. RaMaxSeqs PROVE ScratchFor(k, m, RaMaxLen) \in 0 .. bound
  <2>1. PICK s \in Nat : s = SplitsOf(k, RaMaxLen) /\ s <= top
    BY <1>2, <1>6, SplitsGrow
  <2>2. k \in Nat /\ k <= RaMaxSeqs
    BY <1>2
  <2>3. PICK u \in Nat, v \in Nat : u = k * m /\ v = RaMaxSeqs * m /\ u <= v
    BY <1>2, <1>3, <2>2, ProductsOrdered
  <2>4. u * s \in Nat /\ u * s <= v * s /\ v * s <= v * top /\ v * s \in Nat /\ v * top \in Nat
    BY <1>6, <2>1, <2>3, ProductsOrdered
  <2>5. PICK x, y : x = u * s /\ y = v * s
    OBVIOUS
  <2>6. x \in Nat /\ x <= bound
    BY <1>7, <2>3, <2>4, <2>5
  <2>7. ScratchFor(k, m, RaMaxLen) = x
    BY <2>1, <2>3, <2>5 DEF ScratchFor
  <2>. QED  BY <2>6, <2>7
<1>9. sizes \subseteq 0 .. bound /\ sizes # {}
  <2>1. 1 \in 1 .. RaMaxSeqs
    BY <1>2
  <2>. QED  BY <1>8, <2>1
<1>10. Max(sizes) \in sizes /\ \A x \in sizes : x <= Max(sizes)
  <2>. HIDE DEF sizes
  <2>. QED  BY <1>9, LargestIs
<1>11. raScratch \in sizes /\ \A x \in sizes : x <= raScratch
  <2>1. ScratchSize = CHOOSE s \in sizes : \A x \in sizes : x <= s
    BY <1>1 DEF ScratchSize
  <2>. HIDE DEF sizes
  <2>. QED  BY <1>10, <2>1
<1>12. ScratchFor(n, m, RaMaxLen) <= raScratch /\ raScratch \in Nat
  BY <1>2, <1>8, <1>9, <1>11
<1>13. ScratchFor(n, q, told) \in Nat /\ ScratchFor(n, q, told) <= ScratchFor(n, m, RaMaxLen)
       /\ ScratchFor(n, m, RaMaxLen) \in Nat
  <2>1. told \in Nat /\ told <= RaMaxLen
    BY <1>2
  <2>2. PICK s \in Nat, x \in Nat : s = SplitsOf(n, told) /\ x = SplitsOf(n, RaMaxLen) /\ s <= x
    BY <1>2, <2>1, SplitsGrow
  <2>3. PICK u \in Nat, v \in Nat : u = n * q /\ v = n * m /\ u <= v
    BY <1>2, <1>3, ProductsOrdered
  <2>4. u * s \in Nat /\ u * s <= v * s /\ v * s <= v * x /\ v * s \in Nat /\ v * x \in Nat
    BY <2>2, <2>3, ProductsOrdered
  <2>5. PICK a, b, c : a = u * s /\ b = v * s /\ c = v * x
    OBVIOUS
  <2>6. a \in Nat /\ c \in Nat /\ a <= c
    BY <2>4, <2>5
  <2>7. ScratchFor(n, q, told) = a /\ ScratchFor(n, m, RaMaxLen) = c
    BY <2>2, <2>3, <2>5 DEF ScratchFor
  <2>. QED  BY <2>6, <2>7
<1>14. ScratchFor(n, q, told) <= raScratch
  BY <1>12, <1>13
<1>. QED  BY <1>1, <1>5, <1>14

-----------------------------------------------------------------------------
(* R4dAttention: a model's life                                            *)

\* What a model may ask for beyond plain causal attention.
RaFeatures ==
    {"head size", "cache dtype", "encoder", "sliding window", "non-causal", "sinks", "mm prefix",
     "batch invariance", "alibi sqrt", "gqa", "alibi", "soft cap", "per-head scales",
     "chunked local", "context parallel", "no library"}
RaKnown == \A m \in RaModels : m \subseteq RaFeatures

DummyOf(k) == [i \in 1 .. k[1] |-> [q |-> k[2], ctx |-> 1]]

TokensAnswered ==
    \A t \in DOMAIN raOut : \E r \in DOMAIN raBatch :
        /\ t \in FirstTok(raBatch, r) .. FirstTok(raBatch, r + 1) - 1
        /\ raOut[t] = {[row |-> r, at |-> t - FirstTok(raBatch, r) + 1, keys |-> raBatch[r].ctx]}

RaInv ==
    /\ raModel \in RaModels
    /\ raState = "serving" => ~Refused(raModel) /\ raScratch = ScratchSize
    /\ DOMAIN raGraph \subseteq RaGraphs
    /\ \A k \in DOMAIN raGraph : raGraph[k] = Plan(DummyOf(k))
    /\ raBad = FALSE
    /\ TokensAnswered

LEMMA RaBatchIs ==
    ASSUME NEW b \in RaBatches
    PROVE  /\ RowsCounted(b, Len(b)) /\ Len(b) \in 1 .. RaMaxSeqs /\ Len(b) \in Nat /\ DOMAIN b = 1 .. Len(b)
           /\ \A i \in 1 .. Len(b) : b[i].ctx \in 0 .. RaMaxLen /\ b[i].q \in Nat
<1>1. b \in Seq([q : Nat, ctx : 0 .. RaMaxLen]) /\ b # <<>> /\ Len(b) <= RaMaxSeqs /\ RaMaxSeqs \in Nat
  BY R4dAttentionAssumption
<1>2. Len(b) \in Nat /\ Len(b) # 0 /\ DOMAIN b = 1 .. Len(b)
  BY <1>1, EmptySeq
<1>3. \A i \in 1 .. Len(b) : b[i] \in [q : Nat, ctx : 0 .. RaMaxLen]
  <2>1. PICK R : R = [q : Nat, ctx : 0 .. RaMaxLen]
    OBVIOUS
  <2>2. b \in Seq(R)
    BY <1>1, <2>1
  <2>3. \A i \in 1 .. Len(b) : b[i] \in R
    BY <2>2
  <2>. QED  BY <2>1, <2>3
<1>4. \A i \in 1 .. Len(b) : b[i].ctx \in 0 .. RaMaxLen /\ b[i].q \in Nat
  BY <1>3
<1>. QED  BY <1>1, <1>2, <1>4 DEF RowsCounted

LEMMA DummyIs ==
    ASSUME NEW k \in RaGraphs
    PROVE  /\ RowsCounted(DummyOf(k), k[1]) /\ k[1] \in 1 .. RaMaxSeqs /\ k[2] \in Nat \ {0}
           /\ \A i \in 1 .. k[1] : DummyOf(k)[i].q = k[2]
<1>1. PICK n, q : n = k[1] /\ q = k[2] /\ n \in Nat \ {0} /\ n \in 1 .. RaMaxSeqs /\ q \in Nat \ {0}
  BY R4dAttentionAssumption
<1>2. DummyOf(k) = [i \in 1 .. n |-> [q |-> q, ctx |-> 1]]
  BY <1>1 DEF DummyOf
<1>3. Len(DummyOf(k)) = n
  BY <1>1, <1>2
<1>. QED  BY <1>1, <1>2, <1>3 DEF RowsCounted

\* Every launch of a plan is of served size.
LEMMA PlanFits ==
    ASSUME raScratch = ScratchSize, NEW b, NEW n \in 1 .. RaMaxSeqs, RowsCounted(b, n),
           NEW l \in Plan(b), NEW told \in 0 .. RaMaxLen
    PROVE  FitsLaunch(l, told)
<1>1. PICK i \in Starts(b) : l = RunFrom(b, i, EndOf(b, i) - i + 1)
  BY PlanIs
<1>2. i \in 1 .. n
  BY DEF Starts, RowsCounted
<1>3. EndOf(b, i) \in i .. n /\ b[i].q \in Nat
  BY <1>2, EndIs DEF RowsCounted
<1>4. l.seqs = EndOf(b, i) - i + 1 /\ l.q = b[i].q
  BY <1>1 DEF RunFrom
<1>5. RaMaxSeqs \in Nat
  BY R4dAttentionAssumption
<1>6. l.seqs \in 1 .. RaMaxSeqs
  BY <1>2, <1>3, <1>4, <1>5
<1>. QED  BY <1>3, <1>4, <1>6, LaunchFits

\* What launches write for a token, by the rows that they answer it for.
LEMMA AnswersAre ==
    ASSUME NEW ls, NEW b, NEW told, NEW t
    PROVE  Answers(ls, b, told, t) =
              {[row |-> s, at |-> t - FirstTok(b, s) + 1, keys |-> Smaller(told, b[s].ctx)] :
                  s \in LaunchRows(ls, DOMAIN b, t)}
BY DEF Answers, LaunchRows

LEMMA LongestIs ==
    ASSUME NEW b \in RaBatches
    PROVE  /\ LongestContext(b) \in 0 .. RaMaxLen
           /\ \A i \in 1 .. Len(b) : b[i].ctx <= LongestContext(b)
<1>. DEFINE cs == {b[i].ctx : i \in DOMAIN b}
<1>1. cs \subseteq 0 .. RaMaxLen /\ cs # {} /\ RaMaxLen \in Nat
  <2>1. 1 \in DOMAIN b
    BY RaBatchIs
  <2>2. b[1].ctx \in cs
    BY <2>1
  <2>. QED  BY <2>2, RaBatchIs, R4dAttentionAssumption
<1>2. Max(cs) \in cs /\ \A x \in cs : x <= Max(cs)
  <2>. HIDE DEF cs
  <2>. QED  BY <1>1, LargestIs
<1>3. LongestContext(b) = CHOOSE c \in cs : \A d \in cs : d <= c
  BY DEF LongestContext
<1>4. LongestContext(b) \in cs /\ \A x \in cs : x <= LongestContext(b)
  <2>. HIDE DEF cs
  <2>. QED  BY <1>2, <1>3
<1>5. \A i \in 1 .. Len(b) : b[i].ctx \in cs
  BY RaBatchIs
<1>. QED  BY <1>1, <1>4, <1>5

\* Every token of a replayed batch is answered like an eager one's: the graph's rows and
\* the step's have their tokens at the same places.
LEMMA ReplayAnswers ==
    ASSUME NEW b \in RaBatches, NEW k \in RaGraphs, Uniform(b), k[2] = b[1].q, k[1] >= Len(b),
           NEW r \in 1 .. Len(b), NEW t \in Int, TokenOfRow(b, r, t)
    PROVE  Answers(Plan(DummyOf(k)), PaddedTo(b, k[1]), RaMaxLen, t) =
              {[row |-> r, at |-> t - FirstTok(b, r) + 1, keys |-> b[r].ctx]}
<1>1. PICK n, m, d, p : n = Len(b) /\ m = k[1] /\ d = DummyOf(k) /\ p = PaddedTo(b, m)
  OBVIOUS
<1>2. /\ RowsCounted(b, n) /\ n \in Nat \ {0} /\ DOMAIN b = 1 .. n
      /\ \A i \in 1 .. n : b[i].ctx \in 0 .. RaMaxLen /\ b[i].q \in Nat
  BY <1>1, RaBatchIs
<1>3. RowsCounted(d, m) /\ m \in Nat /\ n <= m /\ \A i \in 1 .. m : d[i].q = k[2]
  <2>1. RowsCounted(d, m) /\ \A i \in 1 .. m : d[i].q = k[2]
    BY <1>1, DummyIs
  <2>. QED  BY <1>1, <2>1 DEF RowsCounted
<1>4. \A i \in 1 .. n : b[i].q = k[2] /\ i \in 1 .. m
  BY <1>2, <1>3 DEF Uniform
<1>5. p = [i \in 1 .. m |-> IF i <= n THEN b[i] ELSE [q |-> 0, ctx |-> 0]]
  BY <1>1 DEF PaddedTo
<1>6. DOMAIN p = 1 .. m /\ Len(p) = m /\ \A i \in 1 .. n : p[i] = b[i]
  BY <1>2, <1>3, <1>4, <1>5
<1>7. RowsCounted(p, m)
  <2>1. ASSUME NEW i \in 1 .. m PROVE p[i].q \in Nat
    <3>1. CASE i <= n
      <4>1. i \in 1 .. n
        BY <1>2, <3>1
      <4>. QED  BY <1>2, <1>6, <4>1
    <3>2. CASE ~(i <= n)
      <4>1. p[i] = [q |-> 0, ctx |-> 0]
        BY <1>5, <3>2
      <4>. QED  BY <4>1
    <3>. QED  BY <3>1, <3>2
  <2>. QED  BY <1>3, <1>6, <2>1 DEF RowsCounted
<1>8. \A i \in 1 .. n + 1 : FirstTok(d, i) = FirstTok(b, i)
  <2>1. \A i \in 1 .. n : d[i].q = b[i].q
    BY <1>3, <1>4
  <2>. QED  BY <1>2, <1>3, <2>1, SameToks
<1>9. \A i \in 1 .. n + 1 : FirstTok(p, i) = FirstTok(b, i)
  <2>1. \A i \in 1 .. n : p[i].q = b[i].q
    BY <1>6
  <2>. QED  BY <1>2, <1>3, <1>7, <2>1, SameToks
<1>10. r \in 1 .. n /\ r \in 1 .. m /\ r \in 1 .. n + 1 /\ r + 1 \in 1 .. n + 1
  BY <1>1, <1>2, <1>4
<1>11. TokenOfRow(d, r, t)
  BY <1>8, <1>10 DEF TokenOfRow
<1>12. LaunchRows(Plan(d), 1 .. m, t) = {r}
  BY <1>3, <1>10, <1>11, PlanAnswers
<1>13. Answers(Plan(d), p, RaMaxLen, t) =
          {[row |-> r, at |-> t - FirstTok(p, r) + 1, keys |-> Smaller(RaMaxLen, p[r].ctx)]}
  <2>1. LaunchRows(Plan(d), DOMAIN p, t) = {r}
    BY <1>6, <1>12
  <2>2. Answers(Plan(d), p, RaMaxLen, t) =
          {[row |-> s, at |-> t - FirstTok(p, s) + 1, keys |-> Smaller(RaMaxLen, p[s].ctx)] :
              s \in LaunchRows(Plan(d), DOMAIN p, t)}
    BY AnswersAre
  <2>. QED  BY <2>1, <2>2
<1>14. Smaller(RaMaxLen, p[r].ctx) = b[r].ctx
  <2>1. RaMaxLen \in Nat /\ p[r].ctx = b[r].ctx /\ b[r].ctx \in 0 .. RaMaxLen
    BY <1>2, <1>6, <1>10, R4dAttentionAssumption
  <2>. QED  BY <2>1 DEF Smaller
<1>. QED  BY <1>1, <1>9, <1>10, <1>13, <1>14

LEMMA EagerAnswers ==
    ASSUME NEW b \in RaBatches, NEW r \in 1 .. Len(b), NEW t \in Int, TokenOfRow(b, r, t)
    PROVE  Answers(Plan(b), b, LongestContext(b), t) =
              {[row |-> r, at |-> t - FirstTok(b, r) + 1, keys |-> b[r].ctx]}
<1>1. RowsCounted(b, Len(b)) /\ DOMAIN b = 1 .. Len(b) /\ b[r].ctx \in 0 .. RaMaxLen
  BY RaBatchIs
<1>2. LaunchRows(Plan(b), DOMAIN b, t) = {r}
  BY <1>1, PlanAnswers
<1>3. Smaller(LongestContext(b), b[r].ctx) = b[r].ctx
  <2>1. LongestContext(b) \in Nat /\ b[r].ctx \in Nat /\ b[r].ctx <= LongestContext(b)
    BY <1>1, LongestIs, R4dAttentionAssumption
  <2>. QED  BY <2>1 DEF Smaller
<1>4. Answers(Plan(b), b, LongestContext(b), t) =
         {[row |-> r, at |-> t - FirstTok(b, r) + 1, keys |-> Smaller(LongestContext(b), b[r].ctx)]}
  <2>1. Answers(Plan(b), b, LongestContext(b), t) =
          {[row |-> s, at |-> t - FirstTok(b, s) + 1, keys |-> Smaller(LongestContext(b), b[s].ctx)] :
              s \in LaunchRows(Plan(b), DOMAIN b, t)}
    BY AnswersAre
  <2>. QED  BY <1>2, <2>1
<1>. QED  BY <1>3, <1>4

\* A batch that is not causal goes to the stock kernel, row by row.
LEMMA StockAnswers ==
    ASSUME NEW b \in RaBatches, NEW r \in 1 .. Len(b), NEW t \in Int, TokenOfRow(b, r, t)
    PROVE  {[row |-> s, at |-> t - FirstTok(b, s) + 1, keys |-> b[s].ctx] :
               s \in {s \in DOMAIN b : t \in FirstTok(b, s) .. FirstTok(b, s + 1) - 1}} =
              {[row |-> r, at |-> t - FirstTok(b, r) + 1, keys |-> b[r].ctx]}
<1>1. RowsCounted(b, Len(b)) /\ DOMAIN b = 1 .. Len(b)
  BY RaBatchIs
<1>2. {s \in DOMAIN b : TokenOfRow(b, s, t)} = {r}
  BY <1>1, OneRow
<1>3. {s \in DOMAIN b : t \in FirstTok(b, s) .. FirstTok(b, s + 1) - 1} = {r}
  BY <1>2 DEF TokenOfRow
<1>. QED  BY <1>3

LEMMA RaInitOK == RaInit => RaInv
<1>. SUFFICES ASSUME RaInit PROVE RaInv
  OBVIOUS
<1>1. DOMAIN raOut = {}
  <2>1. raOut = <<>>
    BY DEF RaInit
  <2>. QED  BY <2>1
<1>2. DOMAIN raGraph = {}
  BY DEF RaInit
<1>3. TokensAnswered
  BY <1>1 DEF TokensAnswered
<1>. QED  BY <1>2, <1>3 DEF RaInit, RaInv

LEMMA LoadOK == ASSUME RaInv, Load PROVE RaInv'
<1>1. TokensAnswered'
  BY DEF RaInv, Load, TokensAnswered
<1>2. raState' = "serving" => ~Refused(raModel') /\ raScratch' = ScratchSize
  BY DEF Load
<1>. QED  BY <1>1, <1>2 DEF RaInv, Load

LEMMA CaptureOK == ASSUME RaInv, NEW k \in RaGraphs, CaptureBatch(k) PROVE RaInv'
<1>1. PICK d : d = DummyOf(k)
  OBVIOUS
<1>2. /\ raState = "serving"
      /\ raGraph' = [j \in DOMAIN raGraph \cup {k} |-> IF j = k THEN Plan(d) ELSE raGraph[j]]
      /\ raBad' = (raBad \/ \E l \in Plan(d) : ~FitsLaunch(l, RaMaxLen))
      /\ UNCHANGED <<raModel, raState, raScratch, raBatch, raOut, raStep>>
  BY <1>1 DEF CaptureBatch, DummyOf, CaptureContext
<1>3. RowsCounted(d, k[1]) /\ k[1] \in 1 .. RaMaxSeqs
  BY <1>1, DummyIs
<1>4. RaMaxLen \in 0 .. RaMaxLen
  BY R4dAttentionAssumption
<1>5. \A l \in Plan(d) : FitsLaunch(l, RaMaxLen)
  BY <1>2, <1>3, <1>4, PlanFits DEF RaInv
<1>6. raBad' = FALSE
  BY <1>2, <1>5 DEF RaInv
<1>7. DOMAIN raGraph' \subseteq RaGraphs /\ \A j \in DOMAIN raGraph' : raGraph'[j] = Plan(DummyOf(j))
  BY <1>1, <1>2 DEF RaInv
<1>8. TokensAnswered'
  BY <1>2 DEF RaInv, TokensAnswered
<1>9. raModel' \in RaModels /\ (raState' = "serving" => ~Refused(raModel') /\ raScratch' = ScratchSize)
  BY <1>2 DEF RaInv
<1>. QED  BY <1>6, <1>7, <1>8, <1>9 DEF RaInv

LEMMA RaForwardOK == ASSUME RaInv, RaForward PROVE RaInv'
<1>. DEFINE fits(b) == GraphsFor(b)
            k(b) == CHOOSE g \in fits(b) : \A h \in fits(b) : g[1] <= h[1]
            padded(b, causal) == IF causal /\ fits(b) # {} THEN PaddedTo(b, k(b)[1]) ELSE b
            launches(b) == IF fits(b) # {} THEN raGraph[k(b)] ELSE Plan(b)
            told(b) == IF fits(b) # {} THEN CaptureContext ELSE LongestContext(b)
            stock(b, t) == {[row |-> r, at |-> t - FirstTok(b, r) + 1, keys |-> b[r].ctx] :
                               r \in {s \in DOMAIN b : t \in FirstTok(b, s) .. FirstTok(b, s + 1) - 1}}
<1>1. /\ raState = "serving" /\ UNCHANGED <<raModel, raState, raScratch, raGraph>>
  BY DEF RaForward
<1>2. PICK b \in RaBatches, causal \in BOOLEAN :
        /\ raBatch' = b
        /\ raOut' = [t \in 1 .. TokensIn(b) |->
              IF causal THEN Answers(launches(b), padded(b, causal), told(b), t) ELSE stock(b, t)]
        /\ raBad' = (raBad \/ (causal /\ \E l \in launches(b) : ~FitsLaunch(l, told(b))))
  BY Zenon DEF RaForward
<1>3. PICK n : n = Len(b) /\ RowsCounted(b, n) /\ n \in 1 .. RaMaxSeqs /\ DOMAIN b = 1 .. n
  BY RaBatchIs
<1>4. raScratch = ScratchSize /\ raBad = FALSE /\ DOMAIN raGraph \subseteq RaGraphs
      /\ \A j \in DOMAIN raGraph : raGraph[j] = Plan(DummyOf(j))
  BY <1>1 DEF RaInv
<1>5. ASSUME fits(b) # {}
      PROVE  /\ k(b) \in RaGraphs /\ Uniform(b) /\ k(b)[2] = b[1].q /\ k(b)[1] >= Len(b)
             /\ launches(b) = Plan(DummyOf(k(b))) /\ told(b) = RaMaxLen
             /\ padded(b, TRUE) = PaddedTo(b, k(b)[1])
  <2>. DEFINE G == fits(b)
              sizes == {g[1] : g \in G}
  <2>1. \A g \in G : g \in DOMAIN raGraph /\ g \in RaGraphs /\ g[1] \in Nat
                     /\ Uniform(b) /\ g[2] = b[1].q /\ g[1] >= Len(b)
    <3>1. \A g \in G : g \in DOMAIN raGraph /\ Uniform(b) /\ g[2] = b[1].q /\ g[1] >= Len(b)
      BY DEF GraphsFor
    <3>. QED  BY <1>4, <3>1, R4dAttentionAssumption
  <2>2. PICK x \in sizes : \A y \in sizes : x <= y
    <3>1. sizes \subseteq Nat /\ sizes # {}
      <4>. HIDE DEF fits
      <4>. QED  BY <1>5, <2>1
    <3>. HIDE DEF sizes
    <3>. QED  BY <3>1, HasLeast
  <2>3. \E g \in G : \A h \in G : g[1] <= h[1]
    BY <2>2
  <2>4. k(b) \in G
    <3>. HIDE DEF fits
    <3>. QED  BY <2>3
  <2>5. /\ k(b) \in DOMAIN raGraph /\ k(b) \in RaGraphs
        /\ Uniform(b) /\ k(b)[2] = b[1].q /\ k(b)[1] >= Len(b)
    <3>. HIDE DEF k, fits
    <3>. QED  BY <2>1, <2>4
  <2>6. launches(b) = Plan(DummyOf(k(b)))
    <3>. HIDE DEF k, fits
    <3>. QED  BY <1>4, <1>5, <2>5
  <2>. HIDE DEF k, fits
  <2>. QED  BY <1>5, <2>5, <2>6 DEF CaptureContext
<1>6. ASSUME fits(b) = {}
      PROVE  launches(b) = Plan(b) /\ told(b) = LongestContext(b) /\ padded(b, TRUE) = b
  <2>. HIDE DEF k, fits
  <2>. QED  BY <1>6
<1>. HIDE DEF k, fits, launches, told, padded
<1>7. ASSUME NEW t \in 1 .. TokensIn(b)
      PROVE  \E r \in 1 .. n :
                /\ t \in FirstTok(b, r) .. FirstTok(b, r + 1) - 1
                /\ raOut'[t] = {[row |-> r, at |-> t - FirstTok(b, r) + 1, keys |-> b[r].ctx]}
  <2>1. PICK r \in 1 .. n : TokenOfRow(b, r, t)
    BY <1>3, RowOfToken
  <2>2. PICK answer : answer = {[row |-> r, at |-> t - FirstTok(b, r) + 1, keys |-> b[r].ctx]}
    OBVIOUS
  <2>3. t \in Int /\ r \in 1 .. Len(b)
    BY <1>3, <2>1
  <2>4. CASE ~causal
    <3>1. raOut'[t] = stock(b, t)
      BY <1>2, <2>4
    <3>2. stock(b, t) = answer
      BY <2>1, <2>2, <2>3, StockAnswers
    <3>. QED  BY <2>1, <2>2, <3>1, <3>2 DEF TokenOfRow
  <2>5. CASE causal
    <3>1. raOut'[t] = Answers(launches(b), padded(b, TRUE), told(b), t)
      BY <1>2, <2>5
    <3>2. CASE fits(b) # {}
      <4>1. Answers(Plan(DummyOf(k(b))), PaddedTo(b, k(b)[1]), RaMaxLen, t) = answer
        <5>1. k(b) \in RaGraphs /\ Uniform(b) /\ k(b)[2] = b[1].q /\ k(b)[1] >= Len(b)
          BY <1>5, <3>2
        <5>2. Answers(Plan(DummyOf(k(b))), PaddedTo(b, k(b)[1]), RaMaxLen, t) =
                {[row |-> r, at |-> t - FirstTok(b, r) + 1, keys |-> b[r].ctx]}
          BY <2>1, <2>3, <5>1, ReplayAnswers
        <5>. QED  BY <2>2, <5>2
      <4>2. raOut'[t] = answer
        BY Zenon, <1>5, <3>1, <3>2, <4>1
      <4>. QED  BY <2>1, <2>2, <4>2 DEF TokenOfRow
    <3>3. CASE fits(b) = {}
      <4>1. Answers(Plan(b), b, LongestContext(b), t) = answer
        BY <2>1, <2>2, <2>3, EagerAnswers
      <4>2. raOut'[t] = answer
        BY Zenon, <1>6, <3>1, <3>3, <4>1
      <4>. QED  BY <2>1, <2>2, <4>2 DEF TokenOfRow
    <3>. QED  BY <3>2, <3>3
  <2>. QED  BY <2>4, <2>5
<1>8. TokensAnswered'
  <2>1. DOMAIN raOut' = 1 .. TokensIn(b)
    BY <1>2
  <2>. QED  BY <1>2, <1>3, <1>7, <2>1 DEF TokensAnswered
<1>9. ASSUME NEW l \in launches(b) PROVE FitsLaunch(l, told(b))
  <2>1. CASE fits(b) # {}
    <3>1. PICK d, m : d = DummyOf(k(b)) /\ m = k(b)[1]
      OBVIOUS
    <3>2. RowsCounted(d, m) /\ m \in 1 .. RaMaxSeqs
      BY <1>5, <2>1, <3>1, DummyIs
    <3>3. RaMaxLen \in 0 .. RaMaxLen
      BY R4dAttentionAssumption
    <3>4. l \in Plan(d) /\ told(b) = RaMaxLen
      BY <1>5, <1>9, <2>1, <3>1
    <3>. QED  BY <1>4, <3>2, <3>3, <3>4, PlanFits
  <2>2. CASE fits(b) = {}
    <3>1. l \in Plan(b) /\ told(b) = LongestContext(b)
      BY <1>6, <1>9, <2>2
    <3>2. LongestContext(b) \in 0 .. RaMaxLen
      BY LongestIs
    <3>. QED  BY <1>3, <1>4, <3>1, <3>2, PlanFits
  <2>. QED  BY <2>1, <2>2
<1>10. raBad' = FALSE
  BY <1>2, <1>4, <1>9
<1>11. /\ raModel' \in RaModels /\ (raState' = "serving" => ~Refused(raModel') /\ raScratch' = ScratchSize)
       /\ DOMAIN raGraph' \subseteq RaGraphs
       /\ \A j \in DOMAIN raGraph' : raGraph'[j] = Plan(DummyOf(j))
  BY <1>1, <1>4 DEF RaInv
<1>. QED  BY <1>8, <1>10, <1>11 DEF RaInv

LEMMA RaNextOK == ASSUME RaInv, [RaNext]_raVars PROVE RaInv'
<1>1. CASE UNCHANGED raVars
  BY <1>1 DEF RaInv, TokensAnswered, raVars
<1>. QED  BY <1>1, LoadOK, CaptureOK, RaForwardOK DEF RaNext

LEMMA RefusedIs == ASSUME RaKnown, NEW m \in RaModels, ~Refused(m) PROVE m = {}
<1>1. m \subseteq RaFeatures
  BY DEF RaKnown
<1>2. RaFeatures \subseteq ClassRefuses \cup ImplRefuses \cup BuilderRefuses
  BY DEF RaFeatures, ClassRefuses, ImplRefuses, BuilderRefuses
<1>. QED  BY <1>1, <1>2 DEF Refused

\* Every query token is answered once, from its own row and over all of its context, in a
\* replay as in an eager step, and no launch is of a shape that its kernel cannot take: for
\* any batches, graphs and sizes, and models that ask for nothing that is unheard of.
THEOREM TokensAnsweredOnce == ASSUME RaKnown PROVE RaSpec => []AnsweredOnce
<1>1. RaInv => AnsweredOnce
  BY RefusedIs DEF RaInv, AnsweredOnce, TokensAnswered
<1>. QED  BY <1>1, RaInitOK, RaNextOK, PTL DEF RaSpec

-----------------------------------------------------------------------------
(* The rows of a batch, of attention and of the recurrent layers           *)

LEMMA RowsBehave == MCSpec => UaSpec /\ RaSpec /\ FuSpec
<1>1. MCInit => UaInit /\ RaInit /\ FuInit
  BY Zenon DEF MCInit
<1>2. [MCNext]_all => [UaNext]_uaVars /\ [RaNext]_raVars /\ [FuNext]_fuVars
  BY Zenon DEF MCNext, all, uaVars, raVars, fuVars
<1>. QED  BY <1>1, <1>2, PTL DEF MCSpec, UaSpec, RaSpec, FuSpec

\* The launches of attention and the fused launch serve every row once, for any batches,
\* geometries, graphs and interleavings, and models that ask for nothing unheard of.
THEOREM LaunchesServe ==
    ASSUME RaKnown
    PROVE  MCSpec => [](EveryQueryOnce /\ WideStreamsOnce /\ AnsweredOnce /\ UpdatedOnce)
BY RowsBehave, QueriesOnce, TokensAnsweredOnce, FusedUpdatesOnce, PTL
=============================================================================
