------------------------------ MODULE DraftGraph ------------------------------
(***************************************************************************)
(* One captured graph per loop pass of the drafter                         *)
(* (moe-draftloop/radiance_moe_draftloop.py, forward_ctx): which of the    *)
(* passes a rank runs piecewise, eagerly, as a capture or as a replay, and *)
(* what the forward then reads.  A graph reads the addresses it was        *)
(* captured with, and the sequence lengths from one staging buffer that    *)
(* all graphs share.                                                       *)
(*                                                                         *)
(* The ranks see the same passes and each decides for itself; a capture    *)
(* may fail on one of them alone.  A pass is identified by its number,     *)
(* which also stands for the sequence lengths of its requests.             *)
(***************************************************************************)
EXTENDS Arith, Sequences

CONSTANTS
    DgRanks,
    DgKeys,       \* <<real batch, padded batch>>
    DgAddresses,  \* where the tensors of a pass's metadata may lie
    DgUnsafe,     \* ranks on which a capture may fail
    DgPasses      \* bound: passes

ASSUME DraftGraphAssumption ==
    /\ DgKeys \subseteq Nat \X Nat
    /\ \E k \in DgKeys : \A j \in DgKeys : j[1] <= k[1]

VARIABLES
    dgPlan,      \* the passes so far: [key, addr, plain]
    dgPos,       \* by rank: passes it has run
    dgUses,      \* by rank and key: usable passes seen
    dgCompiled,  \* by rank: keys whose forward has run in NONE mode
    dgGraph,     \* by rank and key: the addresses a graph was captured with; 0 is none
    dgStage,     \* by rank: the staging buffer, by request the pass it was filled for
    dgDisabled,  \* by rank: a capture has failed
    dgRead,      \* by rank: what the last forward read: [pass, addr, lens]
    dgColl,      \* by rank: forwards executed, each with its collectives
    dgCold       \* by rank: a capture ran into a kernel that was not compiled yet

dgVars == <<dgPlan, dgPos, dgUses, dgCompiled, dgGraph, dgStage, dgDisabled, dgRead, dgColl, dgCold>>

MaxBatchOf(keys) == (CHOOSE k \in keys : \A j \in keys : j[1] <= k[1])[1]
Requests == 1 .. MaxBatchOf(DgKeys)

DgInit ==
    /\ dgPlan = <<>>
    /\ dgPos = [r \in DgRanks |-> 0]
    /\ dgUses = [r \in DgRanks |-> [k \in DgKeys |-> 0]]
    /\ dgCompiled = [r \in DgRanks |-> {}]
    /\ dgGraph = [r \in DgRanks |-> [k \in DgKeys |-> 0]]
    /\ dgStage = [r \in DgRanks |-> [q \in Requests |-> 0]]
    /\ dgDisabled = [r \in DgRanks |-> FALSE]
    /\ dgRead = [r \in DgRanks |-> [pass |-> 0, addr |-> 0, lens |-> <<>>]]
    /\ dgColl = [r \in DgRanks |-> 0]
    /\ dgCold = [r \in DgRanks |-> FALSE]

\* The proposer comes to its next pass on every rank: a pass may run in another mode
\* than PIECEWISE (plain), and its buffers may have moved.
NextPass ==
    /\ Len(dgPlan) < DgPasses /\ \A r \in DgRanks : dgPos[r] = Len(dgPlan)
    /\ \E k \in DgKeys, a \in DgAddresses, p \in BOOLEAN :
          dgPlan' = Append(dgPlan, [key |-> k, addr |-> a, plain |-> p])
    /\ UNCHANGED <<dgPos, dgUses, dgCompiled, dgGraph, dgStage, dgDisabled, dgRead, dgColl, dgCold>>

Due(r) == dgPos[r] < Len(dgPlan)
Pass(r) == dgPlan[dgPos[r] + 1]
Now(r) == dgPos[r] + 1
Live(r) == [q \in 1 .. Pass(r).key[1] |-> Now(r)]

\* Mutant of Staged: the buffer keeps what it held.
StagedOld(r) == dgStage[r]

\* The staging buffer after stage[:B].copy_(live[:B]).
Staged(r) == [q \in Requests |-> IF q \in DOMAIN Live(r) THEN Now(r) ELSE dgStage[r][q]]

\* usable
Usable(r) == ~dgDisabled[r] /\ ~Pass(r).plain

Finish(r) == dgPos' = [dgPos EXCEPT ![r] = @ + 1] /\ UNCHANGED dgPlan
Counted(r) == dgUses' = [dgUses EXCEPT ![r][Pass(r).key] = @ + 1]
Executes(r, addr, lens) ==
    /\ dgRead' = [dgRead EXCEPT ![r] = [pass |-> Now(r), addr |-> addr, lens |-> lens]]
    /\ dgColl' = [dgColl EXCEPT ![r] = @ + 1]

\* Mutant of CaptureUse: the second use is captured at once.
CaptureUseSecond == 2

\* The use of a key that is captured; one eager use goes before it.
CaptureUse == 3

\* Not usable, a key's first use, or a later one that has no graph: the stock path.
RunNormal(r) ==
    /\ Due(r)
    /\ LET use == dgUses[r][Pass(r).key] + 1
       IN  IF Usable(r)
           THEN /\ use # 1 => use > CaptureUse /\ dgGraph[r][Pass(r).key] = 0
                /\ Counted(r)
           ELSE UNCHANGED dgUses
    /\ Executes(r, Pass(r).addr, Live(r)) /\ Finish(r)
    /\ UNCHANGED <<dgCompiled, dgGraph, dgStage, dgDisabled, dgCold>>

\* The use before the capture runs the same forward in NONE mode.
RunNone(r) ==
    /\ Due(r) /\ Usable(r) /\ dgUses[r][Pass(r).key] + 1 \in 2 .. CaptureUse - 1
    /\ Counted(r)
    /\ dgCompiled' = [dgCompiled EXCEPT ![r] = @ \cup {Pass(r).key}]
    /\ Executes(r, Pass(r).addr, Live(r)) /\ Finish(r)
    /\ UNCHANGED <<dgGraph, dgStage, dgDisabled, dgCold>>

Capturing(r) == Due(r) /\ Usable(r) /\ dgUses[r][Pass(r).key] + 1 = CaptureUse

\* Capture with metadata that reads the stage, then replay for this pass.
Capture(r) ==
    /\ Capturing(r)
    /\ Counted(r)
    /\ dgGraph' = [dgGraph EXCEPT ![r][Pass(r).key] = Pass(r).addr]
    /\ dgStage' = [dgStage EXCEPT ![r] = Staged(r)]
    /\ dgCold' = [dgCold EXCEPT ![r] = @ \/ Pass(r).key \notin dgCompiled[r]]
    /\ Executes(r, Pass(r).addr, [q \in DOMAIN Live(r) |-> Staged(r)[q]]) /\ Finish(r)
    /\ UNCHANGED <<dgCompiled, dgDisabled>>

\* Mutant of RunsAfterFailure: the capture had executed the forward already.
RunsAfterFailureAgain(r) ==
    /\ dgRead' = [dgRead EXCEPT ![r] = [pass |-> Now(r), addr |-> Pass(r).addr, lens |-> Live(r)]]
    /\ dgColl' = [dgColl EXCEPT ![r] = @ + 2]

\* The pass whose capture failed runs the normal path.
RunsAfterFailure(r) == Executes(r, Pass(r).addr, Live(r))

\* A capture that fails executes nothing and disables the graphs of this process.
CaptureFails(r) ==
    /\ Capturing(r) /\ r \in DgUnsafe
    /\ Counted(r)
    /\ dgDisabled' = [dgDisabled EXCEPT ![r] = TRUE]
    /\ dgStage' = [dgStage EXCEPT ![r] = Staged(r)]
    /\ RunsAfterFailure(r) /\ Finish(r)
    /\ UNCHANGED <<dgCompiled, dgGraph, dgCold>>

\* Mutant of Fits: the addresses are not compared.
FitsAlways(r) == TRUE

\* The live metadata has the captured one's addresses and scalars.
Fits(r) == dgGraph[r][Pass(r).key] = Pass(r).addr

\* A later use replays the graph, or falls back to the piecewise path.
Replay(r) ==
    /\ Due(r) /\ Usable(r) /\ dgGraph[r][Pass(r).key] # 0
    /\ Counted(r)
    /\ IF Fits(r)
       THEN /\ dgStage' = [dgStage EXCEPT ![r] = Staged(r)]
            /\ Executes(r, dgGraph[r][Pass(r).key], [q \in DOMAIN Live(r) |-> Staged(r)[q]])
       ELSE Executes(r, Pass(r).addr, Live(r)) /\ UNCHANGED dgStage
    /\ Finish(r)
    /\ UNCHANGED <<dgCompiled, dgGraph, dgDisabled, dgCold>>

DgNext ==
    \/ NextPass
    \/ \E r \in DgRanks :
          RunNormal(r) \/ RunNone(r) \/ Capture(r) \/ CaptureFails(r) \/ Replay(r)

DgSpec == DgInit /\ [][DgNext]_dgVars

-----------------------------------------------------------------------------
(* Properties                                                              *)

\* However a rank ran its last pass, the forward read that pass's own metadata and
\* sequence lengths, not those some graph was captured or last replayed with.
ReadsThisPass ==
    \A r \in DgRanks : dgPos[r] > 0 =>
       LET p == dgPlan[dgPos[r]]
       IN  dgRead[r] = [pass |-> dgPos[r], addr |-> p.addr, lens |-> [q \in 1 .. p.key[1] |-> dgPos[r]]]

\* A rank whose capture failed and one whose capture did not still execute one
\* forward each per pass, so their collectives keep pairing up.
OneForwardPerPass == \A r \in DgRanks : dgColl[r] = dgPos[r]

\* No kernel is compiled inside a capture: every key's forward has run outside one.
CompiledBeforeCapture == \A r \in DgRanks : ~dgCold[r]
=============================================================================
