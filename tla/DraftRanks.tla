------------------------------ MODULE DraftRanks ------------------------------
(***************************************************************************)
(* The draft controller on the ranks of a tensor-parallel group            *)
(* (radiance_draft.py): every rank runs its own copy of the controller,    *)
(* and every pass of the drafter meets the other ranks in two collectives, *)
(* the reductions inside the forward and the exchange that finishes the    *)
(* drafted token and its confidence.  A rank handles its own exceptions.   *)
(***************************************************************************)
EXTENDS Integers, FiniteSets

CONSTANTS
    World,      \* tensor parallel size
    NSpec,      \* num_speculative_tokens
    MaxSteps,   \* bound: engine steps
    Kinds       \* what may raise, once and on any of the ranks: "matcher", "local"

ASSUME RanksAssumption ==
    /\ World \in Nat /\ World >= 2
    /\ NSpec \in Nat /\ NSpec >= 2
    /\ MaxSteps \in Nat \ {0}
    /\ Kinds \subseteq {"matcher", "local"}

Rank == 0 .. World - 1
RkStep == 1 .. MaxSteps
Collectives == {"reduce", "stats", "logits"}

NoFault == [kind |-> "none", step |-> 0, slot |-> 0, ranks |-> {}]

VARIABLES
    rkPc,       \* what a rank does, or the collective it is blocked in
    rkStep,     \* engine steps a rank has begun
    rkSlot,     \* _radiance_slot
    rkCont,     \* _radiance_cont is not None
    rkLocalOk,  \* _LOCAL_OK
    rkShard,    \* by step and rank: the slot at which the rank's own shard of the
                \* vocabulary alone would let the batch stop
    rkFault     \* what raises in this behaviour

rkVars == <<rkPc, rkStep, rkSlot, rkCont, rkLocalOk, rkShard, rkFault>>

RkInit ==
    /\ rkPc = [r \in Rank |-> "idle"]
    /\ rkStep = [r \in Rank |-> 0]
    /\ rkSlot = [r \in Rank |-> 0]
    /\ rkCont = [r \in Rank |-> FALSE]
    /\ rkLocalOk = [r \in Rank |-> TRUE]
    /\ rkShard \in [RkStep -> [Rank -> 1 .. NSpec]]
    /\ rkFault \in {NoFault} \cup
         {f \in [kind : Kinds, step : RkStep, slot : 0 .. NSpec - 1, ranks : SUBSET Rank \ {{}}] :
              f.kind = "matcher" => f.slot = 0}

Hit(r, kind) == rkFault.kind = kind /\ rkFault.step = rkStep[r] /\ r \in rkFault.ranks

\* The engine hands out a step when rank 0, whose output it waits for, has
\* returned from the one before.
Dispatched(r) == rkStep[r] < rkStep[0] \/ rkPc[0] = "idle"

\* propose_draft_token_ids: the matcher, whose exceptions the wrapper swallows.
Begin(r) ==
    /\ rkPc[r] = "idle" /\ rkStep[r] < MaxSteps /\ Dispatched(r)
    /\ rkStep' = [rkStep EXCEPT ![r] = @ + 1]
    /\ rkSlot' = [rkSlot EXCEPT ![r] = 0]
    /\ rkCont' = [rkCont EXCEPT ![r] =
                   ~(/\ rkFault.kind = "matcher" /\ rkFault.step = rkStep'[r]
                     /\ r \in rkFault.ranks)]
    /\ rkPc' = [rkPc EXCEPT ![r] = "launch"]
    /\ UNCHANGED <<rkLocalOk, rkShard, rkFault>>

\* A pass of the drafter reaches its reductions.
Launch(r) ==
    /\ rkPc[r] = "launch"
    /\ rkPc' = [rkPc EXCEPT ![r] = "reduce"]
    /\ UNCHANGED <<rkStep, rkSlot, rkCont, rkLocalOk, rkShard, rkFault>>

\* greedy_sample: the ranks exchange the statistics of their shards, or, once
\* the local path has raised here, gather the logits.
Sample(r) ==
    /\ rkPc[r] = "sample"
    /\ rkLocalOk' = [rkLocalOk EXCEPT
                       ![r] = @ /\ ~(Hit(r, "local") /\ rkFault.slot = rkSlot[r])]
    /\ rkPc' = [rkPc EXCEPT ![r] = IF rkLocalOk'[r] THEN "stats" ELSE "logits"]
    /\ UNCHANGED <<rkStep, rkSlot, rkCont, rkShard, rkFault>>

\* Mutant of StopAt: a rank decides from its own shard.
StopAtOwn(s, r) == rkShard[s][r]

\* Both exchanges give every rank the same confidences.
StopAt(s, r) == CHOOSE n \in {rkShard[s][q] : q \in Rank} :
                   \A q \in Rank : rkShard[s][q] <= n

\* Mutant of PassesEnd: one pass more than the draft has slots.
PassesEndLate(r) == rkSlot[r] = NSpec \/ (rkCont[r] /\ rkSlot[r] + 1 >= StopAt(rkStep[r], r))

\* The draft loop ends: its range is spent, or the controller stopped it, which
\* it does not without a continuation from the matcher.
PassesEnd(r) == rkSlot[r] + 1 = NSpec \/ (rkCont[r] /\ rkSlot[r] + 1 >= StopAt(rkStep[r], r))

\* A collective completes when all ranks are in it.
Reduced ==
    /\ \A r \in Rank : rkPc[r] = "reduce"
    /\ rkPc' = [r \in Rank |-> "sample"]
    /\ UNCHANGED <<rkStep, rkSlot, rkCont, rkLocalOk, rkShard, rkFault>>

Exchanged ==
    /\ \E k \in {"stats", "logits"} : \A r \in Rank : rkPc[r] = k
    /\ rkPc' = [r \in Rank |-> IF PassesEnd(r) THEN "idle" ELSE "launch"]
    /\ rkSlot' = [r \in Rank |-> rkSlot[r] + 1]
    /\ UNCHANGED <<rkStep, rkCont, rkLocalOk, rkShard, rkFault>>

RkNext ==
    \/ \E r \in Rank : Begin(r) \/ Launch(r) \/ Sample(r)
    \/ Reduced
    \/ Exchanged

RkSpec == RkInit /\ [][RkNext]_rkVars

\* Every rank is a process of its own, and collectives all ranks are in complete.
RkFairSpec ==
    /\ RkSpec
    /\ \A r \in Rank : WF_rkVars(Begin(r) \/ Launch(r) \/ Sample(r))
    /\ WF_rkVars(Reduced) /\ WF_rkVars(Exchanged)

-----------------------------------------------------------------------------
(* Properties                                                              *)

RkTypeOK ==
    /\ rkPc \in [Rank -> {"idle", "launch", "sample"} \cup Collectives]
    /\ rkStep \in [Rank -> 0 .. MaxSteps]
    /\ rkSlot \in [Rank -> 0 .. NSpec]
    /\ rkCont \in [Rank -> BOOLEAN]
    /\ rkLocalOk \in [Rank -> BOOLEAN]

\* The exception has struck r.
Struck(r) ==
    \/ rkFault.kind = "matcher" /\ r \in rkFault.ranks /\ rkStep[r] >= rkFault.step
    \/ ~rkLocalOk[r]

\* It has struck a rank and passes another by.
StruckApart == \E r, q \in Rank : Struck(r) /\ q \notin rkFault.ranks

\* Until an exception strikes some ranks and passes others by, ranks that wait for one
\* another wait in the same collective of the same pass.  Where it is the local path that
\* raises so, the ranks part for good: those struck wait in the gather of the logits, and
\* no other rank ever enters it.
Rendezvous ==
    IF ~StruckApart
    THEN \A r, q \in Rank :
            {rkPc[r], rkPc[q]} \subseteq Collectives =>
                rkPc[r] = rkPc[q] /\ rkStep[r] = rkStep[q] /\ rkSlot[r] = rkSlot[q]
    ELSE rkFault.kind = "local" =>
            \A r \in Rank : IF Struck(r) THEN rkPc[r] = "logits" ELSE rkPc[r] # "logits"

\* Until then, ranks that are through with a step have drafted equally many tokens.
DraftsAgree ==
    ~StruckApart =>
        \A r, q \in Rank :
            rkPc[r] = "idle" /\ rkPc[q] = "idle" /\ rkStep[r] = rkStep[q]
                => rkSlot[r] = rkSlot[q]

\* Every step ends on every rank unless an exception strikes some ranks and passes others
\* by: one that strikes all of them costs the draft its quality, not the serve.  (The ranks
\* that the local path's strikes alone wait for good, as Rendezvous says, although each
\* catches its own exception and falls back to the gathered path.)
StepsEnd == []~StruckApart => \A r \in Rank : <>(rkStep[r] = MaxSteps /\ rkPc[r] = "idle")
=============================================================================
