------------------------------ MODULE DraftGate ------------------------------
(***************************************************************************)
(* The draft controller of radiance (radiance_draft.py): at every slot of  *)
(* the MTP draft loop each request of the batch continues, takes the       *)
(* n-gram continuation, or stops to verify; the loop is left when all have *)
(* decided (patch_mtp_loopbreak.py), and the draft is put together.        *)
(*                                                                         *)
(* The drafter and the matcher are inputs: for a row, how many tokens the  *)
(* n-gram continuation has, at which slots its token is the drafter's own, *)
(* and the drafter's confidence at each slot.  Confidences are integers    *)
(* out of Scale.  A drafted token is named by where it came from: the      *)
(* draft's position already says which slot or continuation index it is.   *)
(***************************************************************************)
EXTENDS Integers, Sequences, FiniteSets, FiniteSetsExt

CONSTANTS
    NSpec,      \* num_speculative_tokens, the full width of a draft
    Tau,        \* RADIANCE_DRAFT_TAU
    Scale,      \* confidence 1.0
    Confs,      \* the confidences the drafter may report
    Schedule,   \* RADIANCE_DRAFT_SCHEDULE: <<batch size, depth>> by batch size
    MaxBatch,   \* bound: requests in a batch
    MaxSteps    \* bound: engine steps

ASSUME GateAssumption ==
    /\ NSpec \in Nat \ {0}
    /\ Scale \in Nat \ {0}
    /\ Tau \in 0 .. Scale
    /\ Confs \subseteq 0 .. Scale
    /\ MaxBatch \in Nat \ {0}
    /\ MaxSteps \in Nat
    /\ Schedule \in Seq(Nat \X Nat)
    /\ \A i, k \in DOMAIN Schedule : i < k => Schedule[i][1] <= Schedule[k][1]

Slots == 0 .. NSpec - 1
Rows(n) == 1 .. n

Inputs == {a \in [clen : 0 .. NSpec, agree : SUBSET Slots, conf : [Slots -> Confs]] :
             \A j \in a.agree : j < a.clen}

VARIABLES
    pc,       \* where the engine step is
    batch,    \* B, the number of requests
    input,    \* what matcher and drafter answer in this step, by row
    matched,  \* _radiance_cont is not None
    gate,     \* _radiance_gate, by row; <<>> before the first decision
    slot,     \* _radiance_slot = the tokens drafted so far
    stop,     \* _radiance_stop
    cap,      \* _radiance_fwd_cap
    draft,    \* the drafts handed to the scheduler, by row
    steps     \* engine steps begun

vars == <<pc, batch, input, matched, gate, slot, stop, cap, draft, steps>>

-----------------------------------------------------------------------------
(* The concurrency schedule                                                *)

\* The entry that governs a batch of n: the last whose batch size is reached,
\* or the first.
Governs(i, n) ==
    /\ i = 1 \/ Schedule[i][1] <= n
    /\ \A k \in DOMAIN Schedule : k > i => Schedule[k][1] > n

\* The forward cap of a batch of n; 0 is none.
IsFwdCap(c, n) ==
    IF Schedule = <<>> THEN c = 0
    ELSE \E i \in DOMAIN Schedule :
            LET ceil == IF Schedule[i][2] < 1 THEN 1 ELSE Schedule[i][2]
            IN  Governs(i, n) /\ c = IF ceil < NSpec THEN ceil ELSE 0

-----------------------------------------------------------------------------
(* One request's decision at one slot                                      *)

Continue == 0
TakeNgram == 1
Verify == 2

FreshRow == [cum |-> Scale, stopped |-> FALSE, allagree |-> TRUE,
             sslot |-> NSpec, saction |-> Verify]

\* Mutant of Action: prefer the drafter while it is confident.
ActionConfidentFirst(g, a, j) ==
    IF g.cum >= Tau THEN Continue ELSE IF j \in a.agree THEN TakeNgram ELSE Verify

Action(g, a, j) ==
    IF j \in a.agree THEN TakeNgram ELSE IF g.cum >= Tau THEN Continue ELSE Verify

\* Mutant of Newly: a request that stopped decides again.
NewlyAgain(g, act) == act # Continue
Newly(g, act) == ~g.stopped /\ act # Continue

\* Mutant of CapHit: one forward too many.
CapHitLate(c, j) == c # 0 /\ j >= c
CapHit(c, j) == c # 0 /\ j + 1 >= c

\* The decision for slot j; d is the slot whose confidence it multiplies in.
Decide(g, a, j, d, c) ==
    LET act == Action(g, a, j)
        newly == Newly(g, act)
        halted == g.stopped \/ act # Continue
        all == g.allagree /\ (j \in a.agree \/ halted)
        capNew == CapHit(c, j) /\ ~halted
    IN  [cum |-> (g.cum * a.conf[d]) \div Scale,
         stopped |-> halted \/ capNew,
         allagree |-> all,
         sslot |-> IF capNew THEN j + 1 ELSE IF newly THEN j ELSE g.sslot,
         saction |-> IF capNew /\ all THEN TakeNgram
                     ELSE IF newly THEN act ELSE g.saction]

\* The whole batch decides slot j with what the device reported of slot d.
DecideAll(j, d) ==
    [r \in Rows(batch) |->
        Decide(IF j = 0 THEN FreshRow ELSE gate[r], input[r], j, d, cap)]

-----------------------------------------------------------------------------
(* The draft                                                               *)

MinOf(x, y) == IF x <= y THEN x ELSE y
MaxOf(x, y) == IF x >= y THEN x ELSE y

Native(len) == [i \in 1 .. len |-> "mtp"]

\* Mutant of Assemble: an empty draft is handed over as it is.
AssembleEmpty(g, a, len) ==
    LET k == MinOf(g.sslot, len)
        n == IF g.saction = Verify THEN k ELSE MaxOf(k - 1, a.clen - 1)
    IN  [i \in 1 .. MinOf(n, NSpec) |-> IF i <= k THEN "mtp" ELSE "ngram"]

\* The drafted prefix up to the request's stop slot, then the continuation
\* from there on if it chose that; never empty, never wider than NSpec.
Assemble(g, a, len) ==
    LET k == MinOf(g.sslot, len)
        n == IF g.saction = TakeNgram THEN MaxOf(k, a.clen) ELSE k
    IN  IF n = 0 THEN Native(1)
        ELSE [i \in 1 .. MinOf(n, NSpec) |-> IF i <= k THEN "mtp" ELSE "ngram"]

-----------------------------------------------------------------------------
(* An engine step                                                          *)

Init ==
    /\ pc = "idle" /\ batch = 0 /\ input = <<>> /\ matched = FALSE
    /\ gate = <<>> /\ slot = 0 /\ stop = FALSE /\ cap = 0
    /\ draft = <<>> /\ steps = 0

\* The runner's wrapper: note the batch's ceiling and run the matcher.  No
\* continuation is kept when no context has three tokens or the matcher raised.
Match ==
    /\ pc = "idle" /\ steps < MaxSteps
    /\ \E n \in 1 .. MaxBatch :
          /\ batch' = n
          /\ input' \in [Rows(n) -> Inputs]
    /\ matched' \in BOOLEAN
    /\ steps' = steps + 1
    /\ pc' = "propose"
    /\ UNCHANGED <<gate, slot, stop, cap, draft>>

\* Mutant of Propose: the gating state of the last step is left in place.
ProposeKeeps ==
    /\ pc = "propose"
    /\ \E c \in 0 .. NSpec - 1 : IsFwdCap(c, batch) /\ cap' = c
    /\ slot' = 0
    /\ stop' = FALSE
    /\ pc' = "slot"
    /\ UNCHANGED <<batch, input, matched, gate, draft, steps>>

Propose ==
    /\ pc = "propose"
    /\ \E c \in 0 .. NSpec - 1 : IsFwdCap(c, batch) /\ cap' = c
    /\ slot' = 0
    /\ stop' = FALSE
    /\ gate' = <<>>
    /\ pc' = "slot"
    /\ UNCHANGED <<batch, input, matched, draft, steps>>

\* The gated sampler, after the forward of this slot.
GreedySample ==
    /\ pc = "slot"
    /\ slot' = slot + 1
    /\ IF matched
       THEN /\ gate' = DecideAll(slot, slot)
            /\ stop' = (stop \/ \A r \in Rows(batch) : gate'[r].stopped)
       ELSE UNCHANGED <<gate, stop>>
    /\ pc' = "loop"
    /\ UNCHANGED <<batch, input, matched, cap, draft, steps>>

\* The head of the draft loop: its range is spent, or the controller stopped.
LoopDone == slot = NSpec \/ stop

Forward ==
    /\ pc = "loop" /\ ~LoopDone
    /\ pc' = "slot"
    /\ UNCHANGED <<batch, input, matched, gate, slot, stop, cap, draft, steps>>

LeaveLoop ==
    /\ pc = "loop" /\ LoopDone
    /\ pc' = "post"
    /\ UNCHANGED <<batch, input, matched, gate, slot, stop, cap, draft, steps>>

\* The postprocessor: without a decision the draft is the drafter's own.
Postprocess ==
    /\ pc = "post"
    /\ draft' = IF gate # <<>> /\ DOMAIN gate = Rows(batch)
                THEN [r \in Rows(batch) |-> Assemble(gate[r], input[r], slot)]
                ELSE [r \in Rows(batch) |-> Native(slot)]
    /\ pc' = "idle"
    /\ UNCHANGED <<batch, input, matched, gate, slot, stop, cap, steps>>

Next == Match \/ Propose \/ GreedySample \/ Forward \/ LeaveLoop \/ Postprocess

Spec == Init /\ [][Next]_vars

\* The engine drives a step it has begun to its end.
FairSpec == Spec /\ WF_vars(Next)

-----------------------------------------------------------------------------
(* Properties                                                              *)

GateRow == [cum : 0 .. Scale, stopped : BOOLEAN, allagree : BOOLEAN,
            sslot : 0 .. NSpec, saction : {TakeNgram, Verify}]

Source == {"mtp", "ngram"}

ByRow(f) == DOMAIN f \in {Rows(n) : n \in 0 .. MaxBatch}

\* The controller's state keeps to its ranges; in particular every draft has
\* between one and NSpec tokens.
TypeOK ==
    /\ pc \in {"idle", "propose", "slot", "loop", "post"}
    /\ batch \in 0 .. MaxBatch
    /\ input \in [Rows(batch) -> Inputs]
    /\ matched \in BOOLEAN
    /\ ByRow(gate) /\ gate \in [DOMAIN gate -> GateRow]
    /\ slot \in 0 .. NSpec
    /\ stop \in BOOLEAN
    /\ cap \in 0 .. NSpec - 1
    /\ ByRow(draft)
    /\ \A r \in DOMAIN draft : \E n \in 1 .. NSpec : draft[r] \in [1 .. n -> Source]
    /\ steps \in 0 .. MaxSteps

\* Reference: the running confidence before slot j.
Cum(a, j) ==
    LET f[i \in 0 .. NSpec] == IF i = 0 THEN Scale
                               ELSE (f[i - 1] * a.conf[i - 1]) \div Scale
    IN  f[j]

Limit(c) == IF c = 0 THEN NSpec ELSE c
Cuts(a, c) == {j \in 0 .. Limit(c) - 1 : j \in a.agree \/ Cum(a, j) < Tau}
CutSlot(a, c) == IF Cuts(a, c) = {} THEN Limit(c) ELSE Min(Cuts(a, c))

\* Reference: the draft of a request that is alone, from the rule in words:
\* draft up to the first slot at which the continuation agrees or confidence is
\* spent, then copy the continuation if it agreed.
SoloDraft(a, c) ==
    LET k == CutSlot(a, c)
        n == IF k < Limit(c) /\ k \in a.agree THEN a.clen ELSE MaxOf(k, 1)
    IN  [i \in 1 .. n |-> IF i <= MaxOf(k, 1) /\ (k > 0 \/ 0 \notin a.agree)
                          THEN "mtp" ELSE "ngram"]

Finished == pc = "idle" /\ steps > 0

\* However long other requests keep the loop running, each request is handed
\* the draft it would have got alone; without a continuation from the matcher
\* it is the drafter's own at full width.
BatchIndependent ==
    Finished => \A r \in Rows(batch) :
        draft[r] = IF matched THEN SoloDraft(input[r], cap) ELSE Native(NSpec)

\* The loop runs exactly as many passes as the request that decides last needs.
NoWastedForward ==
    Finished /\ matched =>
        slot = 1 + Max({MinOf(CutSlot(input[r], cap), Limit(cap) - 1) : r \in Rows(batch)})

\* A request whose continuation has agreed at every slot so far has stopped: so
\* at the forward cap no request is left that would get the tail for agreeing.
AgreementStops ==
    matched /\ gate # <<>> /\ pc \in {"slot", "loop", "post"} =>
        \A r \in Rows(batch) : gate[r].stopped \/ ~gate[r].allagree

\* Once a request has stopped, nothing the other requests or the cap do in the
\* same step changes where it stopped or what it chose.
DecisionFrozen ==
    [][\A r \in DOMAIN gate :
          gate[r].stopped /\ gate' # <<>> =>
              /\ gate'[r].stopped
              /\ gate'[r].sslot = gate[r].sslot
              /\ gate'[r].saction = gate[r].saction]_vars
=============================================================================
