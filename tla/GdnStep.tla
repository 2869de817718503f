------------------------------- MODULE GdnStep -------------------------------
(***************************************************************************)
(* A step of a recurrent (GDN) layer, radiance_gdn.forward_core_fused: the *)
(* plan that decides between the R4D kernels and the stock body, and the   *)
(* paths of the kernels over the step's rows, their caches and the padded  *)
(* output.  GdnLazy has the blocks of the lazy mode, GdnBuild the metadata *)
(* of several groups; here requests keep their blocks.                     *)
(*                                                                         *)
(* A token is <<turn, position>>; the state that has absorbed the tokens   *)
(* up to it, and its output from the state before it, are named like it.   *)
(* <<0, 0>> is the zero state and a zeroed row, Garbage anything else.     *)
(***************************************************************************)
EXTENDS Arith, Sequences, FiniteSets, SequencesExt

CONSTANTS
    GsEnvs,     \* set of [lib, state, geometry, lazy, fused, emptyOut]
    GsReqs,     \* request slots
    GsSpec,     \* num_spec, drafts of a step
    GsPrompts,  \* prompt lengths
    GsHeads,    \* v heads of a rank
    GsItems,    \* RADIANCE_GDN_FUSED_MAX_ITEMS
    GsPadding,  \* rows a step may be padded by
    GsTurns,    \* bound: requests
    GsSteps     \* bound: steps, and one more in the lazy mode, which looks back at the last

ASSUME GdnStepAssumption == GsSpec \in Nat \ {0} /\ GsPrompts \subseteq Nat \ {0, 1}

VARIABLES
    gsEnv,
    gsReq,    \* by slot: [turn, prompt, done, nacc], or Gone
    gsCache,  \* by slot: [conv, ssm, stash], what its blocks hold
    gsBatch,  \* rows of the step: sequence of [slot, n]; <<>> between steps
    gsOut,    \* core_attn_out when the step is done; <<>> before
    gsPath,   \* how the step was served
    gsTurn    \* turns and steps so far

gsVars == <<gsEnv, gsReq, gsCache, gsBatch, gsOut, gsPath, gsTurn>>

Zero == <<0, 0>>
Garbage == <<-1, 0>>
Gone == [turn |-> 0]
NoStash == [live |-> FALSE]

-----------------------------------------------------------------------------
(* The kernels of the library                                              *)

\* r4d.select(): a library from before the narrow states ignores state_dtype.
Selected(e, type) ==
    IF e.lib = "fp32 only" THEN "fp32"
    ELSE IF type \in {"fp32", "fp16", "bf16"} THEN type ELSE "none"

\* Mutant of BoundNarrow: the entry that select() names is taken for the narrow one.
BoundNarrowSelected(e, type) == Selected(e, type)

\* _bind_narrow_state: the name it returns must say the type.
BoundNarrow(e, type) == IF Selected(e, type) = type THEN type ELSE "none"

Narrow == {"fp16", "bf16"}

\* The type a decode kernel reads the cache as.
ReadAs(e) ==
    IF e.state \in Narrow /\ BoundNarrow(e, e.state) # "none" THEN BoundNarrow(e, e.state)
    ELSE "fp32"

-----------------------------------------------------------------------------
(* Requests, and the step's batch                                          *)

GsInit ==
    /\ gsEnv \in GsEnvs
    /\ gsReq = [r \in GsReqs |-> Gone]
    /\ gsCache = [r \in GsReqs |->
           [conv |-> [turn |-> -1, at |-> 0, span |-> 0],
            ssm |-> [c \in 1 .. GsSpec + 1 |-> Garbage], stash |-> NoStash]]
    /\ gsBatch = <<>> /\ gsOut = <<>> /\ gsPath = "none"
    /\ gsTurn = [turns |-> 0, steps |-> 0]

\* A request takes a slot, whose blocks hold what the last one left there.
GsArrive(r) ==
    /\ gsBatch = <<>> /\ gsReq[r] = Gone /\ gsTurn.turns < GsTurns
    /\ gsTurn' = [gsTurn EXCEPT !.turns = @ + 1]
    /\ \E p \in GsPrompts :
        gsReq' = [gsReq EXCEPT ![r] = [turn |-> gsTurn.turns + 1, prompt |-> p, done |-> 0, nacc |-> 1]]
    /\ UNCHANGED <<gsEnv, gsCache, gsBatch, gsOut, gsPath>>

GsFinish(r) ==
    /\ gsBatch = <<>> /\ gsReq[r] # Gone /\ gsReq[r].done > gsReq[r].prompt
    /\ gsReq' = [gsReq EXCEPT ![r] = Gone]
    /\ UNCHANGED <<gsEnv, gsCache, gsBatch, gsOut, gsPath, gsTurn>>

Prefilling(r) == gsReq[r].done < gsReq[r].prompt

\* Bound: a chunk of a prompt has at least two tokens, for vLLM takes a single one for a
\* decode.  In the lazy mode every decode row has drafts.
Widths(r) ==
    IF Prefilling(r) THEN {n \in 2 .. gsReq[r].prompt - gsReq[r].done :
                              gsReq[r].prompt - gsReq[r].done - n # 1}
    ELSE (IF gsEnv.lazy THEN 2 ELSE 1) .. GsSpec + 1

\* The scheduler's batch: every request that has arrived, in any order.
GsSchedule ==
    LET S == {r \in GsReqs : gsReq[r] # Gone} IN
    /\ gsBatch = <<>> /\ S # {} /\ gsTurn.steps < GsSteps + (IF gsEnv.lazy THEN 1 ELSE 0)
    /\ \E order \in SetToSeqs(S) :
        \E rows \in [DOMAIN order -> UNION {Widths(r) : r \in S}] :
            /\ \A i \in DOMAIN order : rows[i] \in Widths(order[i])
            /\ gsBatch' = [i \in DOMAIN order |-> [slot |-> order[i], n |-> rows[i]]]
    /\ gsOut' = <<>> /\ gsPath' = "none"
    /\ gsTurn' = [gsTurn EXCEPT !.steps = @ + 1]
    /\ UNCHANGED <<gsEnv, gsReq, gsCache>>

StepTokens(row) == [j \in 1 .. row.n |-> <<gsReq[row.slot].turn, gsReq[row.slot].done + j>>]
TokensOf(rows) == FlattenSeq([i \in DOMAIN rows |-> StepTokens(rows[i])])
X == TokensOf(gsBatch)

IsDraftRow(row) == ~Prefilling(row.slot) /\ row.n > 1
DraftRows == SelectSeq(gsBatch, IsDraftRow)
PrefillRows == SelectSeq(gsBatch, LAMBDA row : Prefilling(row.slot))
Decodes == Len(gsBatch) - Len(DraftRows) - Len(PrefillRows)

\* spec_token_indx and non_spec_token_indx: where the tokens of some rows are in the batch.
IndicesOf(rows) ==
    SelectSeq([i \in 1 .. Len(X) |-> i],
              LAMBDA i : \E k \in DOMAIN rows : \E j \in 1 .. rows[k].n : StepTokens(rows[k])[j] = X[i])

-----------------------------------------------------------------------------
(* The plan                                                                *)

SpecStep == Len(DraftRows) > 0

\* _plan: why no step of this model is one for the kernels, found before the hook.
NoKernel ==
    \/ ~gsEnv.geometry
    \/ gsEnv.state \in Narrow /\ BoundNarrow(gsEnv, gsEnv.state) = "none"

\* _plan: why the step is not one for the kernels, as far as models differ in it.
Declined == NoKernel \/ Decodes > 0

Kind ==
    IF SpecStep THEN IF Len(PrefillRows) = 0 THEN "decode" ELSE "prefill+spec" ELSE "prefill"

\* no() raises if the cache has no candidate columns for the stock body to write.
MustNotDecline == gsEnv.lazy /\ SpecStep

\* Mutant of Disowned: the stash of a slot's last owner stays live.
DisownedNever == {}

\* _lazy_invalidate: slots whose stash headers are zeroed, whoever serves the step, unless
\* the model has been declined by then.
Disowned ==
    IF gsEnv.lazy /\ ~NoKernel THEN {PrefillRows[i].slot : i \in DOMAIN PrefillRows} ELSE {}

-----------------------------------------------------------------------------
(* The kernels: rows, the tokens they are given, and the caches            *)

\* The state after j more tokens, if s is the row's state before them.
After(s, row, j) ==
    LET q == gsReq[row.slot]
    IN  IF s = (IF q.done = 0 THEN Zero ELSE <<q.turn, q.done>>)
        THEN <<q.turn, q.done + j>> ELSE Garbage

\* The window of the convolution holds the tokens this row comes after.
WindowFits(row) ==
    LET q == gsReq[row.slot]
        w == gsCache[row.slot].conv
    IN  q.done = 0 \/ (w.turn = q.turn /\ w.at + q.nacc = q.done /\ q.nacc <= w.span)

\* Candidate columns, or the base and the accepted part of the stash.
StateBefore(row) ==
    LET q == gsReq[row.slot]
        c == gsCache[row.slot]
    IN  IF Prefilling(row.slot) THEN IF q.done = 0 THEN Zero ELSE c.ssm[1]
        ELSE IF ~gsEnv.lazy THEN c.ssm[q.nacc]
        ELSE IF ~c.stash.live THEN c.ssm[1]
        ELSE IF c.ssm[1] = c.stash.base /\ q.nacc <= c.stash.n
             THEN <<c.stash.turn, c.stash.at + q.nacc>> ELSE Garbage

\* What the step's body reads: a decode kernel that takes the cache for another type's
\* reads past it; the prefill converts it, and the stock body knows its type.
BeforeRow(row) ==
    IF Declined \/ Prefilling(row.slot) \/ ReadAs(gsEnv) = gsEnv.state THEN StateBefore(row)
    ELSE Garbage

\* Outputs of the rows, given as many tokens as they have.
RowOut(row, xs, before) ==
    [j \in 1 .. row.n |->
        IF xs[j] = StepTokens(row)[j] /\ WindowFits(row) THEN After(before, row, j) ELSE Garbage]
Given(rows, xs, i) ==
    LET from == Len(TokensOf(SubSeq(rows, 1, i - 1))) IN SubSeq(xs, from + 1, from + rows[i].n)
OutOf(rows, xs) ==
    FlattenSeq([i \in DOMAIN rows |-> RowOut(rows[i], Given(rows, xs, i), BeforeRow(rows[i]))])

\* Mutant of MaxQ: the width of the state window, which is two in the lazy mode.
MaxQWindow == IF gsEnv.lazy THEN 2 ELSE GsSpec + 1

\* Query length the convolution's window rolls by.
MaxQ == GsSpec + 1

\* The caches of a drafted row after its kernels: a column per candidate or a stash.
DraftCache(row) ==
    LET q == gsReq[row.slot]
        c == gsCache[row.slot]
        s == BeforeRow(row)
    IN  [conv |-> [turn |-> q.turn, at |-> q.done, span |-> Smaller(row.n, MaxQ)],
         ssm |-> IF gsEnv.lazy THEN [c.ssm EXCEPT ![1] = s]
                 ELSE [j \in DOMAIN c.ssm |-> IF j <= row.n THEN After(s, row, j) ELSE c.ssm[j]],
         stash |-> IF gsEnv.lazy
                   THEN [live |-> TRUE, base |-> s, turn |-> q.turn, at |-> q.done, n |-> row.n]
                   ELSE NoStash]

\* The caches of a prefilled row: its state goes to the running column.
PrefillCache(row) ==
    LET q == gsReq[row.slot]
        c == gsCache[row.slot]
    IN  [conv |-> [turn |-> q.turn, at |-> q.done + row.n - 1, span |-> 1],
         ssm |-> [c.ssm EXCEPT ![1] = After(BeforeRow(row), row, row.n)],
         stash |-> IF row.slot \in Disowned THEN NoStash ELSE c.stash]

CacheAfter ==
    [r \in GsReqs |->
        LET mine == {i \in DOMAIN gsBatch : gsBatch[i].slot = r}
        IN  IF mine = {} THEN gsCache[r]
            ELSE LET row == gsBatch[CHOOSE i \in mine : TRUE]
                 IN  IF Prefilling(r) THEN PrefillCache(row) ELSE DraftCache(row)]

-----------------------------------------------------------------------------
(* The step                                                                *)

GsFill == IF gsEnv.emptyOut THEN Garbage ELSE Zero

\* core_attn_out with the rows of o at the indices at, over what it held.
CopiedTo(out, at, o) ==
    [i \in DOMAIN out |->
        IF \E k \in DOMAIN at : at[k] = i THEN o[CHOOSE k \in DOMAIN at : at[k] = i] ELSE out[i]]
Allocated(n) == [i \in 1 .. n |-> GsFill]
Upto(n) == [i \in 1 .. n |-> i]

\* Mutant of ZeroTail: the pad rows are left as they were allocated.
ZeroTailNever(out) == out

\* _zero_tail: pad rows, on the paths whose kernels leave them alone.
ZeroTail(out) ==
    [i \in DOMAIN out |-> IF gsEnv.emptyOut /\ i > Len(X) THEN Zero ELSE out[i]]

UsesFused == gsEnv.fused /\ ~gsEnv.lazy /\ Len(DraftRows) * GsHeads <= GsItems

DecodePath(n) ==
    LET o == OutOf(DraftRows, X)
    IN  IF UsesFused THEN [i \in 1 .. n |-> IF i <= Len(X) THEN o[i] ELSE Zero]
        ELSE ZeroTail(CopiedTo(Allocated(n), Upto(Len(X)), o))

\* Mutant of NonSpecTokens: the prefill rows' tokens as if they were the first.
NonSpecTokensFirst == Upto(Len(TokensOf(PrefillRows)))

NonSpecTokens == IndicesOf(PrefillRows)

PrefillPath(n) ==
    LET si == IndicesOf(DraftRows)
        ni == NonSpecTokens
        spec == OutOf(DraftRows, [k \in DOMAIN si |-> X[si[k]]])
        o == OutOf(PrefillRows, [k \in DOMAIN ni |-> X[ni[k]]])
    IN  IF Kind = "prefill"
        THEN ZeroTail(CopiedTo(Allocated(n), Upto(Len(X)), OutOf(PrefillRows, X)))
        ELSE ZeroTail(CopiedTo(CopiedTo(Allocated(n), si, spec), ni, o))

\* The stock body, after the hook: all rows as they are, and the whole buffer zeroed first
\* if it was not when it was allocated.
StockPath(n) ==
    LET o == OutOf(gsBatch, X) IN [i \in 1 .. n |-> IF i <= Len(X) THEN o[i] ELSE Zero]

GsForward ==
    /\ gsBatch # <<>> /\ gsOut = <<>> /\ gsPath = "none"
    /\ \E pad \in GsPadding :
        LET n == Len(X) + pad
        IN  IF Declined /\ MustNotDecline
            THEN gsPath' = "raised" /\ UNCHANGED <<gsOut, gsCache>>
            ELSE /\ gsCache' = CacheAfter
                 /\ gsPath' = IF Declined THEN "stock" ELSE Kind
                 /\ gsOut' = IF Declined THEN StockPath(n)
                             ELSE IF Kind = "decode" THEN DecodePath(n) ELSE PrefillPath(n)
    /\ UNCHANGED <<gsEnv, gsReq, gsBatch, gsTurn>>

\* The sampler accepts some of the drafts; a step that raised ends the engine.
GsAccept ==
    /\ gsOut # <<>>
    /\ \E acc \in [GsReqs -> 1 .. GsSpec + 1] :
        /\ \A r \in GsReqs :
            IF \E i \in DOMAIN gsBatch : gsBatch[i].slot = r /\ ~Prefilling(r)
            THEN \E i \in DOMAIN gsBatch : gsBatch[i].slot = r /\ acc[r] <= gsBatch[i].n
            ELSE acc[r] = 1
        /\ gsReq' = [r \in GsReqs |->
               LET mine == {i \in DOMAIN gsBatch : gsBatch[i].slot = r}
               IN  IF mine = {} THEN gsReq[r]
                   ELSE [gsReq[r] EXCEPT !.nacc = acc[r],
                         !.done = @ + (IF Prefilling(r) THEN gsBatch[CHOOSE i \in mine : TRUE].n
                                       ELSE acc[r])]]
    /\ gsBatch' = <<>> /\ gsOut' = <<>> /\ gsPath' = "none"
    /\ UNCHANGED <<gsEnv, gsCache, gsTurn>>

GsNext ==
    \/ \E r \in GsReqs : GsArrive(r) \/ GsFinish(r)
    \/ GsSchedule \/ GsForward \/ GsAccept
GsSpecification == GsInit /\ [][GsNext]_gsVars

-----------------------------------------------------------------------------
(* Properties                                                              *)

\* Whichever path serves a step, every token's row of the output is that token's, computed
\* from its own request's tokens before it and nothing of the slot's last owner, every pad
\* row is zero, and only a lazy step with drafts ever raises.
RowsServedOnce ==
    /\ gsOut # <<>> =>
        \A i \in DOMAIN gsOut : gsOut[i] = (IF i <= Len(X) THEN X[i] ELSE Zero)
    /\ gsPath = "raised" => gsEnv.lazy /\ SpecStep
    /\ gsPath = "stock" => ~(gsEnv.lazy /\ SpecStep)
==============================================================================
