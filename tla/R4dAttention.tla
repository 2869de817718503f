----------------------------- MODULE R4dAttention -----------------------------
(***************************************************************************)
(* The R4D attention backend (radiance_r4d_attn.py): what it refuses when  *)
(* a model is loaded, how a step's batch is cut into launches of one query *)
(* length, and what a launch that a graph has captured still says of the   *)
(* batch it is replayed for.                                               *)
(*                                                                         *)
(* A row of a batch is [q, ctx]: query tokens (0 for a row of padding) and *)
(* context.  The answer to a query token is [row, at, keys]: the batch row *)
(* whose table and length it was computed from, its place in that row, and *)
(* how much of the context was read.                                       *)
(***************************************************************************)
EXTENDS Arith, Sequences

CONSTANTS
    RaModels,    \* sets of what a model asks for beyond plain causal attention
    RaBatches,   \* the batches of a step
    RaGraphs,    \* <<n, q>> of the captured batches
    RaMaxSeqs,   \* max_num_seqs
    RaMaxLen,    \* max_model_len
    RaGqa,       \* query heads per KV head the kernels are compiled for
    RaRows,      \* ATTN_MAX_DECODE_ROWS, rows of a decode workgroup
    RaTarget,    \* workgroups the split law aims at
    RaSteps      \* bound: steps

\* A batch and a graph are of no more rows, and a row of no more context, than is served.
ASSUME R4dAttentionAssumption ==
    /\ RaMaxSeqs \in Nat \ {0} /\ RaMaxLen \in Nat
    /\ RaGqa \in Nat \ {0} /\ RaRows \in Nat /\ RaTarget \in Nat
    /\ \A b \in RaBatches :
          b \in Seq([q : Nat, ctx : 0 .. RaMaxLen]) \ {<<>>} /\ Len(b) <= RaMaxSeqs
    /\ \A k \in RaGraphs : k[1] \in 1 .. RaMaxSeqs /\ k[2] \in Nat \ {0}

VARIABLES
    raModel,    \* features of the model
    raState,    \* "new", "refused", "serving"
    raScratch,  \* size of the split-KV scratch
    raGraph,    \* by captured batch: the launches in the graph
    raBatch,    \* the step's rows
    raOut,      \* by token of the batch: the answers written to it
    raBad,      \* a launch its kernel cannot take
    raStep

raVars == <<raModel, raState, raScratch, raGraph, raBatch, raOut, raBad, raStep>>

-----------------------------------------------------------------------------
(* What is refused                                                         *)

\* R4DAttentionBackend: what vLLM asks the class before it picks the backend.
ClassRefuses ==
    {"head size", "cache dtype", "encoder", "sliding window", "non-causal", "sinks", "mm prefix",
     "batch invariance", "alibi sqrt"}

\* Mutant of ImplRefuses: the soft cap, which no method of the class covers, is let through.
ImplRefusesNoCap ==
    {"head size", "gqa", "cache dtype", "sliding window", "alibi", "sinks", "per-head scales",
     "chunked local"}

\* R4DAttentionImpl.__init__: the library's own constraints, and what it has no notion of.
ImplRefuses ==
    {"head size", "gqa", "cache dtype", "sliding window", "alibi", "soft cap", "sinks",
     "per-head scales", "chunked local"}

\* The builder refuses a KV cache that is spread over ranks; without the library nothing loads.
BuilderRefuses == {"context parallel", "no library"}

Refused(m) == m \cap (ClassRefuses \cup ImplRefuses \cup BuilderRefuses) # {}

-----------------------------------------------------------------------------
(* The kernels                                                             *)

\* SplitsOf of the context that a launch of n sequences is given: fewer the more there are.
SplitsOf(n, ctx) == Larger(1, Smaller(CeilDiv(ctx, 16), RaTarget \div n))
ScratchFor(n, q, ctx) == n * q * SplitsOf(n, ctx)

MaxDecodeQ == RaRows \div RaGqa

\* Mutant of DecodeTakes: as many queries as the workgroup has rows.
DecodeTakesRows(q) == q <= RaRows

\* The choice of forward(): short runs decode, longer ones go to the prefill kernel.
DecodeTakes(q) == q <= MaxDecodeQ

\* Mutant of ScratchSize: the scratch of the largest batch.
ScratchSizeLargest == ScratchFor(RaMaxSeqs, MaxDecodeQ, RaMaxLen)

\* The builder's scratch: the worst of every number of sequences.
ScratchSize ==
    LET sizes == {ScratchFor(n, MaxDecodeQ, RaMaxLen) : n \in 1 .. RaMaxSeqs}
    IN  CHOOSE s \in sizes : \A t \in sizes : t <= s

-----------------------------------------------------------------------------
(* A batch and its launches                                                *)

FirstTok(batch, i) == PartialSums([k \in DOMAIN batch |-> batch[k].q])[i - 1] + 1
TokensIn(batch) == FirstTok(batch, Len(batch) + 1) - 1

\* Mutant of RunFrom: a run ends before a row of any other query length, and starts where
\* rows of its own length would have put it.
RunFromEven(batch, i, n) == [first |-> i, seqs |-> n, q |-> batch[i].q, tok |-> (i - 1) * batch[i].q + 1]

RunFrom(batch, i, n) == [first |-> i, seqs |-> n, q |-> batch[i].q, tok |-> FirstTok(batch, i)]

\* _plan: maximal runs of rows of one query length, rows without tokens left out.
Plan(batch) ==
    LET starts == {i \in DOMAIN batch :
                      batch[i].q > 0 /\ (i = 1 \/ batch[i - 1].q # batch[i].q)}
        ends(i) == CHOOSE j \in i .. Len(batch) :
                      /\ \A k \in i .. j : batch[k].q = batch[i].q
                      /\ j = Len(batch) \/ batch[j + 1].q # batch[i].q
    IN  {RunFrom(batch, i, ends(i) - i + 1) : i \in starts}

\* The longest context among the rows, the max_seq_len of the step.
LongestContext(batch) ==
    LET all == {batch[i].ctx : i \in DOMAIN batch} IN CHOOSE c \in all : \A d \in all : d <= c

\* Answers of the launches l over the rows of a batch, with the context they were told.
Answers(ls, batch, told, t) ==
    {[row |-> r, at |-> t - FirstTok(batch, r) + 1, keys |-> Smaller(told, batch[r].ctx)] :
        r \in {s \in DOMAIN batch : \E l \in ls :
                  /\ s \in l.first .. l.first + l.seqs - 1
                  /\ t - l.tok \in (s - l.first) * l.q .. (s - l.first + 1) * l.q - 1}}

\* A decode launch wants its rows in one workgroup and its partials in the scratch.
FitsLaunch(l, told) ==
    DecodeTakes(l.q) => l.q * RaGqa <= RaRows /\ ScratchFor(l.seqs, l.q, told) <= raScratch

-----------------------------------------------------------------------------
(* The backend                                                             *)

RaInit ==
    /\ raModel \in RaModels /\ raState = "new" /\ raScratch = 0
    /\ raGraph = [k \in {} |-> {}] /\ raBatch = <<>> /\ raOut = <<>> /\ raBad = FALSE
    /\ raStep = 0

Load ==
    /\ raState = "new"
    /\ raState' = IF Refused(raModel) THEN "refused" ELSE "serving"
    /\ raScratch' = IF Refused(raModel) THEN 0 ELSE ScratchSize
    /\ UNCHANGED <<raModel, raGraph, raBatch, raOut, raBad, raStep>>

\* Mutant of CaptureContext: the context of the dummy batch that is captured.
CaptureContextDummy == 1

\* build_for_cudagraph_capture: the longest context any replay may have.
CaptureContext == RaMaxLen

CaptureBatch(k) ==
    LET dummy == [i \in 1 .. k[1] |-> [q |-> k[2], ctx |-> 1]] IN
    /\ raState = "serving" /\ k \in RaGraphs \ DOMAIN raGraph /\ raStep = 0
    /\ raGraph' = [j \in DOMAIN raGraph \cup {k} |->
                      IF j = k THEN Plan(dummy) ELSE raGraph[j]]
    /\ raBad' = (raBad \/ \E l \in Plan(dummy) : ~FitsLaunch(l, CaptureContext))
    /\ UNCHANGED <<raModel, raState, raScratch, raBatch, raOut, raStep>>

Uniform(batch) == \A i \in DOMAIN batch : batch[i].q = batch[1].q

\* The captured batches a step may be padded to; a graph bakes one query length.
GraphsFor(batch) ==
    {k \in DOMAIN raGraph : Uniform(batch) /\ k[2] = batch[1].q /\ k[1] >= Len(batch)}
PaddedTo(batch, n) == [i \in 1 .. n |-> IF i <= Len(batch) THEN batch[i] ELSE [q |-> 0, ctx |-> 0]]

\* forward(): the launches of the graph, or those of the step's own plan; a batch that is
\* not causal is the stock kernel's.
RaForward ==
    /\ raState = "serving" /\ raStep < RaSteps /\ DOMAIN raGraph = RaGraphs
    /\ raStep' = raStep + 1
    /\ \E b \in RaBatches, causal \in BOOLEAN :
        LET fits == GraphsFor(b)
            k == CHOOSE g \in fits : \A h \in fits : g[1] <= h[1]
            batch == IF causal /\ fits # {} THEN PaddedTo(b, k[1]) ELSE b
            launches == IF fits # {} THEN raGraph[k] ELSE Plan(b)
            told == IF fits # {} THEN CaptureContext ELSE LongestContext(b)
        IN  /\ raBatch' = b
            /\ raOut' = [t \in 1 .. TokensIn(b) |->
                   IF causal THEN Answers(launches, batch, told, t)
                   ELSE {[row |-> r, at |-> t - FirstTok(b, r) + 1, keys |-> b[r].ctx] :
                            r \in {s \in DOMAIN b : t \in FirstTok(b, s) .. FirstTok(b, s + 1) - 1}}]
            /\ raBad' = (raBad \/ (causal /\ \E l \in launches : ~FitsLaunch(l, told)))
    /\ UNCHANGED <<raModel, raState, raScratch, raGraph>>

RaNext == Load \/ (\E k \in RaGraphs : CaptureBatch(k)) \/ RaForward
RaSpec == RaInit /\ [][RaNext]_raVars

-----------------------------------------------------------------------------
(* Properties                                                              *)

\* Every query token of a step is answered exactly once, from its own request's table and
\* length and over all of its context, in a replay as in an eager step; no launch is of a
\* shape its kernel or the scratch cannot take; and no model is served that asks for more
\* than the kernels compute.
AnsweredOnce ==
    /\ ~raBad
    /\ raState = "serving" => raModel = {}
    /\ \A t \in DOMAIN raOut : \E r \in DOMAIN raBatch :
        /\ t \in FirstTok(raBatch, r) .. FirstTok(raBatch, r + 1) - 1
        /\ raOut[t] = {[row |-> r, at |-> t - FirstTok(raBatch, r) + 1, keys |-> raBatch[r].ctx]}
==============================================================================
