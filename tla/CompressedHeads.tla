---------------------------- MODULE CompressedHeads ----------------------------
(***************************************************************************)
(* Where the compressed heads come from: the two-bit draft head            *)
(* (radiance_drafthead.py), the verify head that points the same packing   *)
(* at the target (radiance_verifyhead.py, _arm) and the MoE lane's draft   *)
(* head (moe-drafthead/radiance_moe_drafthead.py).                         *)
(*                                                                         *)
(* vLLM loads the target, then the drafter, and only then points the       *)
(* drafter's lm_head at the target's tensor.  A drafter whose checkpoint   *)
(* has no head holds whatever the allocator returned until then.  A tensor *)
(* is its address; what matters of its bytes is whose weights they are.    *)
(***************************************************************************)
EXTENDS Integers, FiniteSets

CONSTANTS
    HdModes    \* [lane, drafter, verify]: "fast" or "moe", "mtp" or "dflash"

VARIABLES
    hdMode,
    hdPhase,     \* "target", "drafter", "share", "serve"; "refused"
    hdBytes,     \* by tensor: "zero", "junk" or "target"
    hdDraftAt,   \* the tensor the drafter's lm_head is
    hdBound,     \* by LogitsProcessor: which _apply_head is bound to it
    hdPack,      \* by LogitsProcessor: the packing it scores with, "" for none
    hdCache,     \* _HEAD_CACHE: by tensor, the packing built from it
    hdCopies,    \* packings in memory
    hdChecked,   \* the MoE head has been compared with the head it is used with
    hdScored     \* the last call: [by, with, head]; with is what it scored by

hdVars == <<hdMode, hdPhase, hdBytes, hdDraftAt, hdBound, hdPack, hdCache, hdCopies, hdChecked, hdScored>>

TargetHead == 1
OwnHead == 2       \* the parameter the drafter was built with

HdInit ==
    /\ hdMode \in HdModes
    /\ hdPhase = "target"
    /\ hdBytes = [t \in {TargetHead, OwnHead} |-> "junk"]
    /\ hdDraftAt = OwnHead
    /\ hdBound = [p \in {"draft", "target"} |-> "stock"]
    /\ hdPack = [p \in {"draft", "target"} |-> ""]
    /\ hdCache = [t \in {TargetHead, OwnHead} |-> ""]
    /\ hdCopies = 0
    /\ hdChecked = FALSE
    /\ hdScored = [by |-> "", with |-> "", head |-> ""]

LoadTarget ==
    /\ hdPhase = "target"
    /\ hdBytes' = [hdBytes EXCEPT ![TargetHead] = "target"]
    /\ hdPhase' = "drafter"
    /\ UNCHANGED <<hdMode, hdDraftAt, hdBound, hdPack, hdCache, hdCopies, hdChecked, hdScored>>

\* Mutant of Packing: the cache is never consulted.
PackingFresh(t, bytes) == [pack |-> bytes, fresh |-> TRUE]

\* _quantize_head_now: a tensor that has been packed is not packed again.
Packing(t, bytes) == IF hdCache[t] # "" THEN [pack |-> hdCache[t], fresh |-> FALSE]
                     ELSE [pack |-> bytes, fresh |-> TRUE]

Quantize(p, t, bytes, bound) ==
    LET q == Packing(t, bytes)
    IN  /\ hdPack' = [hdPack EXCEPT ![p] = q.pack]
        /\ hdCache' = [hdCache EXCEPT ![t] = q.pack]
        /\ hdCopies' = hdCopies + (IF q.fresh THEN 1 ELSE 0)
        /\ hdBound' = [hdBound EXCEPT ![p] = bound]

\* Mutant of Defers: a parameter that does not look empty is packed at once.
DefersIfEmpty(bytes) == bytes = "zero"

\* _quantize_draft_head defers whatever the parameter holds.
Defers(bytes) == TRUE

\* The drafter's load_weights: a checkpoint without a head leaves the parameter as the
\* allocator gave it out.  The hook at its end arms the head of this lane.
LoadDrafter ==
    /\ hdPhase = "drafter"
    /\ \E bytes \in IF hdMode.drafter = "mtp" THEN {"target"} ELSE {"zero", "junk"} :
          /\ hdBytes' = [hdBytes EXCEPT ![OwnHead] = bytes]
          /\ IF hdMode.lane = "fast"
             THEN /\ hdPhase' = "share"
                  /\ IF Defers(bytes)
                     THEN /\ hdBound' = [hdBound EXCEPT !["draft"] = "lazy"]
                          /\ UNCHANGED <<hdPack, hdCache, hdCopies>>
                     ELSE Quantize("draft", OwnHead, bytes, "int2")
             ELSE IF bytes = "zero"
             THEN hdPhase' = "refused" /\ UNCHANGED <<hdBound, hdPack, hdCache, hdCopies>>
             ELSE hdPhase' = "share" /\ Quantize("draft", OwnHead, bytes, "moe")
    /\ UNCHANGED <<hdMode, hdDraftAt, hdChecked, hdScored>>

\* _maybe_share_lm_head
ShareHead ==
    /\ hdPhase = "share"
    /\ hdDraftAt' = TargetHead
    /\ hdPhase' = "serve"
    /\ UNCHANGED <<hdMode, hdBytes, hdBound, hdPack, hdCache, hdCopies, hdChecked, hdScored>>

Scored(p, with, t) == hdScored' = [by |-> p, with |-> with, head |-> hdBytes[t]]

\* _apply_head_lazy: the first real call packs the tensor it is handed.
DraftFirst ==
    /\ hdPhase = "serve" /\ hdBound["draft"] = "lazy"
    /\ IF hdBytes[hdDraftAt] = "zero"
       THEN Scored("draft", "zero", hdDraftAt) /\ UNCHANGED <<hdBound, hdPack, hdCache, hdCopies>>
       ELSE /\ Quantize("draft", hdDraftAt, hdBytes[hdDraftAt], "int2")
            /\ Scored("draft", hdPack'["draft"], hdDraftAt)
    /\ UNCHANGED <<hdMode, hdPhase, hdBytes, hdDraftAt, hdChecked>>

DraftInt2 ==
    /\ hdPhase = "serve" /\ hdBound["draft"] = "int2"
    /\ Scored("draft", hdPack["draft"], hdDraftAt)
    /\ UNCHANGED <<hdMode, hdPhase, hdBytes, hdDraftAt, hdBound, hdPack, hdCache, hdCopies, hdChecked>>

\* Mutant of Matches: the sample is only compared when the head is built.
MatchesAlways == TRUE

\* _first_call_check: a sample of the copy against the head of the call.
Matches == hdChecked \/ hdPack["draft"] = hdBytes[hdDraftAt]

\* The MoE head's calls; one that does not match ends the serve.
DraftMoe ==
    /\ hdPhase = "serve" /\ hdBound["draft"] = "moe"
    /\ IF Matches
       THEN /\ hdChecked' = TRUE
            /\ Scored("draft", hdPack["draft"], hdDraftAt)
            /\ UNCHANGED hdPhase
       ELSE hdPhase' = "refused" /\ UNCHANGED <<hdChecked, hdScored>>
    /\ UNCHANGED <<hdMode, hdBytes, hdDraftAt, hdBound, hdPack, hdCache, hdCopies>>

\* before_compute_logits arms the target's head on the first step, then the gate picks
\* the packing or the exact head.
VerifyCall ==
    /\ hdPhase = "serve" /\ hdMode.verify
    /\ IF hdBound["target"] = "stock"
       THEN Quantize("target", TargetHead, hdBytes[TargetHead], "gated")
       ELSE UNCHANGED <<hdBound, hdPack, hdCache, hdCopies>>
    /\ \E fast \in BOOLEAN :
          Scored("target", IF fast THEN hdPack'["target"] ELSE hdBytes[TargetHead], TargetHead)
    /\ UNCHANGED <<hdMode, hdPhase, hdBytes, hdDraftAt, hdChecked>>

HdNext ==
    \/ LoadTarget \/ LoadDrafter \/ ShareHead
    \/ DraftFirst \/ DraftInt2 \/ DraftMoe \/ VerifyCall

HdSpec == HdInit /\ [][HdNext]_hdVars

-----------------------------------------------------------------------------
(* Properties of the packed heads                                          *)

\* Every call scores with the weights it was handed.  A head packed before the
\* target's tensor was shared in would pass every accuracy gate and only cost
\* acceptance.
ScoresItsOwnHead == hdScored.by # "" => hdScored.with = hdScored.head

\* The drafter and the target pack the head they share once: a second copy would come
\* out of the KV cache.
PackedOnce == hdMode.lane = "fast" => hdCopies <= 1

-----------------------------------------------------------------------------
(***************************************************************************)
(* The gate of the compressed verify head (radiance_verifyhead.py): for    *)
(* every step it decides, from the sampling parameters of the requests in  *)
(* the batch, whether a row that only has the RERANK best tokens is all    *)
(* the sampler needs.  The parameters lie in an array by request slot,     *)
(* which keeps what a finished request left, and a batch names its slots.  *)
(*                                                                         *)
(* Of a request the gate's questions are what counts: how it samples, and  *)
(* whether its row is changed before sampling by a bias, a penalty or a    *)
(* list of allowed tokens (adjusts), which vLLM applies to the full row.   *)
(***************************************************************************)
CONSTANTS
    VhSlots,     \* request slots
    VhRequests,  \* [greedy, topk, minp, logprobs, grammar, adjusts]
    VhRerank,    \* RADIANCE_DRAFT_RERANK
    VhMaxRows,   \* RADIANCE_VERIFY_HEAD_MAX_M
    VhWidths     \* rows a request may contribute to a step

ASSUME VerifyHeadAssumption == VhRerank \in Nat /\ \A q \in VhRequests : q.topk \in Nat

VARIABLES
    vhRunning,   \* slots in use
    vhParams,    \* sampling_states, by slot
    vhFast,      \* _radiance_fast_ok
    vhSampled    \* the last step: [fast, batch]: the requests it sampled for

vhVars == <<vhRunning, vhParams, vhFast, vhSampled>>

VhInit ==
    /\ vhRunning = {} /\ vhParams \in [VhSlots -> VhRequests]
    /\ vhFast = FALSE /\ vhSampled = [fast |-> FALSE, batch |-> {}]

Admit ==
    /\ \E s \in VhSlots \ vhRunning, q \in VhRequests :
          /\ vhRunning' = vhRunning \cup {s}
          /\ vhParams' = [vhParams EXCEPT ![s] = q]
    /\ UNCHANGED <<vhFast, vhSampled>>

\* A slot keeps its parameters until the next request takes it.
FinishRequest ==
    /\ \E s \in vhRunning : vhRunning' = vhRunning \ {s}
    /\ UNCHANGED <<vhParams, vhFast, vhSampled>>

\* Mutant of Looked: the first slots, as many as the batch has requests.
LookedFirst(batch) == {s \in VhSlots : Cardinality({t \in VhSlots : t <= s}) <= Cardinality(batch)}

\* idx_mapping_np: the slots of the requests in this batch.
Looked(batch) == batch

\* Mutant of SampledFits: the size of the whole reranked set.
SampledFitsAll(q) == q.topk <= VhRerank /\ ~q.minp

\* A sampled request's support has to lie well inside the reranked set.
SampledFits(q) == q.topk <= VhRerank \div 4 /\ ~q.minp

\* _batch_is_safe
BatchIsSafe(batch, rows) ==
    LET seen == {vhParams[s] : s \in Looked(batch)}
    IN  /\ \A s \in batch : ~vhParams[s].grammar      \* grammar_output of this step
        /\ batch # {} /\ rows <= VhMaxRows
        /\ \A q \in seen : ~q.logprobs /\ (q.greedy \/ SampledFits(q))

\* sample(): the gate, then compute_logits on the head it picked.
SampleStep ==
    /\ \E batch \in SUBSET vhRunning, w \in VhWidths :
          /\ vhFast' = BatchIsSafe(batch, w * Cardinality(batch))
          /\ vhSampled' = [fast |-> vhFast', batch |-> {vhParams[s] : s \in batch}]
    /\ UNCHANGED <<vhRunning, vhParams>>

VhNext == Admit \/ FinishRequest \/ SampleStep
VhSpec == VhInit /\ [][VhNext]_vhVars

-----------------------------------------------------------------------------
(* Properties of the gate                                                  *)

\* What a request's sampler reads of its row: its argmax, the tokens top_k keeps, or
\* entries that need not be among the reranked ones.
Covered(q) ==
    /\ ~q.logprobs /\ ~q.grammar /\ ~q.adjusts
    /\ q.greedy \/ (q.topk * 4 <= VhRerank /\ ~q.minp)

\* A step that runs on the compressed head has no request whose sampler could read
\* past the reranked tokens; anything else falls back to the exact head for that step.
FastIsExact == vhSampled.fast => \A q \in vhSampled.batch : Covered(q)
=============================================================================
