----------------------------- MODULE BlockDrafter -----------------------------
(***************************************************************************)
(* The block-diffusion drafter (dflash2/): a pass drafts a block for every *)
(* request at once from the head's best candidates, a selector walks one   *)
(* path through them, and the distribution the path was drawn from is kept *)
(* for the rejection sampler.  With it the fixes to its base class         *)
(* (patch_dflash_base.py): which rows of a pass write draft KV, and where. *)
(*                                                                         *)
(* The target's steps, the block tables and the buffers' padding are       *)
(* vLLM's.  Positions and offsets count from 0, block 0 is the null block. *)
(***************************************************************************)
EXTENDS Arith, Sequences, FiniteSets, SequencesExt

CONSTANTS
    BdEnvs,     \* set of [arch, format, override, varies]
    BdSlots,    \* request states, 1 .. max_num_reqs
    BdSpec,     \* num_speculative_steps
    BdTopK,     \* the checkpoint's selector_top_k
    BdVocab,    \* the vocabulary is 1 .. BdVocab
    BdTp,       \* ranks of the vocabulary-parallel head
    BdHeads,    \* what the head may say of a block: by step, a logit for every token
    BdPage,     \* positions of a block
    BdStride,   \* block_table_stride: pages of a table
    BdBlocks,   \* physical blocks
    BdWindow,   \* sliding window of the drafter's layers
    BdPrompts,  \* prompt lengths
    BdTaps,     \* taps of the grouped convolution
    BdTurns,    \* bound: requests
    BdPasses    \* bound: passes

\* Bound: of a behaviour's choices either what the target accepts and which blocks leave the
\* window are free (varies = "text"), or what the head says and where the walk goes ("block").

VARIABLES
    bdEnv,
    bdPhase,   \* "new", "loaded", "processed", "profiled", "serving"; "raised", "other"
    bdKvRows,  \* the fused K/V weight: "none", "rows" or "garbage"
    bdReq,     \* by slot: [turn, len, n], n tokens in the target's next step, or Absent
    bdTable,   \* by slot and page: its block, 0 if there is none
    bdKv,      \* by block and offset: [turn, pos, kind]
    bdMapping, \* out_context_slot_mapping, kept from one pass to the next
    bdLogits,  \* draft_logits: by slot, step and token
    bdCached,  \* _cached_candidate_ids: by slot and step
    bdDraft,   \* by slot: [head, anchor, tokens] of its last block, or NoDraft
    bdMixed,   \* a block was computed from another request's rows
    bdTurn     \* turns and passes so far

bdVars == <<bdEnv, bdPhase, bdKvRows, bdReq, bdTable, bdKv, bdMapping, bdLogits, bdCached,
            bdDraft, bdMixed, bdTurn>>

Absent == [turn |-> 0]
NoDraft == [anchor |-> 0]
Nothing == [turn |-> 0, pos |-> 0, kind |-> "empty"]
Pad == [block |-> -1, at |-> 0]
NegInf == [unary |-> -1, from |-> 0]
Ids == 1 .. BdVocab
Steps == 1 .. BdSpec
Pages == 0 .. BdStride - 1
Queries == 1 + BdSpec  \* num_query_per_req: the bonus token and the masks

-----------------------------------------------------------------------------
(* Loading                                                                 *)

ModelTopK(e) == IF e.override # 0 THEN e.override ELSE BdTopK

\* Mutant of WorkerTopK: the override reaches the model alone.
WorkerTopKCheckpoint(e) == BdTopK

\* The speculator's own copy of the selector's width.
WorkerTopK(e) == IF e.override # 0 THEN e.override ELSE BdTopK

\* Mutant of Dense: what is not fp8 can be sliced.
DenseUnlessFp8(format) == format # "fp8"

\* _DFLASH_DENSE: formats whose K/V rows can be sliced from the weight as it lies.
Dense(format) == format \in {"bf16", "fp16", "fp32"}

\* _is_dflash2_draft: the selector is only reached through the V2 runner's speculator.
DraftsAsBlocks(e) == e.arch = "DFlash2DraftModel"

\* Mutant of Fill: zeroes, as every other speculator has.
FillZero == [unary |-> 0, from |-> 0]

\* draft_logits_spec: what a column holds that no pass has written.
Fill == NegInf

BdInit ==
    /\ bdEnv \in BdEnvs /\ bdPhase = "new" /\ bdKvRows = "none"
    /\ bdReq = [s \in BdSlots |-> Absent] /\ bdDraft = [s \in BdSlots |-> NoDraft]
    /\ bdTable = [s \in BdSlots |-> [p \in Pages |-> 0]]
    /\ bdKv = [b \in 0 .. BdBlocks |-> [o \in 0 .. BdPage - 1 |-> Nothing]]
    /\ bdMapping = <<>> /\ bdMixed = FALSE
    /\ bdLogits = [s \in BdSlots |-> [t \in Steps |-> [c \in Ids |-> Fill]]]
    /\ bdCached = [s \in BdSlots |-> [t \in Steps |-> {1}]]
    /\ bdTurn = [turns |-> 0, passes |-> 0]

\* load_weights: the fused K/V weight is sliced now or, of a weight that its method has yet
\* to process, left for the first pass.
BdLoad ==
    /\ bdPhase = "new"
    /\ bdPhase' = IF DraftsAsBlocks(bdEnv) THEN "loaded" ELSE "other"
    /\ bdKvRows' = IF ~Dense(bdEnv.format) THEN "none"
                   ELSE IF bdEnv.format \in {"bf16", "fp16", "fp32"} THEN "rows" ELSE "garbage"
    /\ UNCHANGED <<bdEnv, bdReq, bdTable, bdKv, bdMapping, bdLogits, bdCached, bdDraft,
                   bdMixed, bdTurn>>

BdProcess ==
    /\ bdPhase = "loaded" /\ bdPhase' = "processed"
    /\ UNCHANGED <<bdEnv, bdKvRows, bdReq, bdTable, bdKv, bdMapping, bdLogits, bdCached,
                   bdDraft, bdMixed, bdTurn>>

\* The profile run's pass asks the processed layer for its rows, by way of the identity.
BdProfile ==
    /\ bdPhase = "processed"
    /\ bdKvRows' = IF bdKvRows = "none" THEN "rows" ELSE bdKvRows
    /\ bdPhase' = IF WorkerTopK(bdEnv) = ModelTopK(bdEnv) THEN "profiled" ELSE "raised"
    /\ UNCHANGED <<bdEnv, bdReq, bdTable, bdKv, bdMapping, bdLogits, bdCached, bdDraft,
                   bdMixed, bdTurn>>

-----------------------------------------------------------------------------
(* The candidates: top-k of a head that is spread over the vocabulary      *)

ShardSize == CeilDiv(BdVocab, BdTp)

\* What the selector takes of a shard is there: its rows of the vocabulary, and at most one
\* of those it is padded with.  Slots are numbered from 1, and the head tells tokens apart.
ASSUME BlockDrafterAssumption ==
    /\ BdSpec \in Nat \ {0} /\ BdVocab \in Nat \ {0} /\ BdTp \in Nat \ {0} /\ BdTaps \in Nat
    /\ BdSlots = 1 .. Cardinality(BdSlots) /\ IsFiniteSet(BdSlots)
    /\ BdPage \in Nat \ {0} /\ BdStride \in Nat \ {0} /\ BdBlocks \in Nat /\ BdWindow \in Nat
    /\ BdPrompts \subseteq Nat \ {0} /\ \E p \in BdPrompts : \A q \in BdPrompts : q <= p
    /\ \A head \in BdHeads :
          /\ head \in [Steps -> [Ids -> Nat]]
          /\ \A t \in Steps : \A c, d \in Ids : head[t][c] = head[t][d] => c = d
    /\ BdHeads # {}
    /\ \A e \in BdEnvs :
          /\ ModelTopK(e) \in 1 .. Smaller(BdVocab, ShardSize)
          /\ \A rank \in 0 .. BdTp - 1 :
                ModelTopK(e) <=
                    Cardinality(Ids \cap (rank * ShardSize + 1 .. (rank + 1) * ShardSize)) + 1

\* Mutant of Masked: the rows a shard is padded with keep what the head makes of them.
MaskedNever(id, logit) == logit

\* Padding beyond the vocabulary is masked.
Masked(id, logit) == IF id \in Ids THEN logit ELSE -1

\* What the head makes of a row: of a padding row anything, here more than of all others.
Logit(logits, id) == IF id \in Ids THEN logits[id] ELSE BdVocab + 9

\* One shard's logits, by global id.
Shard(logits, rank) ==
    [id \in rank * ShardSize + 1 .. (rank + 1) * ShardSize |-> Masked(id, Logit(logits, id))]

\* Ids by falling value, the first k.
FirstOf(values, k) ==
    [i \in 1 .. k |-> CHOOSE id \in DOMAIN values :
        Cardinality({other \in DOMAIN values : values[other] > values[id]}) = i - 1]

\* get_top_k_tokens: each rank's k best, gathered, and the k best of those.
TopTokens(logits, k) ==
    LET gathered == [r \in 0 .. BdTp - 1 |-> ToSet(FirstOf(Shard(logits, r), k))]
        values == [id \in UNION {gathered[r] : r \in 0 .. BdTp - 1} |->
                      Shard(logits, (id - 1) \div ShardSize)[id]]
    IN  FirstOf(values, k)

\* compute_candidates, for every block the head may speak of.
Proposed ==
    [k \in {ModelTopK(e) : e \in BdEnvs} |-> [head \in BdHeads |->
        [t \in Steps |-> TopTokens(head[t], k)]]]
ProposedBy(head) == Proposed[ModelTopK(bdEnv)][head]

-----------------------------------------------------------------------------
(* The walk, and the distribution it is drawn from                         *)

\* The block's input: the bonus token, here named like its slot, then masks (0).
InputIds(slots) ==
    [j \in 1 .. Len(slots) * Queries |-> IF j % Queries = 1 THEN slots[CeilDiv(j, Queries)] ELSE 0]

\* Mutant of AnchorIndex: rows of as many positions as there are drafts.
AnchorIndexSteps(i) == (i - 1) * BdSpec + 1

\* _anchor_indices: where row i's bonus token is.
AnchorIndex(i) == (i - 1) * Queries + 1

\* Mutant of Previous: scores are read for the best candidate of the step before.
PreviousBest(walk, step) == 1

\* The index the walk has taken at the step before; at the first all predecessors are the anchor.
Previous(walk, step) == IF step = 1 THEN 1 ELSE walk[step - 1]

\* _score_edges: a candidate's score is its own and that of the edge from a predecessor.
Realized(head, cands, anchor, walk, step) ==
    [c \in ToSet(cands[step]) |->
        [unary |-> Logit(head[step], c),
         from |-> IF step = 1 THEN anchor ELSE cands[step - 1][Previous(walk, step)]]]

\* Mutant of StateOf: the cache is kept by row.
StateOfRow(mapping, i) == IF mapping[i] = -1 THEN -1 ELSE i

\* sample_idx_mapping: the request state a row of a pass belongs to, -1 for padding.
StateOf(mapping, i) == mapping[i]

\* Mutant of Stored: the old candidates are erased when the new ones are in place.
StoredThenErased(c, new, old, before) ==
    IF c \in old THEN NegInf ELSE IF c \in DOMAIN new THEN new[c] ELSE before

\* _cache_draft_logits_kernel, one column: erased where the last block had a candidate, then
\* written where this one has.
Stored(c, new, old, before) ==
    IF c \in DOMAIN new THEN new[c] ELSE IF c \in old THEN NegInf ELSE before

\* The kernel's rows run side by side: rows of one state all erase what was there before
\* them all, and one of them leaves its candidates behind.
Cache(mapping, scores) ==
    LET rowsOf == [s \in BdSlots |-> {i \in DOMAIN mapping : StateOf(mapping, i) = s}]
        new == [s \in BdSlots |-> [t \in Steps |->
                   [c \in UNION {DOMAIN scores[i][t] : i \in rowsOf[s]} |->
                       scores[CHOOSE i \in rowsOf[s] : c \in DOMAIN scores[i][t]][t][c]]]]
    IN  /\ bdLogits' = [s \in BdSlots |-> [t \in Steps |->
                IF rowsOf[s] = {} THEN bdLogits[s][t]
                ELSE [c \in Ids |-> Stored(c, new[s][t], bdCached[s][t], bdLogits[s][t][c])]]]
        /\ bdCached' = [s \in BdSlots |-> [t \in Steps |->
                IF rowsOf[s] = {} THEN bdCached[s][t]
                ELSE DOMAIN scores[CHOOSE i \in rowsOf[s] : TRUE][t]]]

\* Mutant of CapturedMapping: the buffer as it used to be before a batch has filled it.
CapturedMappingZero == [i \in BdSlots |-> 1]

\* The mapping a capture runs over: every row is inert.
CapturedMapping == [i \in BdSlots |-> -1]

\* A capture executes all the rows there can be, over whatever the buffers hold.
BdCapture ==
    /\ bdPhase = "profiled" /\ bdPhase' = "serving"
    /\ \E head \in [BdSlots -> BdHeads] :
        Cache(CapturedMapping,
              [i \in BdSlots |-> [t \in Steps |->
                  [c \in ToSet(ProposedBy(head[i])[t]) |-> [unary |-> Logit(head[i][t], c), from |-> 1]]]])
    /\ UNCHANGED <<bdEnv, bdKvRows, bdReq, bdTable, bdKv, bdMapping, bdDraft, bdMixed, bdTurn>>

-----------------------------------------------------------------------------
(* Requests and their blocks                                               *)

BdArrive(s) ==
    /\ bdPhase = "serving" /\ bdReq[s] = Absent /\ bdTurn.turns < BdTurns
    /\ bdTurn' = [bdTurn EXCEPT !.turns = @ + 1]
    /\ \E p \in BdPrompts : bdReq' = [bdReq EXCEPT ![s] = [turn |-> bdTurn.turns + 1, len |-> 0, n |-> p]]
    /\ UNCHANGED <<bdEnv, bdPhase, bdKvRows, bdTable, bdKv, bdMapping, bdLogits, bdCached,
                   bdDraft, bdMixed>>

BdFinish(s) ==
    /\ bdReq[s] # Absent /\ bdReq[s].len > 0
    /\ bdReq' = [bdReq EXCEPT ![s] = Absent] /\ bdDraft' = [bdDraft EXCEPT ![s] = NoDraft]
    /\ bdTable' = [bdTable EXCEPT ![s] = [p \in Pages |-> 0]]
    /\ UNCHANGED <<bdEnv, bdPhase, bdKvRows, bdKv, bdMapping, bdLogits, bdCached, bdMixed, bdTurn>>

\* Pages a request still needs for its step and the drafts after it.
Needed(slots) ==
    {x \in slots \X Pages :
        /\ bdTable[x[1]][x[2]] = 0 /\ (x[2] + 1) * BdPage > bdReq[x[1]].len
        /\ x[2] * BdPage < bdReq[x[1]].len + bdReq[x[1]].n + BdSpec}

Free == (1 .. BdBlocks) \ {bdTable[s][p] : s \in BdSlots, p \in Pages}

\* Tables of the step: new blocks, and where evict says so null for what left the window.
Tables(slots, valid, evict) ==
    LET need == Needed(slots)
        nth(x) == Cardinality({y \in need : y[1] < x[1] \/ (y[1] = x[1] /\ y[2] < x[2])})
        given(x) == CHOOSE b \in Free : Cardinality({c \in Free : c < b}) = nth(x)
    IN  [s \in BdSlots |-> [p \in Pages |->
            IF evict /\ s \in slots /\ (p + 1) * BdPage <= bdReq[s].len + valid[s] - BdWindow THEN 0
            ELSE IF <<s, p>> \in need THEN given(<<s, p>>) ELSE bdTable[s][p]]]

-----------------------------------------------------------------------------
(* A pass: context rows, query rows, the block                             *)

BlockAt(tables, s, pos) == tables[s][Smaller(pos \div BdPage, BdStride - 1)]

\* The target's rows, [slot, pos, valid]: those of rejected drafts are not valid.
ContextRows(slots, valid) ==
    FlattenSeq([i \in DOMAIN slots |->
        [k \in 1 .. bdReq[slots[i]].n |->
            [slot |-> slots[i], pos |-> bdReq[slots[i]].len + k - 1, valid |-> k <= valid[slots[i]]]]])

\* Mutant of Resident: block 0 is a block like any other.
ResidentAnywhere(block) == TRUE

\* The null block is not a writable cache slot.
Resident(block) == block # 0

SlotAt(tables, s, pos) ==
    IF Resident(BlockAt(tables, s, pos))
    THEN [block |-> BlockAt(tables, s, pos), at |-> pos % BdPage] ELSE Pad

\* Mutant of MappedTo: a rejected row's entry is left as an earlier batch had it.
MappedToStale(tables, row, before) ==
    IF row.valid THEN SlotAt(tables, row.slot, row.pos) ELSE before

\* out_context_slot_mapping of a row: the span is written over, rejected rows with padding.
MappedTo(tables, row, before) ==
    IF row.valid THEN SlotAt(tables, row.slot, row.pos) ELSE Pad

Mapping(tables, rows) ==
    [i \in 1 .. Larger(Len(rows), Len(bdMapping)) |->
        IF i \in DOMAIN rows
        THEN MappedTo(tables, rows[i], IF i \in DOMAIN bdMapping THEN bdMapping[i] ELSE Pad)
        ELSE bdMapping[i]]

\* precompute_and_store_context_kv, then the block's own rows as its layers run.
KvAfter(tables, slots, rows, mapping, valid) ==
    LET queries == {[slot |-> s, pos |-> bdReq[s].len + valid[s] + q] :
                       s \in ToSet(slots), q \in 0 .. Queries - 1}
        askedAt(b, o) == {q \in queries : SlotAt(tables, q.slot, q.pos) = [block |-> b, at |-> o]}
        heldAt(b, o) == {i \in DOMAIN rows : mapping[i] = [block |-> b, at |-> o]}
    IN  [b \in DOMAIN bdKv |-> [o \in DOMAIN bdKv[b] |->
            IF askedAt(b, o) # {}
            THEN LET q == CHOOSE x \in askedAt(b, o) : TRUE
                 IN  [turn |-> bdReq[q.slot].turn, pos |-> q.pos, kind |-> "query"]
            ELSE IF heldAt(b, o) # {}
            THEN LET row == rows[CHOOSE i \in heldAt(b, o) : TRUE]
                 IN  [turn |-> bdReq[row.slot].turn, pos |-> row.pos,
                      kind |-> IF row.valid THEN "text" ELSE "rejected"]
            ELSE bdKv[b][o]]]

\* Mutant of Reads: the row's place in its block is not looked at.
ReadsAcross(row) == {row - tap : tap \in 0 .. BdTaps - 1} \cap Nat

\* _grouped_conv: a row and the rows before it in its own block, as far as there are taps.
Reads(row) == {row - tap : tap \in {t \in 0 .. BdTaps - 1 : row % Queries >= t}}

\* The requests of a step, in the order of its rows.
Batches == UNION {SetToSeqs(S) : S \in SUBSET {s \in BdSlots : bdReq[s] # Absent} \ {{}}}

\* Tokens of each that the target accepted: at least one, all of a prompt.
Outcomes(S) ==
    {valid \in [S -> 1 .. Larger(Queries, CHOOSE p \in BdPrompts : \A q \in BdPrompts : q <= p)] :
        \A s \in S :
            IF bdReq[s].len = 0 \/ bdEnv.varies = "block" THEN valid[s] = bdReq[s].n
            ELSE valid[s] <= bdReq[s].n}

Evictions == IF bdEnv.varies = "text" THEN BOOLEAN ELSE {TRUE}
Heads == IF bdEnv.varies = "block" THEN BdHeads ELSE {CHOOSE head \in BdHeads : TRUE}
Walks == IF bdEnv.varies = "block" THEN [Steps -> 1 .. ModelTopK(bdEnv)] ELSE {[t \in Steps |-> 1]}

\* _generate_draft: a block for every row of the batch, the rest of the graph's rows inert.
BdBlock(slots, head, walk) ==
    LET ids == InputIds(slots)
        cands == [i \in DOMAIN slots |-> ProposedBy(head[i])]
        scores == [i \in BdSlots |->
                      IF i > Len(slots) THEN <<>>
                      ELSE [t \in Steps |->
                               Realized(head[i], cands[i], ids[AnchorIndex(i)], walk[i], t)]]
    IN  /\ Cache([i \in BdSlots |-> IF i <= Len(slots) THEN slots[i] ELSE -1], scores)
        /\ bdDraft' = [s \in BdSlots |->
               IF s \notin ToSet(slots) THEN bdDraft[s]
               ELSE LET i == CHOOSE j \in DOMAIN slots : slots[j] = s
                    IN  [head |-> head[i], anchor |-> s,
                         tokens |-> [t \in Steps |-> cands[i][t][walk[i][t]]]]]
        /\ bdMixed' = (bdMixed \/ \E r \in 0 .. Len(slots) * Queries - 1 : \E q \in Reads(r) :
                          q \div Queries # r \div Queries)

BdPass ==
    /\ bdPhase = "serving" /\ bdTurn.passes < BdPasses
    /\ \A s \in BdSlots : bdReq[s] # Absent =>
           bdReq[s].len + bdReq[s].n + Queries <= BdStride * BdPage
    /\ bdTurn' = [bdTurn EXCEPT !.passes = @ + 1]
    /\ \E slots \in Batches :
        /\ Cardinality(Needed(ToSet(slots))) <= Cardinality(Free)
        /\ \E valid \in Outcomes(ToSet(slots)), evict \in Evictions :
            /\ \E tables \in {Tables(ToSet(slots), valid, evict)} :
               \E rows \in {ContextRows(slots, valid)} :
               \E mapping \in {Mapping(tables, rows)} :
                /\ bdTable' = tables /\ bdMapping' = mapping
                /\ bdKv' = KvAfter(tables, slots, rows, mapping, valid)
            /\ bdReq' = [s \in BdSlots |->
                   IF s \in ToSet(slots) THEN [bdReq[s] EXCEPT !.len = @ + valid[s], !.n = Queries]
                   ELSE bdReq[s]]
        /\ \E head \in [DOMAIN slots -> Heads], walk \in [DOMAIN slots -> Walks] :
            BdBlock(slots, head, walk)
    /\ UNCHANGED <<bdEnv, bdPhase, bdKvRows>>

BdNext ==
    \/ BdLoad \/ BdProcess \/ BdProfile \/ BdCapture \/ BdPass
    \/ \E s \in BdSlots : BdArrive(s) \/ BdFinish(s)
BdSpecification == BdInit /\ [][BdNext]_bdVars

-----------------------------------------------------------------------------
(* Properties                                                              *)

BestOf(logits, k) == {c \in Ids : Cardinality({d \in Ids : logits[d] > logits[c]}) < k}

\* The distribution that is kept for a request is the one its last block was drawn from,
\* whatever row the block had, whoever had the slot before and whatever a capture ran over:
\* the head's best candidates at every step, each scored after the token drafted before it,
\* and nothing else.
DrawnAsKept ==
    /\ bdPhase # "raised" /\ ~bdMixed
    /\ \A s \in BdSlots : bdDraft[s] # NoDraft =>
        \A t \in Steps :
            LET d == bdDraft[s]
                best == BestOf(d.head[t], ModelTopK(bdEnv))
            IN  /\ d.tokens[t] \in best
                /\ \A c \in Ids : bdLogits[s][t][c] =
                    IF c \in best THEN [unary |-> d.head[t][c],
                                        from |-> IF t = 1 THEN d.anchor ELSE d.tokens[t - 1]]
                    ELSE NegInf

\* A request's resident blocks hold the draft KV of its accepted text, and no pass has
\* written the null block; the K/V weight is the layers' own rows.
ContextIsText ==
    /\ \A s \in BdSlots : bdReq[s] # Absent =>
        \A p \in 0 .. bdReq[s].len - 1 :
            LET b == bdTable[s][p \div BdPage]
            IN  b # 0 => bdKv[b][p % BdPage] = [turn |-> bdReq[s].turn, pos |-> p, kind |-> "text"]
    /\ \A o \in DOMAIN bdKv[0] : bdKv[0][o] = Nothing
    /\ bdKvRows # "garbage" /\ (bdPhase = "serving" => bdKvRows = "rows")
==============================================================================
