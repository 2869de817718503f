------------------------------- MODULE GdnBuild -------------------------------
(***************************************************************************)
(* The metadata of the recurrent layers' KV-cache groups                   *)
(* (patch_gdn_metadata.py, patch_gdn_shared_build.py).  Every group has a  *)
(* builder with buffers of its own, which its graph has captured.  In a    *)
(* step of drafts only, the first group's build is stashed, and the others *)
(* copy it into their buffers, with their own block table in it.  Indices  *)
(* that depend on a length only are slices of a cached tensor.             *)
(*                                                                         *)
(* A row of a batch is [ndt, len]: the drafts it verifies (-1: it has no   *)
(* drafts) and its query length; a row that pads the batch has length 0.   *)
(* A state index is a row of a group's block table, <<group, row>>.        *)
(***************************************************************************)
EXTENDS Integers, Sequences, FiniteSets, SequencesExt

CONSTANTS
    GbGroups,     \* number of groups
    GbBatches,    \* batches: sequences of rows
    GbMaxBatch,   \* decode_cudagraph_max_bs
    GbShare,      \* RADIANCE_GDN_SHARED_BUILD
    GbSteps       \* bound: steps, and captures before them

ASSUME GdnBuildAssumption ==
    /\ GbGroups \in Nat
    /\ GbBatches \subseteq Seq([ndt : Int, len : Nat])

VARIABLES
    gbBatch,      \* the step's batch; <<>> between steps
    gbGroup,      \* the group whose build is next
    gbCapturing,  \* the step is one whose graph is being captured
    gbShared,     \* the dict of the step: <<>>, or the first group's build
    gbArange,     \* _radiance_arange_buf: [pool, n]
    gbBuffers,    \* by group: the builder's persistent buffers
    gbBuilt,      \* by group: the metadata of this step
    gbStep

gbVars == <<gbBatch, gbGroup, gbCapturing, gbShared, gbArange, gbBuffers, gbBuilt, gbStep>>

Groups == 1 .. GbGroups
NullBlock == "NULL_BLOCK_ID"
NoBuffer == [states |-> <<>>, masks |-> <<>>, tokens |-> 0, starts |-> <<>>, accepted |-> <<>>]

GbInit ==
    /\ gbBatch = <<>> /\ gbGroup = 1 /\ gbCapturing = FALSE /\ gbShared = <<>>
    /\ gbArange = [pool |-> "none", n |-> 0]
    /\ gbBuffers = [g \in Groups |-> NoBuffer] /\ gbBuilt = [g \in Groups |-> <<>>]
    /\ gbStep = 0

Total(s) == FoldLeft(LAMBDA a, b : a + b, 0, s)
Lens(batch) == [i \in DOMAIN batch |-> batch[i].len]
SpecRows(batch) == {i \in DOMAIN batch : batch[i].ndt >= 0}

\* The early-out: no drafts at all, so the rows with an empty draft are ordinary ones too.
IsSpec(batch) == Total([i \in DOMAIN batch |-> IF batch[i].ndt > 0 THEN batch[i].ndt ELSE 0]) > 0

\* Mutant of Counts: the rows that pad the batch are taken for prefills.
CountsAll(batch) ==
    LET other == DOMAIN batch \ SpecRows(batch)
        decodes == Cardinality({i \in other : batch[i].len = 1})
    IN  [spec |-> Cardinality(SpecRows(batch)), decodes |-> decodes,
         prefills |-> Cardinality(other) - decodes,
         tokens |-> Total([i \in DOMAIN batch |-> IF batch[i].ndt >= 0 THEN batch[i].len ELSE 0])]

\* The numpy pass over the query lengths.
Counts(batch) ==
    LET other == DOMAIN batch \ SpecRows(batch)
        decodes == Cardinality({i \in other : batch[i].len = 1})
    IN  [spec |-> Cardinality(SpecRows(batch)), decodes |-> decodes,
         prefills |-> Cardinality(other) - decodes - Cardinality({i \in other : batch[i].len = 0}),
         tokens |-> Total([i \in DOMAIN batch |-> IF batch[i].ndt >= 0 THEN batch[i].len ELSE 0])]

\* The cudagraph branch: drafts only, within the sizes graphs were captured for.
FastPath(batch) ==
    /\ IsSpec(batch)
    /\ Counts(batch).prefills = 0 /\ Counts(batch).decodes = 0
    /\ Counts(batch).spec <= GbMaxBatch /\ Counts(batch).tokens <= GbMaxBatch

\* The block-table rows of the drafts: a slice if all rows have drafts, else a gather.
StateRows(g, batch) ==
    IF SpecRows(batch) = DOMAIN batch THEN [i \in DOMAIN batch |-> <<g, i>>]
    ELSE [i \in 1 .. Cardinality(SpecRows(batch)) |->
             <<g, CHOOSE r \in SpecRows(batch) :
                     Cardinality({q \in SpecRows(batch) : q <= r}) = i>>]

\* A tensor of n places that starts with a row per draft; the rest is filled.
PadTo(s, n, fill) == [i \in 1 .. n |-> IF i <= Len(s) THEN s[i] ELSE fill]

\* Query starts of the drafts, the last repeated for the rows after them.
Starts(batch) ==
    LET rows == SelectSeq(Lens(batch), LAMBDA n : n > 0)
    IN  [i \in 1 .. Len(batch) + 1 |-> Total(SubSeq(rows, 1, IF i - 1 < Len(rows) THEN i - 1 ELSE Len(rows)))]

AcceptedOf(batch) ==
    PadTo([i \in 1 .. Cardinality(SpecRows(batch)) |-> <<"accepted", StateRows(0, batch)[i][2]>>],
          Len(batch), 1)

\* Mutant of Keep: the cached tensor may come out of a graph's private pool.
KeepAlways == TRUE

\* _radiance_arange fills its cache, unless a graph is being captured.
Keep == ~gbCapturing

\* arange(n) for this build: the cached tensor if it is long enough, else a new one.
Arange(n) ==
    IF gbArange.n >= n THEN gbArange
    ELSE [pool |-> IF gbCapturing THEN "graph" ELSE "heap", n |-> n]

\* The stock build of group g, into the builder's own buffers on the fast path.
Values(g, batch) ==
    [states |-> PadTo(StateRows(g, batch), Len(batch), NullBlock),
     masks |-> [i \in DOMAIN batch |-> batch[i].ndt >= 0],
     tokens |-> Counts(batch).tokens, starts |-> Starts(batch), accepted |-> AcceptedOf(batch)]

Metadata(g, batch, pool) ==
    [counts |-> Counts(batch), fast |-> FastPath(batch), pool |-> pool,
     stash |-> [i \in DOMAIN batch |-> <<g, i>>],
     rows |-> IF IsSpec(batch) THEN StateRows(g, batch) ELSE <<>>,
     others |-> {<<g, i>> : i \in {r \in DOMAIN batch : batch[r].len > 0
                                      /\ ~(IsSpec(batch) /\ batch[r].ndt >= 0)}}]

\* Mutant of Stashable: any build with drafts is offered to the other groups.
StashableAny(batch) == GbShare /\ gbShared = <<>> /\ IsSpec(batch)

\* The stash on a miss: the first group, in a step of drafts only.
Stashable(batch) == GbShare /\ gbShared = <<>> /\ FastPath(batch)

\* Mutant of CopiedStates: the state indices are copied with the rest.
CopiedStatesShared(g, batch) == gbShared[1].states

\* On a hit: the drafts' rows of this group's own block table, then NULL.
CopiedStates(g, batch) == PadTo(StateRows(g, batch), Len(batch), NullBlock)

StartStep(capturing) ==
    /\ gbBatch = <<>> /\ gbStep < GbSteps /\ gbStep' = gbStep + 1
    /\ \E b \in GbBatches : gbBatch' = b /\ (capturing => FastPath(b))
    /\ gbGroup' = 1 /\ gbCapturing' = capturing /\ gbShared' = <<>>
    /\ gbBuilt' = [g \in Groups |-> <<>>]
    /\ UNCHANGED <<gbArange, gbBuffers>>

\* build() for the next group, with nothing stashed.
BuildMiss ==
    LET g == gbGroup
        a == Arange(Counts(gbBatch).tokens)
    IN  /\ gbBatch # <<>> /\ g \in Groups /\ gbShared = <<>>
        /\ gbArange' = IF FastPath(gbBatch) /\ Keep THEN a ELSE gbArange
        /\ gbBuffers' = IF FastPath(gbBatch) THEN [gbBuffers EXCEPT ![g] = Values(g, gbBatch)]
                        ELSE gbBuffers
        /\ gbBuilt' = [gbBuilt EXCEPT ![g] =
               Metadata(g, gbBatch, IF ~FastPath(gbBatch) THEN "heap"
                                    ELSE IF a.pool = "graph" /\ ~gbCapturing THEN "stale"
                                    ELSE "heap")]
        /\ gbShared' = IF Stashable(gbBatch)
                       THEN <<Values(g, gbBatch), Metadata(g, gbBatch, "heap")>> ELSE gbShared
        /\ gbGroup' = g + 1
        /\ UNCHANGED <<gbBatch, gbCapturing, gbStep>>

\* build() for a later group of a stashed step: buffer to buffer, its own state indices.
BuildHit ==
    LET g == gbGroup
    IN  /\ gbBatch # <<>> /\ g \in Groups /\ gbShared # <<>>
        /\ gbBuffers' = [gbBuffers EXCEPT ![g] =
               [gbShared[1] EXCEPT !.states = CopiedStates(g, gbBatch)]]
        /\ gbBuilt' = [gbBuilt EXCEPT ![g] =
               [gbShared[2] EXCEPT !.stash = [i \in DOMAIN gbBatch |-> <<g, i>>],
                                   !.rows = StateRows(g, gbBatch)]]
        /\ gbGroup' = g + 1
        /\ UNCHANGED <<gbBatch, gbCapturing, gbShared, gbArange, gbStep>>

EndStep ==
    /\ gbBatch # <<>> /\ gbGroup \notin Groups /\ gbBatch' = <<>>
    /\ UNCHANGED <<gbGroup, gbCapturing, gbShared, gbArange, gbBuffers, gbBuilt, gbStep>>

GbNext == StartStep(TRUE) \/ StartStep(FALSE) \/ BuildMiss \/ BuildHit \/ EndStep
GbSpec == GbInit /\ [][GbNext]_gbVars

-----------------------------------------------------------------------------
(* Properties                                                              *)

\* What the stock builder makes of a row of the batch, said without its steps.
MeantStates(g) ==
    LET spec == SpecRows(gbBatch)
    IN  [i \in DOMAIN gbBatch |->
            IF i > Cardinality(spec) THEN NullBlock
            ELSE <<g, CHOOSE r \in spec : Cardinality({q \in spec : q < r}) = i - 1>>]

\* When the builds of a step are done, every group's buffers and metadata are what its own
\* build would have made: its own block table, the drafts' rows in order with NULL after
\* them, and nothing of an earlier step; a batch with prefills is seen as one.
BuiltForThisStep ==
    gbBatch # <<>> => \A g \in 1 .. gbGroup - 1 :
        LET m == gbBuilt[g]
            others == {i \in DOMAIN gbBatch : gbBatch[i].ndt < 0 /\ gbBatch[i].len > 1}
        IN  /\ m.stash = [i \in DOMAIN gbBatch |-> <<g, i>>]
            /\ m.pool = "heap"
            /\ IsSpec(gbBatch) => m.counts.prefills = Cardinality(others)
            /\ \A row \in m.others : row[1] = g
            /\ m.fast => gbBuffers[g] = [Values(g, gbBatch) EXCEPT !.states = MeantStates(g)]
            /\ m.fast = FastPath(gbBatch)
=============================================================================
