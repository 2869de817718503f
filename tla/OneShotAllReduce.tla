--------------------------- MODULE OneShotAllReduce ---------------------------
(***************************************************************************)
(* The one-shot push all-reduce of radiance: every rank writes its input   *)
(* into a receive region of every peer's scratch, raises one flag per      *)
(* block, waits for the peers' flags of the same block, and sums its own   *)
(* input with what the peers left in its own scratch.                      *)
(*                                                                         *)
(*   r4d_radiance_extras_rx10.patch   the 3-rank kernel and the 2-rank     *)
(*                                    kernel with the fused epilogue (nq)  *)
(*   radiance_allreduce.py            grid heuristic, launch, scratch      *)
(*   patch_ar_3rank.py                one receive region per sender        *)
(*                                                                         *)
(* A 16-byte word of data is represented by the number of the call that    *)
(* wrote it; its sender and its index are where it is stored.              *)
(***************************************************************************)
EXTENDS Integers, Sequences, FiniteSets

CONSTANTS
    World,          \* the number of ranks, world_size
    Msgs,           \* the calls every rank makes: [kind, n16, rows] records
    WordsPerBlock,  \* words_per_block, 1400 in the code
    MinNb, MaxNb,   \* the clamp of the block heuristic, 4 and 24 in the code
    MaxBlocks,      \* AR_MAX_BLOCKS: flags per region and sequence counters
    SeqMod,         \* 2^w for sequence counters of w bits, w = 32 in the code
    Resident,       \* how many blocks of one kernel the device holds at most
    SpinsOut        \* TRUE when a spin may reach R4D_AR3_SPIN_MAX polls

ASSUME ParamAssumption ==
    /\ World \in Nat /\ World >= 2
    /\ WordsPerBlock \in Nat /\ WordsPerBlock >= 1
    /\ MinNb \in Nat /\ MinNb >= 1
    /\ MaxNb \in Nat /\ MaxNb >= MinNb
    /\ MaxBlocks \in Nat /\ MaxBlocks >= MaxNb
    /\ SeqMod \in Nat /\ SeqMod >= 2 /\ SeqMod % 2 = 0
    /\ Resident \in Nat /\ Resident >= 1
    /\ SpinsOut \in BOOLEAN

\* "exact" splits n16 words over a grid sized by the heuristic; "nq" is the
\* fused kernel, one block per row of the message.
MsgAssumption ==
    Msgs \in Seq([kind : {"exact", "nq"}, n16 : Nat, rows : Nat])

ASSUME MsgsAssumption ==
    /\ MsgAssumption
    /\ \A k \in DOMAIN Msgs :
          /\ Msgs[k].n16 >= 1
          /\ Msgs[k].kind = "nq" => /\ Msgs[k].rows \in 1 .. MaxBlocks
                                    /\ Msgs[k].n16 % Msgs[k].rows = 0

NCalls  == Len(Msgs)
Call    == 1 .. NCalls
Rank    == 0 .. World - 1
Block   == 0 .. MaxBlocks - 1
Slot    == {0, 1}
RegionIx == 0 .. World - 2

Peers(r) == Rank \ {r}

\* Sender i writes region i - (i > j) of receiver j's scratch and flags.
Region(i, j) == IF i > j THEN i - 1 ELSE i

-----------------------------------------------------------------------------
(* Grids and chunks                                                        *)

NBlocksExact(n16) ==
    LET nb == n16 \div WordsPerBlock
        lo == IF nb < MinNb THEN MinNb ELSE nb
        hi == IF lo > MaxNb THEN MaxNb ELSE lo
    IN  IF hi > n16 THEN n16 ELSE hi

Grid(k) == IF Msgs[k].kind = "nq" THEN Msgs[k].rows
                                  ELSE NBlocksExact(Msgs[k].n16)

BlocksOf(k) == 0 .. Grid(k) - 1

Words(k) == 0 .. Msgs[k].n16 - 1

ChunkLen(k) == (Msgs[k].n16 + Grid(k) - 1) \div Grid(k)

Chunk(k, b) == {w \in Words(k) : b * ChunkLen(k) <= w /\ w < (b + 1) * ChunkLen(k)}

AnyWord == UNION {Words(k) : k \in Call}

-----------------------------------------------------------------------------
VARIABLES
    call,     \* call[r]: the call whose kernel heads rank r's stream
    pc,       \* pc[r][b]: where block b of that kernel is
    unsent,   \* unsent[r][b]: <<word, peer>> stores block b has still to issue
    waiting,  \* waiting[r][b]: peers still to flag ("flag") or still awaited ("spin")
    unread,   \* unread[r][b]: words block b has still to reduce
    seqCtr,   \* seqCtr[r][b]: seq_ctrs[b], on the device, never reset
    flags,    \* flags[j][g][b]: the flag of region g and block b on rank j
    scratch,  \* scratch[j][g][s][w]: word w of slot s of region g on rank j
    out       \* out[r][k][w]: whose data of which call word w of the result sums

kernel == <<call, pc, unsent, waiting, unread>>
shared == <<seqCtr, flags, scratch>>
vars   == <<call, pc, unsent, waiting, unread, seqCtr, flags, scratch, out>>

Stages == {"queued", "push", "flag", "spin", "reduce", "done"}

Nothing == [i \in Rank |-> 0]

Init ==
    /\ call    = [r \in Rank |-> 1]
    /\ pc      = [r \in Rank |-> [b \in Block |-> "queued"]]
    /\ unsent  = [r \in Rank |-> [b \in Block |-> {}]]
    /\ waiting = [r \in Rank |-> [b \in Block |-> {}]]
    /\ unread  = [r \in Rank |-> [b \in Block |-> {}]]
    /\ seqCtr  = [r \in Rank |-> [b \in Block |-> 0]]
    /\ flags   = [j \in Rank |-> [g \in RegionIx |-> [b \in Block |-> 0]]]
    /\ scratch = [j \in Rank |-> [g \in RegionIx |-> [s \in Slot |-> [w \in AnyWord |-> 0]]]]
    /\ out     = [r \in Rank |-> [k \in Call |-> [w \in AnyWord |-> Nothing]]]

\* Mutant of SlotOf: a single receive buffer.
SlotSingle(r, b) == 0

SlotOf(r, b) == seqCtr[r][b] % 2

Running(r) == {b \in Block : pc[r][b] \notin {"queued", "done"}}

\* The device starts the blocks of a grid in order.
Turn(r, b) == \A c \in 0 .. b - 1 : pc[r][c] # "queued"

\* A block starts when its turn comes and the device can hold it: thread 0
\* takes the sequence number and the block turns to its chunk.
Start(r, b) ==
    /\ call[r] <= NCalls
    /\ b \in BlocksOf(call[r])
    /\ pc[r][b] = "queued"
    /\ Turn(r, b)
    /\ Cardinality(Running(r)) < Resident
    /\ seqCtr' = [seqCtr EXCEPT ![r][b] = (@ + 1) % SeqMod]
    /\ pc' = [pc EXCEPT ![r][b] = "push"]
    /\ unsent' = [unsent EXCEPT ![r][b] = Chunk(call[r], b) \X Peers(r)]
    /\ UNCHANGED <<call, waiting, unread, flags, scratch, out>>

\* One word of the block's chunk lands in one peer's scratch.
Push(r, b, w, p) ==
    /\ pc[r][b] = "push"
    /\ <<w, p>> \in unsent[r][b]
    /\ scratch' = [scratch EXCEPT ![p][Region(r, p)][SlotOf(r, b)][w] = call[r]]
    /\ unsent' = [unsent EXCEPT ![r][b] = @ \ {<<w, p>>}]
    /\ UNCHANGED <<call, pc, waiting, unread, seqCtr, flags, out>>

\* Mutant of Drained: the flag is not held back until the stores have landed.
DrainSkipped(r, b) == TRUE

\* No store of the block is in flight: s_wait_storecnt and the block barrier.
Drained(r, b) == unsent[r][b] = {}

\* Mutant of FlagTargets: the peer list takes in the rank itself.
FlagEverybody(r) == Rank

FlagTargets(r) == Peers(r)

Drain(r, b) ==
    /\ pc[r][b] = "push"
    /\ Drained(r, b)
    /\ pc' = [pc EXCEPT ![r][b] = "flag"]
    /\ waiting' = [waiting EXCEPT ![r][b] = FlagTargets(r)]
    /\ UNCHANGED <<call, unsent, unread, seqCtr, flags, scratch, out>>

\* Thread 0 releases the block's flag on one peer; after the last it spins.
Signal(r, b, p) ==
    /\ pc[r][b] = "flag"
    /\ p \in waiting[r][b]
    /\ flags' = [flags EXCEPT ![p][Region(r, p)][b] = seqCtr[r][b]]
    /\ pc' = [pc EXCEPT ![r][b] = IF waiting[r][b] = {p} THEN "spin" ELSE "flag"]
    /\ waiting' = [waiting EXCEPT ![r][b] =
                      IF waiting[r][b] = {p} THEN Peers(r) ELSE @ \ {p}]
    /\ UNCHANGED <<call, unsent, unread, seqCtr, scratch, out>>

\* Mutant of Released: one call too early.
ReleasedBefore(r, b, p) == flags[r][Region(p, r)][b] + 1 >= seqCtr[r][b]

\* Mutant of Released: a strict comparison.
ReleasedAfter(r, b, p) == flags[r][Region(p, r)][b] > seqCtr[r][b]

Released(r, b, p) == flags[r][Region(p, r)][b] >= seqCtr[r][b]

\* The spin sees one peer's flag reach the block's sequence number; once it
\* has seen them all the block goes on to reduce its chunk.
Poll(r, b, p) ==
    /\ pc[r][b] = "spin"
    /\ p \in waiting[r][b]
    /\ Released(r, b, p)
    /\ waiting' = [waiting EXCEPT ![r][b] = @ \ {p}]
    /\ IF waiting[r][b] = {p}
       THEN /\ pc' = [pc EXCEPT ![r][b] = "reduce"]
            /\ unread' = [unread EXCEPT ![r][b] = Chunk(call[r], b)]
       ELSE UNCHANGED <<pc, unread>>
    /\ UNCHANGED <<call, unsent, seqCtr, flags, scratch, out>>

\* A poll that finds a flag short of the sequence number polls again.
PollAgain(r, b) ==
    /\ pc[r][b] = "spin"
    /\ \E p \in waiting[r][b] : ~Released(r, b, p)
    /\ UNCHANGED vars

\* Mutant of LimitReached: the limit is tested only after a poll that succeeds.
LimitOnHit(r, b) == SpinsOut /\ \E p \in waiting[r][b] : Released(r, b, p)

LimitReached(r, b) == SpinsOut

\* R4D_AR3_SPIN_MAX polls have gone by: the block leaves the spin as if the
\* peers had answered.
SpinOut(r, b) ==
    /\ LimitReached(r, b)
    /\ pc[r][b] = "spin"
    /\ pc' = [pc EXCEPT ![r][b] = "reduce"]
    /\ waiting' = [waiting EXCEPT ![r][b] = {}]
    /\ unread' = [unread EXCEPT ![r][b] = Chunk(call[r], b)]
    /\ UNCHANGED <<call, unsent, seqCtr, flags, scratch, out>>

\* What rank r finds for word w: its own input, the peers' words in its scratch.
Operands(r, b, w) ==
    [i \in Rank |-> IF i = r THEN call[r]
                    ELSE scratch[r][Region(i, r)][SlotOf(r, b)][w]]

Reduce(r, b, w) ==
    /\ pc[r][b] = "reduce"
    /\ w \in unread[r][b]
    /\ out' = [out EXCEPT ![r][call[r]][w] = Operands(r, b, w)]
    /\ unread' = [unread EXCEPT ![r][b] = @ \ {w}]
    /\ UNCHANGED <<call, pc, unsent, waiting, seqCtr, flags, scratch>>

Exit(r, b) ==
    /\ pc[r][b] = "reduce"
    /\ unread[r][b] = {}
    /\ pc' = [pc EXCEPT ![r][b] = "done"]
    /\ UNCHANGED <<call, unsent, waiting, unread, seqCtr, flags, scratch, out>>

KernelDone(r) == \A b \in BlocksOf(call[r]) : pc[r][b] = "done"

\* Stream order: the next kernel starts when every block of this one is done.
Retire(r) ==
    /\ call[r] <= NCalls
    /\ KernelDone(r)
    /\ call' = [call EXCEPT ![r] = @ + 1]
    /\ pc' = [pc EXCEPT ![r] = [b \in Block |-> "queued"]]
    /\ UNCHANGED <<unsent, waiting, unread, seqCtr, flags, scratch, out>>

\* A block that the device holds goes on.
HeldStep(r, b) ==
    \/ \E w \in AnyWord, p \in Peers(r) : Push(r, b, w, p)
    \/ Drain(r, b)
    \/ \E p \in Peers(r) : Signal(r, b, p)
    \/ \E p \in Peers(r) : Poll(r, b, p)
    \/ PollAgain(r, b)
    \/ SpinOut(r, b)
    \/ \E w \in AnyWord : Reduce(r, b, w)
    \/ Exit(r, b)

BlockStep(r, b) == Start(r, b) \/ HeldStep(r, b)

\* The program has made all its calls.
Finished ==
    /\ \A r \in Rank : call[r] = NCalls + 1
    /\ UNCHANGED vars

Next ==
    \/ \E r \in Rank : Retire(r) \/ \E b \in Block : BlockStep(r, b)
    \/ Finished

Spec == Init /\ [][Next]_vars

\* The stream moves on by itself and a block that the device holds is always scheduled
\* again; a block that waits for its turn is sure of a place only when it would be the only
\* one, so the device may hold any number of a grid's blocks from one to Resident.
Fairness ==
    \A r \in Rank :
        /\ WF_vars(Retire(r))
        /\ \A b \in Block : /\ WF_vars(HeldStep(r, b))
                            /\ WF_vars(Running(r) = {} /\ Start(r, b))

FairSpec == Spec /\ Fairness

-----------------------------------------------------------------------------
(* Correctness                                                             *)

\* The condition under which the double buffer is sound: every call has as
\* many blocks as the first, so all the blocks' counters agree.
UniformGrid == \A k \in Call : Grid(k) = Grid(1)

\* The calls end before a sequence counter wraps round.
NoWrap == NCalls < SeqMod

\* Every variable keeps to the ranges the kernel's buffers have.
TypeOK ==
    /\ call \in [Rank -> 1 .. NCalls + 1]
    /\ pc \in [Rank -> [Block -> Stages]]
    /\ unsent \in [Rank -> [Block -> SUBSET (AnyWord \X Rank)]]
    /\ waiting \in [Rank -> [Block -> SUBSET Rank]]
    /\ unread \in [Rank -> [Block -> SUBSET AnyWord]]
    /\ seqCtr \in [Rank -> [Block -> 0 .. SeqMod - 1]]
    /\ flags \in [Rank -> [RegionIx -> [Block -> 0 .. SeqMod - 1]]]
    /\ scratch \in [Rank -> [RegionIx -> [Slot -> [AnyWord -> 0 .. NCalls]]]]
    /\ out \in [Rank -> [Call -> [AnyWord -> [Rank -> 0 .. NCalls]]]]
    /\ \A r \in Rank, b \in Block : r \notin waiting[r][b]

\* A word of a result is untouched or sums what every rank gave to that very
\* call: never an older call's data (a flag seen too early) nor a newer one's
\* (a slot overwritten too early).
SumsThisCall ==
    \A r \in Rank, k \in Call : \A w \in Words(k) :
        out[r][k][w] \in {Nothing, [i \in Rank |-> k]}

\* The double buffer works: no store is on its way to a word of a slot whose
\* owner has passed its handshake and has that word still to read.
NoScratchRace ==
    \A i, r \in Rank : i # r =>
        \A b, c \in Block :
            pc[i][c] = "push" /\ pc[r][b] = "reduce" /\ SlotOf(i, c) = SlotOf(r, b)
                => \A w \in unread[r][b] : <<w, r>> \notin unsent[i][c]

\* The replicated-state invariant of the layers above: whatever two ranks have
\* both returned from a call is the same on both.
RankParity ==
    \A i, r \in Rank, k \in Call :
        k < call[i] /\ k < call[r]
            => \A w \in Words(k) : out[i][k][w] = out[r][k][w]

\* The handshakes of one call keep the streams together: no rank is ever more
\* than one kernel ahead of another.
AtMostOneCallAhead == \A i, r \in Rank : call[i] <= call[r] + 1

\* Every all-reduce returns on every rank, however few blocks of its grid the device holds
\* at a time: a block spins only for its peers' blocks of its own index, and the grids start
\* in order.
AllCallsReturn == \A r \in Rank : <>(call[r] = NCalls + 1)

\* A rank has entered a call once a block of its kernel has started, and a
\* call has returned once its kernel has left the stream.
Entered  == [r \in Rank |-> IF \E b \in Block : pc[r][b] # "queued"
                            THEN call[r] ELSE call[r] - 1]
Returned == [r \in Rank |-> call[r] - 1]
Sums     == [r \in Rank |-> [k \in Call |->
                IF k < call[r] THEN {out[r][k][w] : w \in Words(k)} ELSE {}]]

Collective == INSTANCE CollectiveSum
                  WITH entered <- Entered, returned <- Returned, sums <- Sums

\* The kernel keeps the promise of CollectiveSum.
ImplementsCollectiveSum == Collective!AbsSpec
==============================================================================
