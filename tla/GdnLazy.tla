------------------------------- MODULE GdnLazy -------------------------------
(***************************************************************************)
(* Lazy snapshots of the recurrent (GDN) state under speculative decoding: *)
(* one base state and a stash of the last step's candidates per request,   *)
(* gdn_lazy_update and gdn_lazy_materialize of r4d_radiance_extras_rx10,   *)
(* radiance_gdn.py and radiance_gdn_lazy.py.                               *)
(*                                                                         *)
(* A state is the sequence of tokens it has absorbed.  All requests follow *)
(* one conversation, so a token is its position; a rejected candidate for  *)
(* position p is -p and Junk is whatever a read of the wrong bytes gives.  *)
(* Rows of a batch touch disjoint blocks, so a step serves one request.    *)
(* Columns count from 1: column c covers the tokens up to c * BlockSize.   *)
(***************************************************************************)
EXTENDS Arith, Sequences, FiniteSets

CONSTANTS
    GlReq,      \* request slots; one is used again when its request ends
    Block,      \* the mamba blocks
    Null,       \* NULL_BLOCK_ID
    BlockSize,  \* tokens of a mamba block
    GlNSpec,    \* draft tokens of a step
    MaxT,       \* LZ_MAXT, candidates of a step the stash has room for
    Length,     \* tokens of the conversation
    Prompts,    \* lengths at which a turn of it may arrive
    HitReach    \* columns the first step after a prefix hit may advance

ASSUME LazyAssumption ==
    /\ Null \notin Block
    /\ BlockSize \in Nat \ {0} /\ GlNSpec \in 1 .. BlockSize - 1
    /\ MaxT \in Nat /\ GlNSpec < MaxT
    /\ Length \in Nat /\ Prompts \subseteq 1 .. Length /\ HitReach \in Nat \ {0}

Absent == [prompt |-> 0]
NoStep == [at |-> "idle"]
Junk == <<0>>
Span(a, b) == [i \in 1 .. b - a |-> a + i]     \* the tokens after a, up to b
ColOf(n) == (n + BlockSize - 1) \div BlockSize
Boundary == 1 .. Length \div BlockSize

VARIABLES
    mem,     \* by block, its bytes: a state, or a stash with its header
    cached,  \* the prefix cache: by boundary, the block with its state
    req,     \* by slot, the request's prompt, progress and block table
    step     \* the engine step in progress

glVars == <<mem, cached, req, step>>

-----------------------------------------------------------------------------
(* A block's bytes hold a state or a stash; each overwrites the other.     *)

State(s) == [magic |-> FALSE, base |-> Null, toks |-> s]

\* Mutant of Stash: the header names the base's column instead of its block.
StashByColumn(b, cs) == [magic |-> TRUE, base |-> req[step.r].col, toks |-> cs]

Stash(b, cs) == [magic |-> TRUE, base |-> b, toks |-> cs]

AsState(b) == IF mem[b].magic THEN Junk ELSE mem[b].toks

\* Zeroing the header: the stash is gone, and so is a state that was there.
Invalidated(m, b) == IF b = Null THEN m ELSE [m EXCEPT ![b] = State(Junk)]

\* The candidates the stash s gives back for the base b.
Replay(b, s, count) ==
    IF mem[s].magic /\ mem[s].base = b
    THEN SubSeq(mem[s].toks, 1, Smaller(Smaller(count, Len(mem[s].toks)), MaxT - 1))
    ELSE <<>>

-----------------------------------------------------------------------------
(* The scheduler's blocks and the worker's block table                     *)

Live == {r \in GlReq : req[r] # Absent}
Idle == step = NoStep

\* State blocks before the one that holds the computed tokens are released.
Held(r) ==
    {req[r].table[c] : c \in {d \in DOMAIN req[r].table : d >= ColOf(req[r].computed)}}
Used == (UNION {Held(r) : r \in Live}) \cup {cached[k] : k \in Boundary}
Free == Block \ Used

\* A row gets its running and its stash column.  A request that moves on keeps
\* its stash block as the next running block, and the worker's row is only
\* appended to; whatever lies between is null, after a prefix hit as well.
Tables(r, to) ==
    LET old == req[r].table
        n == Len(old)
        fresh == n = req[r].col
        gap == [i \in 1 .. to - 1 - n |-> Null]
    IN  IF to + 1 <= n THEN {old}
        ELSE IF fresh
        THEN {old \o gap \o <<p[1], p[2]>> : p \in {x \in Free \X Free : x[1] # x[2]}}
        ELSE IF to = n THEN {Append(old, s) : s \in Free}
        ELSE {old \o gap \o <<old[n], s>> : s \in Free}

GlInit ==
    /\ mem = [b \in Block |-> State(Junk)]
    /\ cached = [k \in Boundary |-> Null]
    /\ req = [r \in GlReq |-> Absent]
    /\ step = NoStep

\* A turn of the conversation arrives, with what the prefix cache has of it.
Arrive(r) ==
    /\ Idle /\ req[r] = Absent
    /\ \E p \in Prompts, k \in {0} \cup {j \in Boundary : cached[j] # Null} :
        /\ k * BlockSize < p
        /\ req' = [req EXCEPT ![r] =
             [prompt |-> p, computed |-> k * BlockSize, col |-> k, nacc |-> 1,
              table |-> [c \in 1 .. k |-> IF c = k THEN cached[k] ELSE Null]]]
    /\ UNCHANGED <<mem, cached, step>>

\* The scheduler grants tokens up to `last`: a chunk of the prompt that ends at
\* a block boundary or with the prompt, or a draft to verify.
Schedule(r) ==
    /\ Idle /\ r \in Live
    /\ LET q == req[r] IN \E last \in q.computed + 1 .. Length :
        /\ IF q.computed < q.prompt
           THEN last = q.prompt \/ (last < q.prompt /\ last % BlockSize = 0)
           ELSE last - q.computed \in 2 .. GlNSpec + 1
        /\ q.col > 0 /\ Len(q.table) = q.col => ColOf(last) <= q.col + HitReach
        /\ \E t \in Tables(r, ColOf(last)) : req' = [req EXCEPT ![r].table = t]
        /\ step' = [r |-> r, last |-> last, at |-> "migrate", nacc |-> 0,
                    prefill |-> q.computed < q.prompt]
    /\ UNCHANGED <<mem, cached>>

Finish(r) ==
    /\ Idle /\ r \in Live
    /\ req' = [req EXCEPT ![r] = Absent]
    /\ UNCHANGED <<mem, cached, step>>

Evict(k) ==
    /\ Idle /\ cached[k] # Null /\ cached[k] \notin UNION {Held(r) : r \in Live}
    /\ cached' = [cached EXCEPT ![k] = Null]
    /\ UNCHANGED <<mem, req, step>>

-----------------------------------------------------------------------------
(* The kernels                                                             *)

\* Base b and stash s materialised in d; e is the new stash block.
Moved(b, s, d, e, count) ==
    Invalidated([mem EXCEPT ![d] = State(AsState(b) \o Replay(b, s, count))], e)

\* Pre-forward migration (mode 0) of a request whose running column moved.
Migrate ==
    /\ ~Idle /\ step.at = "migrate"
    /\ LET q == req[step.r]
           to == ColOf(step.last)
           moves == q.col # 0 /\ q.col # to
           b == q.table[q.col]
           s == q.table[q.col + 1]
           d == q.table[to]
       IN  /\ mem' = IF moves /\ Null \notin {b, s, d}
                     THEN Moved(b, s, d, q.table[to + 1], q.nacc - 1) ELSE mem
           /\ req' = [req EXCEPT ![step.r].col = to,
                                 ![step.r].nacc = IF moves THEN 1 ELSE @]
    /\ step' = [step EXCEPT !.at = "forward"]
    /\ UNCHANGED cached

Base == req[step.r].table[req[step.r].col]
StashOf == req[step.r].table[req[step.r].col + 1]

\* The state the scheduled request resumes from.
Resumed ==
    IF req[step.r].computed = 0 THEN <<>>
    ELSE AsState(Base) \o (IF step.prefill THEN <<>>
                           ELSE Replay(Base, StashOf, req[step.r].nacc - 1))

\* A prefilled row gets a fresh base: its stash must not replay.
Prefill ==
    /\ ~Idle /\ step.at = "forward" /\ step.prefill
    /\ mem' = [Invalidated(mem, StashOf) EXCEPT
                  ![Base] = State(Resumed \o Span(req[step.r].computed, step.last))]
    /\ step' = [step EXCEPT !.at = "checkpoint", !.nacc = 1]
    /\ UNCHANGED <<cached, req>>

\* Candidates 1 .. T - 1 of a step of which n tokens turn out accepted.
Candidates(from, last, n) ==
    [i \in 1 .. last - from - 1 |-> IF i < n THEN from + 1 + i ELSE -(from + 1 + i)]

\* lazy_update: replay, absorb candidate 0 into the base, stash the others.
Decode ==
    /\ ~Idle /\ step.at = "forward" /\ ~step.prefill
    /\ LET from == req[step.r].computed IN
       \E n \in 1 .. step.last - from :
        /\ mem' = [mem EXCEPT
             ![Base] = State(Append(Resumed, from + 1)),
             ![StashOf] = Stash(Base, SubSeq(Candidates(from, step.last, n), 1,
                                             Smaller(step.last - from, MaxT) - 1))]
        /\ step' = [step EXCEPT !.at = "checkpoint", !.nacc = n]
    /\ UNCHANGED <<cached, req>>

\* Mutant of Due: the boundary token itself is left out.
DueShort(newc, n) == (newc \div BlockSize) * BlockSize - (newc - n + 1) - 1

\* Candidates that separate the base from the last boundary; < 0 for none.
Due(newc, n) == (newc \div BlockSize) * BlockSize - (newc - n + 1)

\* vLLM forgets the accepted candidates once the running block has them.
AcceptedSlot(n, inPlace) == IF inPlace THEN 1 ELSE n

\* Post-step checkpoint (mode 1), then vLLM's bookkeeping and prefix caching.
Checkpoint ==
    /\ ~Idle /\ step.at = "checkpoint"
    /\ LET q == req[step.r]
           n == step.nacc
           newc == IF step.prefill THEN step.last ELSE q.computed + n
           due == Due(newc, n)
           k == newc \div BlockSize
           inPlace == due >= 0 /\ k = q.col
       IN  /\ mem' = IF due < 0 \/ (inPlace /\ due = 0) \/ q.table[k] = Null THEN mem
                     ELSE [mem EXCEPT ![q.table[k]] =
                             State(AsState(Base) \o Replay(Base, StashOf, due))]
           /\ cached' = IF due >= 0 /\ cached[k] = Null
                        THEN [cached EXCEPT ![k] = q.table[k]] ELSE cached
           /\ req' = [req EXCEPT ![step.r].computed = newc,
                                 ![step.r].nacc = AcceptedSlot(n, inPlace)]
    /\ step' = NoStep

GlNext ==
    \/ \E r \in GlReq : Arrive(r) \/ Schedule(r) \/ Finish(r)
    \/ \E k \in Boundary : Evict(k)
    \/ Migrate \/ Prefill \/ Decode \/ Checkpoint

GlSpec == GlInit /\ [][GlNext]_glVars

-----------------------------------------------------------------------------
(* Properties                                                              *)

\* Block tables and counters keep their ranges, and no two requests share a
\* block that either of them writes.
GlTypeOK ==
    /\ \A b \in Block : mem[b].magic \in BOOLEAN /\ mem[b].base \in Block \cup {Null}
    /\ cached \in [Boundary -> Block \cup {Null}]
    /\ \A r \in Live :
        /\ req[r].computed \in 0 .. Length /\ req[r].nacc \in 1 .. GlNSpec + 1
        /\ req[r].table \in Seq(Block \cup {Null})
        /\ req[r].col \in 0 .. Len(req[r].table)
    /\ \A r, o \in Live : r # o => Held(r) \cap Held(o) \subseteq
           {Null} \cup {cached[k] : k \in Boundary}

\* The forward of every step resumes from the state of exactly the tokens that
\* have been accepted: none is missing, none is replayed twice, no rejected one
\* and nothing of the block's former owner is in it.
StartsFromContext ==
    ~Idle /\ step.at = "forward" => Resumed = Span(0, req[step.r].computed)

\* No replay falls short of what the caller asked for: whenever accepted
\* candidates separate the base from a checkpoint, the stash belongs to that
\* base and has them all, so the fail-safe that replays nothing never drops
\* an accepted token from a checkpoint.
ReplayComplete ==
    ~Idle /\ step.at = "checkpoint" /\ ~step.prefill =>
        LET due == Due(req[step.r].computed + step.nacc, step.nacc)
        IN  due > 0 => Len(Replay(Base, StashOf, due)) = due

\* What the prefix cache offers for a boundary is the state after exactly the
\* tokens up to that boundary.
CheckpointsExact ==
    \A k \in Boundary : cached[k] # Null => AsState(cached[k]) = Span(0, k * BlockSize)
=============================================================================
