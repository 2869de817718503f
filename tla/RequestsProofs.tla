---------------------------- MODULE RequestsProofs ----------------------------
(***************************************************************************)
(* Theorems about what the worker keeps of a request (MCRequests): where a *)
(* prefix hit is continued by one column, every step resumes from the      *)
(* accepted tokens, every replay is complete and every cached state is     *)
(* exact; a match continues the request's own text; and every group's      *)
(* metadata are those of its step.                                         *)
(*                                                                         *)
(* The argument about the recurrent state (GdnLazy) is about ownership.  A *)
(* block that a step writes is held by its request and not cached, so      *)
(* neither the cache nor another request reads it; and what the request    *)
(* itself reads was left by its own writes.                                *)
(***************************************************************************)
EXTENDS MCRequests, FiniteSetTheorems, WellFoundedInduction, TLAPS

-----------------------------------------------------------------------------
(* The invariant                                                           *)

BlockOrNull == Block \cup {Null}

LiveReq == [prompt : Nat \ {0}, computed : Nat, col : Nat, nacc : Nat \ {0},
            table : Seq(BlockOrNull)]
ActiveStep == [r : GlReq, last : Nat, at : {"migrate", "forward", "checkpoint"},
               nacc : Nat, prefill : BOOLEAN]

LazyType ==
    /\ mem \in [Block -> [magic : BOOLEAN, base : BlockOrNull, toks : Seq(Int)]]
    /\ cached \in [Boundary -> BlockOrNull]
    /\ req \in [GlReq -> {Absent} \cup LiveReq]
    /\ step \in {NoStep} \cup ActiveStep
    /\ ~Idle => step.r \in Live

InStep(r) == ~Idle /\ step.r = r
To == ColOf(step.last)
HeldCols(r) == {d \in 1 .. Len(req[r].table) : ColOf(req[r].computed) <= d}

\* From this column on the blocks of a request are its own, each in one place.
Low(r) == IF InStep(r) /\ step.prefill THEN To ELSE ColOf(req[r].computed)

OwnBlocks(r) ==
    LET t == req[r].table IN
    /\ \A d \in 1 .. Len(t) : Low(r) <= d => t[d] \in Block
    /\ \A d, e \in 1 .. Len(t) : Low(r) <= d /\ Low(r) <= e /\ t[d] = t[e] => d = e

\* What two requests both hold is cached; what is cached is complete.
Disjoint ==
    \A r, o \in Live : r # o =>
        \A d \in HeldCols(r), e \in HeldCols(o) :
            req[r].table[d] = req[o].table[e] /\ req[r].table[d] # Null =>
                \E k \in Boundary : cached[k] = req[r].table[d]
CachedInPlace ==
    \A r \in Live : \A d \in HeldCols(r), k \in Boundary :
        cached[k] = req[r].table[d] /\ cached[k] # Null =>
            k = d /\ d * BlockSize <= req[r].computed

\* Where a request stands between two steps.
Tallied(r) ==
    LET q == req[r] IN
    /\ q.computed <= Length /\ q.nacc <= GlNSpec + 1 /\ q.nacc - 1 <= q.computed
    /\ q.computed <= q.col * BlockSize
    /\ q.col = 0 => q.computed = 0
    /\ q.computed < q.prompt => q.nacc = 1

Rested(r) ==
    LET q == req[r] IN
    /\ q.col <= Len(q.table)
    /\ Len(q.table) = q.col => q.computed = q.col * BlockSize /\ q.computed < q.prompt
    /\ q.col = 0 => Len(q.table) = 0
    /\ q.computed < q.prompt => q.col = ColOf(q.computed) /\ Len(q.table) <= q.col + 1

\* Where the request of a step stands.
Stepping(r) ==
    LET q == req[r] IN
    /\ q.computed < step.last /\ step.last <= Length
    /\ step.prefill = (q.computed < q.prompt)
    /\ ~step.prefill => step.last <= q.computed + GlNSpec + 1
    /\ To + 1 <= Len(q.table)
    /\ step.prefill => Len(q.table) = To + 1
    /\ step.at = "migrate" =>
          /\ q.col <= Len(q.table) /\ (q.computed = 0 => q.col = 0)
          /\ step.prefill => q.col <= To
          /\ ~step.prefill => q.col + 1 <= Len(q.table)
          /\ 0 < q.col /\ q.col < To => q.table[q.col + 1] = q.table[To]
          /\ 0 < q.col => q.table[q.col] \in Block
    /\ step.at # "migrate" => q.col = To
    /\ step.at = "checkpoint" => step.nacc \in 1 .. step.last - q.computed
    /\ step.at = "checkpoint" /\ step.prefill => step.nacc = 1

\* A request's running block and stash have its first c tokens, the last n - 1 of them in
\* the stash.
Holds(r, c, n) ==
    LET b == req[r].table[req[r].col]
        s == req[r].table[req[r].col + 1]
    IN  c > 0 =>
          /\ AsState(b) = Span(0, c - (n - 1))
          /\ n > 1 =>
                /\ req[r].col + 1 <= Len(req[r].table)
                /\ mem[s].magic /\ mem[s].base = b
                /\ Len(mem[s].toks) >= n - 1
                /\ \A i \in 1 .. n - 1 : mem[s].toks[i] = c - (n - 1) + i

NewComputed == IF step.prefill THEN step.last ELSE req[step.r].computed + step.nacc

Contents ==
    \A r \in Live :
        IF InStep(r) /\ step.at = "checkpoint" THEN Holds(r, NewComputed, step.nacc)
        ELSE Holds(r, req[r].computed, req[r].nacc)

Standing(r) ==
    /\ Tallied(r) /\ OwnBlocks(r)
    /\ InStep(r) => Stepping(r)
    /\ ~InStep(r) => Rested(r)

LazyInv ==
    /\ LazyType /\ Disjoint /\ CachedInPlace /\ CheckpointsExact /\ Contents
    /\ \A r \in Live : Standing(r)

-----------------------------------------------------------------------------
(* Columns and tokens                                                      *)

LEMMA Sizes == /\ BlockSize \in Nat /\ BlockSize >= 1 /\ GlNSpec \in Nat /\ GlNSpec >= 1
               /\ GlNSpec < BlockSize /\ MaxT \in Nat /\ GlNSpec < MaxT /\ Length \in Nat
               /\ Null \notin Block
BY LazyAssumption

LEMMA DivFacts == \A n, g \in Nat : g >= 1 =>
    n \div g \in Nat /\ g * (n \div g) <= n /\ n < g * (n \div g) + g
OBVIOUS

LEMMA Times ==
    \A j, k \in Nat : /\ j * BlockSize \in Nat
                      /\ BlockSize * j = j * BlockSize
                      /\ (j + 1) * BlockSize = j * BlockSize + BlockSize
                      /\ (j <= k) = (j * BlockSize <= k * BlockSize)
                      /\ (j < k) = (j * BlockSize < k * BlockSize)
<1>. TAKE j, k \in Nat
<1>1. j * BlockSize \in Nat /\ BlockSize * j = j * BlockSize
  BY Sizes
<1>2. (j + 1) * BlockSize = j * BlockSize + BlockSize
  BY Sizes
<1>3. j <= k => j * BlockSize <= k * BlockSize
  BY Sizes
<1>4. j < k => j * BlockSize < k * BlockSize
  BY Sizes
<1>5. k < j => k * BlockSize < j * BlockSize
  BY Sizes
<1>6. k <= j => k * BlockSize <= j * BlockSize
  BY Sizes
<1>7. k * BlockSize \in Nat
  BY Sizes
<1>. QED  BY <1>1, <1>2, <1>3, <1>4, <1>5, <1>6, <1>7

\* The columns that n tokens need are the ones that reach n.
LEMMA ColOfIs == \A n, k \in Nat : ColOf(n) \in Nat /\ (ColOf(n) <= k) = (n <= k * BlockSize)
<1>. TAKE n, k \in Nat
<1>. DEFINE x == n + BlockSize - 1
            d == x \div BlockSize
<1>1. x \in Nat
  BY Sizes
<1>2. d \in Nat /\ BlockSize * d <= x /\ x < BlockSize * d + BlockSize
  BY <1>1, Sizes, DivFacts
<1>3. ColOf(n) = d
  BY DEF ColOf
<1>4. BlockSize * d = d * BlockSize /\ d * BlockSize \in Nat /\ k * BlockSize \in Nat
  BY <1>2, Times
<1>. HIDE DEF d
<1>5. ASSUME d <= k PROVE n <= k * BlockSize
  <2>1. d * BlockSize <= k * BlockSize
    BY <1>2, <1>5, Times
  <2>. QED  BY <1>2, <1>4, <2>1, Sizes
<1>6. ASSUME n <= k * BlockSize PROVE d <= k
  <2>1. d * BlockSize < (k + 1) * BlockSize
    <3>1. (k + 1) * BlockSize = k * BlockSize + BlockSize
      BY Times
    <3>. QED  BY <1>2, <1>4, <1>6, <3>1, Sizes
  <2>2. d < k + 1
    BY <1>2, <2>1, Times
  <2>. QED  BY <1>2, <2>2
<1>. QED  BY <1>2, <1>3, <1>5, <1>6

\* The last boundary within n tokens.
LEMMA LastBoundary ==
    \A n, k \in Nat : n \div BlockSize \in Nat /\ (k <= n \div BlockSize) = (k * BlockSize <= n)
<1>. TAKE n, k \in Nat
<1>. DEFINE d == n \div BlockSize
<1>1. d \in Nat /\ BlockSize * d <= n /\ n < BlockSize * d + BlockSize
  BY Sizes, DivFacts
<1>2. BlockSize * d = d * BlockSize /\ d * BlockSize \in Nat /\ k * BlockSize \in Nat
      /\ (d + 1) * BlockSize = d * BlockSize + BlockSize
  BY <1>1, Times
<1>. HIDE DEF d
<1>3. ASSUME k <= d PROVE k * BlockSize <= n
  <2>1. k * BlockSize <= d * BlockSize
    BY <1>1, <1>3, Times
  <2>. QED  BY <1>1, <1>2, <2>1
<1>4. ASSUME k * BlockSize <= n PROVE k <= d
  <2>1. k * BlockSize < (d + 1) * BlockSize
    BY <1>1, <1>2, <1>4, Sizes
  <2>2. k < d + 1
    BY <1>1, <2>1, Times
  <2>. QED  BY <1>1, <2>2
<1>. QED  BY <1>1, <1>3, <1>4 DEF d

LEMMA BoundaryIs == \A k : k \in Boundary <=> k \in Nat /\ k >= 1 /\ k * BlockSize <= Length
<1>. TAKE k
<1>1. Length \div BlockSize \in Nat
  BY Sizes, LastBoundary
<1>2. k \in Nat => (k <= Length \div BlockSize) = (k * BlockSize <= Length)
  BY Sizes, LastBoundary
<1>. HIDE Sizes
<1>. QED  BY <1>1, <1>2 DEF Boundary

LEMMA SpanIs ==
    \A a, b \in Nat : a <= b => /\ Span(a, b) \in Seq(Int) /\ Len(Span(a, b)) = b - a
                                /\ \A i \in 1 .. b - a : Span(a, b)[i] = a + i
BY DEF Span

\* Two sequences of tokens are equal if their lengths and their places are.
LEMMA SameTokens ==
    ASSUME NEW s \in Seq(Int), NEW t \in Seq(Int), Len(s) = Len(t),
           \A i \in 1 .. Len(s) : s[i] = t[i]
    PROVE  s = t
BY SMTT(30)

\* What follows a span, token by token.
LEMMA SpanJoin ==
    ASSUME NEW a \in Nat, NEW b \in Nat, a <= b, NEW s \in Seq(Int), Len(s) = b - a,
           \A i \in 1 .. b - a : s[i] = a + i
    PROVE  Span(0, a) \o s = Span(0, b)
<1>1. Span(0, a) \in Seq(Int) /\ Len(Span(0, a)) = a /\ \A i \in 1 .. a : Span(0, a)[i] = i
  BY DEF Span
<1>2. Span(0, b) \in Seq(Int) /\ Len(Span(0, b)) = b /\ \A i \in 1 .. b : Span(0, b)[i] = i
  BY DEF Span
<1>. DEFINE j == Span(0, a) \o s
<1>3. j \in Seq(Int) /\ Len(j) = b
  BY <1>1
<1>4. \A i \in 1 .. b : j[i] = i
  BY <1>1
<1>. HIDE DEF j
<1>5. j = Span(0, b)
  BY <1>2, <1>3, <1>4, SameTokens
<1>. QED  BY <1>5 DEF j

-----------------------------------------------------------------------------
(* Reading                                                                 *)

LEMMA ReqFacts ==
    ASSUME LazyType, NEW r \in Live
    PROVE  /\ r \in GlReq /\ req[r] \in LiveReq
           /\ req[r].prompt \in Nat /\ req[r].prompt > 0
           /\ req[r].computed \in Nat /\ req[r].col \in Nat
           /\ req[r].nacc \in Nat /\ req[r].nacc >= 1
           /\ req[r].table \in Seq(BlockOrNull) /\ Len(req[r].table) \in Nat
           /\ \A d \in 1 .. Len(req[r].table) : req[r].table[d] \in BlockOrNull
<1>1. r \in GlReq /\ req[r] \in LiveReq
  BY DEF LazyType, Live
<1>2. req[r].table \in Seq(BlockOrNull)
  BY <1>1 DEF LiveReq
<1>. QED  BY <1>1, <1>2 DEF LiveReq

LEMMA StepFacts ==
    ASSUME LazyType, ~Idle
    PROVE  /\ step \in ActiveStep /\ step.r \in Live /\ step.r \in GlReq
           /\ step.last \in Nat /\ step.nacc \in Nat /\ step.prefill \in BOOLEAN
           /\ step.at \in {"migrate", "forward", "checkpoint"}
<1>1. step \in ActiveStep
  BY DEF LazyType, Idle
<1>. QED  BY <1>1 DEF LazyType, ActiveStep

LEMMA BytesFacts ==
    ASSUME LazyType, NEW b \in Block
    PROVE  /\ mem[b] \in [magic : BOOLEAN, base : BlockOrNull, toks : Seq(Int)]
           /\ mem[b].magic \in BOOLEAN /\ mem[b].toks \in Seq(Int)
           /\ AsState(b) \in Seq(Int)
<1>1. mem[b] \in [magic : BOOLEAN, base : BlockOrNull, toks : Seq(Int)]
  BY DEF LazyType
<1>2. Junk \in Seq(Int)
  BY DEF Junk
<1>. QED  BY <1>1, <1>2 DEF AsState

LEMMA PrefixIs ==
    ASSUME NEW t \in Seq(Int), NEW n \in Nat, n <= Len(t)
    PROVE  /\ SubSeq(t, 1, n) \in Seq(Int) /\ Len(SubSeq(t, 1, n)) = n
           /\ \A i \in 1 .. n : SubSeq(t, 1, n)[i] = t[i]
OBVIOUS

\* A stash that is the base's own gives back as many candidates as it is asked for.
LEMMA ReplayIs ==
    ASSUME LazyType, NEW b \in Block, NEW s \in Block, NEW n \in Nat, n < MaxT,
           n > 0 => mem[s].magic /\ mem[s].base = b /\ n <= Len(mem[s].toks)
    PROVE  /\ Replay(b, s, n) \in Seq(Int) /\ Len(Replay(b, s, n)) = n
           /\ \A i \in 1 .. n : Replay(b, s, n)[i] = mem[s].toks[i]
<1>. DEFINE m == Smaller(Smaller(n, Len(mem[s].toks)), MaxT - 1)
<1>1. mem[s].toks \in Seq(Int) /\ Len(mem[s].toks) \in Nat
  BY BytesFacts
<1>2. CASE n = 0
  <2>1. m = 0
    BY <1>1, <1>2, Sizes DEF Smaller
  <2>. HIDE DEF m
  <2>2. SubSeq(mem[s].toks, 1, m) = <<>>
    BY <1>1, <2>1
  <2>3. Replay(b, s, n) = <<>>
    BY <2>2 DEF Replay, m
  <2>4. Replay(b, s, n) \in Seq(Int) /\ Len(Replay(b, s, n)) = 0
    BY <2>3
  <2>5. \A i \in 1 .. n : FALSE
    BY <1>2
  <2>. QED  BY <1>2, <2>4, <2>5
<1>3. CASE n > 0
  <2>1. m = n
    BY <1>1, <1>3, Sizes DEF Smaller
  <2>. HIDE DEF m
  <2>2. Replay(b, s, n) = SubSeq(mem[s].toks, 1, n)
    BY <1>3, <2>1 DEF Replay, m
  <2>3. PICK t \in Seq(Int) : t = mem[s].toks
    BY <1>1
  <2>4. Replay(b, s, n) = SubSeq(t, 1, n) /\ n <= Len(t)
    BY <1>3, <2>2, <2>3
  <2>5. /\ Replay(b, s, n) \in Seq(Int) /\ Len(Replay(b, s, n)) = n
        /\ \A i \in 1 .. n : Replay(b, s, n)[i] = t[i]
    BY SMTT(30), <2>4, PrefixIs
  <2>. QED  BY <2>3, <2>5
<1>. QED  BY <1>2, <1>3

\* A request's base and the first m accepted candidates in its stash make the state of as
\* many tokens.
LEMMA Materialised ==
    ASSUME LazyType, NEW r \in Live, NEW c \in Nat, NEW n \in Nat, c > 0, n >= 1, n - 1 <= c,
           n <= GlNSpec + 1, Holds(r, c, n),
           req[r].table[req[r].col] \in Block, req[r].table[req[r].col + 1] \in Block,
           NEW m \in 0 .. n - 1
    PROVE  LET b == req[r].table[req[r].col]
               s == req[r].table[req[r].col + 1]
           IN  /\ Len(Replay(b, s, m)) = m
               /\ AsState(b) \o Replay(b, s, m) = Span(0, c - (n - 1) + m)
<1>. DEFINE b == req[r].table[req[r].col]
            s == req[r].table[req[r].col + 1]
            a == c - (n - 1)
<1>1. /\ AsState(b) = Span(0, a)
      /\ n > 1 => /\ mem[s].magic /\ mem[s].base = b
                  /\ Len(mem[s].toks) >= n - 1
                  /\ \A i \in 1 .. n - 1 : mem[s].toks[i] = a + i
  BY DEF Holds
<1>2. b \in Block /\ s \in Block /\ a \in Nat /\ m \in Nat /\ m <= n - 1 /\ m < MaxT
  BY Sizes
<1>. HIDE DEF b, s, a
<1>3. m > 0 => n > 1
  BY <1>2
<1>4. Len(mem[s].toks) \in Nat
  BY <1>2, BytesFacts
<1>5. /\ Replay(b, s, m) \in Seq(Int) /\ Len(Replay(b, s, m)) = m
      /\ \A i \in 1 .. m : Replay(b, s, m)[i] = mem[s].toks[i]
  <2>1. m > 0 => mem[s].magic /\ mem[s].base = b /\ m <= Len(mem[s].toks)
    BY <1>1, <1>2, <1>3, <1>4
  <2>. QED  BY <1>2, <2>1, ReplayIs
<1>6. \A i \in 1 .. m : Replay(b, s, m)[i] = a + i
  <2>. TAKE i \in 1 .. m
  <2>1. n > 1 /\ i \in 1 .. n - 1
    BY <1>2
  <2>. QED  BY <1>1, <1>5, <2>1
<1>7. Span(0, a) \o Replay(b, s, m) = Span(0, a + m)
  <2>. DEFINE e == a + m
  <2>1. e \in Nat /\ a <= e /\ e - a = m
    BY <1>2
  <2>. HIDE DEF e
  <2>2. Span(0, a) \o Replay(b, s, m) = Span(0, e)
    BY <1>2, <1>5, <1>6, <2>1, SpanJoin
  <2>. QED  BY <2>2 DEF e
<1>. QED  BY ZenonT(60), <1>1, <1>5, <1>7 DEF a, b, s

-----------------------------------------------------------------------------
(* What a step leaves alone                                                *)

\* A block that is ahead of the request's tokens is not cached.
LEMMA Ahead ==
    ASSUME LazyInv, NEW r \in Live, NEW d \in HeldCols(r),
           req[r].computed < d * BlockSize, req[r].table[d] \in Block
    PROVE  \A k \in Boundary : cached[k] # req[r].table[d]
<1>. SUFFICES ASSUME NEW k \in Boundary, cached[k] = req[r].table[d] PROVE FALSE
  OBVIOUS
<1>1. cached[k] # Null
  BY Sizes
<1>2. d * BlockSize <= req[r].computed
  BY <1>1 DEF LazyInv, CachedInPlace
<1>3. req[r].computed \in Nat /\ d \in Nat
  BY ReqFacts DEF LazyInv, HeldCols
<1>4. d * BlockSize \in Nat
  BY SMTT(30), <1>3, Times
<1>. QED  BY <1>2, <1>3, <1>4

\* A request of another step, or of none, keeps its state: it reads no block of W.
LEMMA Frame ==
    ASSUME LazyInv, NEW r \in Live, NEW W,
           \A w \in W : w \in Block /\ \E d \in HeldCols(r) : req[r].table[d] = w,
           \A w \in W, k \in Boundary : cached[k] # w,
           \A b \in Block \ W : mem'[b] = mem[b],
           NEW o \in Live, o # r, ~InStep(o), req'[o] = req[o]
    PROVE  Holds(o, req[o].computed, req[o].nacc)'
<1>. DEFINE q == req[o]
<1>1. Holds(o, q.computed, q.nacc) /\ Tallied(o) /\ Rested(o) /\ OwnBlocks(o) /\ LazyType
  BY DEF LazyInv, Contents, Standing
<1>2. /\ q.computed \in Nat /\ q.col \in Nat /\ Len(q.table) \in Nat
      /\ ColOf(q.computed) \in Nat /\ ColOf(q.computed) <= q.col
  <2>1. q.computed \in Nat /\ q.col \in Nat /\ Len(q.table) \in Nat
    BY <1>1, ReqFacts
  <2>2. q.computed <= q.col * BlockSize
    BY <1>1 DEF Tallied
  <2>. QED  BY <2>1, <2>2, ColOfIs
<1>3. ASSUME NEW d \in 1 .. Len(q.table), ColOf(q.computed) <= d
      PROVE  q.table[d] \in Block /\ mem'[q.table[d]] = mem[q.table[d]]
  <2>1. q.table[d] \in Block
    BY <1>1, <1>3 DEF OwnBlocks, Low
  <2>2. d \in HeldCols(o)
    BY <1>3 DEF HeldCols
  <2>3. q.table[d] \notin W
    <3>. SUFFICES ASSUME q.table[d] \in W PROVE FALSE
      OBVIOUS
    <3>1. PICK e \in HeldCols(r) : req[r].table[e] = q.table[d]
      OBVIOUS
    <3>2. q.table[d] # Null
      BY <2>1, Sizes
    <3>3. \E k \in Boundary : cached[k] = q.table[d]
      BY <2>2, <3>1, <3>2 DEF LazyInv, Disjoint
    <3>. QED  BY <3>3
  <2>. QED  BY <2>1, <2>3
<1>4. ASSUME q.computed > 0 PROVE q.col \in 1 .. Len(q.table) /\ ColOf(q.computed) <= q.col
  <2>1. q.col # 0 /\ q.col <= Len(q.table)
    BY <1>1, <1>2, <1>4 DEF Tallied, Rested
  <2>. QED  BY <1>2, <2>1
<1>5. q.col + 1 <= Len(q.table) => q.col + 1 \in 1 .. Len(q.table) /\ ColOf(q.computed) <= q.col + 1
  BY <1>2
<1>6. q.computed > 0 => AsState(q.table[q.col])' = AsState(q.table[q.col])
  <2>. SUFFICES ASSUME q.computed > 0 PROVE AsState(q.table[q.col])' = AsState(q.table[q.col])
    OBVIOUS
  <2>1. mem'[q.table[q.col]] = mem[q.table[q.col]]
    BY <1>3, <1>4
  <2>. QED  BY <2>1 DEF AsState
<1>7. q.col + 1 <= Len(q.table) => mem'[q.table[q.col + 1]] = mem[q.table[q.col + 1]]
  BY <1>3, <1>5
<1>. QED  BY <1>1, <1>6, <1>7 DEF Holds

LEMMA StandingKept ==
    ASSUME NEW o, req'[o] = req[o], ~InStep(o), ~InStep(o)', Standing(o)
    PROVE  Standing(o)'
<1>1. Tallied(o)' /\ Rested(o)'
  BY DEF Standing, Tallied, Rested
<1>2. OwnBlocks(o)'
  BY DEF Standing, OwnBlocks, Low
<1>. QED  BY <1>1, <1>2 DEF Standing

LEMMA OthersKept ==
    ASSUME LazyInv, ~Idle, NEW W,
           \A w \in W : w \in Block /\ \E d \in HeldCols(step.r) : req[step.r].table[d] = w,
           \A w \in W, k \in Boundary : cached[k] # w,
           \A b \in Block \ W : mem'[b] = mem[b],
           \A o \in GlReq : o # step.r => req'[o] = req[o],
           Idle' \/ step'.r = step.r,
           NEW o \in Live, o # step.r
    PROVE  ~InStep(o)' /\ Standing(o)' /\ Holds(o, req[o].computed, req[o].nacc)'
<1>1. ~InStep(o) /\ ~InStep(o)'
  BY DEF InStep
<1>2. req'[o] = req[o] /\ step.r \in Live
  BY StepFacts DEF Live, LazyInv
<1>3. Standing(o)'
  BY <1>1, <1>2, StandingKept DEF LazyInv
<1>4. Holds(o, req[o].computed, req[o].nacc)'
  BY ZenonT(60), <1>1, <1>2, Frame
<1>. QED  BY <1>1, <1>3, <1>4

LEMMA TablesKept ==
    ASSUME Disjoint, CachedInPlace, Live' = Live, cached' = cached,
           \A r \in Live : req'[r].table = req[r].table /\ req'[r].computed = req[r].computed
    PROVE  Disjoint' /\ CachedInPlace'
<1>1. \A r \in Live : HeldCols(r)' = HeldCols(r)
  BY DEF HeldCols
<1>2. Disjoint'
  BY <1>1 DEF Disjoint
<1>3. CachedInPlace'
  BY <1>1 DEF CachedInPlace
<1>. QED  BY <1>2, <1>3

\* A cached block is written by nobody.
LEMMA CachedKept ==
    ASSUME LazyInv, NEW W, \A w \in W, k \in Boundary : cached[k] # w,
           \A b \in Block \ W : mem'[b] = mem[b],
           NEW k \in Boundary, cached[k] # Null, cached'[k] = cached[k]
    PROVE  AsState(cached[k])' = Span(0, k * BlockSize)
<1>1. cached[k] \in Block \ W
  BY DEF LazyInv, LazyType, BlockOrNull
<1>2. mem'[cached[k]] = mem[cached[k]]
  BY <1>1
<1>3. AsState(cached[k]) = Span(0, k * BlockSize)
  BY DEF LazyInv, CheckpointsExact
<1>. QED  BY <1>2, <1>3 DEF AsState

\* The columns a step works on are the request's own, and not cached.
LEMMA StepCols ==
    ASSUME LazyInv, ~Idle
    PROVE  /\ To \in Nat /\ To >= 1 /\ step.last <= To * BlockSize
           /\ req[step.r].computed < To * BlockSize
           /\ ColOf(req[step.r].computed) \in Nat /\ ColOf(req[step.r].computed) <= Low(step.r)
           /\ Low(step.r) \in Nat /\ Low(step.r) <= To
           /\ Len(req[step.r].table) \in Nat /\ To + 1 <= Len(req[step.r].table)
           /\ To \in HeldCols(step.r) /\ To + 1 \in HeldCols(step.r)
           /\ req[step.r].table[To] \in Block /\ req[step.r].table[To + 1] \in Block
           /\ req[step.r].table[To] # req[step.r].table[To + 1]
           /\ \A k \in Boundary : /\ cached[k] # req[step.r].table[To]
                                  /\ cached[k] # req[step.r].table[To + 1]
<1>. DEFINE r == step.r
            q == req[r]
<1>1. /\ r \in Live /\ InStep(r) /\ Stepping(r) /\ OwnBlocks(r) /\ LazyType
      /\ step.last \in Nat /\ q.computed \in Nat /\ Len(q.table) \in Nat
  <2>1. LazyType
    BY DEF LazyInv
  <2>2. r \in Live /\ step.last \in Nat
    BY <2>1, StepFacts
  <2>. QED  BY <2>1, <2>2, ReqFacts DEF LazyInv, Standing, InStep
<1>2. q.computed < step.last /\ To + 1 <= Len(q.table)
  BY <1>1 DEF Stepping
<1>3. /\ To \in Nat /\ step.last <= To * BlockSize /\ To * BlockSize \in Nat
      /\ ColOf(q.computed) \in Nat
      /\ (ColOf(q.computed) <= To) = (q.computed <= To * BlockSize)
  <2>1. To \in Nat /\ (To <= To) = (step.last <= To * BlockSize)
    BY <1>1, ColOfIs DEF To
  <2>2. To * BlockSize \in Nat
    BY <2>1, Times
  <2>3. ColOf(q.computed) \in Nat /\ (ColOf(q.computed) <= To) = (q.computed <= To * BlockSize)
    BY <1>1, <2>1, ColOfIs
  <2>. QED  BY <2>1, <2>2, <2>3
<1>4. q.computed < To * BlockSize /\ ColOf(q.computed) <= To
  BY <1>1, <1>2, <1>3
<1>5. To >= 1
  <2>1. To = 0 => To * BlockSize = 0
    BY Sizes
  <2>. QED  BY <1>1, <1>3, <1>4, <2>1
<1>6. Low(r) \in {To, ColOf(q.computed)}
  BY DEF Low
<1>. HIDE DEF r, q
<1>7. Low(r) \in Nat /\ Low(r) <= To /\ ColOf(q.computed) <= Low(r)
  BY <1>3, <1>4, <1>6
<1>8. To \in 1 .. Len(q.table) /\ To + 1 \in 1 .. Len(q.table) /\ Low(r) <= To + 1
  BY <1>1, <1>2, <1>3, <1>5, <1>7
<1>9. To \in HeldCols(r) /\ To + 1 \in HeldCols(r)
  BY <1>3, <1>4, <1>8 DEF HeldCols, q
<1>10. q.table[To] \in Block /\ q.table[To + 1] \in Block
  BY <1>1, <1>7, <1>8 DEF OwnBlocks, q
<1>11. q.table[To] # q.table[To + 1]
  <2>1. q.table[To] = q.table[To + 1] => To = To + 1
    BY <1>1, <1>7, <1>8 DEF OwnBlocks, q
  <2>. QED  BY <1>3, <2>1
<1>12. \A k \in Boundary : cached[k] # q.table[To]
  BY <1>1, <1>4, <1>9, <1>10, Ahead DEF q
<1>13. \A k \in Boundary : cached[k] # q.table[To + 1]
  <2>1. q.computed < (To + 1) * BlockSize
    BY <1>1, <1>3, <1>4, Times, Sizes
  <2>. QED  BY <1>1, <1>9, <1>10, <2>1, Ahead DEF q
<1>. QED
  BY <1>1, <1>2, <1>3, <1>4, <1>5, <1>7, <1>9, <1>10, <1>11, <1>12, <1>13 DEF q, r

-----------------------------------------------------------------------------
(* Turns, their end, and the prefix cache                                  *)

LEMMA InitLazy == GlInit => LazyInv
<1>. SUFFICES ASSUME GlInit PROVE LazyInv
  OBVIOUS
<1>1. \A b \in Block : mem[b] = State(Junk)
  BY DEF GlInit
<1>2. LazyType
  <2>1. State(Junk) \in [magic : BOOLEAN, base : BlockOrNull, toks : Seq(Int)]
    BY DEF State, Junk, BlockOrNull
  <2>2. mem \in [Block -> [magic : BOOLEAN, base : BlockOrNull, toks : Seq(Int)]]
    BY <2>1 DEF GlInit
  <2>. QED  BY <2>2 DEF GlInit, LazyType, BlockOrNull, Idle
<1>3. Live = {}
  BY DEF GlInit, Live
<1>4. \A k \in Boundary : cached[k] = Null
  BY SMTT(30) DEF GlInit
<1>. QED
  BY <1>2, <1>3, <1>4 DEF LazyInv, Disjoint, CachedInPlace, CheckpointsExact, Contents

\* A request that no action of this step is about, when nothing is written.
LEMMA StillHolds ==
    ASSUME NEW o, req'[o] = req[o], mem' = mem, Holds(o, req[o].computed, req[o].nacc)
    PROVE  Holds(o, req[o].computed, req[o].nacc)'
BY DEF Holds, AsState

LEMMA FinishKeeps ==
    ASSUME LazyInv, NEW r \in GlReq, Finish(r)
    PROVE  LazyInv'
<1>1. /\ Idle /\ Idle' /\ r \in Live /\ req' = [req EXCEPT ![r] = Absent]
      /\ mem' = mem /\ cached' = cached /\ step' = step
  BY DEF Finish, Idle
<1>2. Live' = Live \ {r} /\ \A o \in Live' : o \in Live /\ req'[o] = req[o]
  <2>1. \A o \in GlReq : req'[o] = IF o = r THEN Absent ELSE req[o]
    BY <1>1 DEF LazyInv, LazyType
  <2>. QED  BY <2>1 DEF Live
<1>3. LazyType'
  BY <1>1 DEF LazyInv, LazyType
<1>4. Disjoint' /\ CachedInPlace'
  <2>1. \A o \in Live' : HeldCols(o)' = HeldCols(o)
    BY <1>2 DEF HeldCols
  <2>. QED  BY <1>1, <1>2, <2>1 DEF LazyInv, Disjoint, CachedInPlace
<1>5. CheckpointsExact'
  BY <1>1 DEF LazyInv, CheckpointsExact, AsState
<1>6. \A o \in Live' : ~InStep(o) /\ ~InStep(o)'
  BY <1>1 DEF InStep
<1>7. Contents'
  BY <1>1, <1>2, <1>6, StillHolds DEF LazyInv, Contents
<1>8. \A o \in Live' : Standing(o)'
  BY <1>2, <1>6, StandingKept DEF LazyInv
<1>. QED  BY <1>3, <1>4, <1>5, <1>7, <1>8 DEF LazyInv

LEMMA HeldCol ==
    ASSUME LazyType, NEW r \in Live, NEW d \in HeldCols(r)
    PROVE  req[r].table[d] \in Held(r)
<1>1. req[r].table \in Seq(BlockOrNull)
  BY ReqFacts
<1>2. d \in DOMAIN req[r].table /\ d >= ColOf(req[r].computed)
  <2>1. ColOf(req[r].computed) \in Nat /\ d \in 1 .. Len(req[r].table)
    BY ReqFacts, ColOfIs DEF HeldCols
  <2>. QED  BY <1>1, <2>1 DEF HeldCols
<1>. QED  BY <1>2 DEF Held

LEMMA EvictKeeps ==
    ASSUME LazyInv, NEW k \in Boundary, Evict(k)
    PROVE  LazyInv'
<1>1. /\ Idle /\ Idle' /\ cached[k] # Null /\ cached[k] \notin UNION {Held(r) : r \in Live}
      /\ cached' = [cached EXCEPT ![k] = Null]
      /\ mem' = mem /\ req' = req /\ step' = step /\ Live' = Live
  BY DEF Evict, Idle, Live
<1>2. \A j \in Boundary : cached'[j] = IF j = k THEN Null ELSE cached[j]
  BY <1>1 DEF LazyInv, LazyType
<1>3. LazyType'
  BY <1>1 DEF LazyInv, LazyType, BlockOrNull
<1>4. \A r \in Live : HeldCols(r)' = HeldCols(r)
  BY <1>1 DEF HeldCols
<1>5. \A r \in Live : \A d \in HeldCols(r) : req[r].table[d] # cached[k]
  BY <1>1, HeldCol DEF LazyInv
<1>6. Disjoint'
  <2>. SUFFICES ASSUME NEW r \in Live, NEW o \in Live, r # o,
                       NEW d \in HeldCols(r), NEW e \in HeldCols(o),
                       req[r].table[d] = req[o].table[e], req[r].table[d] # Null
                PROVE  \E j \in Boundary : cached'[j] = req[r].table[d]
    BY <1>1, <1>4 DEF Disjoint
  <2>1. PICK j \in Boundary : cached[j] = req[r].table[d]
    BY DEF LazyInv, Disjoint
  <2>. QED  BY <1>2, <1>5, <2>1
<1>7. CachedInPlace'
  BY <1>1, <1>2, <1>4 DEF LazyInv, CachedInPlace
<1>8. CheckpointsExact'
  BY <1>1, <1>2 DEF LazyInv, CheckpointsExact, AsState
<1>9. \A o \in Live : ~InStep(o) /\ ~InStep(o)'
  BY <1>1 DEF InStep
<1>10. Contents'
  BY <1>1, <1>9, StillHolds DEF LazyInv, Contents
<1>11. \A o \in Live : Standing(o)'
  BY <1>1, <1>9, StandingKept DEF LazyInv
<1>. QED  BY <1>1, <1>3, <1>6, <1>7, <1>8, <1>10, <1>11 DEF LazyInv

\* As many columns as tokens that end at a boundary.
LEMMA ColOfBoundary == \A k \in Nat : ColOf(k * BlockSize) = k
<1>. TAKE k \in Nat
<1>. DEFINE n == k * BlockSize
            c == ColOf(n)
<1>1. n \in Nat
  BY Times
<1>2. c \in Nat
  BY <1>1, ColOfIs
<1>3. (c <= k) = (n <= k * BlockSize) /\ (c <= c) = (n <= c * BlockSize)
  BY <1>1, <1>2, ColOfIs
<1>4. (k <= c) = (k * BlockSize <= c * BlockSize)
  BY <1>2, Times
<1>. HIDE DEF c
<1>. QED  BY <1>1, <1>2, <1>3, <1>4 DEF c

LEMMA ArriveKeeps ==
    ASSUME LazyInv, NEW r \in GlReq, Arrive(r)
    PROVE  LazyInv'
<1>1. PICK p \in Prompts, k \in {0} \cup {j \in Boundary : cached[j] # Null} :
        /\ k * BlockSize < p
        /\ req' = [req EXCEPT ![r] =
             [prompt |-> p, computed |-> k * BlockSize, col |-> k, nacc |-> 1,
              table |-> [c \in 1 .. k |-> IF c = k THEN cached[k] ELSE Null]]]
  BY DEF Arrive
<1>. DEFINE t == [c \in 1 .. k |-> IF c = k THEN cached[k] ELSE Null]
            q == [prompt |-> p, computed |-> k * BlockSize, col |-> k, nacc |-> 1, table |-> t]
<1>2. /\ Idle /\ Idle' /\ r \notin Live /\ mem' = mem /\ cached' = cached /\ step' = step
  BY DEF Arrive, Idle, Live
<1>3. /\ p \in Nat /\ p > 0 /\ p <= Length /\ k \in Nat /\ k * BlockSize \in Nat
      /\ k > 0 => k \in Boundary /\ cached[k] \in Block /\ cached[k] # Null
  <2>1. p \in Nat /\ p > 0 /\ p <= Length
    BY LazyAssumption
  <2>2. k \in Nat /\ (k > 0 => k \in Boundary /\ cached[k] # Null)
    BY BoundaryIs
  <2>3. k * BlockSize \in Nat
    BY <2>2, Times
  <2>4. k > 0 => cached[k] \in Block
    BY <2>2 DEF LazyInv, LazyType, BlockOrNull
  <2>. QED  BY <2>1, <2>2, <2>3, <2>4
<1>4. t \in Seq(BlockOrNull) /\ Len(t) = k /\ (k > 0 => t[k] = cached[k])
  <2>1. \A c \in 1 .. k : t[c] \in BlockOrNull
    BY <1>3 DEF BlockOrNull
  <2>. QED  BY <1>3, <2>1
<1>5. q \in LiveReq /\ q # Absent
  <2>1. q.prompt # Absent.prompt
    BY <1>3 DEF Absent
  <2>. QED  BY <1>3, <1>4, <2>1 DEF LiveReq
<1>. HIDE DEF t
<1>6. /\ \A o \in GlReq : req'[o] = IF o = r THEN q ELSE req[o]
      /\ Live' = Live \cup {r}
  <2>1. \A o \in GlReq : req'[o] = IF o = r THEN q ELSE req[o]
    BY <1>1 DEF LazyInv, LazyType, t
  <2>. HIDE DEF q
  <2>. QED  BY <1>5, <2>1 DEF Live
<1>7. /\ req'[r].prompt = p /\ req'[r].computed = k * BlockSize /\ req'[r].col = k
      /\ req'[r].nacc = 1 /\ req'[r].table = t
  BY <1>6
<1>8. LazyType'
  <2>. HIDE DEF q
  <2>1. req' \in [GlReq -> {Absent} \cup LiveReq]
    BY <1>1, <1>5 DEF LazyInv, LazyType, q, t
  <2>. QED  BY <1>2, <2>1 DEF LazyInv, LazyType
<1>. HIDE DEF q
<1>9. \A o \in Live : o # r /\ req'[o] = req[o] /\ HeldCols(o)' = HeldCols(o)
  BY <1>2, <1>6 DEF HeldCols, Live
<1>10. ColOf(k * BlockSize) = k
  BY <1>3, ColOfBoundary
<1>11. \A d \in HeldCols(r)' : d = k /\ k > 0
  BY <1>3, <1>4, <1>7, <1>10 DEF HeldCols
<1>12. Disjoint'
  <2>1. \A o \in Live, d \in HeldCols(r)' : \E j \in Boundary : cached'[j] = req'[r].table[d]
    BY <1>2, <1>3, <1>4, <1>7, <1>11
  <2>. QED  BY <1>2, <1>6, <1>9, <2>1 DEF LazyInv, Disjoint
<1>13. \A i, j \in Boundary : cached[i] = cached[j] /\ cached[i] # Null => i = j
  <2>. SUFFICES ASSUME NEW i \in Boundary, NEW j \in Boundary,
                       cached[i] = cached[j], cached[i] # Null
                PROVE  i = j
    OBVIOUS
  <2>1. Span(0, i * BlockSize) = Span(0, j * BlockSize)
    BY DEF LazyInv, CheckpointsExact
  <2>2. i \in Nat /\ j \in Nat
    BY BoundaryIs
  <2>3. i * BlockSize \in Nat /\ j * BlockSize \in Nat
    BY <2>2, Times
  <2>4. Len(Span(0, i * BlockSize)) = i * BlockSize /\ Len(Span(0, j * BlockSize)) = j * BlockSize
    BY SMTT(30), <2>3, SpanIs
  <2>5. i * BlockSize = j * BlockSize
    BY <2>1, <2>4
  <2>. QED  BY <2>2, <2>3, <2>5, Times
<1>14. CachedInPlace'
  <2>1. ASSUME NEW d \in HeldCols(r)', NEW j \in Boundary,
               cached'[j] = req'[r].table[d], cached'[j] # Null
        PROVE  j = d /\ d * BlockSize <= req'[r].computed
    BY <1>2, <1>3, <1>4, <1>7, <1>11, <1>13, <2>1
  <2>. QED  BY <1>2, <1>6, <1>9, <2>1 DEF LazyInv, CachedInPlace
<1>15. CheckpointsExact'
  BY <1>2 DEF LazyInv, CheckpointsExact, AsState
<1>16. \A o \in Live' : ~InStep(o) /\ ~InStep(o)'
  BY <1>2 DEF InStep
<1>17. Holds(r, req[r].computed, req[r].nacc)'
  <2>1. k * BlockSize > 0 => k > 0
    BY <1>3, Sizes
  <2>2. k > 0 => AsState(cached[k]) = Span(0, k * BlockSize)
    BY <1>3 DEF LazyInv, CheckpointsExact
  <2>3. k > 0 => req'[r].table[req'[r].col] = cached[k]
    BY <1>4, <1>7
  <2>4. k > 0 => AsState(req[r].table[req[r].col])' = Span(0, k * BlockSize)
    BY <1>2, <2>2, <2>3 DEF AsState
  <2>5. k * BlockSize - (1 - 1) = k * BlockSize
    BY <1>3
  <2>. QED  BY <1>7, <2>1, <2>4, <2>5 DEF Holds
<1>18. Contents'
  BY <1>2, <1>6, <1>9, <1>16, <1>17, StillHolds DEF LazyInv, Contents
<1>19. Standing(r)'
  <2>1. Tallied(r)'
    <3>1. k = 0 => k * BlockSize = 0
      BY Sizes
    <3>. QED  BY <1>1, <1>3, <1>7, <3>1, Sizes DEF Tallied
  <2>2. OwnBlocks(r)'
    <3>1. Low(r)' = k
      BY <1>7, <1>10, <1>16, <1>6 DEF Low
    <3>. QED  BY <1>3, <1>4, <1>7, <3>1 DEF OwnBlocks
  <2>3. Rested(r)'
    BY <1>1, <1>3, <1>4, <1>7, <1>10 DEF Rested
  <2>. QED  BY <1>6, <1>16, <2>1, <2>2, <2>3 DEF Standing
<1>20. \A o \in Live : Standing(o)'
  BY <1>6, <1>9, <1>16, StandingKept DEF LazyInv
<1>. QED  BY <1>6, <1>8, <1>12, <1>14, <1>15, <1>18, <1>19, <1>20 DEF LazyInv

-----------------------------------------------------------------------------
(* The forward of a step                                                   *)

Bytes == [magic : BOOLEAN, base : BlockOrNull, toks : Seq(Int)]

LEMMA StepStands ==
    ASSUME LazyInv, ~Idle
    PROVE  /\ LazyType /\ step.r \in Live /\ InStep(step.r)
           /\ Tallied(step.r) /\ OwnBlocks(step.r) /\ Stepping(step.r)
<1>1. LazyType
  BY DEF LazyInv
<1>2. step.r \in Live /\ InStep(step.r)
  BY <1>1, StepFacts DEF InStep
<1>. QED  BY <1>1, <1>2 DEF LazyInv, Standing

LEMMA ForwardKeeps ==
    ASSUME LazyInv, ~Idle, step.at = "forward",
           NEW n \in 1 .. step.last - req[step.r].computed, step.prefill => n = 1,
           step' = [step EXCEPT !.at = "checkpoint", !.nacc = n],
           cached' = cached, req' = req, mem' \in [Block -> Bytes],
           \A b \in Block \ {Base, StashOf} : mem'[b] = mem[b],
           Holds(step.r, NewComputed, step.nacc)'
    PROVE  LazyInv'
<1>1. /\ LazyType /\ step.r \in Live /\ InStep(step.r)
      /\ Tallied(step.r) /\ OwnBlocks(step.r) /\ Stepping(step.r)
  BY StepStands
<1>2. step \in ActiveStep /\ n \in Nat
  BY <1>1, StepFacts
<1>3. /\ step' \in ActiveStep /\ step'.r = step.r /\ step'.last = step.last
      /\ step'.prefill = step.prefill /\ step'.at = "checkpoint" /\ step'.nacc = n
  BY <1>2 DEF ActiveStep
<1>4. ~Idle' /\ Live' = Live /\ To' = To
  <2>1. step' # NoStep
    BY <1>3 DEF NoStep
  <2>. QED  BY <1>3, <2>1 DEF Idle, Live, To, ColOf
<1>5. LazyType'
  BY <1>1, <1>3, <1>4 DEF LazyType, Bytes
<1>6. Disjoint' /\ CachedInPlace'
  BY <1>4, TablesKept DEF LazyInv
<1>. DEFINE W == {Base, StashOf}
<1>7. Base = req[step.r].table[To] /\ StashOf = req[step.r].table[To + 1]
  BY <1>1 DEF Stepping, Base, StashOf
<1>8. /\ \A w \in W : w \in Block /\ \E d \in HeldCols(step.r) : req[step.r].table[d] = w
      /\ \A w \in W, k \in Boundary : cached[k] # w
  BY <1>7, StepCols
<1>9. CheckpointsExact'
  <2>. HIDE DEF W
  <2>1. \A b \in Block \ W : mem'[b] = mem[b]
    BY DEF W
  <2>2. \A k \in Boundary : cached[k] # Null => AsState(cached[k])' = Span(0, k * BlockSize)
    BY <1>8, <2>1, CachedKept
  <2>. QED  BY <2>2 DEF CheckpointsExact
<1>10. \A o \in Live : o # step.r =>
          ~InStep(o)' /\ Standing(o)' /\ Holds(o, req[o].computed, req[o].nacc)'
  <2>. HIDE DEF W
  <2>1. \A b \in Block \ W : mem'[b] = mem[b]
    BY DEF W
  <2>. QED  BY <1>3, <1>8, <2>1, OthersKept
<1>11. InStep(step.r)'
  BY <1>3, <1>4 DEF InStep
<1>12. Contents'
  BY <1>3, <1>4, <1>10, <1>11 DEF Contents
<1>13. Standing(step.r)'
  <2>1. Tallied(step.r)'
    BY <1>1, <1>3 DEF Tallied
  <2>2. OwnBlocks(step.r)'
    <3>1. Low(step.r)' = Low(step.r)
      BY <1>1, <1>3, <1>4, <1>11 DEF Low
    <3>. QED  BY <1>1, <1>3, <3>1 DEF OwnBlocks
  <2>3. Stepping(step.r)'
    BY <1>1, <1>2, <1>3, <1>4 DEF Stepping
  <2>. QED  BY <1>11, <2>1, <2>2, <2>3 DEF Standing
<1>. QED  BY <1>3, <1>4, <1>5, <1>6, <1>9, <1>10, <1>12, <1>13 DEF LazyInv

LEMMA OwnBlocksKept ==
    ASSUME NEW o, OwnBlocks(o), req'[o].table = req[o].table, Low(o)' = Low(o)
    PROVE  OwnBlocks(o)'
BY DEF OwnBlocks

LEMMA MigratedKeeps ==
    ASSUME LazyInv, ~Idle, step.at = "migrate", NEW n \in {1, req[step.r].nacc},
           step' = [step EXCEPT !.at = "forward"], cached' = cached,
           req' = [req EXCEPT ![step.r].col = To, ![step.r].nacc = n],
           mem' \in [Block -> Bytes],
           \A b \in Block \ {req[step.r].table[To], req[step.r].table[To + 1]} : mem'[b] = mem[b],
           Holds(step.r, req[step.r].computed, req[step.r].nacc)'
    PROVE  LazyInv'
<1>1. /\ LazyType /\ step.r \in Live /\ InStep(step.r)
      /\ Tallied(step.r) /\ OwnBlocks(step.r) /\ Stepping(step.r)
  BY StepStands
<1>2. /\ step \in ActiveStep /\ step.r \in GlReq /\ req[step.r] \in LiveReq
      /\ req[step.r].computed \in Nat /\ req[step.r].nacc \in Nat /\ req[step.r].nacc >= 1
  BY <1>1, StepFacts, ReqFacts
<1>3. /\ step' \in ActiveStep /\ step'.r = step.r /\ step'.last = step.last
      /\ step'.prefill = step.prefill /\ step'.at = "forward"
  BY <1>2 DEF ActiveStep
<1>4. /\ To \in Nat /\ To >= 1 /\ step.last <= To * BlockSize
      /\ req[step.r].computed < To * BlockSize
      /\ To + 1 <= Len(req[step.r].table)
  BY StepCols
<1>5. /\ req'[step.r].prompt = req[step.r].prompt /\ req'[step.r].computed = req[step.r].computed
      /\ req'[step.r].table = req[step.r].table /\ req'[step.r].col = To
      /\ req'[step.r].nacc = n /\ req'[step.r] \in LiveReq
      /\ \A o \in GlReq : o # step.r => req'[o] = req[o]
  <2>1. n \in Nat \ {0}
    BY <1>2
  <2>2. req'[step.r] = [req[step.r] EXCEPT !.col = To, !.nacc = n]
    BY <1>1, <1>2 DEF LazyType
  <2>3. \A o \in GlReq : o # step.r => req'[o] = req[o]
    BY <1>1 DEF LazyType
  <2>. DEFINE q == [req[step.r] EXCEPT !.col = To, !.nacc = n]
  <2>4. q \in LiveReq
    BY <1>2, <1>4, <2>1 DEF LiveReq
  <2>5. /\ q.prompt = req[step.r].prompt /\ q.computed = req[step.r].computed
        /\ q.table = req[step.r].table /\ q.col = To /\ q.nacc = n
    BY <1>2 DEF LiveReq
  <2>. HIDE DEF q
  <2>6. req'[step.r] = q
    BY <2>2 DEF q
  <2>. QED  BY <2>3, <2>4, <2>5, <2>6
<1>6. Live' = Live /\ To' = To /\ ~Idle'
  <2>1. req'[step.r].prompt # 0 /\ Absent.prompt = 0
    BY <1>1, <1>5, ReqFacts DEF Absent
  <2>2. step' # NoStep
    BY <1>3 DEF NoStep
  <2>3. req'[step.r] # Absent
    BY <2>1
  <2>4. Live' = Live
    BY <1>1, <1>2, <1>5, <2>3 DEF Live
  <2>. QED  BY <1>3, <2>2, <2>4 DEF Idle, To, ColOf
<1>7. LazyType'
  <2>1. req' \in [GlReq -> {Absent} \cup LiveReq]
    BY <1>1, <1>2, <1>5 DEF LazyType
  <2>. QED  BY <1>1, <1>3, <1>6, <2>1 DEF LazyType, Bytes
<1>8. Disjoint' /\ CachedInPlace'
  <2>1. \A o \in Live : req'[o].table = req[o].table /\ req'[o].computed = req[o].computed
    BY <1>5 DEF Live
  <2>. QED  BY <1>6, <2>1, TablesKept DEF LazyInv
<1>. DEFINE W == {req[step.r].table[To], req[step.r].table[To + 1]}
<1>9. /\ \A w \in W : w \in Block /\ \E d \in HeldCols(step.r) : req[step.r].table[d] = w
      /\ \A w \in W, k \in Boundary : cached[k] # w
      /\ \A b \in Block \ W : mem'[b] = mem[b]
  BY StepCols
<1>. HIDE DEF W
<1>10. CheckpointsExact'
  <2>1. \A k \in Boundary : cached[k] # Null => AsState(cached[k])' = Span(0, k * BlockSize)
    BY <1>9, CachedKept
  <2>. QED  BY <2>1 DEF CheckpointsExact
<1>11. \A o \in Live : o # step.r =>
          ~InStep(o)' /\ Standing(o)' /\ Holds(o, req[o].computed, req[o].nacc)'
  BY <1>3, <1>5, <1>9, OthersKept
<1>12. InStep(step.r)'
  BY <1>3, <1>6 DEF InStep
<1>13. Contents'
  BY <1>3, <1>6, <1>11, <1>12 DEF Contents
<1>14. Standing(step.r)'
  <2>1. Tallied(step.r)'
    <3>1. req[step.r].computed <= To * BlockSize /\ To # 0
      <4>1. To * BlockSize \in Nat
        BY <1>4, Times
      <4>. QED  BY <1>2, <1>4, <4>1
    <3>2. n <= GlNSpec + 1 /\ n - 1 <= req[step.r].computed
      BY <1>1, <1>2, Sizes DEF Tallied
    <3>3. /\ req[step.r].computed <= Length
          /\ req[step.r].computed < req[step.r].prompt => n = 1
      BY <1>1 DEF Tallied
    <3>. QED  BY <1>3, <1>5, <3>1, <3>2, <3>3 DEF Tallied
  <2>2. OwnBlocks(step.r)'
    <3>1. Low(step.r)' = Low(step.r)
      BY <1>1, <1>3, <1>5, <1>6, <1>12 DEF Low
    <3>2. PICK r : r = step.r
      OBVIOUS
    <3>3. OwnBlocks(r)'
      BY <1>1, <1>3, <1>5, <3>1, <3>2, OwnBlocksKept
    <3>. QED  BY <1>3, <3>2, <3>3
  <2>3. Stepping(step.r)'
    BY <1>1, <1>2, <1>3, <1>5, <1>6 DEF Stepping
  <2>. QED  BY <1>12, <2>1, <2>2, <2>3 DEF Standing
<1>. QED  BY <1>3, <1>6, <1>7, <1>8, <1>10, <1>11, <1>13, <1>14 DEF LazyInv

\* What the request of a step has, until its forward is through.
LEMMA StepHolds ==
    ASSUME LazyInv, ~Idle, step.at # "checkpoint"
    PROVE  Holds(step.r, req[step.r].computed, req[step.r].nacc)
BY StepStands DEF LazyInv, Contents

LEMMA SpanTyped == \A n \in Nat : Span(0, n) \in Seq(Int) /\ State(Span(0, n)) \in Bytes
<1>. TAKE n \in Nat
<1>1. Span(0, n) \in Seq(Int)
  BY SpanIs
<1>. QED  BY <1>1 DEF State, Bytes, BlockOrNull

LEMMA JunkTyped == State(Junk) \in Bytes
BY SMTT(30) DEF State, Junk, Bytes, BlockOrNull

LEMMA MigrateMoves ==
    ASSUME LazyInv, ~Idle, step.at = "migrate",
           req[step.r].col # 0, req[step.r].col # To
    PROVE  LET q == req[step.r] IN
           /\ q.table[q.col] \in Block /\ q.table[q.col + 1] \in Block
           /\ q.computed \in Nat
           /\ AsState(q.table[q.col]) \o Replay(q.table[q.col], q.table[q.col + 1], q.nacc - 1)
                = Span(0, q.computed)
<1>. DEFINE q == req[step.r]
<1>1. /\ LazyType /\ step.r \in Live /\ InStep(step.r)
      /\ Tallied(step.r) /\ OwnBlocks(step.r) /\ Stepping(step.r)
  BY StepStands
<1>2. /\ q.computed \in Nat /\ q.nacc \in Nat /\ q.nacc >= 1 /\ q.col \in Nat
      /\ Len(q.table) \in Nat
  BY <1>1, ReqFacts
<1>3. /\ To \in Nat /\ q.table[To] \in Block /\ ColOf(q.computed) \in Nat
      /\ To + 1 <= Len(q.table)
  BY StepCols
<1>4. /\ q.col > 0 /\ q.col <= Len(q.table) /\ q.table[q.col] \in Block /\ q.computed > 0
  BY <1>1, <1>2 DEF Stepping
<1>5. q.table[q.col + 1] \in Block
  <2>1. CASE step.prefill
    <3>1. q.col <= To
      BY <1>1, <2>1 DEF Stepping
    <3>2. q.col < To
      BY <1>2, <1>3, <3>1
    <3>3. q.table[q.col + 1] = q.table[To]
      BY <1>1, <1>4, <3>2 DEF Stepping
    <3>. QED  BY <1>3, <3>3
  <2>2. CASE ~step.prefill
    <3>1. q.col + 1 <= Len(q.table)
      BY <1>1, <2>2 DEF Stepping
    <3>2. q.computed <= q.col * BlockSize
      BY <1>1 DEF Tallied
    <3>3. ColOf(q.computed) <= q.col
      BY <1>2, <3>2, ColOfIs
    <3>4. Low(step.r) = ColOf(q.computed)
      BY <2>2 DEF Low
    <3>5. q.col + 1 \in 1 .. Len(q.table) /\ Low(step.r) <= q.col + 1
      BY SMTT(30), <1>2, <1>3, <3>1, <3>3, <3>4
    <3>. QED  BY <1>1, <3>5 DEF OwnBlocks
  <2>. QED  BY <2>1, <2>2
<1>6. q.nacc - 1 <= q.computed /\ q.nacc <= GlNSpec + 1
  BY <1>1 DEF Tallied
<1>7. Holds(step.r, q.computed, q.nacc)
  BY StepHolds
<1>. DEFINE m == q.nacc - 1
<1>8. m \in 0 .. q.nacc - 1
  BY <1>2
<1>9. q.computed - (q.nacc - 1) + m = q.computed
  BY <1>2
<1>. HIDE DEF m
<1>10. AsState(q.table[q.col]) \o Replay(q.table[q.col], q.table[q.col + 1], m)
         = Span(0, q.computed - (q.nacc - 1) + m)
  BY ZenonT(60), <1>1, <1>2, <1>4, <1>5, <1>6, <1>7, <1>8, Materialised
<1>. QED  BY <1>2, <1>4, <1>5, <1>9, <1>10 DEF m

\* A request whose base has all its tokens.
LEMMA HoldsBase ==
    ASSUME NEW o, NEW c \in Nat, NEW b, c > 0 => req'[o].table[req'[o].col] = b,
           mem'[b].magic = FALSE, mem'[b].toks = Span(0, c)
    PROVE  Holds(o, c, 1)'
<1>1. c - (1 - 1) = c
  OBVIOUS
<1>. QED  BY <1>1 DEF Holds, AsState

LEMMA HoldsKept ==
    ASSUME NEW o, NEW c, NEW n, Holds(o, c, n), mem' = mem,
           c > 0 => req'[o].table = req[o].table /\ req'[o].col = req[o].col
    PROVE  Holds(o, c, n)'
BY DEF Holds, AsState

LEMMA MigrateKeeps ==
    ASSUME LazyInv, Migrate
    PROVE  LazyInv'
<1>. DEFINE q == req[step.r]
            moves == q.col # 0 /\ q.col # To
            b == q.table[q.col]
            s == q.table[q.col + 1]
            d == q.table[To]
            e == q.table[To + 1]
<1>1. /\ ~Idle /\ step.at = "migrate" /\ cached' = cached
      /\ step' = [step EXCEPT !.at = "forward"]
      /\ mem' = IF moves /\ Null \notin {b, s, d} THEN Moved(b, s, d, e, q.nacc - 1) ELSE mem
      /\ req' = [req EXCEPT ![step.r].col = To, ![step.r].nacc = IF moves THEN 1 ELSE @]
  BY DEF Migrate, To
<1>2. /\ LazyType /\ step.r \in Live /\ step.r \in GlReq /\ Tallied(step.r) /\ Stepping(step.r)
      /\ q \in LiveReq
  BY <1>1, StepStands, StepFacts, ReqFacts
<1>3. mem \in [Block -> Bytes]
  BY SMTT(30), <1>2 DEF LazyType, Bytes
<1>4. CASE ~moves
  <2>1. req' = [req EXCEPT ![step.r].col = To, ![step.r].nacc = q.nacc]
    BY <1>1, <1>2, <1>4 DEF LazyType, LiveReq
  <2>2. /\ req'[step.r].col = To /\ req'[step.r].nacc = q.nacc
        /\ req'[step.r].table = q.table /\ req'[step.r].computed = q.computed
    BY <1>2, <2>1 DEF LazyType, LiveReq
  <2>3. mem' = mem /\ step'.r = step.r
    BY <1>1, <1>4, StepFacts DEF ActiveStep, LazyInv
  <2>4. q.col = 0 => q.computed = 0
    BY <1>2 DEF Tallied
  <2>5. Holds(step.r, q.computed, q.nacc)
    BY <1>1, StepHolds
  <2>6. Holds(step.r, req[step.r].computed, req[step.r].nacc)'
    <3>1. PICK o, c, n : o = step.r /\ c = q.computed /\ n = q.nacc
      OBVIOUS
    <3>2. c > 0 => req[o].col = To
      BY <1>2, <1>4, <2>4, <3>1, ReqFacts
    <3>3. Holds(o, c, n)'
      BY SMTT(30), <2>2, <2>3, <2>5, <3>1, <3>2, HoldsKept
    <3>. QED  BY <2>2, <2>3, <3>1, <3>3
  <2>. QED  BY <1>1, <1>3, <2>1, <2>3, <2>6, MigratedKeeps
<1>5. CASE moves
  <2>1. /\ b \in Block /\ s \in Block /\ q.computed \in Nat
        /\ AsState(b) \o Replay(b, s, q.nacc - 1) = Span(0, q.computed)
    BY <1>1, <1>5, MigrateMoves
  <2>2. d \in Block /\ e \in Block /\ d # e
    BY <1>1, StepCols
  <2>. HIDE DEF b, s, d, e
  <2>3. mem' = [[mem EXCEPT ![d] = State(Span(0, q.computed))] EXCEPT ![e] = State(Junk)]
    BY <1>1, <1>5, <2>1, <2>2, Sizes DEF Moved, Invalidated
  <2>4. /\ mem' \in [Block -> Bytes] /\ mem'[d] = State(Span(0, q.computed))
        /\ \A x \in Block \ {d, e} : mem'[x] = mem[x]
    BY <1>3, <2>1, <2>2, <2>3, SpanTyped, JunkTyped
  <2>5. req' = [req EXCEPT ![step.r].col = To, ![step.r].nacc = 1]
    BY <1>1, <1>5
  <2>6. /\ req'[step.r].col = To /\ req'[step.r].nacc = 1
        /\ req'[step.r].table = q.table /\ req'[step.r].computed = q.computed
    BY <1>2, <2>5 DEF LazyType, LiveReq
  <2>7. step'.r = step.r
    BY <1>1, StepFacts DEF ActiveStep, LazyInv
  <2>8. Holds(step.r, req[step.r].computed, req[step.r].nacc)'
    <3>1. PICK o, c, x : o = step.r /\ c = q.computed /\ x = d
      OBVIOUS
    <3>2. req'[o].table[req'[o].col] = x
      BY <2>6, <3>1 DEF d
    <3>3. mem'[x].magic = FALSE /\ mem'[x].toks = Span(0, c)
      BY <2>4, <3>1 DEF State
    <3>4. Holds(o, c, 1)'
      BY <2>1, <3>1, <3>2, <3>3, HoldsBase
    <3>. QED  BY <2>6, <2>7, <3>1, <3>4
  <2>. QED  BY ZenonT(60), <1>1, <2>4, <2>5, <2>8, MigratedKeeps DEF d, e
<1>. QED  BY <1>4, <1>5

\* The columns of a step that has migrated.
LEMMA ForwardCols ==
    ASSUME LazyInv, ~Idle, step.at # "migrate"
    PROVE  /\ req[step.r].col = To
           /\ Base = req[step.r].table[To] /\ StashOf = req[step.r].table[To + 1]
           /\ Base \in Block /\ StashOf \in Block /\ Base # StashOf
<1>1. req[step.r].col = To
  BY StepStands DEF Stepping
<1>. QED  BY <1>1, StepCols DEF Base, StashOf

LEMMA EmptySpan == Span(0, 0) = <<>>
<1>1. Span(0, 0) \in Seq(Int) /\ Len(Span(0, 0)) = 0
  BY SpanIs
<1>. QED  BY <1>1

LEMMA EndsEmpty == \A s \in Seq(Int) : s \o <<>> = s
OBVIOUS

LEMMA ResumedIs ==
    ASSUME LazyInv, ~Idle, step.at = "forward"
    PROVE  Resumed = Span(0, req[step.r].computed)
<1>. DEFINE c == req[step.r].computed
            n == req[step.r].nacc
<1>1. /\ LazyType /\ step.r \in Live /\ Tallied(step.r) /\ Stepping(step.r)
      /\ c \in Nat /\ n \in Nat /\ n >= 1
  BY StepStands, ReqFacts
<1>2. Holds(step.r, c, n)
  BY StepHolds
<1>3. Base \in Block /\ StashOf \in Block
  BY ForwardCols
<1>4. CASE c = 0
  BY <1>4, EmptySpan DEF Resumed
<1>5. CASE c # 0 /\ step.prefill
  <2>1. n = 1
    BY <1>1, <1>5 DEF Stepping, Tallied
  <2>2. c > 0 /\ c - (n - 1) = c
    BY <1>1, <1>5, <2>1
  <2>3. AsState(Base) = Span(0, c)
    BY <1>2, <2>2 DEF Holds, Base
  <2>4. Span(0, c) \o <<>> = Span(0, c)
    BY <1>1, SpanTyped, EndsEmpty
  <2>. QED  BY <1>5, <2>3, <2>4 DEF Resumed
<1>6. CASE c # 0 /\ ~step.prefill
  <2>1. c > 0 /\ n - 1 <= c /\ n <= GlNSpec + 1
    BY <1>1, <1>6 DEF Tallied
  <2>. DEFINE m == n - 1
  <2>2. m \in 0 .. n - 1 /\ c - (n - 1) + m = c
    BY SMTT(30), <1>1, <2>1
  <2>. HIDE DEF m
  <2>3. AsState(Base) \o Replay(Base, StashOf, m) = Span(0, c - (n - 1) + m)
    BY <1>1, <1>2, <1>3, <2>1, <2>2, Materialised DEF Base, StashOf
  <2>. QED  BY <1>6, <2>2, <2>3 DEF Resumed, m
<1>. QED  BY <1>4, <1>5, <1>6

LEMMA PrefillKeeps ==
    ASSUME LazyInv, Prefill
    PROVE  LazyInv'
<1>. DEFINE c == req[step.r].computed
            l == step.last
<1>1. /\ ~Idle /\ step.at = "forward" /\ step.prefill /\ cached' = cached /\ req' = req
      /\ mem' = [Invalidated(mem, StashOf) EXCEPT ![Base] = State(Resumed \o Span(c, l))]
      /\ step' = [step EXCEPT !.at = "checkpoint", !.nacc = 1]
  BY DEF Prefill
<1>2. /\ LazyType /\ step.r \in Live /\ Stepping(step.r)
      /\ step \in ActiveStep /\ c \in Nat /\ l \in Nat
  BY <1>1, StepStands, StepFacts, ReqFacts
<1>3. c < l
  BY <1>2 DEF Stepping
<1>4. /\ Base \in Block /\ StashOf \in Block /\ Base # StashOf
      /\ Base = req[step.r].table[To] /\ req[step.r].col = To
  BY <1>1, ForwardCols
<1>. HIDE DEF c, l
<1>5. Resumed \o Span(c, l) = Span(0, l)
  <2>1. Resumed = Span(0, c)
    BY <1>1, ResumedIs DEF c
  <2>2. /\ Span(c, l) \in Seq(Int) /\ Len(Span(c, l)) = l - c
        /\ \A i \in 1 .. l - c : Span(c, l)[i] = c + i
    BY <1>2, <1>3, SpanIs
  <2>3. PICK s \in Seq(Int) : s = Span(c, l)
    BY <2>2
  <2>4. Len(s) = l - c /\ \A i \in 1 .. l - c : s[i] = c + i
    BY <2>2, <2>3
  <2>5. c \in Nat /\ l \in Nat /\ c <= l
    BY <1>2, <1>3
  <2>6. Span(0, c) \o s = Span(0, l)
    BY <2>4, <2>5, SpanJoin
  <2>. QED  BY <2>1, <2>3, <2>6
<1>6. mem \in [Block -> Bytes]
  BY <1>2 DEF LazyType, Bytes
<1>7. mem' = [[mem EXCEPT ![StashOf] = State(Junk)] EXCEPT ![Base] = State(Span(0, l))]
  BY <1>1, <1>4, <1>5, Sizes DEF Invalidated
<1>8. /\ mem' \in [Block -> Bytes] /\ mem'[Base] = State(Span(0, l))
      /\ \A x \in Block \ {Base, StashOf} : mem'[x] = mem[x]
  BY <1>2, <1>4, <1>6, <1>7, SpanTyped, JunkTyped
<1>9. step'.r = step.r /\ step'.prefill /\ step'.last = l /\ step'.nacc = 1
  BY <1>1, <1>2 DEF ActiveStep, l
<1>10. Holds(step.r, NewComputed, step.nacc)'
  <2>1. PICK o, b, k : o = step.r /\ b = Base /\ k = l
    OBVIOUS
  <2>2. req'[o].table[req'[o].col] = b
    BY <1>1, <1>4, <2>1
  <2>3. mem'[b].magic = FALSE /\ mem'[b].toks = Span(0, k)
    BY <1>8, <2>1 DEF State
  <2>4. Holds(o, k, 1)'
    BY <1>2, <2>1, <2>2, <2>3, HoldsBase
  <2>. QED  BY <1>9, <2>1, <2>4 DEF NewComputed
<1>11. 1 \in 1 .. step.last - req[step.r].computed
  BY <1>2, <1>3 DEF c, l
<1>. QED  BY <1>1, <1>8, <1>10, <1>11, ForwardKeeps

\* A request whose stash has the last n - 1 of its tokens.
LEMMA HoldsStash ==
    ASSUME NEW o, NEW c \in Nat, NEW n \in Nat, n >= 1, NEW b, NEW s,
           req'[o].table[req'[o].col] = b, req'[o].table[req'[o].col + 1] = s,
           req'[o].col + 1 <= Len(req'[o].table),
           mem'[b].magic = FALSE, mem'[b].toks = Span(0, c + 1),
           mem'[s].magic, mem'[s].base = b, Len(mem'[s].toks) >= n - 1,
           \A i \in 1 .. n - 1 : mem'[s].toks[i] = c + 1 + i
    PROVE  Holds(o, c + n, n)'
<1>. DEFINE k == c + n
<1>1. k - (n - 1) = c + 1
  OBVIOUS
<1>2. \A i \in 1 .. n - 1 : mem'[s].toks[i] = k - (n - 1) + i
  BY <1>1
<1>. HIDE DEF k
<1>3. Holds(o, k, n)'
  BY <1>1, <1>2 DEF Holds, AsState
<1>. QED  BY <1>3 DEF k

\* The candidates behind the first, of which the first n - 1 are accepted.
LEMMA CandidatesAre ==
    ASSUME NEW c \in Nat, NEW l \in Nat, NEW n \in 1 .. l - c, l - c <= GlNSpec + 1
    PROVE  LET cs == SubSeq(Candidates(c, l, n), 1, Smaller(l - c, MaxT) - 1)
           IN  /\ cs \in Seq(Int) /\ Len(cs) = l - c - 1
               /\ \A i \in 1 .. n - 1 : cs[i] = c + 1 + i
<1>. DEFINE k == l - c - 1
            full == Candidates(c, l, n)
<1>1. k \in Nat /\ n \in Nat /\ n - 1 <= k
  OBVIOUS
<1>2. Smaller(l - c, MaxT) - 1 = k
  BY Sizes DEF Smaller
<1>3. full = [i \in 1 .. k |-> IF i < n THEN c + 1 + i ELSE -(c + 1 + i)]
  BY DEF Candidates
<1>. HIDE DEF k, full
<1>4. full \in Seq(Int) /\ Len(full) = k /\ \A i \in 1 .. k : i < n => full[i] = c + 1 + i
  <2>1. \A i \in 1 .. k : (IF i < n THEN c + 1 + i ELSE -(c + 1 + i)) \in Int
    BY <1>1
  <2>. QED  BY <1>1, <1>3, <2>1
<1>5. /\ SubSeq(full, 1, k) \in Seq(Int) /\ Len(SubSeq(full, 1, k)) = k
      /\ \A i \in 1 .. k : SubSeq(full, 1, k)[i] = full[i]
  BY <1>1, <1>4, PrefixIs
<1>6. \A i \in 1 .. n - 1 : i \in 1 .. k /\ i < n
  BY <1>1
<1>7. \A i \in 1 .. n - 1 : SubSeq(full, 1, k)[i] = c + 1 + i
  BY <1>4, <1>5, <1>6
<1>. QED  BY <1>2, <1>5, <1>7 DEF full, k

LEMMA DecodeKeeps ==
    ASSUME LazyInv, Decode
    PROVE  LazyInv'
<1>. DEFINE c == req[step.r].computed
            l == step.last
<1>1. /\ ~Idle /\ step.at = "forward" /\ ~step.prefill /\ cached' = cached /\ req' = req
  BY DEF Decode
<1>2. PICK n \in 1 .. l - c :
        /\ mem' = [mem EXCEPT
             ![Base] = State(Append(Resumed, c + 1)),
             ![StashOf] = Stash(Base, SubSeq(Candidates(c, l, n), 1, Smaller(l - c, MaxT) - 1))]
        /\ step' = [step EXCEPT !.at = "checkpoint", !.nacc = n]
  BY DEF Decode
<1>3. /\ LazyType /\ step.r \in Live /\ Stepping(step.r)
      /\ step \in ActiveStep /\ c \in Nat /\ l \in Nat
  BY <1>1, StepStands, StepFacts, ReqFacts
<1>4. c < l /\ l <= c + GlNSpec + 1
  BY <1>1, <1>3 DEF Stepping
<1>5. n \in Nat /\ n >= 1 /\ l - c <= GlNSpec + 1 /\ n <= l - c
  BY <1>3, <1>4, Sizes
<1>6. /\ Base \in Block /\ StashOf \in Block /\ Base # StashOf /\ req[step.r].col = To
      /\ Base = req[step.r].table[To] /\ StashOf = req[step.r].table[To + 1]
      /\ To + 1 <= Len(req[step.r].table)
  BY <1>1, ForwardCols, StepCols
<1>. DEFINE cs == SubSeq(Candidates(c, l, n), 1, Smaller(l - c, MaxT) - 1)
<1>7. cs \in Seq(Int) /\ Len(cs) = l - c - 1 /\ \A i \in 1 .. n - 1 : cs[i] = c + 1 + i
  BY <1>3, <1>5, CandidatesAre
<1>8. Append(Resumed, c + 1) = Span(0, c + 1)
  <2>1. Resumed = Span(0, c)
    BY <1>1, ResumedIs
  <2>2. Span(0, c) \in Seq(Int) /\ Len(Span(0, c)) = c /\ \A i \in 1 .. c : Span(0, c)[i] = i
    BY <1>3 DEF Span
  <2>3. Span(0, c + 1) \in Seq(Int) /\ Len(Span(0, c + 1)) = c + 1
        /\ \A i \in 1 .. c + 1 : Span(0, c + 1)[i] = i
    BY <1>3 DEF Span
  <2>. DEFINE a == Append(Span(0, c), c + 1)
  <2>4. a \in Seq(Int) /\ Len(a) = c + 1 /\ \A i \in 1 .. c + 1 : a[i] = i
    <3>1. PICK s, d : s = Span(0, c) /\ d = c
      OBVIOUS
    <3>2. s \in Seq(Int) /\ Len(s) = d /\ d \in Nat /\ \A i \in 1 .. d : s[i] = i
      BY <1>3, <2>2, <3>1
    <3>3. Append(s, d + 1) \in Seq(Int) /\ Len(Append(s, d + 1)) = d + 1
      BY <3>2
    <3>4. ASSUME NEW i \in 1 .. d + 1 PROVE Append(s, d + 1)[i] = i
      BY <3>2, <3>4
    <3>. QED  BY <3>1, <3>3, <3>4
  <2>. HIDE DEF a
  <2>5. a = Span(0, c + 1)
    BY <2>3, <2>4, SameTokens
  <2>. QED  BY <2>1, <2>5 DEF a
<1>9. mem \in [Block -> Bytes]
  BY <1>3 DEF LazyType, Bytes
<1>. HIDE DEF c, l, cs
<1>10. State(Span(0, c + 1)) \in Bytes /\ Stash(Base, cs) \in Bytes
  <2>1. c + 1 \in Nat
    BY <1>3
  <2>. QED  BY <1>6, <1>7, <2>1, SpanTyped DEF Stash, Bytes, BlockOrNull
<1>11. mem' = [mem EXCEPT ![Base] = State(Span(0, c + 1)), ![StashOf] = Stash(Base, cs)]
  BY <1>2, <1>8 DEF cs
<1>12. /\ mem' \in [Block -> Bytes] /\ mem'[Base] = State(Span(0, c + 1))
       /\ mem'[StashOf] = Stash(Base, cs)
       /\ \A x \in Block \ {Base, StashOf} : mem'[x] = mem[x]
  BY <1>6, <1>9, <1>10, <1>11
<1>13. step'.r = step.r /\ step'.prefill = step.prefill /\ step'.nacc = n
  BY <1>2, <1>3 DEF ActiveStep
<1>14. Holds(step.r, NewComputed, step.nacc)'
  <2>1. PICK o, b, s, f, k : o = step.r /\ b = Base /\ s = StashOf /\ k = c /\ f = cs
    OBVIOUS
  <2>2. /\ req'[o].table[req'[o].col] = b /\ req'[o].table[req'[o].col + 1] = s
        /\ req'[o].col + 1 <= Len(req'[o].table)
    BY <1>1, <1>6, <2>1
  <2>3. mem'[b].magic = FALSE /\ mem'[b].toks = Span(0, k + 1)
    BY <1>12, <2>1 DEF State
  <2>4. mem'[s].magic /\ mem'[s].base = b /\ mem'[s].toks = f
    BY <1>12, <2>1 DEF Stash
  <2>5. Len(f) >= n - 1 /\ \A i \in 1 .. n - 1 : f[i] = k + 1 + i
    BY <1>3, <1>5, <1>7, <2>1
  <2>6. Holds(o, k + n, n)'
    <3>1. k \in Nat /\ n \in Nat /\ n >= 1
      BY <1>3, <1>5, <2>1
    <3>2. Len(mem'[s].toks) >= n - 1 /\ \A i \in 1 .. n - 1 : mem'[s].toks[i] = k + 1 + i
      BY <2>4, <2>5
    <3>. HIDE <1>2, <1>7
    <3>. QED  BY <2>2, <2>3, <2>4, <3>1, <3>2, HoldsStash
  <2>7. NewComputed' = k + n
    BY <1>1, <1>13, <2>1 DEF NewComputed, c
  <2>. QED  BY <1>13, <2>1, <2>6, <2>7
<1>15. n \in 1 .. step.last - req[step.r].computed
  BY DEF c, l
<1>. QED  BY <1>1, <1>2, <1>12, <1>14, <1>15, ForwardKeeps

-----------------------------------------------------------------------------
(* The end of a step                                                       *)

LEMMA ColOfGrows == \A a, b \in Nat : a <= b => ColOf(a) <= ColOf(b)
<1>. TAKE a, b \in Nat
<1>. DEFINE d == ColOf(b)
<1>1. d \in Nat /\ (d <= d) = (b <= d * BlockSize) /\ (ColOf(a) <= d) = (a <= d * BlockSize)
  <2>1. d \in Nat
    BY ColOfIs
  <2>. QED  BY <2>1, ColOfIs
<1>2. d * BlockSize \in Nat
  BY <1>1, Times
<1>. HIDE DEF d
<1>3. ASSUME a <= b PROVE ColOf(a) <= d
  BY <1>1, <1>2, <1>3
<1>. QED  BY <1>3 DEF d

LEMMA CheckpointFacts ==
    ASSUME LazyInv, ~Idle, step.at = "checkpoint"
    PROVE  /\ NewComputed \in Nat /\ step.nacc \in Nat /\ step.nacc >= 1
           /\ req[step.r].computed \in Nat
           /\ req[step.r].computed < NewComputed
           /\ NewComputed <= step.last /\ step.last \in Nat /\ NewComputed <= Length
           /\ step.nacc <= GlNSpec + 1 /\ step.nacc - 1 <= NewComputed
           /\ req[step.r].computed + 1 <= NewComputed - (step.nacc - 1)
           /\ step.prefill => NewComputed = step.last /\ step.nacc = 1
           /\ Holds(step.r, NewComputed, step.nacc)
<1>. DEFINE c == req[step.r].computed
            n == step.nacc
            l == step.last
<1>1. /\ LazyType /\ step.r \in Live /\ InStep(step.r) /\ Stepping(step.r)
      /\ c \in Nat /\ n \in Nat /\ l \in Nat /\ step.prefill \in BOOLEAN
  BY StepStands, StepFacts, ReqFacts
<1>2. /\ n \in 1 .. l - c /\ l <= Length /\ c < l
      /\ step.prefill => n = 1
      /\ ~step.prefill => l <= c + GlNSpec + 1
  BY <1>1 DEF Stepping
<1>3. Holds(step.r, NewComputed, n)
  BY <1>1 DEF LazyInv, Contents
<1>. HIDE DEF c, n, l
<1>4. CASE step.prefill
  <2>1. NewComputed = l /\ n = 1
    BY <1>2, <1>4 DEF NewComputed, l
  <2>2. l - (n - 1) = l /\ c + 1 <= l /\ n <= GlNSpec + 1 /\ n - 1 <= l
    BY <1>1, <1>2, <2>1, Sizes
  <2>. QED  BY <1>1, <1>2, <1>3, <2>1, <2>2 DEF c, n, l
<1>5. CASE ~step.prefill
  <2>1. NewComputed = c + n
    BY <1>5 DEF NewComputed, c, n
  <2>2. /\ c + n \in Nat /\ c < c + n /\ c + n <= l /\ c + n <= Length /\ n <= GlNSpec + 1
        /\ n - 1 <= c + n /\ c + 1 <= c + n - (n - 1) /\ n >= 1
    BY <1>1, <1>2, <1>5, Sizes
  <2>. QED  BY <1>1, <1>3, <1>5, <2>1, <2>2 DEF c, n, l
<1>. QED  BY <1>4, <1>5

\* A checkpoint that falls due is of a column that is the request's own and not cached,
\* and the base and its stash have all its tokens.
LEMMA DueFacts ==
    ASSUME LazyInv, ~Idle, step.at = "checkpoint",
           Due(NewComputed, step.nacc) >= 0, NEW k, k = NewComputed \div BlockSize
    PROVE  /\ k \in Boundary /\ k * BlockSize \in Nat /\ k * BlockSize <= NewComputed
           /\ Low(step.r) <= k /\ k <= To /\ k \in HeldCols(step.r)
           /\ req[step.r].table[k] \in Block
           /\ \A j \in Boundary : cached[j] # req[step.r].table[k]
           /\ k = To => NewComputed = k * BlockSize
           /\ Len(Replay(Base, StashOf, Due(NewComputed, step.nacc))) = Due(NewComputed, step.nacc)
           /\ AsState(Base) \o Replay(Base, StashOf, Due(NewComputed, step.nacc))
                = Span(0, k * BlockSize)
           /\ Due(NewComputed, step.nacc) = 0 => AsState(Base) = Span(0, k * BlockSize)
<1>. DEFINE c == req[step.r].computed
            n == step.nacc
            l == step.last
            new == NewComputed
            due == Due(NewComputed, step.nacc)
            kb == k * BlockSize
<1>1. /\ new \in Nat /\ n \in Nat /\ n >= 1 /\ c \in Nat /\ c < new
      /\ new <= l /\ l \in Nat /\ new <= Length
      /\ n <= GlNSpec + 1 /\ n - 1 <= new /\ c + 1 <= new - (n - 1)
      /\ step.prefill => new = l /\ n = 1
      /\ Holds(step.r, new, n)
  BY CheckpointFacts
<1>2. /\ LazyType /\ step.r \in Live /\ OwnBlocks(step.r)
      /\ To \in Nat /\ l <= To * BlockSize /\ To * BlockSize \in Nat
      /\ Low(step.r) \in Nat /\ Low(step.r) <= To
      /\ ColOf(c) \in Nat /\ ColOf(c) <= Low(step.r)
      /\ Len(req[step.r].table) \in Nat /\ To + 1 <= Len(req[step.r].table)
  BY StepStands, StepCols, Times
<1>3. k \in Nat /\ (k <= k) = (kb <= new)
  BY <1>1, LastBoundary
<1>4. kb \in Nat /\ To * BlockSize \in Nat
      /\ (k <= To) = (kb <= To * BlockSize)
      /\ (ColOf(c) <= k) = (c <= kb)
      /\ (ColOf(l) <= k) = (l <= kb)
  BY <1>1, <1>2, <1>3, Times, ColOfIs
<1>5. due = kb - (new - n + 1) /\ due >= 0
  BY DEF Due
<1>6. due \in 0 .. n - 1 /\ new - (n - 1) + due = kb /\ kb <= new /\ c < kb /\ kb <= Length
  <2>. HIDE DEF c, n, l, new, due, kb
  <2>1. kb <= new
    BY <1>3
  <2>2. kb \in Nat /\ Length \in Nat
    BY <1>4, Sizes
  <2>3. new \in Nat /\ n \in Nat /\ c \in Nat /\ new <= Length /\ n >= 1
        /\ n - 1 <= new /\ c + 1 <= new - (n - 1)
    BY <1>1
  <2>. QED  BY <1>5, <2>1, <2>2, <2>3
<1>7. k <= To /\ ColOf(c) <= k
  <2>. HIDE DEF c, n, l, new, due, kb
  <2>. QED  BY <1>1, <1>2, <1>4, <1>6
<1>8. k >= 1
  <2>1. k = 0 => kb = 0
    BY Sizes
  <2>. HIDE DEF c, kb
  <2>. QED  BY <1>1, <1>3, <1>6, <2>1
<1>9. k \in Boundary
  BY <1>3, <1>6, <1>8, BoundaryIs
<1>10. Low(step.r) <= k
  <2>1. CASE step.prefill
    <3>1. l <= kb
      <4>. HIDE DEF c, n, l, new, due, kb
      <4>. QED  BY <1>1, <1>3, <1>4, <1>5, <2>1
    <3>2. To = ColOf(l)
      BY DEF To
    <3>. QED  BY <1>2, <1>3, <1>4, <3>1, <3>2
  <2>2. CASE ~step.prefill
    BY <1>7, <2>2 DEF Low
  <2>. QED  BY <2>1, <2>2
<1>11. k \in 1 .. Len(req[step.r].table) /\ k \in HeldCols(step.r)
  BY <1>2, <1>3, <1>7, <1>8 DEF HeldCols
<1>12. req[step.r].table[k] \in Block
  BY <1>2, <1>10, <1>11 DEF OwnBlocks
<1>13. \A j \in Boundary : cached[j] # req[step.r].table[k]
  BY <1>2, <1>6, <1>11, <1>12, Ahead
<1>14. k = To => new = kb
  <2>. HIDE DEF c, n, l, new, due
  <2>. QED  BY SMTT(30), <1>1, <1>2, <1>6
<1>15. Base \in Block /\ StashOf \in Block
  BY ForwardCols
<1>. HIDE DEF c, n, l, new, due, kb
<1>16. Len(Replay(Base, StashOf, due)) = due
       /\ AsState(Base) \o Replay(Base, StashOf, due) = Span(0, new - (n - 1) + due)
  <2>1. new \in Nat /\ n \in Nat /\ new > 0 /\ n >= 1 /\ n - 1 <= new /\ n <= GlNSpec + 1
    BY <1>1
  <2>2. LazyType /\ step.r \in Live /\ Holds(step.r, new, n) /\ due \in 0 .. n - 1
    BY <1>1, <1>2, <1>6
  <2>. HIDE <1>1, <1>2, <1>3, <1>4, <1>5, <1>6
  <2>. QED  BY <1>15, <2>1, <2>2, Materialised DEF Base, StashOf
<1>17. ASSUME due = 0 PROVE AsState(Base) = Span(0, kb)
  <2>1. AsState(Base) = Span(0, new - (n - 1))
    BY <1>1 DEF Holds, Base
  <2>2. new - (n - 1) = kb
    BY <1>1, <1>4, <1>6, <1>17
  <2>. QED  BY SMTT(30), <2>1, <2>2
<1>. QED
  BY <1>4, <1>6, <1>7, <1>9, <1>10, <1>11, <1>12, <1>13, <1>14, <1>16, <1>17 DEF due, new, n, kb

\* A request that has moved on holds less, and what is cached of it is cached in its place.
LEMMA CheckpointTables ==
    ASSUME LazyInv, ~Idle, step.at = "checkpoint", Live' = Live,
           req'[step.r].table = req[step.r].table, req'[step.r].computed = NewComputed,
           \A o \in Live : o # step.r => req'[o] = req[o],
           \/ cached' = cached
           \/ \E k \in Boundary :
                 /\ k \in HeldCols(step.r) /\ Low(step.r) <= k /\ k * BlockSize <= NewComputed
                 /\ req[step.r].table[k] \in Block
                 /\ \A j \in Boundary : cached[j] # req[step.r].table[k]
                 /\ cached[k] = Null /\ cached' = [cached EXCEPT ![k] = req[step.r].table[k]]
    PROVE  Disjoint' /\ CachedInPlace'
<1>1. /\ LazyType /\ step.r \in Live /\ OwnBlocks(step.r)
      /\ req[step.r].computed \in Nat /\ NewComputed \in Nat
      /\ req[step.r].computed < NewComputed
      /\ step.prefill => NewComputed = step.last
  BY StepStands, CheckpointFacts
<1>2. /\ ColOf(req[step.r].computed) \in Nat /\ ColOf(NewComputed) \in Nat
      /\ ColOf(req[step.r].computed) <= ColOf(NewComputed)
      /\ Low(step.r) \in Nat /\ Low(step.r) <= ColOf(NewComputed)
  <2>1. ColOf(req[step.r].computed) \in Nat /\ ColOf(NewComputed) \in Nat
    BY <1>1, ColOfIs
  <2>2. ColOf(req[step.r].computed) <= ColOf(NewComputed)
    BY <1>1, ColOfGrows
  <2>. QED  BY <1>1, <2>1, <2>2 DEF Low, To
<1>3. \A o \in Live : /\ req'[o].table = req[o].table
                      /\ HeldCols(o)' \subseteq HeldCols(o)
                      /\ req[o].computed \in Nat /\ req'[o].computed \in Nat
                      /\ req[o].computed <= req'[o].computed
                      /\ o = step.r => \A d \in HeldCols(o)' : Low(o) <= d
  <2>. TAKE o \in Live
  <2>1. CASE o = step.r
    BY <1>1, <1>2, <2>1 DEF HeldCols
  <2>2. CASE o # step.r
    <3>1. req[o].computed \in Nat /\ req'[o] = req[o]
      BY <1>1, <2>2, ReqFacts
    <3>. QED  BY <2>2, <3>1 DEF HeldCols
  <2>. QED  BY <2>1, <2>2
<1>4. \A j \in Boundary : cached[j] # Null => cached'[j] = cached[j]
  BY <1>1 DEF LazyType
<1>5. Disjoint'
  <2>. SUFFICES ASSUME NEW r \in Live, NEW o \in Live, r # o,
                       NEW d \in HeldCols(r)', NEW e \in HeldCols(o)',
                       req[r].table[d] = req[o].table[e], req[r].table[d] # Null
                PROVE  \E j \in Boundary : cached'[j] = req[r].table[d]
    BY <1>3 DEF Disjoint
  <2>1. PICK j \in Boundary : cached[j] = req[r].table[d]
    BY <1>3 DEF LazyInv, Disjoint
  <2>. QED  BY <1>4, <2>1
<1>6. CachedInPlace'
  <2>. SUFFICES ASSUME NEW o \in Live, NEW d \in HeldCols(o)', NEW j \in Boundary,
                       cached'[j] = req[o].table[d], cached'[j] # Null
                PROVE  j = d /\ d * BlockSize <= req'[o].computed
    BY <1>3 DEF CachedInPlace
  <2>1. d \in HeldCols(o) /\ d \in Nat /\ d \in 1 .. Len(req[o].table)
    BY <1>3 DEF HeldCols
  <2>2. d * BlockSize \in Nat
    BY <2>1, Times
  <2>3. CASE cached'[j] = cached[j]
    <3>1. j = d /\ d * BlockSize <= req[o].computed
      BY ZenonT(60), <2>1, <2>3 DEF LazyInv, CachedInPlace
    <3>2. req[o].computed \in Nat /\ req'[o].computed \in Nat /\ req[o].computed <= req'[o].computed
      BY <1>3
    <3>. QED  BY <2>2, <3>1, <3>2
  <2>4. CASE cached'[j] # cached[j]
    <3>1. /\ j \in HeldCols(step.r) /\ Low(step.r) <= j /\ j * BlockSize <= NewComputed
          /\ req[step.r].table[j] \in Block
          /\ \A i \in Boundary : cached[i] # req[step.r].table[j]
          /\ cached'[j] = req[step.r].table[j]
      BY <1>1, <2>4 DEF LazyType
    <3>2. o = step.r
      <4>. SUFFICES ASSUME o # step.r PROVE FALSE
        OBVIOUS
      <4>1. req[step.r].table[j] = req[o].table[d] /\ req[step.r].table[j] # Null
        BY <3>1
      <4>2. \E i \in Boundary : cached[i] = req[step.r].table[j]
        BY <1>1, <2>1, <3>1, <4>1 DEF LazyInv, Disjoint
      <4>. QED  BY <3>1, <4>2
    <3>3. Low(o) <= d
      BY <1>3, <3>2
    <3>4. j \in 1 .. Len(req[o].table)
      BY <3>1, <3>2 DEF HeldCols
    <3>5. j = d
      BY <1>1, <2>1, <3>1, <3>2, <3>3, <3>4 DEF OwnBlocks
    <3>. QED  BY <3>1, <3>2, <3>5
  <2>. QED  BY <2>3, <2>4
<1>. QED  BY <1>5, <1>6

\* What the end of a step comes to: the request r has c tokens, n - 1 of them in its stash,
\* blocks of W have been written, and one of them may be cached.
Checkpointed(r, c, n, W) ==
    /\ r = step.r /\ c = NewComputed /\ n \in {1, step.nacc} /\ step' = NoStep
    /\ req' = [req EXCEPT ![r].computed = c, ![r].nacc = n]
    /\ mem' \in [Block -> Bytes]
    /\ \A w \in W : w \in Block /\ \E d \in HeldCols(r) : req[r].table[d] = w
    /\ \A w \in W, k \in Boundary : cached[k] # w
    /\ \A b \in Block \ W : mem'[b] = mem[b]
    /\ \/ cached' = cached
       \/ \E k \in Boundary :
             /\ k \in HeldCols(r) /\ Low(r) <= k /\ k * BlockSize <= c
             /\ req[r].table[k] \in Block
             /\ \A j \in Boundary : cached[j] # req[r].table[k]
             /\ cached[k] = Null /\ cached' = [cached EXCEPT ![k] = req[r].table[k]]

LEMMA CheckpointedKeeps ==
    ASSUME LazyInv, ~Idle, step.at = "checkpoint", NEW r, NEW c, NEW n, NEW W,
           Checkpointed(r, c, n, W), CheckpointsExact', Holds(r, c, n)'
    PROVE  LazyInv'
<1>. USE DEF Checkpointed
<1>1. /\ LazyType /\ r \in Live /\ r \in GlReq /\ req[r] \in LiveReq
      /\ Tallied(r) /\ OwnBlocks(r) /\ Stepping(r) /\ req[r].col = To
      /\ req[r].prompt \in Nat /\ req[r].prompt > 0
  BY StepStands, StepFacts, ReqFacts, ForwardCols
<1>2. /\ c \in Nat /\ n \in Nat /\ n >= 1 /\ req[r].computed \in Nat /\ req[r].computed < c
      /\ c <= step.last /\ c <= Length /\ step.last \in Nat
      /\ n <= GlNSpec + 1 /\ n - 1 <= c
      /\ step.prefill => c = step.last /\ n = 1
  <2>1. n >= 1 /\ n \in Nat /\ n <= GlNSpec + 1 /\ n - 1 <= c /\ c \in Nat
    BY CheckpointFacts, Sizes
  <2>. QED  BY <2>1, CheckpointFacts
<1>3. /\ To \in Nat /\ To >= 1 /\ step.last <= To * BlockSize /\ To * BlockSize \in Nat
      /\ Len(req[r].table) \in Nat /\ To + 1 <= Len(req[r].table)
  <2>1. To \in Nat
    BY StepCols
  <2>. QED  BY <2>1, StepCols, Times
<1>4. /\ req'[r].prompt = req[r].prompt /\ req'[r].computed = c /\ req'[r].nacc = n
      /\ req'[r].table = req[r].table /\ req'[r].col = To /\ req'[r] \in LiveReq
      /\ \A o \in GlReq : o # r => req'[o] = req[o]
  <2>. DEFINE q == [req[r] EXCEPT !.computed = c, !.nacc = n]
  <2>1. q \in LiveReq
    <3>1. n \in Nat \ {0}
      BY <1>2
    <3>. QED  BY <1>1, <1>2, <3>1 DEF LiveReq
  <2>2. /\ q.prompt = req[r].prompt /\ q.computed = c /\ q.nacc = n
        /\ q.table = req[r].table /\ q.col = To
    BY <1>1 DEF LiveReq
  <2>3. req'[r] = q
    BY <1>1 DEF LazyType
  <2>4. \A o \in GlReq : o # r => req'[o] = req[o]
    BY <1>1 DEF LazyType
  <2>. HIDE DEF q
  <2>. QED  BY <2>1, <2>2, <2>3, <2>4
<1>5. Live' = Live /\ Idle' /\ \A o : ~InStep(o)'
  <2>1. req'[r].prompt # 0 /\ Absent.prompt = 0
    BY <1>1, <1>4 DEF Absent
  <2>2. req'[r] # Absent
    BY <2>1
  <2>3. Live' = Live
    BY <1>1, <1>4, <2>2 DEF Live
  <2>. QED  BY <2>3 DEF Idle, InStep
<1>6. LazyType'
  <2>1. req' \in [GlReq -> {Absent} \cup LiveReq]
    <3>1. \A o \in GlReq : req'[o] \in {Absent} \cup LiveReq
      BY <1>1, <1>4 DEF LazyType
    <3>2. req' = [o \in GlReq |-> req'[o]]
      BY <1>1 DEF LazyType
    <3>. QED  BY <3>1, <3>2
  <2>2. cached' \in [Boundary -> BlockOrNull]
    BY <1>1 DEF LazyType, BlockOrNull
  <2>. QED  BY <1>5, <2>1, <2>2 DEF LazyType, Bytes, Idle
<1>7. Disjoint' /\ CachedInPlace'
  <2>1. \A o \in Live : o # step.r => req'[o] = req[o]
    BY <1>4 DEF Live
  <2>. QED  BY <1>4, <1>5, <2>1, CheckpointTables
<1>8. \A o \in Live : o # r => Standing(o)' /\ Holds(o, req[o].computed, req[o].nacc)'
  <2>. TAKE o \in Live
  <2>1. \A x \in GlReq : x # step.r => req'[x] = req[x]
    BY <1>4
  <2>2. /\ \A w \in W : w \in Block /\ \E d \in HeldCols(step.r) : req[step.r].table[d] = w
        /\ \A w \in W, k \in Boundary : cached[k] # w
        /\ \A b \in Block \ W : mem'[b] = mem[b]
    OBVIOUS
  <2>. QED  BY <1>5, <2>1, <2>2, OthersKept
<1>9. Contents'
  <2>. SUFFICES ASSUME NEW o \in Live PROVE Holds(o, req[o].computed, req[o].nacc)'
    BY <1>5 DEF Contents
  <2>1. CASE o = r
    BY <1>4, <2>1
  <2>2. CASE o # r
    BY <1>8, <2>2
  <2>. QED  BY <2>1, <2>2
<1>10. Standing(r)'
  <2>1. req[r].computed < req[r].prompt => step.prefill
    BY <1>1 DEF Stepping
  <2>2. c < req[r].prompt => step.prefill
    BY <1>1, <1>2, <2>1
  <2>3. Tallied(r)'
    <3>1. c <= To * BlockSize /\ To # 0
      BY SMTT(30), <1>2, <1>3
    <3>. QED  BY <1>2, <1>4, <2>2, <3>1 DEF Tallied
  <2>4. OwnBlocks(r)'
    <3>1. Low(r)' = ColOf(c)
      BY <1>4, <1>5 DEF Low
    <3>2. ColOf(req[r].computed) <= ColOf(c)
      BY <1>2, ColOfGrows
    <3>3. Low(r) <= ColOf(c) /\ Low(r) \in Nat /\ ColOf(c) \in Nat
      BY <1>2, <3>2, ColOfIs, StepCols DEF Low, To
    <3>4. \A d \in 1 .. Len(req[r].table) : ColOf(c) <= d => Low(r) <= d
      BY <3>3
    <3>5. \A d \in 1 .. Len(req[r].table) : ColOf(c) <= d => req[r].table[d] \in Block
      BY <1>1, <3>4 DEF OwnBlocks
    <3>6. \A d, e \in 1 .. Len(req[r].table) :
             ColOf(c) <= d /\ ColOf(c) <= e /\ req[r].table[d] = req[r].table[e] => d = e
      BY <1>1, <3>4 DEF OwnBlocks
    <3>7. req'[r].table = req[r].table
      BY <1>4
    <3>8. \A d \in 1 .. Len(req'[r].table) : Low(r)' <= d => req'[r].table[d] \in Block
      BY <3>1, <3>5, <3>7
    <3>9. \A d, e \in 1 .. Len(req'[r].table) :
             Low(r)' <= d /\ Low(r)' <= e /\ req'[r].table[d] = req'[r].table[e] => d = e
      BY <3>1, <3>6, <3>7
    <3>. QED  BY <3>8, <3>9 DEF OwnBlocks
  <2>5. Rested(r)'
    <3>1. step.prefill => To = ColOf(c) /\ Len(req[r].table) = To + 1
      BY <1>1, <1>2 DEF Stepping, To
    <3>2. To <= Len(req[r].table) /\ Len(req[r].table) # To /\ To # 0
      BY <1>3
    <3>3. Len(req[r].table) = To + 1 => Len(req[r].table) <= To + 1
      BY <1>3
    <3>. QED  BY <1>4, <2>2, <3>1, <3>2, <3>3 DEF Rested
  <2>. QED  BY <1>5, <2>3, <2>4, <2>5 DEF Standing
<1>. QED  BY <1>5, <1>6, <1>7, <1>8, <1>9, <1>10 DEF LazyInv

\* A request whose base and stash are left alone.
LEMMA HoldsSame ==
    ASSUME NEW o, NEW c, NEW n, Holds(o, c, n), NEW b, NEW s,
           b = req[o].table[req[o].col], s = req[o].table[req[o].col + 1],
           req'[o].table = req[o].table, req'[o].col = req[o].col,
           mem'[b] = mem[b], mem'[s] = mem[s]
    PROVE  Holds(o, c, n)'
<1>1. /\ b = req'[o].table[req'[o].col] /\ s = req'[o].table[req'[o].col + 1]
      /\ AsState(b)' = AsState(b)
  BY SMTT(30) DEF AsState
<1>2. c > 0 => /\ AsState(b) = Span(0, c - (n - 1))
               /\ n > 1 => /\ req[o].col + 1 <= Len(req[o].table)
                           /\ mem[s].magic /\ mem[s].base = b
                           /\ Len(mem[s].toks) >= n - 1
                           /\ \A i \in 1 .. n - 1 : mem[s].toks[i] = c - (n - 1) + i
  BY ZenonT(60) DEF Holds
<1>3. c > 0 => /\ AsState(b)' = Span(0, c - (n - 1))
               /\ n > 1 => /\ req'[o].col + 1 <= Len(req'[o].table)
                           /\ mem'[s].magic /\ mem'[s].base = b
                           /\ Len(mem'[s].toks) >= n - 1
                           /\ \A i \in 1 .. n - 1 : mem'[s].toks[i] = c - (n - 1) + i
  BY <1>1, <1>2
<1>4. SUFFICES ASSUME c > 0
      PROVE  /\ AsState(req[o].table[req[o].col])' = Span(0, c - (n - 1))
             /\ n > 1 =>
                   /\ req'[o].col + 1 <= Len(req'[o].table)
                   /\ mem'[req'[o].table[req'[o].col + 1]].magic
                   /\ mem'[req'[o].table[req'[o].col + 1]].base = req'[o].table[req'[o].col]
                   /\ Len(mem'[req'[o].table[req'[o].col + 1]].toks) >= n - 1
                   /\ \A i \in 1 .. n - 1 :
                         mem'[req'[o].table[req'[o].col + 1]].toks[i] = c - (n - 1) + i
  BY Zenon DEF Holds
<1>5. AsState(req[o].table[req[o].col])' = AsState(b)'
  BY <1>1 DEF AsState
<1>. QED  BY <1>1, <1>3, <1>4, <1>5, Zenon

LEMMA HoldsState ==
    ASSUME NEW o, NEW c \in Nat, NEW b, req'[o].table[req'[o].col] = b,
           AsState(b)' = Span(0, c)
    PROVE  Holds(o, c, 1)'
<1>1. c - (1 - 1) = c
  OBVIOUS
<1>. QED  BY <1>1 DEF Holds

LEMMA CheckpointKeeps ==
    ASSUME LazyInv, Checkpoint
    PROVE  LazyInv'
<1>1. PICK r, c, n, k, due, inPlace :
        /\ r = step.r /\ c = NewComputed /\ n = step.nacc /\ k = c \div BlockSize
        /\ due = Due(c, n) /\ inPlace = (due >= 0 /\ k = req[r].col)
  BY SMTT(30)
<1>2. /\ ~Idle /\ step.at = "checkpoint" /\ step' = NoStep
      /\ mem' = IF due < 0 \/ (inPlace /\ due = 0) \/ req[r].table[k] = Null THEN mem
                ELSE [mem EXCEPT ![req[r].table[k]] =
                        State(AsState(Base) \o Replay(Base, StashOf, due))]
      /\ cached' = IF due >= 0 /\ cached[k] = Null
                   THEN [cached EXCEPT ![k] = req[r].table[k]] ELSE cached
      /\ req' = [req EXCEPT ![r].computed = c, ![r].nacc = AcceptedSlot(n, inPlace)]
  BY <1>1 DEF Checkpoint, NewComputed
<1>3. /\ c \in Nat /\ n \in Nat /\ n >= 1 /\ Holds(r, c, n) /\ due \in Int
  <2>1. c \in Nat /\ n \in Nat /\ n >= 1 /\ Holds(r, c, n)
    BY <1>1, <1>2, CheckpointFacts
  <2>2. k \in Nat
    BY <1>1, <2>1, LastBoundary
  <2>3. k * BlockSize \in Nat
    BY <2>2, Times
  <2>4. due = k * BlockSize - (c - n + 1)
    BY <1>1 DEF Due
  <2>. QED  BY <2>1, <2>3, <2>4
<1>4. /\ mem \in [Block -> Bytes] /\ r \in Live
      /\ req[r] \in LiveReq /\ req[r].col = To
      /\ Base = req[r].table[To] /\ StashOf = req[r].table[To + 1]
      /\ Base \in Block /\ StashOf \in Block /\ cached \in [Boundary -> BlockOrNull]
  BY <1>1, <1>2, StepStands, StepFacts, ReqFacts, ForwardCols DEF LazyType, Bytes
<1>. DEFINE m == AcceptedSlot(n, inPlace)
<1>5. m \in {1, n}
  BY DEF AcceptedSlot
<1>6. req'[r].table = req[r].table /\ req'[r].col = req[r].col
  BY <1>2, <1>4 DEF LazyType, LazyInv, Live, LiveReq
<1>7. CASE due < 0
  <2>1. ~(due >= 0)
    BY <1>3, <1>7
  <2>2. mem' = mem /\ cached' = cached /\ m = n
    BY <1>1, <1>2, <1>7, <2>1 DEF AcceptedSlot
  <2>3. CheckpointsExact'
    BY <2>2 DEF LazyInv, CheckpointsExact, AsState
  <2>4. Holds(r, c, m)'
    BY <1>3, <1>6, <2>2, HoldsKept
  <2>. DEFINE W == {}
  <2>5. /\ \A w \in W : w \in Block /\ \E d \in HeldCols(r) : req[r].table[d] = w
        /\ \A w \in W, j \in Boundary : cached[j] # w
        /\ \A b \in Block \ W : mem'[b] = mem[b]
    BY <2>2
  <2>6. mem' \in [Block -> Bytes]
    BY <1>4, <2>2
  <2>7. PICK a, w : a = m /\ w = W
    OBVIOUS
  <2>. HIDE DEF W, m
  <2>8. a \in {1, step.nacc} /\ req' = [req EXCEPT ![r].computed = c, ![r].nacc = a]
    BY <1>1, <1>2, <1>5, <2>7 DEF m
  <2>9. Holds(r, c, a)'
    BY <2>4, <2>7
  <2>10. /\ \A x \in w : x \in Block /\ \E d \in HeldCols(r) : req[r].table[d] = x
         /\ \A x \in w, j \in Boundary : cached[j] # x
         /\ \A b \in Block \ w : mem'[b] = mem[b]
    BY <2>5, <2>7
  <2>11. r = step.r /\ c = NewComputed /\ ~Idle /\ step.at = "checkpoint" /\ step' = NoStep
    BY <1>1, <1>2
  <2>12. Checkpointed(r, c, a, w)
    BY <2>2, <2>6, <2>8, <2>10, <2>11 DEF Checkpointed
  <2>. QED  BY <2>3, <2>9, <2>11, <2>12, CheckpointedKeeps
<1>8. CASE due >= 0
  <2>. DEFINE d == req[r].table[k]
              full == Span(0, k * BlockSize)
              W == {d}
  <2>1. /\ k \in Boundary /\ k * BlockSize \in Nat /\ k * BlockSize <= c
        /\ Low(r) <= k /\ k <= To /\ k \in HeldCols(r) /\ d \in Block
        /\ \A j \in Boundary : cached[j] # d
        /\ k = To => c = k * BlockSize
        /\ AsState(Base) \o Replay(Base, StashOf, due) = full
        /\ due = 0 => AsState(Base) = full
    BY <1>1, <1>2, <1>8, DueFacts
  <2>. HIDE DEF full
  <2>2. AsState(d)' = full /\ (\A b \in Block \ W : mem'[b] = mem[b]) /\ mem' \in [Block -> Bytes]
    <3>1. d # Null /\ ~(due < 0)
      BY <1>3, <1>8, <2>1, Sizes
    <3>2. CASE inPlace /\ due = 0
      <4>1. mem' = mem
        BY <1>2, <3>2
      <4>2. Base = d
        BY <1>1, <1>4, <3>2
      <4>3. AsState(d) = full
        BY <2>1, <3>2, <4>2
      <4>. QED  BY <1>4, <1>6, <4>1, <4>3 DEF AsState
    <3>3. CASE ~(inPlace /\ due = 0)
      <4>1. mem' = [mem EXCEPT ![d] = State(full)]
        BY <1>2, <2>1, <3>1, <3>3
      <4>2. State(full) \in Bytes
        BY <2>1, SpanTyped DEF full
      <4>3. mem'[d] = State(full) /\ (\A b \in Block \ W : mem'[b] = mem[b])
            /\ mem' \in [Block -> Bytes]
        BY <1>4, <2>1, <4>1, <4>2
      <4>4. AsState(d)' = full
        <5>1. PICK b : b = d
          OBVIOUS
        <5>2. AsState(b)' = full
          BY <4>3, <5>1 DEF AsState, State
        <5>3. d' = d
          BY <1>6
        <5>. QED  BY <5>1, <5>2, <5>3
      <4>. QED  BY <4>3, <4>4
    <3>. QED  BY <3>2, <3>3
  <2>3. \A w \in W, j \in Boundary : cached[j] # w
    BY <2>1
  <2>4. \A w \in W : w \in Block /\ \E e \in HeldCols(r) : req[r].table[e] = w
    BY <2>1
  <2>5. \/ cached' = cached
        \/ cached[k] = Null /\ cached' = [cached EXCEPT ![k] = d]
    BY <1>2
  <2>6. \A j \in Boundary : cached'[j] = cached[j] \/ (j = k /\ cached'[j] = d)
    BY <1>4, <2>1, <2>5
  <2>7. CheckpointsExact'
    <3>. SUFFICES ASSUME NEW j \in Boundary, cached'[j] # Null
                  PROVE  AsState(cached[j])' = Span(0, j * BlockSize)
      BY DEF CheckpointsExact
    <3>1. CASE cached'[j] = cached[j]
      <4>. HIDE DEF W
      <4>1. AsState(cached[j])' = Span(0, j * BlockSize)
        BY <2>2, <2>3, <3>1, CachedKept
      <4>. QED  BY <4>1
    <3>2. CASE cached'[j] # cached[j]
      <4>1. j = k /\ cached'[j] = d /\ d' = d
        BY <1>6, <2>6, <3>2
      <4>. QED  BY <2>2, <4>1 DEF full, AsState
    <3>. QED  BY <3>1, <3>2
  <2>8. Holds(r, c, m)'
    <3>1. CASE inPlace
      <4>1. k = To /\ m = 1
        BY <1>1, <1>4, <3>1 DEF AcceptedSlot
      <4>2. PICK b : b = d
        OBVIOUS
      <4>3. req'[r].table[req'[r].col] = b
        BY <1>4, <1>6, <4>1, <4>2
      <4>4. AsState(b)' = Span(0, c)
        BY <1>6, <2>1, <2>2, <4>1, <4>2 DEF full
      <4>5. Holds(r, c, 1)'
        BY <1>3, <4>3, <4>4, HoldsState
      <4>. QED  BY <4>1, <4>5
    <3>2. CASE ~inPlace
      <4>1. k # To /\ m = n
        BY <1>1, <1>4, <1>8, <3>2 DEF AcceptedSlot
      <4>2. d # Base /\ d # StashOf
        <5>1. /\ OwnBlocks(r) /\ Low(r) \in Nat /\ Low(r) <= To /\ To \in Nat /\ To >= 1
              /\ To + 1 <= Len(req[r].table) /\ Len(req[r].table) \in Nat
          BY <1>1, <1>2, StepStands, StepCols
        <5>2. k \in Nat /\ k >= 1
          BY <2>1, BoundaryIs
        <5>3. /\ k \in 1 .. Len(req[r].table) /\ To \in 1 .. Len(req[r].table)
              /\ To + 1 \in 1 .. Len(req[r].table)
              /\ Low(r) <= To + 1 /\ k # To + 1
          BY <2>1, <4>1, <5>1, <5>2
        <5>. QED  BY <1>4, <2>1, <4>1, <5>1, <5>3 DEF OwnBlocks
      <4>3. mem'[Base] = mem[Base] /\ mem'[StashOf] = mem[StashOf]
        BY <1>4, <2>2, <4>2
      <4>4. PICK b, s : b = Base /\ s = StashOf
        OBVIOUS
      <4>5. b = req[r].table[req[r].col] /\ s = req[r].table[req[r].col + 1]
        BY <1>4, <4>4
      <4>6. Holds(r, c, n)'
        BY <1>3, <1>6, <4>3, <4>4, <4>5, HoldsSame
      <4>. QED  BY <4>1, <4>6
    <3>. QED  BY <3>1, <3>2
  <2>9. \/ cached' = cached
        \/ \E i \in Boundary :
              /\ i \in HeldCols(r) /\ Low(r) <= i /\ i * BlockSize <= c
              /\ req[r].table[i] \in Block
              /\ \A j \in Boundary : cached[j] # req[r].table[i]
              /\ cached[i] = Null /\ cached' = [cached EXCEPT ![i] = req[r].table[i]]
    BY <2>1, <2>5
  <2>10. PICK a, w : a = m /\ w = W
    OBVIOUS
  <2>. HIDE DEF W, m, d
  <2>11. a \in {1, step.nacc} /\ req' = [req EXCEPT ![r].computed = c, ![r].nacc = a]
    BY <1>1, <1>2, <1>5, <2>10 DEF m
  <2>12. Holds(r, c, a)'
    BY <2>8, <2>10
  <2>13. /\ \A x \in w : x \in Block /\ \E e \in HeldCols(r) : req[r].table[e] = x
         /\ \A x \in w, j \in Boundary : cached[j] # x
         /\ \A b \in Block \ w : mem'[b] = mem[b]
         /\ mem' \in [Block -> Bytes]
    BY <2>2, <2>3, <2>4, <2>10
  <2>14. r = step.r /\ c = NewComputed /\ ~Idle /\ step.at = "checkpoint" /\ step' = NoStep
    BY <1>1, <1>2
  <2>15. Checkpointed(r, c, a, w)
    BY <2>9, <2>11, <2>13, <2>14 DEF Checkpointed
  <2>. QED  BY <2>7, <2>12, <2>14, <2>15, CheckpointedKeeps
<1>. QED  BY <1>3, <1>7, <1>8

-----------------------------------------------------------------------------
(* The scheduler's table                                                   *)

\* Two columns behind a gap.
Extended(S, t, old, g, z, x, y) ==
    /\ old \in Seq(S) /\ g \in Nat /\ z \in S /\ x \in S /\ y \in S
    /\ t = old \o [i \in 1 .. g |-> z] \o <<x, y>>

LEMMA TableOf ==
    ASSUME NEW S, NEW old, NEW g, NEW z, NEW x, NEW y, NEW t, Extended(S, t, old, g, z, x, y)
    PROVE  /\ t \in Seq(S) /\ Len(t) = Len(old) + g + 2
           /\ \A d \in 1 .. Len(old) : t[d] = old[d]
           /\ \A d \in Len(old) + 1 .. Len(old) + g : t[d] = z
           /\ t[Len(old) + g + 1] = x /\ t[Len(old) + g + 2] = y
<1>. DEFINE gap == [i \in 1 .. g |-> z]
            h == old \o gap
<1>0. t = h \o <<x, y>>
  BY DEF Extended
<1>. old \in Seq(S) /\ g \in Nat /\ z \in S /\ x \in S /\ y \in S
  BY DEF Extended
<1>1. gap \in Seq(S) /\ Len(gap) = g /\ \A i \in 1 .. g : gap[i] = z
  OBVIOUS
<1>. HIDE DEF gap
<1>2. /\ h \in Seq(S) /\ Len(h) = Len(old) + g /\ Len(old) \in Nat
      /\ \A d \in 1 .. Len(old) : h[d] = old[d]
      /\ \A d \in Len(old) + 1 .. Len(old) + g : h[d] = z
  BY <1>1
<1>. HIDE DEF h
<1>3. <<x, y>> \in Seq(S) /\ Len(<<x, y>>) = 2
  OBVIOUS
<1>4. /\ t \in Seq(S) /\ Len(t) = Len(h) + 2 /\ \A d \in 1 .. Len(h) : t[d] = h[d]
      /\ t[Len(h) + 1] = x /\ t[Len(h) + 2] = y
  BY <1>0, <1>2, <1>3
<1>5. \A d \in 1 .. Len(old) : t[d] = old[d]
  BY <1>2, <1>4
<1>6. \A d \in Len(old) + 1 .. Len(old) + g : t[d] = z
  BY <1>2, <1>4
<1>. QED  BY <1>2, <1>4, <1>5, <1>6

\* A free block is nobody's.
LEMMA FreeIs ==
    ASSUME LazyType, NEW s \in Free
    PROVE  /\ s \in Block /\ \A k \in Boundary : cached[k] # s
           /\ \A o \in Live : \A d \in HeldCols(o) : req[o].table[d] # s
<1>1. s \in Block /\ s \notin Used
  BY DEF Free
<1>2. \A o \in Live : \A d \in HeldCols(o) : req[o].table[d] \in Used
  BY HeldCol DEF Used
<1>3. \A k \in Boundary : cached[k] \in Used
  <2>. TAKE k \in Boundary
  <2>1. cached[k] \in {cached[j] : j \in Boundary}
    OBVIOUS
  <2>. QED  BY <2>1 DEF Used
<1>. QED  BY <1>1, <1>2, <1>3

\* How far a step may take a request that rests.
LEMMA ReachFacts ==
    ASSUME HitReach = 1, LazyInv, Idle, NEW r \in Live, NEW last \in Nat,
           req[r].computed < last,
           ~(req[r].computed < req[r].prompt) => last <= req[r].computed + GlNSpec + 1,
           req[r].col > 0 /\ Len(req[r].table) = req[r].col => ColOf(last) <= req[r].col + HitReach
    PROVE  LET q == req[r]
               n == Len(q.table)
               to == ColOf(last)
           IN  /\ n \in Nat /\ q.col \in Nat /\ to \in Nat /\ to >= 1 /\ q.col <= n
               /\ q.computed \in Nat /\ ColOf(q.computed) \in Nat
               /\ ColOf(q.computed) <= to /\ ColOf(q.computed) <= q.col
               /\ n = q.col => /\ q.computed < q.prompt /\ to >= n + 1
                               /\ q.col > 0 => to = n + 1
               /\ ~(q.computed < q.prompt) => to <= q.col + 1 /\ n >= q.col + 1
               /\ q.computed < q.prompt => ColOf(q.computed) = q.col /\ n <= q.col + 1
               /\ q.computed < (q.col + 1) * BlockSize
<1>. DEFINE c == req[r].computed
            col == req[r].col
            n == Len(req[r].table)
            to == ColOf(last)
            prompting == c < req[r].prompt
<1>1. /\ n \in Nat /\ col \in Nat /\ c \in Nat /\ Tallied(r) /\ Rested(r)
  BY ReqFacts DEF LazyInv, Standing, InStep
<1>2. /\ c <= col * BlockSize /\ col <= n
      /\ n = col => c = col * BlockSize /\ prompting
      /\ prompting => col = ColOf(c) /\ n <= col + 1
  BY <1>1 DEF Tallied, Rested
<1>3. /\ to \in Nat /\ ColOf(c) \in Nat /\ col * BlockSize \in Nat
      /\ (col + 1) * BlockSize = col * BlockSize + BlockSize
  BY <1>1, ColOfIs, Times
<1>4. /\ (ColOf(c) <= col) = (c <= col * BlockSize)
      /\ (to <= col) = (last <= col * BlockSize)
  BY <1>1, ColOfIs
<1>5. (to <= col + 1) = (last <= (col + 1) * BlockSize)
  <2>1. col + 1 \in Nat
    BY <1>1
  <2>. HIDE DEF col
  <2>. QED  BY <2>1, ColOfIs
<1>6. ColOf(c) <= to
  BY <1>1, ColOfGrows
<1>7. to >= 1
  <2>1. (to <= 0) = (last <= 0 * BlockSize)
    BY ColOfIs
  <2>2. 0 * BlockSize = 0
    BY Sizes
  <2>. HIDE DEF to, c
  <2>. QED  BY <1>1, <1>3, <2>1, <2>2 DEF c
<1>8. ~prompting => last <= c + GlNSpec + 1
  OBVIOUS
<1>9. col > 0 /\ n = col => to <= col + 1
  OBVIOUS
<1>10. c < last
  OBVIOUS
<1>. HIDE DEF c, col, n, to, prompting
<1>11. n = col => prompting /\ to >= n + 1 /\ (col > 0 => to = n + 1)
  <2>. SUFFICES ASSUME n = col PROVE prompting /\ to >= n + 1 /\ (col > 0 => to = n + 1)
    OBVIOUS
  <2>1. c = col * BlockSize /\ prompting
    BY <1>2
  <2>2. to >= n + 1
    BY <1>1, <1>3, <1>4, <1>10, <2>1
  <2>3. col > 0 => to = n + 1
    BY <1>1, <1>3, <1>9, <2>2
  <2>. QED  BY <2>1, <2>2, <2>3
<1>12. ~prompting => to <= col + 1 /\ n >= col + 1
  <2>. SUFFICES ASSUME ~prompting PROVE to <= col + 1 /\ n >= col + 1
    OBVIOUS
  <2>1. last <= c + GlNSpec + 1
    BY <1>8
  <2>2. last <= (col + 1) * BlockSize
    BY <1>1, <1>2, <1>3, <2>1, Sizes
  <2>3. n # col
    BY <1>2
  <2>. QED  BY <1>1, <1>2, <1>5, <2>2, <2>3
<1>13. c < (col + 1) * BlockSize
  BY <1>1, <1>2, <1>3, Sizes
<1>. QED
  BY <1>1, <1>2, <1>3, <1>4, <1>6, <1>7, <1>11, <1>12, <1>13 DEF c, col, n, to, prompting

\* What a request's table looks like once it has its columns: what it had, null up to the
\* running column, and there the former stash block or a free one, with a free one behind.
NewTable(r, to, t) ==
    LET old == req[r].table
        n == Len(old)
        col == req[r].col
    IN  /\ t \in Seq(BlockOrNull) /\ Len(t) \in Nat /\ to + 1 <= Len(t) /\ n <= Len(t)
        /\ Len(t) = n \/ Len(t) = to + 1
        /\ req[r].computed < req[r].prompt => Len(t) = to + 1
        /\ \A d \in 1 .. n : t[d] = old[d]
        /\ \A d \in n + 1 .. Len(t) : d < to => t[d] = Null
        /\ n < to + 1 => t[to + 1] \in Free
        /\ n < to => \/ t[to] \in Free /\ t[to] # t[to + 1]
                     \/ t[to] = old[n] /\ n = col + 1 /\ req[r].computed < req[r].prompt
        /\ 0 < col /\ col < to => t[col + 1] = t[to]

LEMMA TablesAre ==
    ASSUME HitReach = 1, LazyInv, Idle, NEW r \in Live, NEW last \in Nat,
           req[r].computed < last,
           ~(req[r].computed < req[r].prompt) => last <= req[r].computed + GlNSpec + 1,
           req[r].col > 0 /\ Len(req[r].table) = req[r].col => ColOf(last) <= req[r].col + HitReach,
           NEW t \in Tables(r, ColOf(last))
    PROVE  NewTable(r, ColOf(last), t)
<1>0. PICK old, n, col, p, to : /\ old = req[r].table /\ n = Len(req[r].table) /\ col = req[r].col
                                /\ p = (req[r].computed < req[r].prompt) /\ to = ColOf(last)
  OBVIOUS
<1>1. /\ n \in Nat /\ col \in Nat /\ to \in Nat /\ to >= 1 /\ col <= n
      /\ n = col => p /\ to >= n + 1 /\ (col > 0 => to = n + 1)
      /\ ~p => to <= col + 1 /\ n >= col + 1
      /\ p => n <= col + 1 /\ col <= to
  BY <1>0, ReachFacts
<1>2. old \in Seq(BlockOrNull) /\ n = Len(old) /\ \A d \in 1 .. n : old[d] \in BlockOrNull
  BY <1>0, ReqFacts DEF LazyInv
<1>3. Null \in BlockOrNull /\ \A s \in Free : s \in BlockOrNull
  BY DEF BlockOrNull, Free
<1>4. IF to + 1 <= n THEN t = old
      ELSE IF n = col
      THEN \E x, y \in Free : x # y /\ t = old \o [i \in 1 .. to - 1 - n |-> Null] \o <<x, y>>
      ELSE IF to = n THEN \E s \in Free : t = Append(old, s)
      ELSE \E s \in Free : t = old \o [i \in 1 .. to - 1 - n |-> Null] \o <<old[n], s>>
  BY <1>0 DEF Tables
<1>5. SUFFICES /\ t \in Seq(BlockOrNull) /\ Len(t) \in Nat /\ to + 1 <= Len(t) /\ n <= Len(t)
               /\ Len(t) = n \/ Len(t) = to + 1
               /\ p => Len(t) = to + 1
               /\ \A d \in 1 .. n : t[d] = old[d]
               /\ \A d \in n + 1 .. Len(t) : d < to => t[d] = Null
               /\ n < to + 1 => t[to + 1] \in Free
               /\ n < to => \/ t[to] \in Free /\ t[to] # t[to + 1]
                            \/ t[to] = old[n] /\ n = col + 1 /\ p
               /\ 0 < col /\ col < to => t[col + 1] = t[to]
  BY <1>0 DEF NewTable
<1>6. CASE to + 1 <= n
  <2>1. t = old
    BY <1>4, <1>6
  <2>2. p => n = to + 1
    BY <1>1, <1>6
  <2>3. 0 < col /\ col < to => col + 1 = to
    BY <1>1, <1>6
  <2>4. ~(n < to + 1) /\ ~(n < to) /\ \A d \in n + 1 .. n : FALSE
    BY <1>1, <1>6
  <2>. QED  BY <1>1, <1>2, <1>6, <2>1, <2>2, <2>3, <2>4
<1>7. CASE ~(to + 1 <= n) /\ n = col
  <2>1. PICK g : g = to - 1 - n
    OBVIOUS
  <2>2. PICK x, y \in Free : x # y /\ t = old \o [i \in 1 .. g |-> Null] \o <<x, y>>
    BY <1>4, <1>7, <2>1
  <2>3. g \in Nat /\ n + g + 1 = to /\ n + g + 2 = to + 1
    BY <1>1, <1>7, <2>1
  <2>4. x \in BlockOrNull /\ y \in BlockOrNull
    BY <1>3
  <2>5. /\ t \in Seq(BlockOrNull) /\ Len(t) = n + g + 2
        /\ \A d \in 1 .. n : t[d] = old[d]
        /\ \A d \in n + 1 .. n + g : t[d] = Null
        /\ t[n + g + 1] = x /\ t[n + g + 2] = y
    <3>1. Extended(BlockOrNull, t, old, g, Null, x, y)
      BY <1>2, <1>3, <2>2, <2>3, <2>4 DEF Extended
    <3>. QED  BY <1>2, <3>1, TableOf
  <2>6. \A d \in n + 1 .. Len(t) : d < to => d \in n + 1 .. n + g
    BY <1>1, <2>3, <2>5
  <2>7. Len(t) = to + 1 /\ n <= Len(t) /\ t[to] = x /\ t[to + 1] = y
    BY <1>1, <2>3, <2>5
  <2>8. 0 < col /\ col < to => col + 1 = to
    BY <1>1, <1>7
  <2>9. \A d \in n + 1 .. Len(t) : d < to => t[d] = Null
    BY <2>5, <2>6
  <2>10. x # y
    BY <2>2
  <2>. QED  BY <1>1, <2>5, <2>7, <2>8, <2>9, <2>10
<1>8. CASE ~(to + 1 <= n) /\ n # col /\ to = n
  <2>1. PICK s \in Free : t = Append(old, s)
    BY <1>4, <1>8
  <2>2. /\ t \in Seq(BlockOrNull) /\ Len(t) = n + 1 /\ t[n + 1] = s
        /\ \A d \in 1 .. n : t[d] = old[d]
    BY <1>2, <1>3, <2>1
  <2>3. col < to => col + 1 = to
    BY <1>1, <1>8
  <2>4. ~(n < to) /\ Len(t) = to + 1 /\ n <= Len(t) /\ \A d \in n + 1 .. Len(t) : ~(d < to)
    BY <1>1, <1>8, <2>2
  <2>. QED  BY <1>1, <1>8, <2>2, <2>3, <2>4
<1>9. CASE ~(to + 1 <= n) /\ n # col /\ to # n
  <2>1. PICK g : g = to - 1 - n
    OBVIOUS
  <2>2. PICK s \in Free : t = old \o [i \in 1 .. g |-> Null] \o <<old[n], s>>
    BY <1>4, <1>9, <2>1
  <2>3. to > n /\ n >= col + 1
    BY <1>1, <1>9
  <2>4. p
    BY <1>1, <2>3
  <2>5. g \in Nat /\ n + g + 1 = to /\ n + g + 2 = to + 1 /\ n = col + 1 /\ n \in 1 .. n
    BY <1>1, <2>1, <2>3, <2>4
  <2>6. PICK z : z = old[n]
    OBVIOUS
  <2>7. z \in BlockOrNull /\ s \in BlockOrNull /\ t = old \o [i \in 1 .. g |-> Null] \o <<z, s>>
    BY <1>2, <1>3, <2>2, <2>5, <2>6
  <2>8. /\ t \in Seq(BlockOrNull) /\ Len(t) = n + g + 2
        /\ \A d \in 1 .. n : t[d] = old[d]
        /\ \A d \in n + 1 .. n + g : t[d] = Null
        /\ t[n + g + 1] = z /\ t[n + g + 2] = s
    <3>1. Extended(BlockOrNull, t, old, g, Null, z, s)
      BY <1>2, <1>3, <2>5, <2>7 DEF Extended
    <3>. QED  BY <1>2, <3>1, TableOf
  <2>9. \A d \in n + 1 .. Len(t) : d < to => d \in n + 1 .. n + g
    BY <1>1, <2>5, <2>8
  <2>10. Len(t) = to + 1 /\ n <= Len(t) /\ t[to] = old[n] /\ t[to + 1] = s
    BY <1>1, <2>5, <2>6, <2>8
  <2>11. t[col + 1] = t[to]
    BY <2>5, <2>8, <2>10
  <2>12. \A d \in n + 1 .. Len(t) : d < to => t[d] = Null
    BY <2>8, <2>9
  <2>. QED  BY <1>1, <2>4, <2>5, <2>8, <2>10, <2>11, <2>12
<1>. QED  BY <1>6, <1>7, <1>8, <1>9
\* How far the columns of a step are from those its request has.
Within(r, to) ==
    LET q == req[r]
        n == Len(q.table)
    IN  /\ n \in Nat /\ q.col \in Nat /\ to \in Nat /\ to >= 1 /\ q.col <= n
        /\ q.computed \in Nat /\ ColOf(q.computed) \in Nat
        /\ ColOf(q.computed) <= to /\ ColOf(q.computed) <= q.col
        /\ ~(q.computed < q.prompt) => to <= q.col + 1 /\ n >= q.col + 1
        /\ q.computed < q.prompt => ColOf(q.computed) = q.col /\ n <= q.col + 1
        /\ q.computed < (q.col + 1) * BlockSize

\* What a step starts with.
Scheduled(r, last, to, t) ==
    /\ Idle /\ last \in Nat /\ last <= Length /\ req[r].computed < last /\ to = ColOf(last)
    /\ ~(req[r].computed < req[r].prompt) => last <= req[r].computed + GlNSpec + 1
    /\ Within(r, to) /\ NewTable(r, to, t)
    /\ req' = [req EXCEPT ![r].table = t]
    /\ step' = [r |-> r, last |-> last, at |-> "migrate", nacc |-> 0,
                prefill |-> req[r].computed < req[r].prompt]
    /\ mem' = mem /\ cached' = cached

LEMMA ScheduleIs ==
    ASSUME HitReach = 1, LazyInv, NEW r \in Live, Schedule(r)
    PROVE  \E last, to, t : Scheduled(r, last, to, t)
<1>. DEFINE q == req[r]
<1>1. PICK last \in q.computed + 1 .. Length :
        /\ IF q.computed < q.prompt
           THEN last = q.prompt \/ (last < q.prompt /\ last % BlockSize = 0)
           ELSE last - q.computed \in 2 .. GlNSpec + 1
        /\ q.col > 0 /\ Len(q.table) = q.col => ColOf(last) <= q.col + HitReach
        /\ \E t \in Tables(r, ColOf(last)) : req' = [req EXCEPT ![r].table = t]
        /\ step' = [r |-> r, last |-> last, at |-> "migrate", nacc |-> 0,
                    prefill |-> q.computed < q.prompt]
  BY DEF Schedule
<1>2. PICK t \in Tables(r, ColOf(last)) : req' = [req EXCEPT ![r].table = t]
  BY <1>1
<1>3. Idle /\ mem' = mem /\ cached' = cached
  BY DEF Schedule
<1>4. q.computed \in Nat
  BY ReqFacts DEF LazyInv
<1>5. last \in Nat /\ last <= Length /\ q.computed < last
  BY <1>4, Sizes
<1>6. ~(q.computed < q.prompt) => last <= q.computed + GlNSpec + 1
  BY SMTT(30), <1>1, <1>4, <1>5, Sizes
<1>7. q.col > 0 /\ Len(q.table) = q.col => ColOf(last) <= q.col + HitReach
  BY <1>1
<1>8. NewTable(r, ColOf(last), t)
  BY <1>3, <1>5, <1>6, <1>7, TablesAre
<1>9. Within(r, ColOf(last))
  BY <1>3, <1>5, <1>6, <1>7, ReachFacts DEF Within
<1>10. step' = [r |-> r, last |-> last, at |-> "migrate", nacc |-> 0,
                prefill |-> q.computed < q.prompt]
  BY <1>1
<1>11. Scheduled(r, last, ColOf(last), t)
  BY <1>2, <1>3, <1>5, <1>6, <1>8, <1>9, <1>10 DEF Scheduled
<1>. QED  BY <1>11

\* Where a column of the new table comes from: it was there, it is free, or it is the former
\* stash block.
Kept(r, t, d) == d \in HeldCols(r) /\ t[d] = req[r].table[d]
Taken(r, to, t, d) == d \in {to, to + 1} /\ Len(req[r].table) < d /\ t[d] \in Free
Moves(r, to, t, d) ==
    /\ d = to /\ Len(req[r].table) < to /\ Len(req[r].table) \in HeldCols(r)
    /\ t[d] = req[r].table[Len(req[r].table)] /\ Len(req[r].table) = req[r].col + 1
    /\ req[r].computed < req[r].prompt

LEMMA ColumnsAre ==
    ASSUME NEW r, NEW last, NEW to, NEW t, Scheduled(r, last, to, t),
           NEW d \in 1 .. Len(t), ColOf(req[r].computed) <= d
    PROVE  \/ d < to /\ Len(req[r].table) < d /\ t[d] = Null
           \/ Kept(r, t, d) \/ Taken(r, to, t, d) \/ Moves(r, to, t, d)
<1>0. PICK old, n, col, c : /\ old = req[r].table /\ n = Len(req[r].table) /\ col = req[r].col
                            /\ c = ColOf(req[r].computed)
  OBVIOUS
<1>1. /\ n \in Nat /\ col \in Nat /\ to \in Nat /\ to >= 1 /\ col <= n /\ c \in Nat /\ c <= col
      /\ Len(t) \in Nat
      /\ Len(t) = n \/ Len(t) = to + 1
      /\ \A e \in 1 .. n : t[e] = old[e]
      /\ \A e \in n + 1 .. Len(t) : e < to => t[e] = Null
      /\ n < to + 1 => t[to + 1] \in Free
      /\ n < to => \/ t[to] \in Free
                   \/ t[to] = old[n] /\ n = col + 1 /\ req[r].computed < req[r].prompt
  BY <1>0 DEF Scheduled, Within, NewTable
<1>2. CASE d <= n
  <2>1. d \in 1 .. n /\ t[d] = old[d]
    BY <1>1, <1>2
  <2>. QED  BY <1>0, <2>1 DEF Kept, HeldCols
<1>3. CASE ~(d <= n) /\ d < to
  <2>1. d \in n + 1 .. Len(t) /\ n < d
    BY <1>1, <1>3
  <2>2. t[d] = Null
    BY <1>1, <1>3, <2>1
  <2>. QED  BY <1>0, <1>3, <2>1, <2>2
<1>4. CASE ~(d <= n) /\ d = to
  <2>1. n < to
    BY <1>1, <1>4
  <2>2. CASE t[to] \in Free
    BY <1>0, <1>4, <2>1, <2>2 DEF Taken
  <2>3. CASE ~(t[to] \in Free)
    <3>1. t[to] = old[n] /\ n = col + 1 /\ req[r].computed < req[r].prompt
      BY <1>1, <2>1, <2>3
    <3>2. n \in 1 .. n /\ c <= n
      BY <1>1, <3>1
    <3>3. n \in HeldCols(r)
      BY <1>0, <3>2 DEF HeldCols
    <3>. QED  BY <1>0, <1>4, <2>1, <3>1, <3>3 DEF Moves
  <2>. QED  BY <2>2, <2>3
<1>5. CASE ~(d <= n) /\ ~(d < to) /\ d # to
  <2>1. d = to + 1 /\ n < d /\ n < to + 1
    BY <1>1, <1>5
  <2>2. t[d] \in Free
    BY <1>1, <2>1
  <2>. QED  BY <1>0, <2>1, <2>2 DEF Taken
<1>. QED  BY <1>2, <1>3, <1>4, <1>5

\* What a step changes: its request's table, and who is in a step.
LEMMA ScheduledReq ==
    ASSUME LazyInv, NEW r \in Live, NEW last, NEW to, NEW t, Scheduled(r, last, to, t)
    PROVE  /\ req'[r].prompt = req[r].prompt /\ req'[r].computed = req[r].computed
           /\ req'[r].col = req[r].col /\ req'[r].nacc = req[r].nacc /\ req'[r].table = t
           /\ \A o \in Live : o # r => req'[o] = req[o] /\ ~InStep(o) /\ ~InStep(o)'
           /\ Live' = Live /\ ~Idle' /\ InStep(r)' /\ To' = to /\ LazyType'
           /\ step'.last = last /\ step'.at = "migrate"
           /\ step'.prefill = (req[r].computed < req[r].prompt)
<1>1. /\ LazyType /\ r \in GlReq /\ req[r] \in LiveReq /\ t \in Seq(BlockOrNull)
      /\ Idle /\ last \in Nat /\ to = ColOf(last)
      /\ req' = [req EXCEPT ![r].table = t] /\ mem' = mem /\ cached' = cached
  BY ReqFacts DEF LazyInv, Scheduled, NewTable
<1>2. step' = [r |-> r, last |-> last, at |-> "migrate", nacc |-> 0,
               prefill |-> req[r].computed < req[r].prompt]
  BY DEF Scheduled
<1>3. PICK p : p = (req[r].computed < req[r].prompt)
  OBVIOUS
<1>4. p \in BOOLEAN /\ step' = [r |-> r, last |-> last, at |-> "migrate", nacc |-> 0, prefill |-> p]
  BY <1>2, <1>3
<1>5. /\ step' \in ActiveStep /\ step'.r = r /\ step'.last = last /\ step'.at = "migrate"
      /\ step'.prefill = p
  BY <1>1, <1>4 DEF ActiveStep
<1>6. step' # NoStep
  BY <1>5 DEF NoStep
<1>7. ~Idle' /\ InStep(r)' /\ To' = to
  BY <1>1, <1>5, <1>6 DEF Idle, InStep, To, ColOf
<1>8. req'[r] = [req[r] EXCEPT !.table = t] /\ \A o \in GlReq : o # r => req'[o] = req[o]
  BY <1>1 DEF LazyType
<1>. DEFINE q == [req[r] EXCEPT !.table = t]
<1>9. /\ q \in LiveReq /\ q.prompt = req[r].prompt /\ q.computed = req[r].computed
      /\ q.col = req[r].col /\ q.nacc = req[r].nacc /\ q.table = t
  BY <1>1 DEF LiveReq
<1>. HIDE DEF q
<1>10. req'[r] = q
  BY <1>8 DEF q
<1>11. req'[r] # Absent
  <2>1. req'[r].prompt # 0 /\ Absent.prompt = 0
    BY <1>1, <1>9, <1>10, ReqFacts DEF Absent
  <2>. QED  BY <2>1
<1>12. Live' = Live
  BY <1>1, <1>8, <1>11 DEF Live
<1>13. \A o \in Live : o # r => req'[o] = req[o] /\ ~InStep(o) /\ ~InStep(o)'
  BY <1>1, <1>5, <1>8 DEF Live, InStep
<1>14. LazyType'
  <2>1. req' \in [GlReq -> {Absent} \cup LiveReq]
    BY <1>1, <1>8, <1>9, <1>10 DEF LazyType
  <2>2. step'.r \in Live'
    BY <1>5, <1>12
  <2>. QED  BY <1>1, <1>5, <2>1, <2>2 DEF LazyType
<1>. QED  BY <1>3, <1>5, <1>7, <1>9, <1>10, <1>12, <1>13, <1>14
\* Nobody else holds, and nobody caches, a block that a step takes into its columns.
LEMMA ScheduleShares ==
    ASSUME LazyInv, NEW r \in Live, NEW last, NEW to, NEW t, Scheduled(r, last, to, t)
    PROVE  Disjoint' /\ CachedInPlace'
<1>1. /\ req'[r].computed = req[r].computed /\ req'[r].table = t
      /\ Live' = Live /\ \A o \in Live : o # r => req'[o] = req[o]
  BY ScheduledReq
<1>2. LazyType /\ cached' = cached /\ Within(r, to)
  BY DEF LazyInv, Scheduled
<1>3. \A o \in Live : o # r => HeldCols(o)' = HeldCols(o)
  BY <1>1 DEF HeldCols
<1>4. HeldCols(r)' = {d \in 1 .. Len(t) : ColOf(req[r].computed) <= d}
  BY <1>1 DEF HeldCols, ColOf
<1>5. ASSUME NEW d \in HeldCols(r)', t[d] # Null
      PROVE  \/ d \in HeldCols(r) /\ t[d] = req[r].table[d]
             \/ t[d] \in Free
             \/ /\ Len(req[r].table) \in HeldCols(r) /\ t[d] = req[r].table[Len(req[r].table)]
                /\ Len(req[r].table) = req[r].col + 1
  <2>1. d \in 1 .. Len(t) /\ ColOf(req[r].computed) <= d
    BY <1>4
  <2>2. Kept(r, t, d) \/ Taken(r, to, t, d) \/ Moves(r, to, t, d)
    BY <1>5, <2>1, ColumnsAre
  <2>. QED  BY <2>2 DEF Kept, Taken, Moves
<1>6. ASSUME NEW o \in Live, o # r, NEW d \in HeldCols(r)', NEW e \in HeldCols(o),
             t[d] = req[o].table[e], t[d] # Null
      PROVE  \E k \in Boundary : cached[k] = t[d]
  <2>1. t[d] \notin Free
    BY <1>2, <1>6, FreeIs
  <2>2. \E f \in HeldCols(r) : t[d] = req[r].table[f]
    BY <1>5, <1>6, <2>1
  <2>3. PICK f \in HeldCols(r) : t[d] = req[r].table[f]
    BY <2>2
  <2>4. req[r].table[f] = req[o].table[e] /\ req[r].table[f] # Null
    BY <1>6, <2>3
  <2>5. \E k \in Boundary : cached[k] = req[r].table[f]
    BY <1>6, <2>4 DEF LazyInv, Disjoint
  <2>. QED  BY <2>3, <2>5
<1>7. Disjoint'
  <2>. SUFFICES ASSUME NEW a \in Live, NEW b \in Live, a # b,
                       NEW d \in HeldCols(a)', NEW e \in HeldCols(b)',
                       req'[a].table[d] = req'[b].table[e], req'[a].table[d] # Null
                PROVE  \E k \in Boundary : cached[k] = req'[a].table[d]
    BY <1>1, <1>2 DEF Disjoint
  <2>1. CASE a = r
    BY <1>1, <1>3, <1>6, <2>1
  <2>2. CASE b = r
    BY <1>1, <1>3, <1>6, <2>2
  <2>3. CASE a # r /\ b # r
    BY <1>1, <1>3, <2>3 DEF LazyInv, Disjoint
  <2>. QED  BY <2>1, <2>2, <2>3
<1>8. ASSUME NEW d \in HeldCols(r)', NEW k \in Boundary, cached[k] = t[d], cached[k] # Null
      PROVE  k = d /\ d * BlockSize <= req[r].computed
  <2>1. t[d] \notin Free
    BY <1>2, <1>8, FreeIs
  <2>2. CASE d \in HeldCols(r) /\ t[d] = req[r].table[d]
    BY <1>8, <2>2 DEF LazyInv, CachedInPlace
  <2>3. CASE /\ Len(req[r].table) \in HeldCols(r) /\ t[d] = req[r].table[Len(req[r].table)]
             /\ Len(req[r].table) = req[r].col + 1
    <3>1. PICK f \in HeldCols(r) : f = Len(req[r].table)
      BY <2>3
    <3>2. cached[k] = req[r].table[f]
      BY <1>8, <2>3, <3>1
    <3>3. f * BlockSize <= req[r].computed
      BY <1>8, <3>2 DEF LazyInv, CachedInPlace
    <3>4. f = req[r].col + 1
      BY <2>3, <3>1
    <3>5. (req[r].col + 1) * BlockSize <= req[r].computed
      BY <3>3, <3>4
    <3>6. req[r].computed < (req[r].col + 1) * BlockSize /\ req[r].computed \in Nat
      BY <1>2 DEF Within
    <3>7. req[r].col \in Nat
      BY <1>2 DEF Within
    <3>8. (req[r].col + 1) * BlockSize \in Nat
      BY <3>7, Times, Sizes
    <3>. QED  BY <3>5, <3>6, <3>8
  <2>. QED  BY <1>5, <1>8, <2>1, <2>2, <2>3
<1>9. CachedInPlace'
  <2>. SUFFICES ASSUME NEW a \in Live, NEW d \in HeldCols(a)', NEW k \in Boundary,
                       cached[k] = req'[a].table[d], cached[k] # Null
                PROVE  k = d /\ d * BlockSize <= req'[a].computed
    BY <1>1, <1>2 DEF CachedInPlace
  <2>1. CASE a = r
    BY <1>1, <1>8, <2>1
  <2>2. CASE a # r
    BY <1>1, <1>3, <2>2 DEF LazyInv, CachedInPlace
  <2>. QED  BY <2>1, <2>2
<1>. QED  BY <1>7, <1>9

\* The new columns are the request's own.
LEMMA ScheduleOwn ==
    ASSUME LazyInv, NEW r \in Live, NEW last, NEW to, NEW t, Scheduled(r, last, to, t)
    PROVE  OwnBlocks(r)'
<1>0. PICK old, n, c, p, low :
        /\ old = req[r].table /\ n = Len(req[r].table) /\ c = ColOf(req[r].computed)
        /\ p = (req[r].computed < req[r].prompt) /\ low = IF p THEN to ELSE c
  OBVIOUS
<1>1. /\ n \in Nat /\ to \in Nat /\ c \in Nat /\ c <= to /\ low \in Nat /\ c <= low
      /\ ~p => to <= n
      /\ p => low = to
      /\ Len(t) \in Nat
      /\ n < to => t[to] # t[to + 1] \/ (t[to] = old[n] /\ n >= 1 /\ c <= n)
  <2>1. PICK col : col = req[r].col
    OBVIOUS
  <2>2. Within(r, to) /\ NewTable(r, to, t)
    BY DEF Scheduled
  <2>3. /\ n \in Nat /\ to \in Nat /\ c \in Nat /\ col \in Nat /\ c <= to /\ c <= col
        /\ ~p => to <= col + 1 /\ n >= col + 1
    BY <1>0, <2>1, <2>2 DEF Within
  <2>4. n < to => t[to] # t[to + 1] \/ (t[to] = old[n] /\ n = col + 1)
    BY <1>0, <2>1, <2>2 DEF NewTable
  <2>5. Len(t) \in Nat
    BY <2>2 DEF NewTable
  <2>. QED  BY <1>0, <2>3, <2>4, <2>5
<1>2. Low(r)' = low
  BY <1>0, ScheduledReq DEF Low, ColOf
<1>3. LazyType /\ OwnBlocks(r) /\ Low(r) = c
  BY <1>0 DEF LazyInv, Standing, Scheduled, Low, InStep
<1>4. ASSUME NEW d \in HeldCols(r)
      PROVE  old[d] \in Block /\ \A e \in HeldCols(r) : old[d] = old[e] => d = e
  BY <1>0, <1>3 DEF OwnBlocks, HeldCols
<1>5. ASSUME NEW d \in 1 .. Len(t), low <= d
      PROVE  Kept(r, t, d) \/ Taken(r, to, t, d) \/ Moves(r, to, t, d)
  <2>1. ColOf(req[r].computed) <= d
    BY <1>0, <1>1, <1>5
  <2>2. ~(d < to /\ n < d)
    BY <1>1, <1>5
  <2>. QED  BY <1>0, <2>1, <2>2, ColumnsAre
<1>6. ASSUME NEW d \in 1 .. Len(t), low <= d
      PROVE  t[d] \in Block
  BY <1>0, <1>3, <1>4, <1>5, <1>6, FreeIs DEF Kept, Taken, Moves
<1>7. ASSUME NEW d \in 1 .. Len(t), NEW e \in 1 .. Len(t), low <= d, low <= e, d < e
      PROVE  t[d] # t[e]
  <2>1. \A f \in HeldCols(r), x \in Free : old[f] # x
    BY <1>0, <1>3, FreeIs
  <2>2. CASE Kept(r, t, d)
    <3>1. CASE Kept(r, t, e)
      BY <1>0, <1>4, <1>7, <2>2, <3>1 DEF Kept
    <3>2. CASE Taken(r, to, t, e)
      BY <1>0, <2>1, <2>2, <3>2 DEF Kept, Taken
    <3>3. CASE Moves(r, to, t, e)
      <4>1. n < to /\ n \in HeldCols(r) /\ t[e] = old[n] /\ p
        BY <1>0, <3>3 DEF Moves
      <4>2. d \in HeldCols(r) /\ t[d] = old[d]
        BY <1>0, <2>2 DEF Kept
      <4>3. d > n
        BY <1>1, <1>7, <4>1
      <4>. QED  BY <1>4, <1>7, <1>1, <4>1, <4>2, <4>3
    <3>. QED  BY <1>5, <1>7, <3>1, <3>2, <3>3
  <2>3. CASE Taken(r, to, t, d)
    <3>1. CASE Kept(r, t, e)
      BY <1>0, <2>1, <2>3, <3>1 DEF Kept, Taken
    <3>2. CASE Taken(r, to, t, e)
      <4>1. d = to /\ e = to + 1 /\ n < to /\ t[to] \in Free
        BY <1>0, <1>1, <1>7, <2>3, <3>2 DEF Taken
      <4>2. CASE t[to] = old[n] /\ n >= 1 /\ c <= n
        <5>1. n \in HeldCols(r)
          BY <1>0, <1>1, <4>2 DEF HeldCols
        <5>. QED  BY <2>1, <4>1, <4>2, <5>1
      <4>. QED  BY <1>1, <4>1, <4>2
    <3>3. CASE Moves(r, to, t, e)
      BY <1>0, <2>1, <2>3, <3>3 DEF Moves, Taken
    <3>. QED  BY <1>5, <1>7, <3>1, <3>2, <3>3
  <2>4. CASE Moves(r, to, t, d)
    <3>1. n < to /\ n \in HeldCols(r) /\ t[d] = old[n] /\ p /\ d = to
      BY <1>0, <2>4 DEF Moves
    <3>2. CASE Kept(r, t, e)
      <4>1. e \in HeldCols(r) /\ t[e] = old[e] /\ e # n
        BY <1>0, <1>1, <1>7, <3>1, <3>2 DEF Kept
      <4>. QED  BY <1>4, <3>1, <4>1
    <3>3. CASE Taken(r, to, t, e)
      BY <1>0, <2>1, <3>1, <3>3 DEF Taken
    <3>4. CASE Moves(r, to, t, e)
      BY <1>1, <1>7, <3>1, <3>4 DEF Moves
    <3>. QED  BY <1>5, <1>7, <3>2, <3>3, <3>4
  <2>. QED  BY <1>5, <1>7, <2>2, <2>3, <2>4
<1>8. req'[r].table = t
  BY ScheduledReq
<1>9. \A d \in 1 .. Len(req'[r].table) : Low(r)' <= d => req'[r].table[d] \in Block
  BY <1>2, <1>6, <1>8
<1>10. \A d, e \in 1 .. Len(req'[r].table) :
         Low(r)' <= d /\ Low(r)' <= e /\ req'[r].table[d] = req'[r].table[e] => d = e
  <2>. SUFFICES ASSUME NEW d \in 1 .. Len(t), NEW e \in 1 .. Len(t), low <= d, low <= e,
                       t[d] = t[e], d # e
                PROVE  FALSE
    BY <1>2, <1>8
  <2>1. d < e \/ e < d
    BY <1>1
  <2>. QED  BY <1>7, <2>1
<1>. QED  BY <1>9, <1>10 DEF OwnBlocks
LEMMA ScheduleKeeps ==
    ASSUME HitReach = 1, LazyInv, NEW r \in Live, Schedule(r)
    PROVE  LazyInv'
<1>1. PICK last, to, t : Scheduled(r, last, to, t)
  BY ScheduleIs
<1>2. /\ req'[r].prompt = req[r].prompt /\ req'[r].computed = req[r].computed
      /\ req'[r].col = req[r].col /\ req'[r].nacc = req[r].nacc /\ req'[r].table = t
      /\ \A o \in Live : o # r => req'[o] = req[o] /\ ~InStep(o) /\ ~InStep(o)'
      /\ Live' = Live /\ ~Idle' /\ InStep(r)' /\ To' = to /\ LazyType'
      /\ step'.last = last /\ step'.at = "migrate"
      /\ step'.prefill = (req[r].computed < req[r].prompt)
  BY <1>1, ScheduledReq
<1>3. /\ Idle /\ mem' = mem /\ cached' = cached /\ Within(r, to) /\ NewTable(r, to, t)
      /\ last \in Nat /\ last <= Length /\ req[r].computed < last
      /\ ~(req[r].computed < req[r].prompt) => last <= req[r].computed + GlNSpec + 1
  BY <1>1 DEF Scheduled
<1>4. LazyType /\ ~InStep(r) /\ Tallied(r) /\ Rested(r) /\ OwnBlocks(r)
  BY <1>3 DEF LazyInv, Standing, InStep
<1>5. Disjoint' /\ CachedInPlace'
  BY <1>1, ScheduleShares
<1>6. CheckpointsExact'
  BY <1>3 DEF LazyInv, CheckpointsExact, AsState
<1>0. PICK old, n, c, col, nacc :
        /\ old = req[r].table /\ n = Len(req[r].table) /\ c = req[r].computed
        /\ col = req[r].col /\ nacc = req[r].nacc
  OBVIOUS
<1>7. /\ n \in Nat /\ c \in Nat /\ col \in Nat /\ to \in Nat /\ to >= 1 /\ col <= n
      /\ ColOf(c) \in Nat /\ ColOf(c) <= col
      /\ ~(c < req[r].prompt) => n >= col + 1
      /\ c < req[r].prompt => ColOf(c) = col
      /\ ColOf(c) <= to
  BY <1>0, <1>3 DEF Within
<1>8. /\ Len(t) \in Nat /\ n <= Len(t) /\ to + 1 <= Len(t)
      /\ \A d \in 1 .. n : t[d] = old[d]
      /\ c < req[r].prompt => Len(t) = to + 1
      /\ 0 < col /\ col < to => t[col + 1] = t[to]
  BY <1>0, <1>3 DEF NewTable
<1>9. Holds(r, c, nacc)'
  <2>1. Holds(r, c, nacc)
    BY <1>0, <1>4 DEF LazyInv, Contents
  <2>. SUFFICES ASSUME c > 0 PROVE Holds(r, c, nacc)'
    BY DEF Holds
  <2>2. col # 0
    BY <1>0, <1>4, <1>7 DEF Tallied
  <2>3. col \in 1 .. n /\ t[col] = old[col]
    BY <1>7, <1>8, <2>2
  <2>4. col + 1 <= n => t[col + 1] = old[col + 1]
    BY <1>7, <1>8
  <2>5. PICK b, s : b = old[col] /\ s = old[col + 1]
    BY SMTT(30)
  <2>6. /\ AsState(b) = Span(0, c - (nacc - 1))
        /\ nacc > 1 =>
              /\ col + 1 <= n /\ mem[s].magic /\ mem[s].base = b /\ Len(mem[s].toks) >= nacc - 1
              /\ \A i \in 1 .. nacc - 1 : mem[s].toks[i] = c - (nacc - 1) + i
    BY <1>0, <2>1, <2>5 DEF Holds
  <2>7. AsState(b)' = AsState(b)
    BY <1>3 DEF AsState
  <2>8. req'[r].table[req'[r].col] = b
    BY SMTT(30), <1>0, <1>2, <2>3, <2>5
  <2>9. nacc > 1 => req'[r].table[req'[r].col + 1] = s /\ req'[r].col + 1 <= Len(req'[r].table)
    BY <1>0, <1>2, <1>7, <1>8, <2>4, <2>5, <2>6
  <2>. QED  BY SMTT(30), <1>3, <2>6, <2>7, <2>8, <2>9 DEF Holds
<1>10. \A o \in Live : o # r => Standing(o)' /\ Holds(o, req[o].computed, req[o].nacc)'
  <2>. TAKE o \in Live
  <2>. HAVE o # r
  <2>1. req'[o] = req[o] /\ ~InStep(o) /\ ~InStep(o)' /\ Standing(o)
    BY <1>2 DEF LazyInv
  <2>2. Standing(o)'
    BY <2>1, StandingKept
  <2>3. Holds(o, req[o].computed, req[o].nacc)
    BY <2>1 DEF LazyInv, Contents
  <2>4. Holds(o, req[o].computed, req[o].nacc)'
    BY <1>3, <2>1, <2>3, StillHolds
  <2>. QED  BY <2>2, <2>4
<1>11. Contents'
  <2>1. Holds(r, req[r].computed, req[r].nacc)'
    BY <1>0, <1>2, <1>9
  <2>. QED  BY <1>2, <1>10, <2>1 DEF Contents
<1>12. Tallied(r)'
  BY <1>2, <1>4 DEF Tallied
<1>13. OwnBlocks(r)'
  BY <1>1, ScheduleOwn
<1>14. Stepping(r)'
  <2>1. c = 0 => col = 0
    <3>. SUFFICES ASSUME c = 0 PROVE col = 0
      OBVIOUS
    <3>1. c < req[r].prompt
      BY <1>4, ReqFacts
    <3>2. (ColOf(0) <= 0) = (0 <= 0 * BlockSize)
      BY ColOfIs
    <3>3. 0 * BlockSize = 0
      BY Sizes
    <3>. QED  BY <1>7, <3>1, <3>2, <3>3
  <2>2. 0 < col => t[col] \in Block
    <3>. SUFFICES ASSUME 0 < col PROVE t[col] \in Block
      OBVIOUS
    <3>1. col \in 1 .. n
      BY <1>7
    <3>2. old[col] \in Block
      BY <1>0, <1>4, <1>7, <3>1 DEF OwnBlocks, Low
    <3>. QED  BY <1>8, <3>1, <3>2
  <2>3. col <= Len(t) /\ (~(c < req[r].prompt) => col + 1 <= Len(t))
        /\ (c < req[r].prompt => col <= to)
    BY <1>7, <1>8
  <2>. QED  BY <1>0, <1>2, <1>3, <1>8, <2>1, <2>2, <2>3 DEF Stepping
<1>15. Standing(r)'
  BY <1>2, <1>12, <1>13, <1>14 DEF Standing
<1>. QED  BY <1>2, <1>5, <1>6, <1>10, <1>11, <1>15 DEF LazyInv

-----------------------------------------------------------------------------
(* Every step, and the properties                                          *)

LEMMA StutterKeeps ==
    ASSUME LazyInv, UNCHANGED glVars
    PROVE  LazyInv'
<1>1. mem' = mem /\ cached' = cached /\ req' = req /\ step' = step
  BY DEF glVars
<1>2. Live' = Live /\ Idle' = Idle /\ To' = To /\ NewComputed' = NewComputed
  BY <1>1 DEF Live, Idle, To, NewComputed, ColOf
<1>3. LazyType' /\ CheckpointsExact'
  BY <1>1, <1>2 DEF LazyInv, LazyType, CheckpointsExact, AsState
<1>4. Disjoint' /\ CachedInPlace'
  BY <1>1, <1>2, TablesKept DEF LazyInv
<1>5. ASSUME NEW r \in Live
      PROVE  InStep(r)' = InStep(r) /\ Standing(r)'
             /\ \A c, n : Holds(r, c, n) => Holds(r, c, n)'
  <2>1. InStep(r)' = InStep(r)
    BY <1>1, <1>2 DEF InStep
  <2>2. Standing(r)
    BY DEF LazyInv
  <2>3. Low(r)' = Low(r)
    BY <1>1, <1>2, <2>1 DEF Low, ColOf
  <2>4. OwnBlocks(r)'
    BY <1>1, <2>2, <2>3 DEF Standing, OwnBlocks
  <2>5. Tallied(r)' /\ (Rested(r) => Rested(r)')
    BY <1>1, <2>2 DEF Standing, Tallied, Rested, ColOf
  <2>6. Stepping(r) => Stepping(r)'
    BY <1>1, <1>2 DEF Stepping
  <2>7. Standing(r)'
    BY <2>1, <2>2, <2>4, <2>5, <2>6 DEF Standing
  <2>8. \A c, n : Holds(r, c, n) => Holds(r, c, n)'
    BY <1>1, HoldsKept
  <2>. QED  BY <2>1, <2>7, <2>8
<1>6. Contents'
  BY <1>1, <1>2, <1>5 DEF LazyInv, Contents
<1>. QED  BY <1>2, <1>3, <1>4, <1>5, <1>6 DEF LazyInv

LEMMA NextKeeps ==
    ASSUME HitReach = 1, LazyInv, [GlNext]_glVars
    PROVE  LazyInv'
<1>1. ASSUME NEW r \in GlReq, Arrive(r) PROVE LazyInv'
  BY <1>1, ArriveKeeps
<1>2. ASSUME NEW r \in GlReq, Schedule(r) PROVE LazyInv'
  <2>1. r \in Live
    BY <1>2 DEF Schedule
  <2>. QED  BY <1>2, <2>1, ScheduleKeeps
<1>3. ASSUME NEW r \in GlReq, Finish(r) PROVE LazyInv'
  BY <1>3, FinishKeeps
<1>4. ASSUME NEW k \in Boundary, Evict(k) PROVE LazyInv'
  BY <1>4, EvictKeeps
<1>5. CASE Migrate
  BY <1>5, MigrateKeeps
<1>6. CASE Prefill
  BY <1>6, PrefillKeeps
<1>7. CASE Decode
  BY <1>7, DecodeKeeps
<1>8. CASE Checkpoint
  BY <1>8, CheckpointKeeps
<1>9. CASE UNCHANGED glVars
  BY <1>9, StutterKeeps
<1>. QED  BY <1>1, <1>2, <1>3, <1>4, <1>5, <1>6, <1>7, <1>8, <1>9 DEF GlNext

LEMMA LazyAlways ==
    ASSUME HitReach = 1
    PROVE  GlSpec => []LazyInv
<1>1. GlInit => LazyInv
  BY InitLazy
<1>2. LazyInv /\ [GlNext]_glVars => LazyInv'
  BY NextKeeps
<1>. QED  BY <1>1, <1>2, PTL DEF GlSpec

\* What a step's forward resumes from is the state of exactly the accepted tokens, for any
\* number of requests, blocks and drafts: no interleaving of migrations, checkpoints,
\* evictions and reused blocks drops, repeats or mixes a token.
THEOREM ResumesRight ==
    ASSUME HitReach = 1
    PROVE  GlSpec => []StartsFromContext
<1>1. LazyInv => StartsFromContext
  BY ResumedIs DEF StartsFromContext
<1>. QED  BY <1>1, LazyAlways, PTL

LEMMA ReplayWhole == LazyInv => ReplayComplete
<1>. SUFFICES ASSUME LazyInv, ~Idle, step.at = "checkpoint", ~step.prefill,
                     Due(req[step.r].computed + step.nacc, step.nacc) > 0
              PROVE  Len(Replay(Base, StashOf, Due(req[step.r].computed + step.nacc, step.nacc)))
                       = Due(req[step.r].computed + step.nacc, step.nacc)
  BY DEF ReplayComplete
<1>1. NewComputed = req[step.r].computed + step.nacc
  BY DEF NewComputed
<1>2. PICK due, k : due = Due(NewComputed, step.nacc) /\ k = NewComputed \div BlockSize
  OBVIOUS
<1>3. due \in Int
  <2>1. req[step.r].computed \in Nat /\ step.nacc \in Nat
    BY StepStands, StepFacts, ReqFacts
  <2>2. NewComputed \in Nat
    BY <1>1, <2>1
  <2>3. k \in Nat /\ k * BlockSize \in Nat
    BY <1>2, <2>2, LastBoundary, Times
  <2>. QED  BY <1>2, <2>1, <2>2, <2>3 DEF Due
<1>4. Due(NewComputed, step.nacc) >= 0
  BY <1>1, <1>2, <1>3
<1>5. Len(Replay(Base, StashOf, Due(NewComputed, step.nacc))) = Due(NewComputed, step.nacc)
  BY <1>2, <1>4, DueFacts
<1>. QED  BY <1>1, <1>5

\* No checkpoint finds fewer candidates in the stash than it needs.
THEOREM ReplaysWhole ==
    ASSUME HitReach = 1
    PROVE  GlSpec => []ReplayComplete
BY ReplayWhole, LazyAlways, PTL

\* What the prefix cache offers for a boundary is the state of the tokens up to it.
THEOREM CheckpointsRight ==
    ASSUME HitReach = 1
    PROVE  GlSpec => []CheckpointsExact
<1>1. LazyInv => CheckpointsExact
  BY DEF LazyInv
<1>. QED  BY <1>1, LazyAlways, PTL

-----------------------------------------------------------------------------
(* ContextMirror: what a match continues                                   *)

LEMMA LeastOf ==
    ASSUME NEW S, S # {}, S \subseteq Nat
    PROVE  \E x \in S : \A y \in S : x <= y
<1>. DEFINE R == OpToRel(<, Nat)
<1>1. IsWellFoundedOn(R, Nat)
  BY NatLessThanWellFounded
<1>2. PICK x \in S : \A y \in S : ~(<<y, x>> \in R)
  BY <1>1, WFMin
<1>3. ASSUME NEW y \in S PROVE ~(y < x)
  BY <1>2 DEF OpToRel
<1>. QED  BY <1>3

\* A bounded set of naturals has a maximum.
LEMMA MaxOf ==
    ASSUME NEW S, S # {}, S \subseteq Nat, NEW n \in Nat, \A x \in S : x <= n
    PROVE  Max(S) \in S /\ \A x \in S : x <= Max(S)
<1>. DEFINE T == {n - x : x \in S}
<1>1. T # {} /\ T \subseteq Nat
  <2>1. PICK x \in S : TRUE
    OBVIOUS
  <2>2. n - x \in T
    OBVIOUS
  <2>3. ASSUME NEW y \in T PROVE y \in Nat
    <3>1. PICK z \in S : y = n - z
      OBVIOUS
    <3>2. z \in Nat /\ z <= n
      OBVIOUS
    <3>. QED  BY <3>1, <3>2
  <2>. QED  BY <2>2, <2>3
<1>2. PICK z \in T : \A y \in T : z <= y
  BY <1>1, LeastOf
<1>3. PICK x \in S : z = n - x
  BY <1>2
<1>4. ASSUME NEW y \in S PROVE x >= y
  <2>1. n - y \in T
    OBVIOUS
  <2>. QED  BY <1>2, <1>3, <2>1
<1>5. \E m \in S : \A y \in S : m >= y
  BY <1>4
<1>. QED  BY <1>5 DEF Max

LEMMA MaxIs ==
    ASSUME NEW S, S \subseteq Nat, NEW m \in S, \A x \in S : x <= m
    PROVE  Max(S) = m
<1>1. m \in Nat
  OBVIOUS
<1>2. Max(S) \in S /\ \A x \in S : x <= Max(S)
  BY <1>1, MaxOf
<1>3. Max(S) \in Nat /\ Max(S) <= m /\ m <= Max(S)
  BY <1>2
<1>. QED  BY <1>1, <1>3

\* How far two ends agree, by a function of the positions.
Agrees(t, n, q, l) == \A k \in 0 .. l - 1 : t[q - k] = t[n - k]

LEMMA MatchIs ==
    ASSUME NEW t, NEW n \in Nat, NEW q \in 1 .. n - 1
    PROVE  /\ MatchLen(t, n, q) \in 0 .. MaxMatch /\ MatchLen(t, n, q) <= q
           /\ Agrees(t, n, q, MatchLen(t, n, q))
           /\ \A l \in 0 .. MaxMatch : l <= q /\ Agrees(t, n, q, l) => l <= MatchLen(t, n, q)
<1>. DEFINE S == {l \in 0 .. MaxMatch : l <= q /\ Agrees(t, n, q, l)}
<1>1. MaxMatch \in Nat
  BY MirrorAssumption
<1>2. 0 \in S
  BY <1>1 DEF Agrees
<1>3. S \subseteq Nat /\ \A l \in S : l <= MaxMatch
  BY <1>1
<1>4. MatchLen(t, n, q) = Max(S)
  BY DEF MatchLen, Agrees
<1>. HIDE DEF S
<1>5. Max(S) \in S /\ \A l \in S : l <= Max(S)
  BY <1>1, <1>2, <1>3, MaxOf
<1>. QED  BY <1>4, <1>5 DEF S

\* The packed maximum is the longest match, and of those the latest.
LEMMA PackedOrder ==
    ASSUME NEW s \in Nat \ {0}, NEW l \in Nat, NEW m \in Nat, NEW p \in 0 .. s - 1,
           NEW q \in 0 .. s - 1, l * s + p <= m * s + q
    PROVE  l <= m /\ (l = m => p <= q)
<1>1. ASSUME m + 1 <= l PROVE FALSE
  <2>1. PICK d \in Nat : l = (m + 1) + d
    <3>1. l - (m + 1) \in Nat /\ l = (m + 1) + (l - (m + 1))
      BY <1>1
    <3>. QED  BY <3>1
  <2>2. PICK a, b, c : a = m * s /\ b = d * s /\ c = l * s
    OBVIOUS
  <2>3. c = a + s + b /\ a \in Nat /\ b \in Nat
    BY <2>1, <2>2
  <2>. QED  BY <2>2, <2>3
<1>2. ASSUME l = m PROVE p <= q
  <2>1. PICK a : a = m * s
    OBVIOUS
  <2>2. a \in Nat
    BY <2>1
  <2>. QED  BY <1>2, <2>1, <2>2
<1>. QED  BY <1>1, <1>2

LEMMA Unpacked ==
    ASSUME NEW s \in Nat \ {0}, NEW l \in Nat, NEW p \in 0 .. s - 1
    PROVE  (l * s + p) % s = p
<1>1. PICK a, k : a = l * s /\ k = a + p
  OBVIOUS
<1>2. a \in Nat /\ k \in Nat
  BY <1>1
<1>3. k = s * (k \div s) + (k % s) /\ k % s \in 0 .. s - 1 /\ k \div s \in Nat
  BY <1>2
<1>4. PICK d, r : d = k \div s /\ r = k % s
  OBVIOUS
<1>5. l * s + p = d * s + r /\ r \in 0 .. s - 1 /\ d \in Nat
  BY <1>1, <1>3, <1>4
<1>6. l * s + p \in Nat /\ d * s + r \in Nat
  BY <1>5
<1>7. l <= d /\ d <= l
  BY <1>5, <1>6, PackedOrder
<1>8. l = d
  BY <1>5, <1>7
<1>9. p = r
  BY <1>5, <1>6, <1>8, PackedOrder
<1>. QED  BY <1>1, <1>4, <1>9

\* What follows position e of a text of n tokens, if l tokens agree there.
Following(t, n, l, e) == IF l = 0 THEN <<>> ELSE [k \in 1 .. Min({n - e, NSpec}) |-> t[e + k]]

\* Where a mirrored row holds the text, its continuation is the text's own.
LEMMA ContinuedText ==
    ASSUME MaxLen <= Shift, NEW row, NEW t, NEW n \in 0 .. MaxLen,
           \A p \in 1 .. n : row[p] = t[p],
           NEW l, l = Longest(t, n),
           NEW e, (l = 0 => e = 0) /\ (l # 0 => e = Max(EndsOf(t, n, l)))
    PROVE  Continuation(row, n) = Following(t, n, l, e)
<1>. DEFINE L(q) == MatchLen(row, n, q)
            Q == {p \in 1 .. n - 1 : L(p) >= MinMatch}
            K == Keys(row, n)
<1>1. /\ MaxLen \in Nat \ {0} /\ MinMatch \in Nat \ {0} /\ MaxMatch \in Nat /\ MinMatch <= MaxMatch
      /\ Shift \in Nat \ {0} /\ NSpec \in Nat \ {0} /\ n \in Nat /\ n <= Shift
  BY MirrorAssumption
<1>2. \A q \in 1 .. n - 1 :
         /\ L(q) \in 0 .. MaxMatch /\ L(q) <= q /\ Agrees(row, n, q, L(q))
         /\ \A j \in 0 .. MaxMatch : j <= q /\ Agrees(row, n, q, j) => j <= L(q)
  BY <1>1, MatchIs
<1>3. ASSUME NEW q \in 1 .. n - 1, NEW j \in 0 .. MaxMatch, j <= q
      PROVE  Agrees(row, n, q, j) <=> Agrees(t, n, q, j)
  <2>1. \A k \in 0 .. j - 1 : q - k \in 1 .. n /\ n - k \in 1 .. n
    BY <1>1, <1>3
  <2>2. \A k \in 0 .. j - 1 : row[q - k] = t[q - k] /\ row[n - k] = t[n - k]
    BY <2>1
  <2>. QED  BY <2>2 DEF Agrees
\* A position ends an occurrence of the last j tokens just if it agrees at least so far.
<1>4. ASSUME NEW j \in MinMatch .. MaxMatch, NEW q \in EndsOf(t, n, j)
      PROVE  q \in Q /\ j <= L(q)
  <2>1. q \in Int /\ j <= q /\ q <= n - 1 /\ Agrees(t, n, q, j) /\ j \in 0 .. MaxMatch
    BY <1>1 DEF EndsOf, Agrees
  <2>2. q \in 1 .. n - 1
    BY <1>1, <2>1
  <2>3. Agrees(row, n, q, j)
    BY <1>3, <2>1, <2>2
  <2>4. j <= L(q)
    BY <1>2, <2>1, <2>2, <2>3
  <2>. QED  BY <1>1, <1>2, <2>2, <2>4
<1>5. ASSUME NEW q \in Q
      PROVE  L(q) \in MinMatch .. MaxMatch /\ q \in EndsOf(t, n, L(q))
  <2>1. q \in 1 .. n - 1 /\ L(q) \in 0 .. MaxMatch /\ L(q) >= MinMatch /\ L(q) <= q
        /\ Agrees(row, n, q, L(q))
    BY <1>2
  <2>2. Agrees(t, n, q, L(q))
    BY <1>3, <2>1
  <2>3. q \in L(q) .. n - 1
    BY <1>1, <2>1
  <2>. QED  BY <1>1, <2>1, <2>2, <2>3 DEF EndsOf, Agrees
<1>6. K = {L(q) * Shift + (q - 1) : q \in Q}
  BY DEF Keys
<1>7. l = Max({0} \cup {j \in MinMatch .. MaxMatch : EndsOf(t, n, j) # {}})
  BY DEF Longest
<1>. HIDE DEF L
<1>8. CASE Q = {}
  <2>1. {0} \cup K = {0} /\ 0 \in Nat
    BY <1>6, <1>8
  <2>2. Max({0} \cup K) = 0
    BY <2>1, MaxIs
  <2>3. Continuation(row, n) = <<>>
    BY <2>2 DEF Continuation, BestKey
  <2>4. \A j \in MinMatch .. MaxMatch : EndsOf(t, n, j) = {}
    BY <1>4, <1>8
  <2>5. {0} \cup {j \in MinMatch .. MaxMatch : EndsOf(t, n, j) # {}} = {0}
    BY <2>4
  <2>6. l = 0
    BY <1>7, <2>1, <2>5, MaxIs
  <2>. QED  BY <2>3, <2>6 DEF Following
<1>9. CASE Q # {}
  <2>1. ASSUME NEW q \in Q
        PROVE  /\ L(q) \in Nat /\ L(q) >= 1 /\ q - 1 \in 0 .. Shift - 1 /\ q \in 1 .. n - 1
               /\ L(q) * Shift + (q - 1) \in Nat
               /\ L(q) * Shift + (q - 1) >= 1
               /\ L(q) * Shift + (q - 1) <= (MaxMatch + 1) * Shift
    <3>1. L(q) \in Nat /\ L(q) >= 1 /\ L(q) <= MaxMatch /\ q \in 1 .. n - 1
      BY <1>1, <1>5
    <3>2. q - 1 \in 0 .. Shift - 1
      BY <1>1, <3>1
    <3>3. PICK d \in Nat : MaxMatch = L(q) + d
      <4>1. MaxMatch - L(q) \in Nat /\ MaxMatch = L(q) + (MaxMatch - L(q))
        BY <1>1, <3>1
      <4>. QED  BY <4>1
    <3>4. PICK c \in Nat : L(q) = c + 1
      <4>1. L(q) - 1 \in Nat /\ L(q) = (L(q) - 1) + 1
        BY <3>1
      <4>. QED  BY <4>1
    <3>5. PICK x, y, z, w : x = L(q) * Shift /\ y = d * Shift /\ z = c * Shift
                            /\ w = (MaxMatch + 1) * Shift
      OBVIOUS
    <3>6. x = z + Shift /\ w = (x + y) + Shift /\ x \in Nat /\ y \in Nat /\ z \in Nat
      BY <1>1, <3>1, <3>3, <3>4, <3>5
    <3>. QED  BY <1>1, <3>1, <3>2, <3>5, <3>6
  <2>2. ({0} \cup K) # {} /\ {0} \cup K \subseteq Nat
    BY <1>6, <2>1
  <2>3. PICK w : w = (MaxMatch + 1) * Shift
    OBVIOUS
  <2>4. w \in Nat /\ \A x \in {0} \cup K : x <= w
    BY <1>1, <1>6, <2>1, <2>3
  <2>5. Max({0} \cup K) \in {0} \cup K /\ \A x \in {0} \cup K : x <= Max({0} \cup K)
    BY <2>2, <2>4, MaxOf
  <2>6. PICK key : key = BestKey(row, n)
    OBVIOUS
  <2>7. key \in {0} \cup K /\ \A x \in K : x <= key
    BY <2>5, <2>6 DEF BestKey
  <2>8. key # 0
    <3>1. PICK p \in Q : TRUE
      BY <1>9
    <3>2. PICK k : k = L(p) * Shift + (p - 1)
      OBVIOUS
    <3>3. k \in K
      BY <1>6, <3>2
    <3>4. k <= key /\ k \in Nat /\ k >= 1
      BY <2>1, <2>7, <3>2, <3>3
    <3>. QED  BY <3>4
  <2>9. PICK q \in Q : key = L(q) * Shift + (q - 1)
    BY <1>6, <2>7, <2>8
  <2>10. ASSUME NEW p \in Q PROVE L(p) <= L(q) /\ (L(p) = L(q) => p <= q)
    <3>1. L(p) * Shift + (p - 1) <= L(q) * Shift + (q - 1)
      BY <1>6, <2>7, <2>9
    <3>2. PICK x, y : x = p - 1 /\ y = q - 1
      OBVIOUS
    <3>3. x \in 0 .. Shift - 1 /\ y \in 0 .. Shift - 1 /\ L(p) \in Nat /\ L(q) \in Nat
      BY <2>1, <3>2
    <3>4. L(p) * Shift + x <= L(q) * Shift + y
      BY <3>1, <3>2
    <3>5. L(p) <= L(q) /\ (L(p) = L(q) => x <= y)
      BY <1>1, <3>3, <3>4, PackedOrder
    <3>6. p \in Int /\ q \in Int
      BY <2>1
    <3>. QED  BY <3>2, <3>5, <3>6
  <2>11. l = L(q)
    <3>. DEFINE J == {0} \cup {j \in MinMatch .. MaxMatch : EndsOf(t, n, j) # {}}
    <3>1. J \subseteq Nat /\ L(q) \in J
      BY <1>1, <1>5
    <3>2. ASSUME NEW j \in J PROVE j <= L(q)
      <4>1. CASE j = 0
        BY <2>1, <4>1
      <4>2. CASE j # 0
        <5>1. PICK p \in EndsOf(t, n, j) : TRUE
          BY <4>2
        <5>2. j \in MinMatch .. MaxMatch
          BY <4>2
        <5>3. p \in Q /\ j <= L(p)
          BY <1>4, <5>1, <5>2
        <5>4. L(p) <= L(q) /\ L(p) \in Nat /\ L(q) \in Nat /\ j \in Nat
          BY <2>1, <2>10, <3>1, <5>3
        <5>. QED  BY <5>3, <5>4
      <4>. QED  BY <4>1, <4>2
    <3>. HIDE DEF J
    <3>3. Max(J) = L(q)
      BY <3>1, <3>2, MaxIs
    <3>. QED  BY <1>7, <3>3 DEF J
  <2>12. e = q
    <3>1. l # 0 /\ q \in EndsOf(t, n, l) /\ l \in MinMatch .. MaxMatch
      BY <1>5, <2>1, <2>11
    <3>2. EndsOf(t, n, l) \subseteq Nat
      BY <1>1, <3>1 DEF EndsOf
    <3>3. ASSUME NEW p \in EndsOf(t, n, l) PROVE p <= q
      <4>1. p \in Q /\ l <= L(p)
        BY <1>4, <3>1
      <4>2. L(p) <= L(q) /\ (L(p) = L(q) => p <= q) /\ L(p) \in Nat /\ L(q) \in Nat
        BY <2>1, <2>10, <4>1
      <4>. QED  BY <2>11, <4>1, <4>2
    <3>4. Max(EndsOf(t, n, l)) = q
      BY <3>1, <3>2, <3>3, MaxIs
    <3>. QED  BY <3>1, <3>4
  <2>13. (key % Shift) + 1 = q
    <3>1. PICK y : y = q - 1
      OBVIOUS
    <3>2. y \in 0 .. Shift - 1 /\ L(q) \in Nat /\ q \in Int
      BY <2>1, <3>1
    <3>3. (L(q) * Shift + y) % Shift = y
      BY <1>1, <3>2, Unpacked
    <3>4. key % Shift = y
      BY <2>9, <3>1, <3>3
    <3>. QED  BY <3>1, <3>2, <3>4
  <2>14. PICK left : left = n - q
    OBVIOUS
  <2>15. left \in Nat /\ q \in 1 .. n - 1
    BY <1>1, <2>1, <2>14
  <2>16. PICK w2 : w2 = IF left < NSpec THEN left ELSE NSpec
    OBVIOUS
  <2>17. w2 \in Nat /\ w2 <= left
    BY <1>1, <2>15, <2>16
  <2>18. Continuation(row, n) = [k \in 1 .. w2 |-> row[q + k]]
    BY <2>6, <2>8, <2>13, <2>14, <2>16 DEF Continuation
  <2>19. Min({n - e, NSpec}) = w2
    <3>1. Min({left, NSpec}) = w2
      BY <1>1, <2>15, <2>16 DEF Min
    <3>. QED  BY <2>12, <2>14, <3>1
  <2>20. ASSUME NEW k \in 1 .. w2 PROVE row[q + k] = t[q + k]
    <3>1. q + k \in 1 .. n
      BY <1>1, <2>14, <2>15, <2>17
    <3>. QED  BY <3>1
  <2>21. [k \in 1 .. w2 |-> row[q + k]] = [k \in 1 .. w2 |-> t[q + k]]
    BY <2>20
  <2>22. l # 0
    BY <2>1, <2>11
  <2>. QED  BY <2>12, <2>18, <2>19, <2>21, <2>22 DEF Following
<1>. QED  BY <1>8, <1>9

\* What a continuation of row i should be after a step: the tokens that follow the latest of
\* the longest earlier occurrences of the text's last ones.
OwnText(i) ==
    LET t == text[rows[i]]
        n == len[rows[i]]
        l == Longest(t, n)
        e == IF l = 0 THEN 0 ELSE Max(EndsOf(t, n, l))
    IN  cont'[i] = IF l = 0 THEN <<>>
                   ELSE [k \in 1 .. Min({n - e, NSpec}) |-> t[e + k]]

LEMMA OwnStep ==
    ASSUME MaxLen <= Shift, IInv, [Next]_vars, cont' # cont, cont' # <<>>
    PROVE  \A i \in DOMAIN rows : OwnText(i)
<1>1. PrepareMatch /\ rows # <<>>
  BY DEF Next, vars, Enter, Leave, Accept, PrepareMatch
<1>2. /\ mirror' = Synced
      /\ cont' = [i \in DOMAIN rows |-> Continuation(mirror'[i], len[rows[i]])]
  BY <1>1 DEF PrepareMatch
<1>. SUFFICES ASSUME NEW i \in DOMAIN rows PROVE OwnText(i)
  OBVIOUS
<1>3. PICK r, t, n, row : r = rows[i] /\ t = text[r] /\ n = len[r] /\ row = Synced[i]
  OBVIOUS
<1>4. r \in OnRows(rows)
  BY <1>3 DEF OnRows
<1>5. RowOf(r) = i
  BY <1>3, <1>4, RowOfFacts DEF IInv, TypeOK
<1>6. \A p \in 1 .. n : row[p] = t[p]
  BY <1>3, <1>4, <1>5, SyncedText
<1>7. n \in 0 .. MaxLen
  BY <1>3 DEF IInv, TypeOK
<1>8. PICK l : l = Longest(t, n)
  OBVIOUS
<1>9. PICK e : e = IF l = 0 THEN 0 ELSE Max(EndsOf(t, n, l))
  OBVIOUS
<1>10. Continuation(row, n) = Following(t, n, l, e)
  <2>1. (l = 0 => e = 0) /\ (l # 0 => e = Max(EndsOf(t, n, l)))
    BY <1>9
  <2>. QED  BY <1>6, <1>7, <1>8, <2>1, ContinuedText
<1>11. cont'[i] = Continuation(row, n)
  BY <1>2, <1>3
<1>. QED  BY <1>3, <1>8, <1>9, <1>10, <1>11 DEF Following, OwnText

\* A continuation is copied from the request's own text, after the latest of the longest
\* earlier occurrences of its last tokens, for any rows, requests and lengths that the packed
\* key has room for: the field of the positions (_SH) holds those of the longest context.
THEOREM TextContinued ==
    ASSUME MaxLen <= Shift
    PROVE  Spec => ContinuesOwnText
<1>1. IInv /\ [Next]_vars =>
         [cont' # cont /\ cont' # <<>> => \A i \in DOMAIN rows : OwnText(i)]_vars
  BY OwnStep
<1>. QED  BY <1>1, InvInit, InvNext, PTL DEF Spec, ContinuesOwnText, OwnText

-----------------------------------------------------------------------------
(* GdnBuild: what the groups' builders leave to a step                     *)

\* The rows of a batch without drafts, and those of them with so many tokens.
Plain(b) == DOMAIN b \ SpecRows(b)
PlainOf(b, P) == {i \in Plain(b) : b[i].len \in P}
Prefills(b) == {i \in DOMAIN b : b[i].ndt < 0 /\ b[i].len > 1}

LEMMA RowsOf ==
    ASSUME NEW b \in GbBatches
    PROVE  /\ Len(b) \in Nat /\ DOMAIN b = 1 .. Len(b)
           /\ \A i \in DOMAIN b : b[i].ndt \in Int /\ b[i].len \in Nat
<1>1. b \in Seq([ndt : Int, len : Nat])
  BY GdnBuildAssumption
<1>2. Len(b) \in Nat /\ DOMAIN b = 1 .. Len(b)
  BY <1>1
<1>3. ASSUME NEW i \in 1 .. Len(b) PROVE b[i].ndt \in Int /\ b[i].len \in Nat
  <2>1. PICK R : R = [ndt : Int, len : Nat]
    OBVIOUS
  <2>2. b \in Seq(R)
    BY <1>1, <2>1
  <2>3. b[i] \in R
    BY <1>2, <2>2
  <2>. QED  BY <2>1, <2>3
<1>. QED  BY <1>2, <1>3

LEMMA PlainCounted ==
    ASSUME NEW b \in GbBatches
    PROVE  /\ IsFiniteSet(DOMAIN b) /\ IsFiniteSet(Prefills(b)) /\ IsFiniteSet(SpecRows(b))
           /\ Counts(b).prefills = Cardinality(Prefills(b))
           /\ Counts(b).prefills = 0 /\ Counts(b).decodes = 0 =>
                 \A i \in DOMAIN b : b[i].ndt < 0 => b[i].len = 0
<1>. DEFINE O == DOMAIN b \ SpecRows(b)
            Z == {i \in O : b[i].len = 0}
            D == {i \in O : b[i].len = 1}
<1>1. Len(b) \in Nat /\ DOMAIN b = 1 .. Len(b)
  BY RowsOf
<1>2. \A i \in DOMAIN b : b[i].ndt \in Int /\ b[i].len \in Nat
  BY RowsOf
<1>3. IsFiniteSet(DOMAIN b)
  BY <1>1, FS_Interval
<1>4. Prefills(b) \in SUBSET DOMAIN b /\ SpecRows(b) \in SUBSET DOMAIN b
      /\ O \in SUBSET DOMAIN b /\ Z \in SUBSET DOMAIN b /\ D \in SUBSET DOMAIN b
  BY DEF Prefills, SpecRows
<1>5. /\ IsFiniteSet(Prefills(b)) /\ IsFiniteSet(SpecRows(b)) /\ IsFiniteSet(O)
      /\ IsFiniteSet(Z) /\ IsFiniteSet(D)
  BY <1>3, <1>4, FS_Subset
<1>6. O = (Z \cup D) \cup Prefills(b) /\ Z \cap D = {} /\ (Z \cup D) \cap Prefills(b) = {}
  <2>1. ASSUME NEW i \in O PROVE i \in (Z \cup D) \cup Prefills(b)
    BY <1>2 DEF Prefills, SpecRows
  <2>2. ASSUME NEW i \in Prefills(b) PROVE i \in O /\ i \notin Z /\ i \notin D
    BY <1>2 DEF Prefills, SpecRows
  <2>. QED  BY <2>1, <2>2
<1>. HIDE DEF O, Z, D
<1>7. /\ IsFiniteSet(Z \cup D)
      /\ Cardinality(Z \cup D) = Cardinality(Z) + Cardinality(D) - Cardinality(Z \cap D)
      /\ Cardinality((Z \cup D) \cup Prefills(b)) =
            Cardinality(Z \cup D) + Cardinality(Prefills(b))
              - Cardinality((Z \cup D) \cap Prefills(b))
  BY <1>5, FS_Union
<1>8. /\ Cardinality(Z) \in Nat /\ Cardinality(D) \in Nat /\ Cardinality(O) \in Nat
      /\ Cardinality(Prefills(b)) \in Nat /\ Cardinality({}) = 0
  BY <1>5, FS_CardinalityType, FS_EmptySet
<1>9. Cardinality(O) = Cardinality(Z) + Cardinality(D) + Cardinality(Prefills(b))
  <2>1. PICK z, d, u : z = Cardinality(Z) /\ d = Cardinality(D) /\ u = Cardinality(Z \cup D)
    OBVIOUS
  <2>2. u = z + d - 0
    BY <1>6, <1>7, <1>8, <2>1
  <2>3. Cardinality(O) = u + Cardinality(Prefills(b)) - 0
    BY <1>6, <1>7, <1>8, <2>1
  <2>. QED  BY <1>8, <2>1, <2>2, <2>3
<1>10. /\ Counts(b).prefills = Cardinality(O) - Cardinality(D) - Cardinality(Z)
       /\ Counts(b).decodes = Cardinality(D)
  BY DEF Counts, O, D, Z
<1>11. Counts(b).prefills = Cardinality(Prefills(b))
  BY <1>8, <1>9, <1>10
<1>12. ASSUME Counts(b).prefills = 0, Counts(b).decodes = 0, NEW i \in DOMAIN b, b[i].ndt < 0
       PROVE  b[i].len = 0
  <2>1. Prefills(b) = {} /\ D = {}
    BY <1>5, <1>10, <1>11, <1>12, FS_EmptySet
  <2>2. i \in O
    BY <1>2, <1>12 DEF O, SpecRows
  <2>. QED  BY <1>6, <2>1, <2>2 DEF Z
<1>. QED  BY <1>3, <1>5, <1>11, <1>12

\* A build of a step of drafts names no block of an ordinary row.
LEMMA NoOthers ==
    ASSUME NEW b \in GbBatches, FastPath(b), NEW g, NEW pool
    PROVE  Metadata(g, b, pool).others = {}
<1>1. IsSpec(b) /\ \A i \in DOMAIN b : b[i].ndt < 0 => b[i].len = 0
  BY PlainCounted DEF FastPath
<1>2. \A i \in DOMAIN b : b[i].ndt \in Int /\ b[i].len \in Nat
  BY RowsOf
<1>3. {r \in DOMAIN b : b[r].len > 0 /\ ~(IsSpec(b) /\ b[r].ndt >= 0)} = {}
  BY <1>1, <1>2
<1>4. Metadata(g, b, pool).others = {<<g, i>> : i \in {r \in DOMAIN b : b[r].len > 0
                                      /\ ~(IsSpec(b) /\ b[r].ndt >= 0)}}
  BY DEF Metadata
<1>. QED  BY <1>3, <1>4

\* On a hit a group is left what its own build would have made.
LEMMA CopiedAsBuilt ==
    ASSUME NEW b \in GbBatches, FastPath(b), NEW g, NEW o
    PROVE  /\ [Values(o, b) EXCEPT !.states = CopiedStates(g, b)] = Values(g, b)
           /\ [Metadata(o, b, "heap") EXCEPT !.stash = [i \in DOMAIN b |-> <<g, i>>],
                                             !.rows = StateRows(g, b)]
                 = Metadata(g, b, "heap")
<1>1. [Values(o, b) EXCEPT !.states = CopiedStates(g, b)] = Values(g, b)
  <2>1. PICK s, c, m, t, q, a :
            /\ s = PadTo(StateRows(o, b), Len(b), NullBlock) /\ c = CopiedStates(g, b)
            /\ m = [i \in DOMAIN b |-> b[i].ndt >= 0] /\ t = Counts(b).tokens
            /\ q = Starts(b) /\ a = AcceptedOf(b)
    OBVIOUS
  <2>2. Values(o, b) = [states |-> s, masks |-> m, tokens |-> t, starts |-> q, accepted |-> a]
    BY <2>1 DEF Values
  <2>3. Values(g, b) = [states |-> c, masks |-> m, tokens |-> t, starts |-> q, accepted |-> a]
    BY <2>1 DEF Values, CopiedStates
  <2>4. [Values(o, b) EXCEPT !.states = c] = Values(g, b)
    BY <2>2, <2>3
  <2>. QED  BY <2>1, <2>4
<1>2. PICK p, q : p = Metadata(o, b, "heap") /\ q = Metadata(g, b, "heap")
  OBVIOUS
<1>3. p.others = {} /\ q.others = {}
  BY <1>2, NoOthers
<1>4. IsSpec(b)
  BY DEF FastPath
<1>5. PICK c, f, x, y, v, w :
          /\ c = Counts(b) /\ f = FastPath(b)
          /\ x = [i \in DOMAIN b |-> <<o, i>>] /\ y = [i \in DOMAIN b |-> <<g, i>>]
          /\ v = StateRows(o, b) /\ w = StateRows(g, b)
  OBVIOUS
<1>6. p = [counts |-> c, fast |-> f, pool |-> "heap", stash |-> x, rows |-> v,
           others |-> p.others]
  BY <1>2, <1>4, <1>5 DEF Metadata
<1>7. q = [counts |-> c, fast |-> f, pool |-> "heap", stash |-> y, rows |-> w,
           others |-> q.others]
  BY <1>2, <1>4, <1>5 DEF Metadata
<1>8. [p EXCEPT !.stash = y, !.rows = w] = q
  <2>1. [p EXCEPT !.stash = y] =
           [counts |-> c, fast |-> f, pool |-> "heap", stash |-> y, rows |-> v, others |-> {}]
    BY <1>3, <1>6
  <2>2. PICK h, z, e : h = [p EXCEPT !.stash = y] /\ z = "heap" /\ e = {}
    OBVIOUS
  <2>3. [h EXCEPT !.rows = w] =
           [counts |-> c, fast |-> f, pool |-> z, stash |-> y, rows |-> w, others |-> e]
    <3>1. h = [counts |-> c, fast |-> f, pool |-> z, stash |-> y, rows |-> v, others |-> e]
      BY <2>1, <2>2
    <3>. QED  BY <3>1
  <2>4. [p EXCEPT !.stash = y, !.rows = w] = [h EXCEPT !.rows = w]
    BY <2>2
  <2>. QED  BY <1>3, <1>7, <2>2, <2>3, <2>4
<1>. QED  BY <1>1, <1>2, <1>5, <1>8

\* The state indices of a build: the drafts' rows in order, then the null block.
LEMMA StatesMeant ==
    ASSUME NEW g, gbBatch \in GbBatches
    PROVE  PadTo(StateRows(g, gbBatch), Len(gbBatch), NullBlock) = MeantStates(g)
<1>. DEFINE b == gbBatch
            S == SpecRows(b)
            N == Len(b)
            below(r) == {q \in S : q < r}
            upto(r) == {q \in S : q <= r}
<1>1. N \in Nat /\ DOMAIN b = 1 .. N
  BY RowsOf
<1>2. S \in SUBSET (1 .. N) /\ IsFiniteSet(S) /\ Cardinality(S) \in Nat
  BY <1>1, PlainCounted, FS_CardinalityType DEF SpecRows
<1>3. ASSUME NEW r \in S
      PROVE  /\ Cardinality(below(r)) \in Nat
             /\ Cardinality(upto(r)) = Cardinality(below(r)) + 1
  <2>1. below(r) \in SUBSET S
    OBVIOUS
  <2>2. IsFiniteSet(below(r)) /\ Cardinality(below(r)) \in Nat
    BY <1>2, <2>1, FS_Subset, FS_CardinalityType
  <2>3. upto(r) = below(r) \cup {r} /\ r \notin below(r)
    BY <1>2
  <2>. HIDE DEF below, upto
  <2>. QED  BY <2>2, <2>3, FS_AddElement
<1>4. MeantStates(g) = [i \in 1 .. N |-> IF i > Cardinality(S) THEN NullBlock
                          ELSE <<g, CHOOSE r \in S : Cardinality(below(r)) = i - 1>>]
  BY <1>1 DEF MeantStates
<1>5. CASE S = DOMAIN b
  <2>1. Cardinality(S) = N
    <3>1. Cardinality(1 .. N) = IF 1 > N THEN 0 ELSE (N - 1) + 1
      BY <1>1, FS_Interval
    <3>2. Cardinality(1 .. N) = N
      BY <1>1, <3>1
    <3>. QED  BY <1>1, <1>5, <3>2
  <2>2. StateRows(g, b) = [i \in 1 .. N |-> <<g, i>>]
    BY <1>1, <1>5 DEF StateRows
  <2>3. Len(StateRows(g, b)) = N
    BY <1>1, <2>2
  <2>4. ASSUME NEW r \in S PROVE Cardinality(below(r)) = r - 1
    <3>1. r \in Int /\ 1 <= r /\ r <= N /\ below(r) = 1 .. r - 1
      BY <1>1, <1>5
    <3>2. PICK k : k = r - 1
      OBVIOUS
    <3>3. k \in Int /\ 0 <= k
      BY <3>1, <3>2
    <3>4. Cardinality(1 .. k) = IF 1 > k THEN 0 ELSE (k - 1) + 1
      BY <3>3, FS_Interval
    <3>5. Cardinality(1 .. k) = k
      BY <3>3, <3>4
    <3>. QED  BY <3>1, <3>2, <3>5
  <2>5. ASSUME NEW i \in 1 .. N PROVE (CHOOSE r \in S : Cardinality(below(r)) = i - 1) = i
    <3>1. i \in S /\ Cardinality(below(i)) = i - 1
      BY <1>1, <1>5, <2>4
    <3>2. \A r \in S : Cardinality(below(r)) = i - 1 => r = i
      <4>. SUFFICES ASSUME NEW r \in S, Cardinality(below(r)) = i - 1 PROVE r = i
        OBVIOUS
      <4>1. r - 1 = i - 1
        BY <2>4
      <4>2. r \in Int /\ i \in Int
        BY <1>1, <1>2
      <4>. QED  BY <4>1, <4>2
    <3>. HIDE DEF S, below
    <3>. QED  BY <3>1, <3>2
  <2>6. ASSUME NEW i \in 1 .. N
        PROVE  PadTo(StateRows(g, b), N, NullBlock)[i] = <<g, i>> /\ MeantStates(g)[i] = <<g, i>>
    <3>1. PadTo(StateRows(g, b), N, NullBlock)[i] = <<g, i>>
      BY <1>1, <2>2, <2>3 DEF PadTo
    <3>2. ~(i > Cardinality(S))
      BY <1>1, <2>1
    <3>3. MeantStates(g)[i] = <<g, CHOOSE r \in S : Cardinality(below(r)) = i - 1>>
      BY <1>4, <3>2
    <3>. QED  BY <2>5, <3>1, <3>3
  <2>. QED  BY <1>1, <1>4, <2>6 DEF PadTo
<1>6. CASE S # DOMAIN b
  <2>1. StateRows(g, b) = [i \in 1 .. Cardinality(S) |->
                              <<g, CHOOSE r \in S : Cardinality(upto(r)) = i>>]
    BY <1>6 DEF StateRows
  <2>2. Len(StateRows(g, b)) = Cardinality(S)
    BY <1>2, <2>1
  <2>3. ASSUME NEW i \in 1 .. Cardinality(S)
        PROVE  (CHOOSE r \in S : Cardinality(upto(r)) = i)
                 = (CHOOSE r \in S : Cardinality(below(r)) = i - 1)
    <3>1. \A r \in S : Cardinality(upto(r)) = i <=> Cardinality(below(r)) = i - 1
      BY <1>2, <1>3
    <3>. HIDE DEF S, upto, below
    <3>. QED  BY <3>1
  <2>4. ASSUME NEW i \in 1 .. N
        PROVE  PadTo(StateRows(g, b), N, NullBlock)[i] = MeantStates(g)[i]
    <3>1. CASE i > Cardinality(S)
      <4>1. PadTo(StateRows(g, b), N, NullBlock)[i] = NullBlock
        BY <1>1, <1>2, <2>2, <3>1 DEF PadTo
      <4>2. MeantStates(g)[i] = NullBlock
        BY <1>1, <1>2, <1>4, <3>1
      <4>. QED  BY <4>1, <4>2
    <3>2. CASE ~(i > Cardinality(S))
      <4>1. i \in 1 .. Cardinality(S)
        BY <1>1, <1>2, <3>2
      <4>2. PadTo(StateRows(g, b), N, NullBlock)[i] = StateRows(g, b)[i]
        BY <1>1, <1>2, <2>2, <4>1 DEF PadTo
      <4>3. StateRows(g, b)[i] = <<g, CHOOSE r \in S : Cardinality(upto(r)) = i>>
        BY <2>1, <4>1
      <4>4. MeantStates(g)[i] = <<g, CHOOSE r \in S : Cardinality(below(r)) = i - 1>>
        BY <1>1, <1>2, <1>4, <3>2
      <4>. QED  BY <2>3, <4>1, <4>2, <4>3, <4>4
    <3>. QED  BY <3>1, <3>2
  <2>. QED  BY <1>1, <1>4, <2>4 DEF PadTo
<1>. QED  BY <1>5, <1>6

\* What is stashed is a build of this step, which is one of drafts only; every group that
\* is done has what its own build would have made; and no cached tensor is a graph's.
StashedBuild ==
    gbShared # <<>> => /\ FastPath(gbBatch)
                       /\ \E o : gbShared = <<Values(o, gbBatch), Metadata(o, gbBatch, "heap")>>
GroupBuilt(g) ==
    /\ gbBuilt[g] = Metadata(g, gbBatch, "heap")
    /\ FastPath(gbBatch) => gbBuffers[g] = Values(g, gbBatch)

GbInv ==
    /\ gbArange.pool # "graph"
    /\ DOMAIN gbBuilt = Groups /\ DOMAIN gbBuffers = Groups
    /\ gbCapturing \in BOOLEAN
    /\ gbBatch # <<>> => /\ gbBatch \in GbBatches /\ gbGroup \in 1 .. GbGroups + 1
                         /\ StashedBuild
                         /\ \A g \in 1 .. gbGroup - 1 : GroupBuilt(g)

LEMMA GbInitOK == GbInit => GbInv
<1>. SUFFICES ASSUME GbInit PROVE GbInv
  OBVIOUS
<1>1. gbArange.pool = "none" /\ gbCapturing = FALSE /\ gbBatch = <<>>
  BY DEF GbInit
<1>2. DOMAIN gbBuilt = Groups /\ DOMAIN gbBuffers = Groups
  BY DEF GbInit
<1>. QED  BY <1>1, <1>2 DEF GbInv

LEMMA MissKeeps == GbInv /\ BuildMiss => GbInv'
<1>. SUFFICES ASSUME GbInv, BuildMiss PROVE GbInv'
  OBVIOUS
<1>. DEFINE g == gbGroup
            a == Arange(Counts(gbBatch).tokens)
<1>1. /\ gbBatch # <<>> /\ gbBatch \in GbBatches /\ g \in 1 .. GbGroups /\ gbGroup' = g + 1
      /\ gbBatch' = gbBatch /\ gbCapturing' = gbCapturing /\ GbGroups \in Nat
      /\ \A h \in 1 .. g - 1 : GroupBuilt(h)
  BY GdnBuildAssumption DEF BuildMiss, GbInv, Groups
<1>2. ~gbCapturing => a.pool # "graph"
  BY DEF Arange, GbInv
<1>3. gbArange'.pool # "graph"
  BY <1>2 DEF BuildMiss, Keep, GbInv
<1>4. /\ gbBuilt' = [gbBuilt EXCEPT ![g] = Metadata(g, gbBatch, "heap")]
      /\ gbBuffers' = IF FastPath(gbBatch) THEN [gbBuffers EXCEPT ![g] = Values(g, gbBatch)]
                      ELSE gbBuffers
  BY <1>2 DEF BuildMiss
<1>5. DOMAIN gbBuilt' = Groups /\ DOMAIN gbBuffers' = Groups
  BY <1>4 DEF GbInv
<1>6. \A h \in 1 .. gbGroup' - 1 : GroupBuilt(h)'
  <2>. SUFFICES ASSUME NEW h \in 1 .. g PROVE GroupBuilt(h)'
    BY <1>1
  <2>1. CASE h = g
    BY <1>1, <1>4, <2>1 DEF GroupBuilt, GbInv, Groups
  <2>2. CASE h # g
    <3>1. GroupBuilt(h)
      BY <1>1, <2>2
    <3>2. gbBuilt'[h] = gbBuilt[h] /\ gbBuffers'[h] = gbBuffers[h]
      BY <1>1, <1>4, <2>2 DEF GbInv, Groups
    <3>. QED  BY <1>1, <3>1, <3>2 DEF GroupBuilt
  <2>. QED  BY <2>1, <2>2
<1>7. StashedBuild'
  BY <1>1 DEF StashedBuild, BuildMiss, Stashable
<1>8. gbGroup' \in 1 .. GbGroups + 1
  BY <1>1
<1>. QED  BY <1>1, <1>3, <1>5, <1>6, <1>7, <1>8 DEF GbInv

LEMMA HitKeeps == GbInv /\ BuildHit => GbInv'
<1>. SUFFICES ASSUME GbInv, BuildHit PROVE GbInv'
  OBVIOUS
<1>. DEFINE g == gbGroup
<1>1. /\ gbBatch # <<>> /\ gbBatch \in GbBatches /\ g \in 1 .. GbGroups /\ gbGroup' = g + 1
      /\ gbBatch' = gbBatch /\ gbCapturing' = gbCapturing /\ GbGroups \in Nat
      /\ gbShared # <<>> /\ gbShared' = gbShared /\ gbArange' = gbArange
      /\ \A h \in 1 .. g - 1 : GroupBuilt(h)
  BY GdnBuildAssumption DEF BuildHit, GbInv, Groups
<1>2. FastPath(gbBatch) /\ StashedBuild
  BY <1>1 DEF GbInv, StashedBuild
<1>3. PICK o : gbShared = <<Values(o, gbBatch), Metadata(o, gbBatch, "heap")>>
  BY <1>1, <1>2 DEF StashedBuild
<1>4. /\ gbBuilt' = [gbBuilt EXCEPT ![g] = Metadata(g, gbBatch, "heap")]
      /\ gbBuffers' = [gbBuffers EXCEPT ![g] = Values(g, gbBatch)]
  <2>1. gbShared[1] = Values(o, gbBatch) /\ gbShared[2] = Metadata(o, gbBatch, "heap")
    BY <1>3
  <2>2. /\ [gbShared[1] EXCEPT !.states = CopiedStates(g, gbBatch)] = Values(g, gbBatch)
        /\ [gbShared[2] EXCEPT !.stash = [i \in DOMAIN gbBatch |-> <<g, i>>],
                               !.rows = StateRows(g, gbBatch)] = Metadata(g, gbBatch, "heap")
    <3>1. PICK v, m : v = gbShared[1] /\ m = gbShared[2]
      OBVIOUS
    <3>2. /\ [v EXCEPT !.states = CopiedStates(g, gbBatch)] = Values(g, gbBatch)
          /\ [m EXCEPT !.stash = [i \in DOMAIN gbBatch |-> <<g, i>>],
                       !.rows = StateRows(g, gbBatch)] = Metadata(g, gbBatch, "heap")
      <4>1. v = Values(o, gbBatch) /\ m = Metadata(o, gbBatch, "heap")
        BY <2>1, <3>1
      <4>2. /\ [Values(o, gbBatch) EXCEPT !.states = CopiedStates(g, gbBatch)] = Values(g, gbBatch)
            /\ [Metadata(o, gbBatch, "heap") EXCEPT !.stash = [i \in DOMAIN gbBatch |-> <<g, i>>],
                                                    !.rows = StateRows(g, gbBatch)]
                  = Metadata(g, gbBatch, "heap")
        BY <1>1, <1>2, CopiedAsBuilt
      <4>. QED  BY <4>1, <4>2
    <3>. QED  BY <3>1, <3>2
  <2>3. /\ gbBuilt' = [gbBuilt EXCEPT ![g] =
               [gbShared[2] EXCEPT !.stash = [i \in DOMAIN gbBatch |-> <<g, i>>],
                                   !.rows = StateRows(g, gbBatch)]]
        /\ gbBuffers' = [gbBuffers EXCEPT ![g] =
               [gbShared[1] EXCEPT !.states = CopiedStates(g, gbBatch)]]
    BY DEF BuildHit
  <2>. QED  BY <2>2, <2>3
<1>5. DOMAIN gbBuilt' = Groups /\ DOMAIN gbBuffers' = Groups
  BY <1>4 DEF GbInv
<1>6. \A h \in 1 .. gbGroup' - 1 : GroupBuilt(h)'
  <2>. SUFFICES ASSUME NEW h \in 1 .. g PROVE GroupBuilt(h)'
    BY <1>1
  <2>1. CASE h = g
    BY <1>1, <1>4, <2>1 DEF GroupBuilt, GbInv, Groups
  <2>2. CASE h # g
    <3>1. GroupBuilt(h)
      BY <1>1, <2>2
    <3>2. gbBuilt'[h] = gbBuilt[h] /\ gbBuffers'[h] = gbBuffers[h]
      BY <1>1, <1>4, <2>2 DEF GbInv, Groups
    <3>. QED  BY <1>1, <3>1, <3>2 DEF GroupBuilt
  <2>. QED  BY <2>1, <2>2
<1>7. StashedBuild'
  BY <1>1, <1>2 DEF StashedBuild
<1>8. gbGroup' \in 1 .. GbGroups + 1
  BY <1>1
<1>. QED  BY <1>1, <1>5, <1>6, <1>7, <1>8 DEF GbInv

LEMMA GbNextKeeps == GbInv /\ [GbNext]_gbVars => GbInv'
<1>. SUFFICES ASSUME GbInv, [GbNext]_gbVars PROVE GbInv'
  OBVIOUS
<1>1. ASSUME NEW c \in BOOLEAN, StartStep(c) PROVE GbInv'
  <2>1. gbBatch' # <<>> => gbBatch' \in GbBatches
    BY <1>1 DEF StartStep
  <2>2. gbGroup' = 1 /\ gbShared' = <<>> /\ gbArange' = gbArange /\ gbCapturing' = c
    BY <1>1 DEF StartStep
  <2>3. DOMAIN gbBuilt' = Groups /\ gbBuffers' = gbBuffers
    BY <1>1 DEF StartStep
  <2>4. gbGroup' \in 1 .. GbGroups + 1 /\ 1 .. gbGroup' - 1 = {}
    BY <2>2, GdnBuildAssumption
  <2>. QED  BY <2>1, <2>2, <2>3, <2>4 DEF GbInv, StashedBuild
<1>2. CASE BuildMiss
  BY <1>2, MissKeeps
<1>3. CASE BuildHit
  BY <1>3, HitKeeps
<1>4. CASE EndStep
  BY <1>4 DEF EndStep, GbInv
<1>5. CASE UNCHANGED gbVars
  BY <1>5 DEF gbVars, GbInv, StashedBuild, GroupBuilt
<1>. QED  BY <1>1, <1>2, <1>3, <1>4, <1>5 DEF GbNext

LEMMA BuildAlways == GbSpec => []GbInv
BY GbInitOK, GbNextKeeps, PTL DEF GbSpec

LEMMA BuiltIsMeant == GbInv => BuiltForThisStep
<1>. SUFFICES ASSUME GbInv, gbBatch # <<>>, NEW g \in 1 .. gbGroup - 1,
                     NEW others, others = {i \in DOMAIN gbBatch : gbBatch[i].ndt < 0 /\ gbBatch[i].len > 1}
              PROVE  LET m == gbBuilt[g]
                     IN  /\ m.stash = [i \in DOMAIN gbBatch |-> <<g, i>>]
                         /\ m.pool = "heap"
                         /\ IsSpec(gbBatch) => m.counts.prefills = Cardinality(others)
                         /\ \A row \in m.others : row[1] = g
                         /\ m.fast => gbBuffers[g] = [Values(g, gbBatch) EXCEPT !.states = MeantStates(g)]
                         /\ m.fast = FastPath(gbBatch)
  BY DEF BuiltForThisStep
<1>1. gbBatch \in GbBatches /\ GroupBuilt(g)
  BY DEF GbInv
<1>2. PICK m : m = gbBuilt[g]
  OBVIOUS
<1>3. m = Metadata(g, gbBatch, "heap")
  BY <1>1, <1>2 DEF GroupBuilt
<1>4. /\ m.stash = [i \in DOMAIN gbBatch |-> <<g, i>>] /\ m.pool = "heap"
      /\ m.counts = Counts(gbBatch)
      /\ m.fast = FastPath(gbBatch)
  BY <1>3 DEF Metadata
<1>5. m.others = {<<g, i>> : i \in {r \in DOMAIN gbBatch : gbBatch[r].len > 0
                                      /\ ~(IsSpec(gbBatch) /\ gbBatch[r].ndt >= 0)}}
  BY <1>3 DEF Metadata
<1>6. \A row \in m.others : row[1] = g
  BY <1>5
<1>7. m.counts.prefills = Cardinality(others)
  BY <1>1, <1>4, PlainCounted DEF Prefills
<1>8. m.fast => gbBuffers[g] = [Values(g, gbBatch) EXCEPT !.states = MeantStates(g)]
  <2>. SUFFICES ASSUME FastPath(gbBatch)
                PROVE  gbBuffers[g] = [Values(g, gbBatch) EXCEPT !.states = MeantStates(g)]
    BY <1>4
  <2>1. gbBuffers[g] = Values(g, gbBatch)
    BY <1>1 DEF GroupBuilt
  <2>2. PadTo(StateRows(g, gbBatch), Len(gbBatch), NullBlock) = MeantStates(g)
    BY <1>1, StatesMeant
  <2>. QED  BY <2>1, <2>2 DEF Values
<1>. QED  BY <1>2, <1>4, <1>6, <1>7, <1>8

\* When a group is built, its buffers and its metadata are those of this step: its own block
\* table's rows of the drafts, NULL after them, and the batch's prefills (BuiltForThisStep),
\* whether it was built or copied, in a capture or after one; for any groups and batches.
THEOREM GroupsBuiltRight == GbSpec => []BuiltForThisStep
BY BuildAlways, BuiltIsMeant, PTL

-----------------------------------------------------------------------------
(* MCRequests: the three side by side                                      *)

RequestsInv ==
    /\ LazyInv /\ GbInv
    /\ focus = "mirror" => IInv
    /\ focus # "mirror" => seen = [r \in {} |-> 0]

\* In every behaviour that exercises one of them with the others at rest: the mirror holds
\* each request's own tokens, a step starts from the accepted ones, a replay is complete, a
\* checkpoint exact, the metadata those of the step, and a match continues the own text.
THEOREM RequestsRight ==
    ASSUME HitReach = 1, MaxLen <= Shift
    PROVE  MCSpec => /\ [](MirrorIsText /\ StartsFromContext /\ ReplayComplete
                             /\ CheckpointsExact /\ BuiltForThisStep)
                     /\ ContinuesOwnText
<1>1. MCInit => RequestsInv
  <2>. SUFFICES ASSUME MCInit PROVE RequestsInv
    OBVIOUS
  <2>1. LazyInv /\ GbInv
    BY InitLazy, GbInitOK DEF MCInit
  <2>2. focus = "mirror" => IInv
    BY InvInit DEF MCInit
  <2>3. focus # "mirror" => seen = [r \in {} |-> 0]
    BY DEF MCInit
  <2>. QED  BY <2>1, <2>2, <2>3 DEF RequestsInv
<1>2. RequestsInv /\ [MCNext]_all => RequestsInv'
  <2>. SUFFICES ASSUME RequestsInv, [MCNext]_all PROVE RequestsInv'
    OBVIOUS
  <2>1. UNCHANGED focus /\ [GlNext]_glVars /\ [GbNext]_gbVars
        /\ (focus = "mirror" => [Next]_vars) /\ (focus # "mirror" => UNCHANGED vars)
    BY DEF MCNext, all
  <2>2. LazyInv'
    BY <2>1, NextKeeps DEF RequestsInv
  <2>3. GbInv'
    BY <2>1, GbNextKeeps DEF RequestsInv
  <2>4. focus' = "mirror" => IInv'
    BY <2>1, InvNext DEF RequestsInv
  <2>5. focus' # "mirror" => seen' = [r \in {} |-> 0]
    BY <2>1 DEF RequestsInv, vars
  <2>. QED  BY <2>2, <2>3, <2>4, <2>5 DEF RequestsInv
<1>3. RequestsInv => MirrorIsText /\ StartsFromContext /\ ReplayComplete
                       /\ CheckpointsExact /\ BuiltForThisStep
  <2>. SUFFICES ASSUME RequestsInv
                PROVE  MirrorIsText /\ StartsFromContext /\ ReplayComplete
                         /\ CheckpointsExact /\ BuiltForThisStep
    OBVIOUS
  <2>1. MirrorIsText
    <3>1. CASE focus = "mirror"
      BY <3>1 DEF RequestsInv, IInv
    <3>2. CASE focus # "mirror"
      BY <3>2 DEF RequestsInv, MirrorIsText
    <3>. QED  BY <3>1, <3>2
  <2>2. StartsFromContext
    BY ResumedIs DEF RequestsInv, StartsFromContext
  <2>3. ReplayComplete
    BY ReplayWhole DEF RequestsInv
  <2>4. CheckpointsExact
    BY DEF RequestsInv, LazyInv
  <2>5. BuiltForThisStep
    BY BuiltIsMeant DEF RequestsInv
  <2>. QED  BY <2>1, <2>2, <2>3, <2>4, <2>5
<1>4. RequestsInv /\ [MCNext]_all =>
         [cont' # cont /\ cont' # <<>> => \A i \in DOMAIN rows : OwnText(i)]_vars
  <2>. SUFFICES ASSUME RequestsInv, [MCNext]_all, cont' # cont, cont' # <<>>
                PROVE  \A i \in DOMAIN rows : OwnText(i)
    BY DEF vars
  <2>1. focus = "mirror" /\ [Next]_vars
    BY DEF MCNext, all, vars
  <2>. QED  BY <2>1, OwnStep DEF RequestsInv
<1>. QED  BY <1>1, <1>2, <1>3, <1>4, PTL DEF MCSpec, ContinuesOwnText, OwnText
===============================================================================
