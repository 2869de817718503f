---------------------------- MODULE ContextMirror ----------------------------
(***************************************************************************)
(* The n-gram side of the draft controller: the device's mirror of every   *)
(* request's tokens (_prepare_match_gpu in radiance_draft.py) and the      *)
(* longest-suffix matcher that searches it (radiance_draft_gpu.py).        *)
(*                                                                         *)
(* The rows of the input batch are vLLM's: requests come, go, are put      *)
(* aside and resumed, and are reshuffled over the rows between two calls   *)
(* of the drafter.  A request's text only grows and its id is its own.     *)
(***************************************************************************)
EXTENDS Integers, Sequences, FiniteSets, FiniteSetsExt, TLAPS

CONSTANTS
    Req,        \* request ids
    Tok,        \* token ids
    NRows,      \* rows of the input batch, max_num_reqs
    MaxLen,     \* columns of the mirror, max_model_len
    MinMatch,   \* _MIN, and the shortest context worth a search
    MaxMatch,   \* _MAXL
    Shift,      \* 2^_SH: a key packs match length * Shift + end position
    NSpec       \* num_spec_tokens

ASSUME MirrorAssumption ==
    /\ NRows \in Nat \ {0} /\ MaxLen \in Nat \ {0}
    /\ MinMatch \in Nat \ {0} /\ MaxMatch \in Nat /\ MinMatch <= MaxMatch
    /\ Shift \in Nat \ {0} /\ NSpec \in Nat \ {0}

Row == 1 .. NRows
Pos == 1 .. MaxLen
Empty == "empty"

ASSUME TokAssumption == Empty \notin Tok

VARIABLES
    text,    \* by request, what its tokens are and will be
    len,     \* num_tokens_no_spec
    rows,    \* input_batch.req_ids: the request on each occupied row
    mirror,  \* _radiance_ctx_gpu
    seen,    \* _radiance_seen: by mirrored request, row and tokens mirrored
    cont     \* _radiance_cont by row, <<>> when there is none

vars == <<text, len, rows, mirror, seen, cont>>

OnRows(rs) == {rs[i] : i \in DOMAIN rs}

-----------------------------------------------------------------------------
(* The matcher: positions are counted from 0 in the packed key, as there   *)

\* How far the text that ends at position q agrees with the end of the text.
MatchLen(row, n, q) ==
    Max({l \in 0 .. MaxMatch :
            l <= q /\ \A k \in 0 .. l - 1 : row[q - k] = row[n - k]})

Keys(row, n) ==
    {MatchLen(row, n, q) * Shift + (q - 1) :
        q \in {p \in 1 .. n - 1 : MatchLen(row, n, p) >= MinMatch}}

\* Mutant of BestKey: the earliest of the shortest matches.
BestKeyLeast(row, n) == IF Keys(row, n) = {} THEN 0 ELSE Min(Keys(row, n))

\* The atomic maximum over all end positions; 0 is no match.
BestKey(row, n) == Max({0} \cup Keys(row, n))

\* The tokens that follow the match, at most NSpec, none from beyond the text.
Continuation(row, n) ==
    LET key == BestKey(row, n)
        start == (key % Shift) + 1
        left == n - start
    IN  IF key = 0 THEN <<>>
        ELSE [t \in 1 .. (IF left < NSpec THEN left ELSE NSpec) |-> row[start + t]]

-----------------------------------------------------------------------------
(* The mirror                                                              *)

\* Mutant of Mirrored: keyed by the request id alone.
MirroredAnyRow(i) == IF rows[i] \in DOMAIN seen THEN seen[rows[i]].n ELSE 0

\* How much of the request on row i the mirror's row i already holds.
Mirrored(i) ==
    IF rows[i] \in DOMAIN seen /\ seen[rows[i]].row = i THEN seen[rows[i]].n ELSE 0

\* The columns that are copied to row i, and the mirror after the copies.
Copied(i) == IF i \in DOMAIN rows THEN Mirrored(i) + 1 .. len[rows[i]] ELSE {}

Synced ==
    [i \in Row |-> [p \in Pos |-> IF p \in Copied(i) THEN text[rows[i]][p]
                                  ELSE mirror[i][p]]]

RowOf(r) == CHOOSE i \in DOMAIN rows : rows[i] = r

\* Mutant of Remembered: one token more than were mirrored.
RememberedNext == [r \in OnRows(rows) |-> [row |-> RowOf(r), n |-> len[r] + 1]]

\* Every request of the batch with its row and length; the others are forgotten.
Remembered == [r \in OnRows(rows) |-> [row |-> RowOf(r), n |-> len[r]]]

Init ==
    /\ text \in [Req -> [Pos -> Tok]]
    /\ len = [r \in Req |-> 0]
    /\ rows = <<>>
    /\ mirror = [i \in Row |-> [p \in Pos |-> Empty]]
    /\ seen = [r \in {} |-> 0]
    /\ cont = <<>>

\* A request is scheduled: a new one with its prompt, or one put aside before
\* with all its tokens.  It goes to the first free row.
Enter(r) ==
    /\ r \notin OnRows(rows) /\ Len(rows) < NRows
    /\ rows' = Append(rows, r)
    /\ len' = [len EXCEPT ![r] = IF @ = 0 THEN 1 ELSE @]
    /\ UNCHANGED <<text, mirror, seen, cont>>

\* A request finishes or is put aside; the occupied rows close up in any order.
Leave(i) ==
    /\ i \in DOMAIN rows
    /\ rows' \in {s \in [1 .. Len(rows) - 1 -> OnRows(rows) \ {rows[i]}] :
                    \A a, b \in DOMAIN s : s[a] = s[b] => a = b}
    /\ UNCHANGED <<text, len, mirror, seen, cont>>

\* A step of the target appends the tokens it accepted.
Accept(i) ==
    /\ i \in DOMAIN rows
    /\ \E n \in 1 .. MaxLen : n > len[rows[i]] /\ len' = [len EXCEPT ![rows[i]] = n]
    /\ UNCHANGED <<text, rows, mirror, seen, cont>>

\* _prepare_match_gpu: bring the mirror up to date, forget who left, match.
PrepareMatch ==
    IF rows = <<>>
    THEN /\ cont' = <<>>
         /\ UNCHANGED <<text, len, rows, mirror, seen>>
    ELSE /\ mirror' = Synced
         /\ seen' = Remembered
         /\ cont' = IF \E i \in DOMAIN rows : len[rows[i]] >= MinMatch
                    THEN [i \in DOMAIN rows |-> Continuation(mirror'[i], len[rows[i]])]
                    ELSE <<>>
         /\ UNCHANGED <<text, len, rows>>

Next ==
    \/ \E r \in Req : Enter(r)
    \/ \E i \in Row : Leave(i) \/ Accept(i)
    \/ PrepareMatch

Spec == Init /\ [][Next]_vars

-----------------------------------------------------------------------------
(* Properties                                                              *)

\* Every request is on at most one row, and the mirror has its shape.
TypeOK ==
    /\ text \in [Req -> [Pos -> Tok]]
    /\ len \in [Req -> 0 .. MaxLen]
    /\ rows \in Seq(Req) /\ Len(rows) <= NRows
    /\ \A i, k \in DOMAIN rows : rows[i] = rows[k] => i = k
    /\ mirror \in [Row -> [Pos -> Tok \cup {Empty}]]
    /\ seen \in [DOMAIN seen -> [row : Row, n : 0 .. MaxLen]]
    /\ DOMAIN seen \subseteq Req

\* A row of the mirror holds the tokens of the request it was mirrored for, as
\* far as the runner remembers having mirrored it: whoever has used the row
\* since, however the batch was reshuffled.
MirrorIsText ==
    \A r \in DOMAIN seen : \A p \in 1 .. seen[r].n :
        mirror[seen[r].row][p] = text[r][p]

\* Reference: the positions at which an earlier occurrence of the last l tokens
\* of a text of n tokens ends.
EndsOf(t, n, l) == {q \in l .. n - 1 : \A k \in 0 .. l - 1 : t[q - k] = t[n - k]}

Longest(t, n) ==
    Max({0} \cup {l \in MinMatch .. MaxMatch : EndsOf(t, n, l) # {}})

\* A continuation is copied from the request's own text: what follows the
\* latest of the longest earlier occurrences of its last tokens.
ContinuesOwnText ==
    [][cont' # cont /\ cont' # <<>> =>
          \A i \in DOMAIN rows :
            LET t == text[rows[i]]
                n == len[rows[i]]
                l == Longest(t, n)
                e == IF l = 0 THEN 0 ELSE Max(EndsOf(t, n, l))
            IN  cont'[i] = IF l = 0 THEN <<>>
                           ELSE [k \in 1 .. Min({n - e, NSpec}) |-> t[e + k]]]_vars

-----------------------------------------------------------------------------
(* A row of the mirror never holds another request's tokens under the      *)
(* request it is remembered for.                                           *)

IInv == TypeOK /\ MirrorIsText

\* The row of a request that is on one.
LEMMA RowOfFacts ==
    ASSUME TypeOK, NEW r \in OnRows(rows)
    PROVE  RowOf(r) \in DOMAIN rows /\ rows[RowOf(r)] = r /\ RowOf(r) \in Row
<1>1. \E i \in DOMAIN rows : rows[i] = r
  BY DEF OnRows
<1>2. RowOf(r) \in DOMAIN rows /\ rows[RowOf(r)] = r
  BY <1>1 DEF RowOf
<1>. QED  BY <1>2, MirrorAssumption DEF TypeOK, Row

\* What the copies leave in the part of a row that belongs to its request.
LEMMA SyncedText ==
    ASSUME IInv, NEW r \in OnRows(rows), NEW p \in 1 .. len[r]
    PROVE  Synced[RowOf(r)][p] = text[r][p]
<1>. DEFINE i == RowOf(r)
<1>1. i \in DOMAIN rows /\ rows[i] = r /\ i \in Row
  BY RowOfFacts DEF IInv
<1>2. r \in Req /\ len[r] \in 0 .. MaxLen /\ p \in Pos
  BY <1>1, MirrorAssumption DEF IInv, TypeOK, Pos
<1>. HIDE DEF i
<1>3. Synced[i][p] = IF p \in Copied(i) THEN text[rows[i]][p] ELSE mirror[i][p]
  BY <1>1, <1>2 DEF Synced
<1>4. CASE p \in Copied(i)
  BY <1>1, <1>3, <1>4 DEF i
<1>5. CASE p \notin Copied(i)
  <2>1. Mirrored(i) \in Nat
    BY <1>1, MirrorAssumption DEF Mirrored, IInv, TypeOK
  <2>2. p <= Mirrored(i)
    BY <1>1, <1>2, <1>5, <2>1 DEF Copied
  <2>3. r \in DOMAIN seen /\ seen[r].row = i /\ p \in 1 .. seen[r].n
    BY <1>1, <1>2, <2>1, <2>2, MirrorAssumption DEF Mirrored, IInv, TypeOK, Pos
  <2>4. mirror[i][p] = text[r][p]
    BY <2>3 DEF IInv, MirrorIsText
  <2>. QED  BY <1>3, <1>5, <2>4 DEF i
<1>. QED  BY <1>4, <1>5

LEMMA InvInit == Init => IInv
<1>. SUFFICES ASSUME Init PROVE IInv
  OBVIOUS
<1>. USE MirrorAssumption DEF Init
<1>1. DOMAIN seen = {} /\ rows \in Seq(Req) /\ Len(rows) = 0
  OBVIOUS
<1>2. TypeOK
  BY <1>1 DEF TypeOK
<1>. QED  BY <1>1, <1>2 DEF IInv, MirrorIsText

LEMMA InvNext == IInv /\ [Next]_vars => IInv'
<1>. SUFFICES ASSUME IInv, [Next]_vars PROVE IInv'
  OBVIOUS
<1>. USE MirrorAssumption DEF IInv
<1>1. CASE \E r \in Req : Enter(r)
  <2>. PICK r \in Req : Enter(r)
    BY <1>1
  <2>1. rows' = Append(rows, r) /\ r \notin OnRows(rows) /\ Len(rows) < NRows
    BY DEF Enter
  <2>2. rows' \in Seq(Req) /\ Len(rows') <= NRows
    BY <2>1 DEF TypeOK
  <2>3. \A i, k \in DOMAIN rows' : rows'[i] = rows'[k] => i = k
    BY <2>1 DEF TypeOK, OnRows
  <2>4. len' \in [Req -> 0 .. MaxLen]
    BY DEF Enter, TypeOK
  <2>. QED  BY <2>2, <2>3, <2>4 DEF Enter, TypeOK, MirrorIsText
<1>2. CASE \E i \in Row : Leave(i)
  <2>. PICK i \in Row : Leave(i)
    BY <1>2
  <2>1. /\ rows' \in [1 .. Len(rows) - 1 -> OnRows(rows) \ {rows[i]}]
        /\ \A x, y \in DOMAIN rows' : rows'[x] = rows'[y] => x = y
        /\ i \in DOMAIN rows
    BY DEF Leave
  <2>2. OnRows(rows) \subseteq Req /\ Len(rows) - 1 \in Nat
    BY <2>1 DEF TypeOK, OnRows
  <2>3. rows' \in [1 .. Len(rows) - 1 -> Req]
    BY <2>1, <2>2
  <2>4. rows' \in Seq(Req) /\ Len(rows') = Len(rows) - 1
    BY <2>2, <2>3
  <2>5. Len(rows') <= NRows
    BY <2>2, <2>4 DEF TypeOK
  <2>. QED  BY <2>1, <2>4, <2>5 DEF Leave, TypeOK, MirrorIsText
<1>3. CASE \E i \in Row : Accept(i)
  <2>. PICK i \in Row : Accept(i)
    BY <1>3
  <2>1. len' \in [Req -> 0 .. MaxLen]
    BY DEF Accept, TypeOK
  <2>. QED  BY <2>1 DEF Accept, TypeOK, MirrorIsText
<1>4. CASE PrepareMatch
  <2>1. CASE rows = <<>>
    BY <1>4, <2>1 DEF PrepareMatch, TypeOK, MirrorIsText
  <2>2. CASE rows # <<>>
    <3>1. mirror' = Synced /\ seen' = Remembered /\ UNCHANGED <<text, len, rows>>
      BY <1>4, <2>2 DEF PrepareMatch
    <3>2. DOMAIN seen' = OnRows(rows) /\ OnRows(rows) \subseteq Req
      BY <3>1 DEF Remembered, OnRows, TypeOK
    <3>3. \A r \in OnRows(rows) : seen'[r] = [row |-> RowOf(r), n |-> len[r]]
      BY <3>1 DEF Remembered
    <3>4. seen' \in [DOMAIN seen' -> [row : Row, n : 0 .. MaxLen]]
      <4>1. \A r \in OnRows(rows) : RowOf(r) \in Row /\ len[r] \in 0 .. MaxLen
        BY <3>2, RowOfFacts DEF TypeOK
      <4>. QED  BY <3>1, <3>2, <3>3, <4>1 DEF Remembered
    <3>5. mirror' \in [Row -> [Pos -> Tok \cup {Empty}]]
      <4>1. \A i \in Row, p \in Pos : p \in Copied(i) => text[rows[i]][p] \in Tok
        BY DEF Copied, TypeOK
      <4>. QED  BY <3>1, <4>1 DEF Synced, TypeOK
    <3>6. TypeOK'
      BY <3>1, <3>2, <3>4, <3>5 DEF TypeOK
    <3>7. MirrorIsText'
      <4>. SUFFICES ASSUME NEW r \in OnRows(rows), NEW p \in 1 .. len[r]
                    PROVE  mirror'[RowOf(r)][p] = text[r][p]
        BY <3>1, <3>2, <3>3 DEF MirrorIsText
      <4>. QED  BY <3>1, SyncedText
    <3>. QED  BY <3>6, <3>7
  <2>. QED  BY <2>1, <2>2
<1>5. CASE UNCHANGED vars
  BY <1>5 DEF vars, TypeOK, MirrorIsText
<1>. QED  BY <1>1, <1>2, <1>3, <1>4, <1>5 DEF Next

\* However requests move between the rows of the batch, leave it and come back,
\* the mirror holds every remembered request's own tokens: for any number of
\* requests, rows and tokens.
THEOREM MirrorCorrect == Spec => []MirrorIsText
<1>1. IInv => MirrorIsText
  BY DEF IInv
<1>. QED  BY <1>1, InvInit, InvNext, PTL DEF Spec
=============================================================================
