------------------------ MODULE OneShotAllReduceProofs ------------------------
(***************************************************************************)
(* Theorems about OneShotAllReduce for every group size, every sequence of *)
(* calls and every number of blocks. Typing needs no condition. The        *)
(* safety of the double buffer needs the grid to be the same for every     *)
(* call, no wrap of the sequence counters and no spin that gives up; under *)
(* the same conditions the kernel implements CollectiveSum.                *)
(***************************************************************************)
EXTENDS OneShotAllReduce, TLAPS

(* Two senders never share a receive region, and every region exists.      *)
LEMMA RegionTyped ==
    \A i, j \in Rank : i # j => Region(i, j) \in RegionIx
BY ParamAssumption DEF Rank, Region, RegionIx

LEMMA RegionInjective ==
    \A i, k, j \in Rank :
        i # j /\ k # j /\ Region(i, j) = Region(k, j) => i = k
BY ParamAssumption DEF Rank, Region

(* A chunk is a set of words of its message.                               *)
LEMMA ChunkWords ==
    \A k \in Call : \A b \in Block : Chunk(k, b) \subseteq AnyWord
BY DEF Chunk, AnyWord

LEMMA NCallsNat == NCalls \in Nat
BY MsgsAssumption DEF MsgAssumption, NCalls

(* A sequence counter that has not wrapped counts.                         *)
LEMMA SeqStep ==
    /\ \A x \in 0 .. SeqMod - 1 : (x + 1) % SeqMod \in 0 .. SeqMod - 1
    /\ \A x \in Nat : x < SeqMod => x % SeqMod = x
BY ParamAssumption

(* A block is under way only in a call of the program, and only if the call *)
(* has that block.                                                         *)
BusyInCall ==
    \A r \in Rank, b \in Block :
        pc[r][b] # "queued" => call[r] \in Call /\ b \in BlocksOf(call[r])

TypeInv == TypeOK /\ BusyInCall

LEMMA SlotTyped ==
    ASSUME TypeOK, NEW r \in Rank, NEW b \in Block
    PROVE  SlotOf(r, b) \in Slot
<1>1. seqCtr[r][b] \in Int
  BY ParamAssumption DEF TypeOK
<1> QED
  BY <1>1 DEF SlotOf, Slot

LEMMA TypeInit == Init => TypeInv
<1> SUFFICES ASSUME Init PROVE TypeInv
  OBVIOUS
<1>1. TypeOK
  <2>1. Nothing \in [Rank -> 0 .. NCalls]
    BY NCallsNat DEF Nothing
  <2> QED
    BY <2>1, NCallsNat, ParamAssumption DEF Init, TypeOK, Stages
<1>2. BusyInCall
  BY DEF Init, BusyInCall
<1> QED
  BY <1>1, <1>2 DEF TypeInv

(* Consecutive calls use different slots.                                  *)
LEMMA SlotParity == \A n \in Nat : n % 2 \in Slot /\ n % 2 # (n + 1) % 2
BY DEF Slot

(* The inductive step of TypeInv, one action at a time.                    *)
LEMMA TypeStep == TypeInv /\ [Next]_vars => TypeInv'
<1> SUFFICES ASSUME TypeInv, [Next]_vars PROVE TypeInv'
  OBVIOUS
<1> USE NCallsNat, ParamAssumption DEF TypeInv
<1>1. ASSUME NEW r \in Rank, NEW b \in Block, Start(r, b) PROVE TypeInv'
  <2>1. call[r] \in Call
    BY <1>1 DEF Start, TypeOK, Call
  <2>2. (seqCtr[r][b] + 1) % SeqMod \in 0 .. SeqMod - 1
    BY SeqStep DEF TypeOK
  <2>3. Chunk(call[r], b) \X Peers(r) \in SUBSET (AnyWord \X Rank)
    BY <2>1, ChunkWords DEF Peers
  <2>4. TypeOK'
    BY <1>1, <2>2, <2>3 DEF Start, TypeOK, Stages
  <2>5. BusyInCall'
    BY <1>1, <2>1 DEF Start, TypeOK, BusyInCall
  <2> QED
    BY <2>4, <2>5
<1>2. ASSUME NEW r \in Rank, NEW b \in Block, NEW p \in Peers(r), NEW w \in AnyWord,
             Push(r, b, w, p)
      PROVE TypeInv'
  <2>1. p \in Rank /\ Region(r, p) \in RegionIx
    BY RegionTyped DEF Peers
  <2>2. SlotOf(r, b) \in Slot
    BY SlotTyped
  <2>3. call[r] \in 0 .. NCalls
    BY <1>2 DEF Push, BusyInCall, Call
  <2>4. TypeOK'
    BY <1>2, <2>1, <2>2, <2>3 DEF Push, TypeOK
  <2>5. BusyInCall'
    BY <1>2 DEF Push, BusyInCall
  <2> QED
    BY <2>4, <2>5
<1>3. ASSUME NEW r \in Rank, NEW b \in Block, Drain(r, b) PROVE TypeInv'
  <2>1. TypeOK'
    BY <1>3 DEF Drain, TypeOK, FlagTargets, Peers, Stages
  <2>2. BusyInCall'
    BY <1>3 DEF Drain, TypeOK, BusyInCall
  <2> QED
    BY <2>1, <2>2
<1>4. ASSUME NEW r \in Rank, NEW b \in Block, NEW p \in Peers(r), Signal(r, b, p)
      PROVE TypeInv'
  <2>1. p \in Rank /\ Region(r, p) \in RegionIx
    BY RegionTyped DEF Peers
  <2> DEFINE stage == IF waiting[r][b] = {p} THEN "spin" ELSE "flag"
             rest == IF waiting[r][b] = {p} THEN Peers(r) ELSE waiting[r][b] \ {p}
  <2>2. stage \in {"spin", "flag"} /\ rest \in SUBSET Rank /\ r \notin rest
    BY DEF TypeOK, Peers
  <2>3. /\ pc' = [pc EXCEPT ![r][b] = stage]
        /\ waiting' = [waiting EXCEPT ![r][b] = rest]
    BY <1>4 DEF Signal, TypeOK
  <2> HIDE DEF stage, rest
  <2>4. TypeOK'
    BY <1>4, <2>1, <2>2, <2>3 DEF Signal, TypeOK, Stages
  <2>5. BusyInCall'
    BY <1>4, <2>2, <2>3 DEF Signal, TypeOK, BusyInCall
  <2> QED
    BY <2>4, <2>5
<1>5. ASSUME NEW r \in Rank, NEW b \in Block, NEW p \in Peers(r), Poll(r, b, p)
      PROVE TypeInv'
  <2>1. call[r] \in Call
    BY <1>5 DEF Poll, BusyInCall
  <2>2. Chunk(call[r], b) \subseteq AnyWord
    BY <2>1, ChunkWords
  <2>3. CASE waiting[r][b] = {p}
    <3>1. /\ pc' = [pc EXCEPT ![r][b] = "reduce"]
          /\ unread' = [unread EXCEPT ![r][b] = Chunk(call[r], b)]
      BY <1>5, <2>3 DEF Poll
    <3> QED
      BY <1>5, <2>2, <3>1 DEF Poll, TypeOK, Stages, BusyInCall
  <2>4. CASE waiting[r][b] # {p}
    <3>1. pc' = pc /\ unread' = unread
      BY <1>5, <2>4 DEF Poll
    <3> QED
      BY <1>5, <3>1 DEF Poll, TypeOK, BusyInCall
  <2> QED
    BY <2>3, <2>4
<1>6. ASSUME NEW r \in Rank, NEW b \in Block, SpinOut(r, b) PROVE TypeInv'
  <2>1. call[r] \in Call
    BY <1>6 DEF SpinOut, BusyInCall
  <2>2. Chunk(call[r], b) \subseteq AnyWord
    BY <2>1, ChunkWords
  <2>3. TypeOK'
    BY <1>6, <2>2 DEF SpinOut, TypeOK, Stages
  <2>4. BusyInCall'
    BY <1>6 DEF SpinOut, TypeOK, BusyInCall
  <2> QED
    BY <2>3, <2>4
<1>7. ASSUME NEW r \in Rank, NEW b \in Block, NEW w \in AnyWord, Reduce(r, b, w)
      PROVE TypeInv'
  <2>1. call[r] \in Call /\ call[r] \in 0 .. NCalls
    BY <1>7 DEF Reduce, BusyInCall, Call
  <2>2. Operands(r, b, w) \in [Rank -> 0 .. NCalls]
    <3>1. ASSUME NEW i \in Rank, i # r
          PROVE scratch[r][Region(i, r)][SlotOf(r, b)][w] \in 0 .. NCalls
      BY <3>1, RegionTyped, SlotTyped DEF TypeOK
    <3> QED
      BY <2>1, <3>1 DEF Operands
  <2>3. TypeOK'
    BY ZenonT(60), <1>7, <2>1, <2>2 DEF Reduce, TypeOK
  <2>4. BusyInCall'
    BY <1>7 DEF Reduce, BusyInCall
  <2> QED
    BY <2>3, <2>4
<1>8. ASSUME NEW r \in Rank, NEW b \in Block, Exit(r, b) PROVE TypeInv'
  <2>1. TypeOK'
    BY <1>8 DEF Exit, TypeOK, Stages
  <2>2. BusyInCall'
    BY <1>8 DEF Exit, TypeOK, BusyInCall
  <2> QED
    BY <2>1, <2>2
<1>9. ASSUME NEW r \in Rank, Retire(r) PROVE TypeInv'
  <2>1. TypeOK'
    BY <1>9 DEF Retire, TypeOK, Stages
  <2>2. BusyInCall'
    BY <1>9 DEF Retire, TypeOK, BusyInCall
  <2> QED
    BY <2>1, <2>2
<1>10. CASE UNCHANGED vars
  BY <1>10 DEF vars, TypeOK, BusyInCall
<1> QED
  BY <1>1, <1>2, <1>3, <1>4, <1>5, <1>6, <1>7, <1>8, <1>9, <1>10
  DEF Next, BlockStep, HeldStep, PollAgain, Finished

(* The buffers, flags and counters keep to their ranges whatever the calls *)
(* are, and also when counters wrap and spins give up.                     *)
THEOREM TypeCorrect == Spec => []TypeOK
<1>1. TypeInv => TypeOK
  BY DEF TypeInv
<1> QED
  BY TypeInit, TypeStep, <1>1, PTL DEF Spec

-----------------------------------------------------------------------------
(***************************************************************************)
(* The double buffer. While every call has the same blocks and no counter  *)
(* wraps, a block's counter is the number of its rank's call; the flags a  *)
(* rank has raised and those it has waited for then bound how far apart    *)
(* the ranks can be, and a rank's last two calls fill different slots.     *)
(***************************************************************************)

\* The blocks every call has.
Lane == Block \cap BlocksOf(1)

Counters ==
    \A r \in Rank, b \in Lane :
        seqCtr[r][b] = IF pc[r][b] = "queued" THEN call[r] - 1 ELSE call[r]

\* Block b of rank i has told rank j that its chunk of the current call is there.
Flagged(i, b, j) ==
    \/ pc[i][b] \in {"spin", "reduce", "done"}
    \/ pc[i][b] = "flag" /\ j \notin waiting[i][b]

FlagsCount ==
    \A i, j \in Rank, b \in Lane : i # j =>
        flags[j][Region(i, j)][b] = IF Flagged(i, b, j) THEN call[i] ELSE call[i] - 1

\* Block b of rank r has heard from rank i in the current call.
Passed(r, b, i) ==
    \/ pc[r][b] \in {"reduce", "done"}
    \/ pc[r][b] = "spin" /\ i \notin waiting[r][b]

Heard ==
    \A r, i \in Rank, b \in Lane : i # r =>
        flags[r][Region(i, r)][b] >= IF Passed(r, b, i) THEN call[r] ELSE call[r] - 1

\* The block's remaining work is part of its chunk.
WorkInChunk ==
    \A r \in Rank, b \in Block :
        /\ pc[r][b] = "push" => unsent[r][b] \subseteq Chunk(call[r], b) \X Peers(r)
        /\ pc[r][b] # "push" => unsent[r][b] = {}
        /\ pc[r][b] = "reduce" => unread[r][b] \subseteq Chunk(call[r], b)

\* What a block has stored in the current call is where its peer will look.
Pushed ==
    \A i, j \in Rank, b \in Lane : i # j /\ pc[i][b] # "queued" =>
        \A w \in Chunk(call[i], b) :
            <<w, j>> \notin unsent[i][b]
                => scratch[j][Region(i, j)][call[i] % 2][w] = call[i]

\* What the previous call stored is still where the peer may be looking.
PushedBefore ==
    \A i, j \in Rank, b \in Lane, k \in Call : i # j /\ call[i] = k + 1 =>
        \A w \in Chunk(k, b) : scratch[j][Region(i, j)][k % 2][w] = k

HandshakeInv == Counters /\ FlagsCount /\ Heard

BufferInv == WorkInChunk /\ Pushed /\ PushedBefore

SafeInv == TypeInv /\ HandshakeInv /\ BufferInv /\ SumsThisCall

-----------------------------------------------------------------------------
(* Under a uniform grid a block that runs is one every call has.           *)
LEMMA LaneBusy ==
    ASSUME UniformGrid, TypeInv, NEW r \in Rank, NEW b \in Block, pc[r][b] # "queued"
    PROVE  b \in Lane /\ call[r] \in Call
BY DEF UniformGrid, TypeInv, BusyInCall, BlocksOf, Lane

LEMMA LaneStarts ==
    ASSUME UniformGrid, NEW r \in Rank, NEW b \in Block, Start(r, b), TypeOK
    PROVE  b \in Lane /\ call[r] \in Call
<1>1. call[r] \in Call
  BY DEF Start, TypeOK, Call
<1> QED
  BY <1>1 DEF Start, UniformGrid, BlocksOf, Lane

LEMMA HandshakeInit == Init => HandshakeInv
<1> SUFFICES ASSUME Init PROVE HandshakeInv
  OBVIOUS
<1>1. Counters
  BY DEF Init, Counters, Lane
<1>2. FlagsCount
  BY RegionTyped DEF Init, FlagsCount, Flagged, Lane
<1>3. Heard
  BY RegionTyped DEF Init, Heard, Passed, Lane
<1> QED
  BY <1>1, <1>2, <1>3 DEF HandshakeInv

(* The counters, the flags raised and the flags awaited stay in step.      *)
LEMMA HandshakeStep ==
    ASSUME UniformGrid, NoWrap, ~SpinsOut, TypeInv, HandshakeInv, [Next]_vars
    PROVE  HandshakeInv'
<1> USE NCallsNat, ParamAssumption DEF TypeInv, HandshakeInv
<1>1. ASSUME NEW r \in Rank, NEW b \in Block, Start(r, b) PROVE HandshakeInv'
  <2>1. b \in Lane /\ call[r] \in Call /\ pc[r][b] = "queued"
    BY <1>1, LaneStarts DEF Start
  <2>2. seqCtr[r][b] = call[r] - 1
    BY <2>1 DEF Counters
  <2>3. (seqCtr[r][b] + 1) % SeqMod = call[r]
    <3>1. call[r] \in Nat /\ call[r] < SeqMod /\ seqCtr[r][b] + 1 = call[r]
      BY <2>1, <2>2 DEF NoWrap, Call
    <3> QED
      BY <3>1, SeqStep
  <2>4. /\ pc' = [pc EXCEPT ![r][b] = "push"]
        /\ seqCtr' = [seqCtr EXCEPT ![r][b] = call[r]]
        /\ UNCHANGED <<call, waiting, flags>>
    BY <1>1, <2>3 DEF Start, TypeOK
  <2>5. Counters'
    BY <2>4 DEF Counters, TypeOK, Lane
  <2>6. FlagsCount'
    BY <2>1, <2>4 DEF FlagsCount, Flagged, TypeOK, Lane
  <2>7. Heard'
    BY <2>1, <2>4 DEF Heard, Passed, TypeOK, Lane
  <2> QED
    BY <2>5, <2>6, <2>7
<1>2. ASSUME NEW r \in Rank, NEW b \in Block, NEW p \in Peers(r), NEW w \in AnyWord,
             Push(r, b, w, p)
      PROVE HandshakeInv'
  BY <1>2 DEF Push, Counters, FlagsCount, Flagged, Heard, Passed
<1>3. ASSUME NEW r \in Rank, NEW b \in Block, Drain(r, b) PROVE HandshakeInv'
  <2>1. /\ pc[r][b] = "push"
        /\ pc' = [pc EXCEPT ![r][b] = "flag"]
        /\ waiting' = [waiting EXCEPT ![r][b] = Peers(r)]
        /\ UNCHANGED <<call, seqCtr, flags>>
    BY <1>3 DEF Drain, FlagTargets
  <2>2. Counters'
    BY <2>1 DEF Counters, TypeOK, Lane
  <2>3. FlagsCount'
    BY <2>1 DEF FlagsCount, Flagged, TypeOK, Lane, Peers
  <2>4. Heard'
    BY <2>1 DEF Heard, Passed, TypeOK, Lane
  <2> QED
    BY <2>2, <2>3, <2>4
<1>4. ASSUME NEW r \in Rank, NEW b \in Block, NEW p \in Peers(r), Signal(r, b, p)
      PROVE HandshakeInv'
  <2>1. b \in Lane /\ pc[r][b] = "flag" /\ seqCtr[r][b] = call[r]
    BY <1>4, LaneBusy DEF Signal, Counters
  <2>2. /\ flags' = [flags EXCEPT ![p][Region(r, p)][b] = call[r]]
        /\ p \in Rank /\ p # r /\ Region(r, p) \in RegionIx
        /\ UNCHANGED <<call, seqCtr>>
    BY <1>4, <2>1, RegionTyped DEF Signal, Peers
  <2> DEFINE stage == IF waiting[r][b] = {p} THEN "spin" ELSE "flag"
             rest == IF waiting[r][b] = {p} THEN Peers(r) ELSE waiting[r][b] \ {p}
  <2>3. /\ stage \in {"spin", "flag"}
        /\ stage = "spin" => rest = Peers(r) /\ waiting[r][b] = {p}
        /\ stage = "flag" => rest = waiting[r][b] \ {p}
    <3>1. CASE waiting[r][b] = {p}
      BY <3>1, Zenon
    <3>2. CASE waiting[r][b] # {p}
      BY <3>2, Zenon
    <3> QED
      BY <3>1, <3>2
  <2>4. /\ pc' = [pc EXCEPT ![r][b] = stage]
        /\ waiting' = [waiting EXCEPT ![r][b] = rest]
    BY <1>4 DEF Signal, TypeOK
  <2> HIDE DEF stage, rest
  <2>5. Counters'
    BY <2>1, <2>2, <2>3, <2>4 DEF Counters, TypeOK, Lane
  <2>6. \A j \in Peers(r) : Flagged(r, b, j)' <=> (Flagged(r, b, j) \/ j = p)
    BY <2>1, <2>2, <2>3, <2>4 DEF Flagged, TypeOK, Peers
  <2>7. \A i, j \in Rank, c \in Block : <<i, c>> # <<r, b>> => Flagged(i, c, j)' = Flagged(i, c, j)
    BY <2>4 DEF Flagged, TypeOK
  <2>8. FlagsCount'
    <3> SUFFICES ASSUME NEW i \in Rank, NEW j \in Rank, NEW c \in Lane, i # j
                 PROVE  (flags[j][Region(i, j)][c] =
                           IF Flagged(i, c, j) THEN call[i] ELSE call[i] - 1)'
      BY DEF FlagsCount, Lane
    <3>1. Region(i, j) \in RegionIx /\ c \in Block
      BY RegionTyped DEF Lane
    <3>2. CASE i = r /\ c = b /\ j = p
      BY <2>2, <2>6, <3>1, <3>2 DEF TypeOK
    <3>3. CASE i = r /\ c = b /\ j # p
      BY <2>2, <2>6, <3>1, <3>3 DEF TypeOK, FlagsCount, Peers
    <3>4. CASE ~(i = r /\ c = b)
      <4>1. ~(j = p /\ Region(i, j) = Region(r, p) /\ c = b)
        BY <3>4, <2>2, RegionInjective
      <4>2. flags'[j][Region(i, j)][c] = flags[j][Region(i, j)][c]
        BY <4>1, <2>2, <3>1 DEF TypeOK
      <4> QED
        BY <4>2, <2>2, <2>7, <3>1, <3>4 DEF FlagsCount
    <3> QED
      BY <3>2, <3>3, <3>4
  <2>9. \A i \in Rank, c \in Block : Passed(r, c, i)' => Passed(r, c, i) \/ i = r
    BY <2>1, <2>3, <2>4 DEF Passed, TypeOK, Peers
  <2>10. \A j, i \in Rank, c \in Block : j # r => Passed(j, c, i)' = Passed(j, c, i)
    BY <2>4 DEF Passed, TypeOK
  <2>11. \A j, i \in Rank, c \in Lane : i # j =>
            flags'[j][Region(i, j)][c] >= flags[j][Region(i, j)][c]
    <3> SUFFICES ASSUME NEW i \in Rank, NEW j \in Rank, NEW c \in Lane, i # j
                 PROVE  flags'[j][Region(i, j)][c] >= flags[j][Region(i, j)][c]
      OBVIOUS
    <3>1. Region(i, j) \in RegionIx /\ c \in Block
      BY RegionTyped DEF Lane
    <3>2. flags[j][Region(i, j)][c] \in Int /\ call[r] \in Int
      BY <3>1 DEF TypeOK
    <3>3. CASE j = p /\ Region(i, j) = Region(r, p) /\ c = b
      <4>1. i = r
        BY <3>3, <2>2, RegionInjective
      <4>2. flags[p][Region(r, p)][b] <= call[r]
        BY <2>1, <2>2, <3>2, <3>3 DEF FlagsCount
      <4>3. flags'[p][Region(r, p)][b] = call[r]
        BY <2>2 DEF TypeOK
      <4> QED
        BY <4>1, <4>2, <4>3, <3>3
    <3>4. CASE ~(j = p /\ Region(i, j) = Region(r, p) /\ c = b)
      <4>1. flags'[j][Region(i, j)][c] = flags[j][Region(i, j)][c]
        BY <3>4, <3>1, <2>2 DEF TypeOK
      <4> QED
        BY <4>1, <3>2
    <3> QED
      BY <3>3, <3>4
  <2>12. Heard'
    <3> SUFFICES ASSUME NEW j \in Rank, NEW i \in Rank, NEW c \in Lane, i # j
                 PROVE  (flags[j][Region(i, j)][c] >=
                            IF Passed(j, c, i) THEN call[j] ELSE call[j] - 1)'
      BY DEF Heard, Lane
    <3>1. Region(i, j) \in RegionIx /\ c \in Block
      BY RegionTyped DEF Lane
    <3>2. /\ flags[j][Region(i, j)][c] \in Int /\ call[j] \in Int
          /\ flags'[j][Region(i, j)][c] \in Int
      BY <3>1, <2>2 DEF TypeOK
    <3>3. Passed(j, c, i)' => Passed(j, c, i)
      BY <2>9, <2>10, <3>1
    <3>4. flags[j][Region(i, j)][c] >= IF Passed(j, c, i) THEN call[j] ELSE call[j] - 1
      BY DEF Heard
    <3>5. flags'[j][Region(i, j)][c] >= flags[j][Region(i, j)][c] /\ call' = call
      BY <2>2, <2>11
    <3> QED
      BY <3>2, <3>3, <3>4, <3>5
  <2> QED
    BY <2>5, <2>8, <2>12
<1>5. ASSUME NEW r \in Rank, NEW b \in Block, NEW p \in Peers(r), Poll(r, b, p)
      PROVE HandshakeInv'
  <2>1. b \in Lane /\ pc[r][b] = "spin" /\ seqCtr[r][b] = call[r]
    BY <1>5, LaneBusy DEF Poll, Counters
  <2>2. /\ flags[r][Region(p, r)][b] >= call[r]
        /\ waiting' = [waiting EXCEPT ![r][b] = @ \ {p}]
        /\ UNCHANGED <<call, seqCtr, flags>>
    BY <1>5, <2>1 DEF Poll, Released
  <2>3. \/ waiting[r][b] = {p} /\ pc' = [pc EXCEPT ![r][b] = "reduce"]
        \/ waiting[r][b] # {p} /\ pc' = pc
    BY <1>5 DEF Poll
  <2>4. Counters'
    <3>1. \A i \in Rank, c \in Block : pc'[i][c] = "queued" <=> pc[i][c] = "queued"
      <4>1. CASE pc' = [pc EXCEPT ![r][b] = "reduce"]
        BY <2>1, <4>1 DEF TypeOK
      <4>2. CASE pc' = pc
        BY <4>2
      <4> QED
        BY <2>3, <4>1, <4>2
    <3> QED
      BY <2>2, <3>1 DEF Counters, Lane
  <2>5. \A i, j \in Rank, c \in Block : i # j => Flagged(i, c, j)' = Flagged(i, c, j)
    BY <2>1, <2>2, <2>3 DEF Flagged, TypeOK
  <2>6. FlagsCount'
    BY <2>2, <2>5 DEF FlagsCount, Lane
  <2>7. \A j, i \in Rank, c \in Block :
            Passed(j, c, i)' => Passed(j, c, i) \/ (j = r /\ c = b /\ i = p)
    BY <2>1, <2>2, <2>3 DEF Passed, TypeOK
  <2>8. Heard'
    <3> SUFFICES ASSUME NEW j \in Rank, NEW i \in Rank, NEW c \in Lane, i # j
                 PROVE  (flags[j][Region(i, j)][c] >=
                            IF Passed(j, c, i) THEN call[j] ELSE call[j] - 1)'
      BY DEF Heard, Lane
    <3>1. Region(i, j) \in RegionIx /\ c \in Block
      BY RegionTyped DEF Lane
    <3>2. flags[j][Region(i, j)][c] \in Int /\ call[j] \in Int
      BY <3>1 DEF TypeOK
    <3>3. flags[j][Region(i, j)][c] >= IF Passed(j, c, i) THEN call[j] ELSE call[j] - 1
      BY DEF Heard
    <3> QED
      BY <2>2, <2>7, <3>1, <3>2, <3>3
  <2> QED
    BY <2>4, <2>6, <2>8
<1>6. ASSUME NEW r \in Rank, NEW b \in Block, NEW w \in AnyWord, Reduce(r, b, w)
      PROVE HandshakeInv'
  BY <1>6 DEF Reduce, Counters, FlagsCount, Flagged, Heard, Passed
<1>7. ASSUME NEW r \in Rank, NEW b \in Block, Exit(r, b) PROVE HandshakeInv'
  <2>1. /\ pc[r][b] = "reduce"
        /\ pc' = [pc EXCEPT ![r][b] = "done"]
        /\ UNCHANGED <<call, waiting, seqCtr, flags>>
    BY <1>7 DEF Exit
  <2>2. Counters'
    BY <2>1 DEF Counters, TypeOK, Lane
  <2>3. FlagsCount'
    BY <2>1 DEF FlagsCount, Flagged, TypeOK, Lane
  <2>4. Heard'
    BY <2>1 DEF Heard, Passed, TypeOK, Lane
  <2> QED
    BY <2>2, <2>3, <2>4
<1>8. ASSUME NEW r \in Rank, Retire(r) PROVE HandshakeInv'
  <2>1. call[r] \in Call /\ \A b \in Lane : pc[r][b] = "done"
    BY <1>8 DEF Retire, KernelDone, TypeOK, Call, UniformGrid, BlocksOf, Lane
  <2>2. /\ call' = [call EXCEPT ![r] = @ + 1]
        /\ pc' = [pc EXCEPT ![r] = [b \in Block |-> "queued"]]
        /\ UNCHANGED <<waiting, seqCtr, flags>>
    BY <1>8 DEF Retire
  <2>3. Counters'
    BY <2>1, <2>2 DEF Counters, TypeOK, Lane
  <2>4. FlagsCount'
    <3>1. \A i, j \in Rank, b \in Lane :
             /\ i = r => Flagged(i, b, j) /\ ~Flagged(i, b, j)'
             /\ i # r => Flagged(i, b, j)' = Flagged(i, b, j)
      BY <2>1, <2>2 DEF Flagged, TypeOK, Lane
    <3>2. \A i \in Rank : call'[i] = IF i = r THEN call[i] + 1 ELSE call[i]
      BY <2>2 DEF TypeOK
    <3>3. call[r] \in Int
      BY DEF TypeOK
    <3> QED
      BY <2>2, <3>1, <3>2, <3>3 DEF FlagsCount, Lane
  <2>5. Heard'
    BY <2>1, <2>2 DEF Heard, Passed, TypeOK, Lane
  <2> QED
    BY <2>3, <2>4, <2>5
<1>9. CASE UNCHANGED vars
  BY <1>9 DEF vars, Counters, FlagsCount, Flagged, Heard, Passed
<1>10. \A r \in Rank, b \in Block : ~SpinOut(r, b)
  BY DEF SpinOut, LimitReached
<1> QED
  BY <1>1, <1>2, <1>3, <1>4, <1>5, <1>6, <1>7, <1>8, <1>9, <1>10
  DEF Next, BlockStep, HeldStep, PollAgain, Finished

-----------------------------------------------------------------------------
(* Every grid has a block, so every call has a handshake.                  *)
LEMMA GridPositive == \A k \in Call : Grid(k) \in Nat /\ Grid(k) >= 1
<1> SUFFICES ASSUME NEW k \in Call PROVE Grid(k) \in Nat /\ Grid(k) >= 1
  OBVIOUS
<1>1. k \in DOMAIN Msgs /\ Msgs[k] \in [kind : {"exact", "nq"}, n16 : Nat, rows : Nat]
  <2> DEFINE Message == [kind : {"exact", "nq"}, n16 : Nat, rows : Nat]
  <2>1. Msgs \in Seq(Message)
    BY MsgsAssumption DEF MsgAssumption
  <2> HIDE DEF Message
  <2>2. DOMAIN Msgs = Call /\ \A j \in Call : Msgs[j] \in Message
    BY <2>1 DEF Call, NCalls
  <2> QED
    BY <2>2 DEF Message
<1>2. Msgs[k].n16 \in Nat /\ Msgs[k].n16 >= 1 /\ Msgs[k].rows \in Nat
  BY <1>1, MsgsAssumption
<1>3. CASE Msgs[k].kind = "nq"
  BY <1>1, <1>2, <1>3, MsgsAssumption, ParamAssumption DEF Grid
<1>4. CASE Msgs[k].kind # "nq"
  <2>1. Msgs[k].n16 \div WordsPerBlock \in Int
    BY <1>2, ParamAssumption
  <2> DEFINE nb == Msgs[k].n16 \div WordsPerBlock
             lo == IF nb < MinNb THEN MinNb ELSE nb
             hi == IF lo > MaxNb THEN MaxNb ELSE lo
  <2>2. nb \in Int
    BY <2>1
  <2> HIDE DEF nb
  <2>3. hi \in Nat /\ hi >= 1
    BY <2>2, ParamAssumption
  <2>4. Grid(k) = IF hi > Msgs[k].n16 THEN Msgs[k].n16 ELSE hi
    BY <1>4 DEF Grid, NBlocksExact, nb
  <2> HIDE DEF hi
  <2> QED
    BY <1>2, <2>3, <2>4
<1> QED
  BY <1>3, <1>4

(* No rank is ever two kernels ahead of another.                           *)
LEMMA Skew ==
    ASSUME TypeInv, HandshakeInv PROVE AtMostOneCallAhead
<1> SUFFICES ASSUME NEW r \in Rank, NEW i \in Rank PROVE call[r] <= call[i] + 1
  BY DEF AtMostOneCallAhead
<1> USE NCallsNat, ParamAssumption
<1>1. call[r] \in 1 .. NCalls + 1 /\ call[i] \in 1 .. NCalls + 1
  BY DEF TypeInv, TypeOK
<1>2. CASE NCalls = 0 \/ i = r
  BY <1>1, <1>2
<1>3. CASE NCalls > 0 /\ i # r
  <2>1. 0 \in Lane
    BY <1>3, GridPositive DEF Lane, Block, BlocksOf, Call
  <2>2. flags[r][Region(i, r)][0] >= call[r] - 1
    <3>1. Region(i, r) \in RegionIx /\ 0 \in Block
      BY <1>3, <2>1, RegionTyped DEF Lane
    <3>2. flags[r][Region(i, r)][0] \in Int
      BY <3>1 DEF TypeInv, TypeOK
    <3> QED
      BY <1>1, <1>3, <2>1, <3>2 DEF HandshakeInv, Heard
  <2>3. flags[r][Region(i, r)][0] <= call[i]
    BY <1>1, <1>3, <2>1 DEF HandshakeInv, FlagsCount
  <2>4. flags[r][Region(i, r)][0] \in Int
    BY <1>1, <1>3, <2>1 DEF HandshakeInv, FlagsCount
  <2> QED
    BY <1>1, <2>2, <2>3, <2>4
<1> QED
  BY <1>1, <1>2, <1>3

(* When a block reduces, each of its peers has flagged the same block and  *)
(* is in the same call or in the next.                                     *)
LEMMA PeerAnswered ==
    ASSUME UniformGrid, TypeInv, HandshakeInv,
           NEW r \in Rank, NEW b \in Lane, pc[r][b] = "reduce", NEW i \in Peers(r)
    PROVE  \/ call[i] = call[r] /\ Flagged(i, b, r)
           \/ call[i] = call[r] + 1
<1> USE NCallsNat, ParamAssumption
<1>1. i \in Rank /\ i # r /\ b \in Block
  BY DEF Peers, Lane
<1>2. call[r] \in Int /\ call[i] \in Int
  BY <1>1 DEF TypeInv, TypeOK
<1>3. flags[r][Region(i, r)][b] = IF Flagged(i, b, r) THEN call[i] ELSE call[i] - 1
  BY <1>1 DEF HandshakeInv, FlagsCount
<1>4. flags[r][Region(i, r)][b] >= call[r]
  BY <1>1 DEF HandshakeInv, Heard, Passed
<1>5. call[i] <= call[r] + 1
  BY <1>1, Skew DEF AtMostOneCallAhead
<1> QED
  BY <1>2, <1>3, <1>4, <1>5

LEMMA BufferInit == Init => BufferInv /\ SumsThisCall
<1> SUFFICES ASSUME Init PROVE BufferInv /\ SumsThisCall
  OBVIOUS
<1>1. WorkInChunk
  BY DEF Init, WorkInChunk
<1>2. Pushed
  BY DEF Init, Pushed, Lane
<1>3. PushedBefore
  BY DEF Init, PushedBefore, Call
<1>4. SumsThisCall
  <2>1. \A k \in Call : Words(k) \subseteq AnyWord
    BY DEF AnyWord
  <2> QED
    BY <2>1 DEF Init, SumsThisCall
<1> QED
  BY <1>1, <1>2, <1>3, <1>4 DEF BufferInv

(* What a block reduces is what every rank put in for this very call.      *)
LEMMA OperandsOfThisCall ==
    ASSUME UniformGrid, TypeInv, HandshakeInv, BufferInv,
           NEW r \in Rank, NEW b \in Block, pc[r][b] = "reduce", NEW w \in unread[r][b]
    PROVE  Operands(r, b, w) = [i \in Rank |-> call[r]]
<1> USE NCallsNat, ParamAssumption
<1>1. b \in Lane /\ call[r] \in Call
  BY LaneBusy
<1>2. w \in Chunk(call[r], b)
  BY DEF BufferInv, WorkInChunk
<1>3. SlotOf(r, b) = call[r] % 2
  BY <1>1 DEF SlotOf, HandshakeInv, Counters
<1>4. ASSUME NEW i \in Rank, i # r
      PROVE scratch[r][Region(i, r)][call[r] % 2][w] = call[r]
  <2>1. i \in Peers(r)
    BY <1>4 DEF Peers
  <2>2. CASE call[i] = call[r] /\ Flagged(i, b, r)
    <3>1. pc[i][b] \notin {"queued", "push"}
      BY <2>2 DEF Flagged
    <3>2. unsent[i][b] = {}
      BY <3>1 DEF BufferInv, WorkInChunk
    <3> QED
      <4>1. \A v \in Chunk(call[i], b) : <<v, r>> \notin unsent[i][b] =>
               scratch[r][Region(i, r)][call[i] % 2][v] = call[i]
        BY <1>1, <1>4, <3>1 DEF BufferInv, Pushed
      <4> QED
        BY <1>2, <2>2, <3>2, <4>1
  <2>3. CASE call[i] = call[r] + 1
    BY <1>1, <1>2, <1>4, <2>3 DEF BufferInv, PushedBefore
  <2> QED
    BY <1>1, <2>1, <2>2, <2>3, PeerAnswered
<1> QED
  BY <1>3, <1>4 DEF Operands

(* Data in flight and data landed stay where the handshake says.           *)
LEMMA BufferStep ==
    ASSUME UniformGrid, NoWrap, ~SpinsOut, TypeInv, HandshakeInv, BufferInv,
           SumsThisCall, [Next]_vars
    PROVE  BufferInv' /\ SumsThisCall'
<1> USE NCallsNat, ParamAssumption DEF TypeInv, BufferInv
<1>1. ASSUME NEW r \in Rank, NEW b \in Block, Start(r, b)
      PROVE BufferInv' /\ SumsThisCall'
  <2>1. b \in Lane /\ call[r] \in Call /\ pc[r][b] = "queued"
    BY <1>1, LaneStarts DEF Start
  <2>2. /\ pc' = [pc EXCEPT ![r][b] = "push"]
        /\ unsent' = [unsent EXCEPT ![r][b] = Chunk(call[r], b) \X Peers(r)]
        /\ UNCHANGED <<call, unread, scratch, out>>
    BY <1>1 DEF Start
  <2>3. WorkInChunk'
    BY <2>2 DEF WorkInChunk, TypeOK
  <2>4. Pushed'
    <3> SUFFICES ASSUME NEW i \in Rank, NEW j \in Rank, NEW c \in Lane, i # j,
                        pc'[i][c] # "queued",
                        NEW w \in Chunk(call[i], c), <<w, j>> \notin unsent'[i][c]
                 PROVE  scratch[j][Region(i, j)][call[i] % 2][w] = call[i]
      BY <2>2 DEF Pushed, Lane
    <3>1. ~(i = r /\ c = b)
      BY <2>2 DEF TypeOK, Peers, Lane
    <3>2. pc[i][c] = pc'[i][c] /\ unsent[i][c] = unsent'[i][c]
      BY <2>2, <3>1 DEF TypeOK, Lane
    <3> QED
      BY <3>2 DEF Pushed
  <2>5. PushedBefore'
    BY <2>2 DEF PushedBefore, Lane
  <2>6. SumsThisCall'
    BY <2>2 DEF SumsThisCall
  <2> QED
    BY <2>3, <2>4, <2>5, <2>6
<1>2. ASSUME NEW r \in Rank, NEW b \in Block, NEW p \in Peers(r), NEW v \in AnyWord,
             Push(r, b, v, p)
      PROVE BufferInv' /\ SumsThisCall'
  <2>1. b \in Lane /\ call[r] \in Call /\ pc[r][b] = "push" /\ <<v, p>> \in unsent[r][b]
    BY <1>2, LaneBusy DEF Push
  <2>2. SlotOf(r, b) = call[r] % 2
    BY <2>1 DEF SlotOf, HandshakeInv, Counters
  <2>3. /\ scratch' = [scratch EXCEPT ![p][Region(r, p)][call[r] % 2][v] = call[r]]
        /\ unsent' = [unsent EXCEPT ![r][b] = @ \ {<<v, p>>}]
        /\ UNCHANGED <<call, pc, unread, out>>
        /\ p \in Rank /\ p # r /\ Region(r, p) \in RegionIx /\ call[r] % 2 \in Slot
    BY <1>2, <2>1, <2>2, RegionTyped DEF Push, Peers, Call, Slot
  <2>4. WorkInChunk'
    BY <2>1, <2>3 DEF WorkInChunk, TypeOK
  <2>5. \A i, j \in Rank : \A s \in Slot : \A w \in AnyWord : i # j =>
           scratch'[j][Region(i, j)][s][w] =
              IF i = r /\ j = p /\ s = call[r] % 2 /\ w = v
              THEN call[r] ELSE scratch[j][Region(i, j)][s][w]
    <3> SUFFICES ASSUME NEW i \in Rank, NEW j \in Rank, NEW s \in Slot,
                        NEW w \in AnyWord, i # j
                 PROVE  scratch'[j][Region(i, j)][s][w] =
                          IF i = r /\ j = p /\ s = call[r] % 2 /\ w = v
                          THEN call[r] ELSE scratch[j][Region(i, j)][s][w]
      OBVIOUS
    <3>1. Region(i, j) \in RegionIx
      BY RegionTyped
    <3>2. CASE i = r /\ j = p
      BY <2>3, <3>1, <3>2 DEF TypeOK
    <3>3. CASE ~(i = r /\ j = p)
      <4>1. ~(j = p /\ Region(i, j) = Region(r, p))
        BY <2>3, <3>3, RegionInjective
      <4>2. scratch'[j][Region(i, j)] = scratch[j][Region(i, j)]
        BY <2>3, <3>1, <4>1 DEF TypeOK
      <4> QED
        BY <3>3, <4>2
    <3> QED
      BY <3>2, <3>3
  <2>6. \A i \in Rank : call[i] \in Nat /\ call[i] % 2 \in Slot
    BY SlotParity DEF TypeOK
  <2>7. Pushed'
    <3> SUFFICES ASSUME NEW i \in Rank, NEW j \in Rank, NEW c \in Lane, i # j,
                        pc[i][c] # "queued",
                        NEW w \in Chunk(call[i], c), <<w, j>> \notin unsent'[i][c]
                 PROVE  scratch'[j][Region(i, j)][call[i] % 2][w] = call[i]
      BY <2>3 DEF Pushed, Lane
    <3>1. w \in AnyWord
      BY LaneBusy, ChunkWords DEF Lane
    <3>2. CASE i = r /\ j = p /\ w = v
      BY <2>5, <2>6, <3>1, <3>2
    <3>3. CASE ~(i = r /\ j = p /\ w = v)
      <4>1. <<w, j>> \notin unsent[i][c]
        BY <2>3, <3>3 DEF TypeOK, Lane
      <4>2. scratch[j][Region(i, j)][call[i] % 2][w] = call[i]
        BY <4>1 DEF Pushed
      <4> QED
        BY <2>5, <2>6, <3>1, <3>3, <4>2
    <3> QED
      BY SMTT(30), <3>2, <3>3
  <2>8. PushedBefore'
    <3> SUFFICES ASSUME NEW i \in Rank, NEW j \in Rank, NEW c \in Lane, i # j,
                        NEW k \in Call, call[i] = k + 1, NEW w \in Chunk(k, c)
                 PROVE  scratch'[j][Region(i, j)][k % 2][w] = k
      BY <2>3 DEF PushedBefore, Lane
    <3>1. k % 2 \in Slot /\ k % 2 # call[i] % 2
      BY SlotParity DEF Call
    <3>2. w \in AnyWord
      BY ChunkWords DEF Lane
    <3>3. scratch[j][Region(i, j)][k % 2][w] = k
      BY DEF PushedBefore
    <3> QED
      BY SMTT(30), <2>5, <3>1, <3>2, <3>3
  <2>9. SumsThisCall'
    BY <2>3 DEF SumsThisCall
  <2> QED
    BY <2>4, <2>7, <2>8, <2>9
<1>3. ASSUME NEW r \in Rank, NEW b \in Block, Drain(r, b)
      PROVE BufferInv' /\ SumsThisCall'
  <2>1. /\ pc[r][b] = "push" /\ unsent[r][b] = {}
        /\ pc' = [pc EXCEPT ![r][b] = "flag"]
        /\ UNCHANGED <<call, unsent, unread, scratch, out>>
    BY <1>3 DEF Drain, Drained
  <2>2. WorkInChunk'
    BY <2>1 DEF WorkInChunk, TypeOK
  <2>3. Pushed' /\ PushedBefore' /\ SumsThisCall'
    BY <2>1 DEF Pushed, PushedBefore, SumsThisCall, TypeOK, Lane
  <2> QED
    BY <2>2, <2>3
<1>4. ASSUME NEW r \in Rank, NEW b \in Block, NEW p \in Peers(r), Signal(r, b, p)
      PROVE BufferInv' /\ SumsThisCall'
  <2>1. PICK stage \in {"flag", "spin"} : pc' = [pc EXCEPT ![r][b] = stage]
    BY <1>4 DEF Signal
  <2>2. /\ pc[r][b] = "flag"
        /\ UNCHANGED <<call, unsent, unread, scratch, out>>
    BY <1>4 DEF Signal
  <2>3. WorkInChunk'
    BY <2>1, <2>2 DEF WorkInChunk, TypeOK
  <2>4. Pushed' /\ PushedBefore' /\ SumsThisCall'
    BY <2>1, <2>2 DEF Pushed, PushedBefore, SumsThisCall, TypeOK, Lane
  <2> QED
    BY <2>3, <2>4
<1>5. ASSUME NEW r \in Rank, NEW b \in Block, NEW p \in Peers(r), Poll(r, b, p)
      PROVE BufferInv' /\ SumsThisCall'
  <2>1. /\ pc[r][b] = "spin"
        /\ UNCHANGED <<call, unsent, scratch, out>>
    BY <1>5 DEF Poll
  <2>2. CASE waiting[r][b] = {p}
    <3>1. /\ pc' = [pc EXCEPT ![r][b] = "reduce"]
          /\ unread' = [unread EXCEPT ![r][b] = Chunk(call[r], b)]
      BY <1>5, <2>2 DEF Poll
    <3>2. WorkInChunk'
      BY <2>1, <3>1 DEF WorkInChunk, TypeOK
    <3>3. Pushed' /\ PushedBefore' /\ SumsThisCall'
      BY <2>1, <3>1 DEF Pushed, PushedBefore, SumsThisCall, TypeOK, Lane
    <3> QED
      BY <3>2, <3>3
  <2>3. CASE waiting[r][b] # {p}
    <3>1. pc' = pc /\ unread' = unread
      BY <1>5, <2>3 DEF Poll
    <3> QED
      BY <2>1, <3>1 DEF WorkInChunk, Pushed, PushedBefore, SumsThisCall, Lane
  <2> QED
    BY <2>2, <2>3
<1>6. ASSUME NEW r \in Rank, NEW b \in Block, NEW v \in AnyWord, Reduce(r, b, v)
      PROVE BufferInv' /\ SumsThisCall'
  <2>1. pc[r][b] = "reduce" /\ v \in unread[r][b] /\ call[r] \in Call
    BY <1>6, LaneBusy DEF Reduce
  <2>2. /\ out' = [out EXCEPT ![r][call[r]][v] = [i \in Rank |-> call[r]]]
        /\ unread' = [unread EXCEPT ![r][b] = @ \ {v}]
        /\ UNCHANGED <<call, pc, unsent, scratch>>
    BY <1>6, <2>1, OperandsOfThisCall DEF Reduce
  <2>3. WorkInChunk'
    BY <2>1, <2>2 DEF WorkInChunk, TypeOK
  <2>4. Pushed' /\ PushedBefore'
    BY <2>2 DEF Pushed, PushedBefore, Lane
  <2>5. SumsThisCall'
    <3>1. \A k \in Call : Words(k) \subseteq AnyWord
      BY DEF AnyWord
    <3> QED
      BY <2>1, <2>2, <3>1 DEF SumsThisCall, TypeOK
  <2> QED
    BY <2>3, <2>4, <2>5
<1>7. ASSUME NEW r \in Rank, NEW b \in Block, Exit(r, b)
      PROVE BufferInv' /\ SumsThisCall'
  <2>1. /\ pc[r][b] = "reduce"
        /\ pc' = [pc EXCEPT ![r][b] = "done"]
        /\ UNCHANGED <<call, unsent, unread, scratch, out>>
    BY <1>7 DEF Exit
  <2>2. WorkInChunk'
    BY <2>1 DEF WorkInChunk, TypeOK
  <2>3. Pushed' /\ PushedBefore' /\ SumsThisCall'
    BY <2>1 DEF Pushed, PushedBefore, SumsThisCall, TypeOK, Lane
  <2> QED
    BY <2>2, <2>3
<1>8. ASSUME NEW r \in Rank, Retire(r) PROVE BufferInv' /\ SumsThisCall'
  <2>1. call[r] \in Call /\ \A b \in Lane : pc[r][b] = "done" /\ unsent[r][b] = {}
    <3>1. call[r] \in Call
      BY <1>8 DEF Retire, TypeOK, Call
    <3>2. \A b \in Lane : pc[r][b] = "done"
      BY <1>8, <3>1 DEF Retire, KernelDone, UniformGrid, BlocksOf, Lane
    <3> QED
      BY <3>1, <3>2 DEF WorkInChunk, Lane
  <2>2. /\ call' = [call EXCEPT ![r] = @ + 1]
        /\ pc' = [pc EXCEPT ![r] = [b \in Block |-> "queued"]]
        /\ UNCHANGED <<unsent, unread, scratch, out>>
    BY <1>8 DEF Retire
  <2>3. WorkInChunk'
    <3>1. \A b \in Block : unsent[r][b] = {}
      <4> SUFFICES ASSUME NEW b \in Block PROVE pc[r][b] # "push"
        BY DEF WorkInChunk
      <4> QED
        BY <2>1, LaneBusy
    <3> QED
      BY <2>2, <3>1 DEF WorkInChunk, TypeOK
  <2>4. Pushed'
    BY <2>2 DEF Pushed, TypeOK, Lane
  <2>5. PushedBefore'
    <3> SUFFICES ASSUME NEW i \in Rank, NEW j \in Rank, NEW c \in Lane, i # j,
                        NEW k \in Call, call'[i] = k + 1, NEW w \in Chunk(k, c)
                 PROVE  scratch[j][Region(i, j)][k % 2][w] = k
      BY <2>2 DEF PushedBefore, Lane
    <3>1. CASE i = r
      <4>1. k = call[i]
        BY <2>1, <2>2, <3>1 DEF TypeOK, Call
      <4>2. pc[i][c] = "done" /\ <<w, j>> \notin unsent[i][c]
        BY <2>1, <3>1
      <4>3. \A u \in Chunk(call[i], c) : <<u, j>> \notin unsent[i][c] =>
               scratch[j][Region(i, j)][call[i] % 2][u] = call[i]
        BY <4>2 DEF Pushed
      <4> QED
        BY <4>1, <4>2, <4>3
    <3>2. CASE i # r
      BY <2>2, <3>2 DEF PushedBefore, TypeOK
    <3> QED
      BY <3>1, <3>2
  <2>6. SumsThisCall'
    BY <2>2 DEF SumsThisCall
  <2> QED
    BY <2>3, <2>4, <2>5, <2>6
<1>9. CASE UNCHANGED vars
  BY <1>9 DEF vars, WorkInChunk, Pushed, PushedBefore, SumsThisCall, Lane
<1>10. \A r \in Rank, b \in Block : ~SpinOut(r, b)
  BY DEF SpinOut, LimitReached
<1> QED
  BY <1>1, <1>2, <1>3, <1>4, <1>5, <1>6, <1>7, <1>8, <1>9, <1>10
  DEF Next, BlockStep, HeldStep, PollAgain, Finished

LEMMA SafeInvariant ==
    ASSUME UniformGrid, NoWrap, ~SpinsOut PROVE Spec => []SafeInv
<1>1. Init => SafeInv
  BY TypeInit, HandshakeInit, BufferInit DEF SafeInv
<1>2. SafeInv /\ [Next]_vars => SafeInv'
  BY TypeStep, HandshakeStep, BufferStep DEF SafeInv
<1> QED
  BY <1>1, <1>2, PTL DEF Spec

(* With one grid for all calls, a result never mixes calls.                *)
THEOREM SumsCorrect ==
    ASSUME UniformGrid, NoWrap, ~SpinsOut PROVE Spec => []SumsThisCall
<1>1. SafeInv => SumsThisCall
  BY DEF SafeInv
<1> QED
  BY <1>1, SafeInvariant, PTL

(* With one grid for all calls, the streams stay within one kernel.        *)
THEOREM SkewCorrect ==
    ASSUME UniformGrid, NoWrap, ~SpinsOut PROVE Spec => []AtMostOneCallAhead
<1>1. SafeInv => AtMostOneCallAhead
  BY Skew DEF SafeInv
<1> QED
  BY <1>1, SafeInvariant, PTL

-----------------------------------------------------------------------------
(* The chunks of one call are disjoint.                                    *)
LEMMA ChunkLenNat == \A k \in Call : Msgs[k].n16 \in Nat /\ ChunkLen(k) \in Nat
<1> SUFFICES ASSUME NEW k \in Call PROVE Msgs[k].n16 \in Nat /\ ChunkLen(k) \in Nat
  OBVIOUS
<1>1. Msgs[k].n16 \in Nat
  <2> DEFINE Message == [kind : {"exact", "nq"}, n16 : Nat, rows : Nat]
  <2>1. Msgs \in Seq(Message)
    BY MsgsAssumption DEF MsgAssumption
  <2> HIDE DEF Message
  <2>2. Msgs[k] \in Message
    BY <2>1 DEF Call, NCalls
  <2> QED
    BY <2>2 DEF Message
<1>2. Grid(k) \in Nat /\ Grid(k) >= 1
  BY GridPositive
<1>3. Msgs[k].n16 + Grid(k) - 1 \in Nat
  BY <1>1, <1>2
<1> QED
  BY <1>1, <1>2, <1>3 DEF ChunkLen

LEMMA Monotonic == \A b, c, L \in Nat : b < c => (b + 1) * L <= c * L
OBVIOUS

LEMMA ChunksDisjoint ==
    ASSUME NEW k \in Call, NEW b \in Nat, NEW c \in Nat,
           NEW w \in Chunk(k, b), w \in Chunk(k, c)
    PROVE  b = c
<1> DEFINE L == ChunkLen(k)
<1>1. L \in Nat /\ w \in Int
  BY ChunkLenNat DEF Chunk, Words
<1>2. b * L <= w /\ w < (b + 1) * L /\ c * L <= w /\ w < (c + 1) * L
  BY DEF Chunk
<1> HIDE DEF L
<1>3. b * L \in Int /\ (b + 1) * L \in Int /\ c * L \in Int /\ (c + 1) * L \in Int
  BY <1>1
<1>4. b < c => (b + 1) * L <= c * L
  BY <1>1, Monotonic
<1>5. c < b => (c + 1) * L <= b * L
  BY <1>1, Monotonic
<1> QED
  BY <1>1, <1>2, <1>3, <1>4, <1>5

(* With one grid for all calls, no store lands on a word still to be read. *)
THEOREM RaceFree ==
    ASSUME UniformGrid, NoWrap, ~SpinsOut PROVE Spec => []NoScratchRace
<1>1. SafeInv => NoScratchRace
  <2> SUFFICES ASSUME SafeInv,
                      NEW i \in Rank, NEW r \in Rank, i # r,
                      NEW b \in Block, NEW c \in Block,
                      pc[i][c] = "push", pc[r][b] = "reduce",
                      SlotOf(i, c) = SlotOf(r, b),
                      NEW w \in unread[r][b], <<w, r>> \in unsent[i][c]
               PROVE  FALSE
    BY DEF NoScratchRace
  <2> USE DEF SafeInv
  <2>1. b \in Lane /\ c \in Lane /\ call[r] \in Call /\ call[i] \in Call
    BY LaneBusy
  <2>2. SlotOf(i, c) = call[i] % 2 /\ SlotOf(r, b) = call[r] % 2
    BY <2>1 DEF SlotOf, HandshakeInv, Counters
  <2>3. call[i] # call[r] + 1
    <3>1. call[r] % 2 # (call[r] + 1) % 2
      BY <2>1, SlotParity DEF Call
    <3>2. call[i] % 2 = call[r] % 2
      BY <2>2
    <3> QED
      BY <3>1, <3>2
  <2>4. call[i] = call[r] /\ Flagged(i, b, r)
    BY <2>1, <2>3, PeerAnswered DEF Peers
  <2>5. w \in Chunk(call[r], b) /\ w \in Chunk(call[i], c)
    BY DEF BufferInv, WorkInChunk
  <2>6. b = c
    <3>1. w \in Chunk(call[r], c)
      BY <2>4, <2>5
    <3>2. b \in Nat /\ c \in Nat
      BY DEF Block
    <3> QED
      BY <2>1, <2>5, <3>1, <3>2, ChunksDisjoint
  <2> QED
    BY <2>4, <2>6 DEF Flagged
<1> QED
  BY <1>1, SafeInvariant, PTL

-----------------------------------------------------------------------------
(***************************************************************************)
(* With one grid for all calls the kernel implements CollectiveSum. Two    *)
(* things are needed beyond the safety of the double buffer: the chunks of *)
(* a grid cover the message, and a block that is done has reduced all of   *)
(* its chunk.                                                              *)
(***************************************************************************)

(* Facts about natural division that the coverage of a message rests on.   *)
LEMMA DivBounds ==
    \A n, g \in Nat : g >= 1 =>
        /\ n \div g \in Nat
        /\ g * (n \div g) <= n
        /\ n < g * (n \div g) + g
OBVIOUS

LEMMA Commutes == \A x, y \in Nat : x * y = y * x
OBVIOUS

LEMMA MulCancel == \A b, c, L \in Nat : b * L < c * L => b < c
<1> SUFFICES ASSUME NEW b \in Nat, NEW c \in Nat, NEW L \in Nat, b >= c
             PROVE  c * L <= b * L
  OBVIOUS
<1> QED
  OBVIOUS

(* No grid is wider than the flags and counters there are.                 *)
LEMMA GridBounded == \A k \in Call : Grid(k) \in Nat /\ Grid(k) <= MaxBlocks
<1> SUFFICES ASSUME NEW k \in Call PROVE Grid(k) \in Nat /\ Grid(k) <= MaxBlocks
  OBVIOUS
<1>1. k \in DOMAIN Msgs
  <2> DEFINE Message == [kind : {"exact", "nq"}, n16 : Nat, rows : Nat]
  <2>1. Msgs \in Seq(Message)
    BY MsgsAssumption DEF MsgAssumption
  <2> HIDE DEF Message
  <2> QED
    BY <2>1 DEF Call, NCalls
<1>2. Msgs[k].n16 \in Nat
  BY ChunkLenNat
<1>3. CASE Msgs[k].kind = "nq"
  BY <1>1, <1>3, MsgsAssumption, ParamAssumption DEF Grid
<1>4. CASE Msgs[k].kind # "nq"
  <2>1. Msgs[k].n16 \div WordsPerBlock \in Int
    BY <1>2, ParamAssumption
  <2> DEFINE nb == Msgs[k].n16 \div WordsPerBlock
             lo == IF nb < MinNb THEN MinNb ELSE nb
             hi == IF lo > MaxNb THEN MaxNb ELSE lo
  <2>2. nb \in Int
    BY <2>1
  <2> HIDE DEF nb
  <2>3. hi \in Nat /\ hi <= MaxBlocks
    BY <2>2, ParamAssumption
  <2>4. Grid(k) = IF hi > Msgs[k].n16 THEN Msgs[k].n16 ELSE hi
    BY <1>4 DEF Grid, NBlocksExact, nb
  <2> HIDE DEF hi
  <2> QED
    BY <1>2, <2>3, <2>4, ParamAssumption
<1> QED
  BY <1>3, <1>4

LEMMA MessageNotEmpty == \A k \in Call : Msgs[k].n16 \in Nat /\ Msgs[k].n16 >= 1
<1> SUFFICES ASSUME NEW k \in Call PROVE Msgs[k].n16 \in Nat /\ Msgs[k].n16 >= 1
  OBVIOUS
<1>1. k \in DOMAIN Msgs
  <2> DEFINE Message == [kind : {"exact", "nq"}, n16 : Nat, rows : Nat]
  <2>1. Msgs \in Seq(Message)
    BY MsgsAssumption DEF MsgAssumption
  <2> HIDE DEF Message
  <2> QED
    BY <2>1 DEF Call, NCalls
<1> QED
  BY <1>1, ChunkLenNat, MsgsAssumption

(* Every word of a message is in the chunk of one of the grid's blocks.    *)
LEMMA ChunksCover ==
    ASSUME NEW k \in Call, NEW w \in Words(k)
    PROVE  \E b \in BlocksOf(k) : w \in Chunk(k, b)
<1> DEFINE n == Msgs[k].n16
           g == Grid(k)
           L == ChunkLen(k)
<1>1. n \in Nat /\ L \in Nat /\ g \in Nat /\ g >= 1
  BY ChunkLenNat, GridPositive
<1>2. w \in Nat /\ w < n
  BY <1>1 DEF Words
<1>3. L = (n + g - 1) \div g
  BY DEF ChunkLen
<1> HIDE DEF n, g, L
<1>4. n <= g * L
  <2>1. n + g - 1 \in Nat
    BY <1>1
  <2>2. n + g - 1 < g * ((n + g - 1) \div g) + g
    BY <1>1, <2>1, DivBounds
  <2>3. g * L \in Nat
    BY <1>1
  <2> QED
    BY <1>1, <1>3, <2>2, <2>3
<1>5. L >= 1
  BY <1>1, <1>2, <1>4
<1> DEFINE b == w \div L
<1>6. b \in Nat /\ L * b <= w /\ w < L * b + L
  BY <1>1, <1>2, <1>5, DivBounds
<1> HIDE DEF b
<1>7. b * L <= w /\ w < (b + 1) * L
  <2>1. L * b = b * L /\ (b + 1) * L = b * L + L
    BY <1>1, <1>6, Commutes
  <2> QED
    BY <1>6, <2>1
<1>8. b < g
  <2>1. b * L \in Nat /\ g * L \in Nat
    BY <1>1, <1>6
  <2>2. b * L < g * L
    BY <1>1, <1>2, <1>4, <1>7, <2>1
  <2> QED
    BY <1>1, <1>6, <2>2, MulCancel
<1>9. b \in BlocksOf(k)
  BY <1>1, <1>6, <1>8 DEF BlocksOf, g
<1>10. w \in Chunk(k, b)
  BY <1>7 DEF Chunk, L
<1> QED
  BY <1>9, <1>10

-----------------------------------------------------------------------------
\* The sum of call k: what each rank contributed to that call.
SumOf(k) == [i \in Rank |-> k]

\* What a block no longer has to read it has reduced.
ReducedSoFar ==
    \A r \in Rank, b \in Lane : pc[r][b] \in {"reduce", "done"} =>
        \A w \in Chunk(call[r], b) :
            w \notin unread[r][b] => out[r][call[r]][w] = SumOf(call[r])

DoneHasRead ==
    \A r \in Rank, b \in Lane : pc[r][b] = "done" => unread[r][b] = {}

\* A call that has returned is complete.
ReturnedSums ==
    \A r \in Rank, k \in Call : k < call[r] =>
        \A w \in Words(k) : out[r][k][w] = SumOf(k)

ResultInv == ReducedSoFar /\ DoneHasRead /\ ReturnedSums

FullInv == SafeInv /\ ResultInv

LEMMA ResultInit == Init => ResultInv
<1> SUFFICES ASSUME Init PROVE ResultInv
  OBVIOUS
<1>1. ReducedSoFar /\ DoneHasRead
  BY DEF Init, ReducedSoFar, DoneHasRead, Lane
<1>2. ReturnedSums
  BY DEF Init, ReturnedSums, Call
<1> QED
  BY <1>1, <1>2 DEF ResultInv

(* A finished kernel leaves a complete result.                             *)
LEMMA RetireComplete ==
    ASSUME UniformGrid, SafeInv, ResultInv, NEW r \in Rank, Retire(r)
    PROVE  /\ call[r] \in Call
           /\ \A b \in Lane : pc[r][b] = "done"
           /\ \A w \in Words(call[r]) : out[r][call[r]][w] = SumOf(call[r])
<1> USE NCallsNat, ParamAssumption
<1>1. call[r] \in Call
  BY DEF Retire, SafeInv, TypeInv, TypeOK, Call
<1>2. \A b \in Lane : pc[r][b] = "done"
  BY <1>1 DEF Retire, KernelDone, UniformGrid, BlocksOf, Lane
<1>3. ASSUME NEW w \in Words(call[r])
      PROVE  out[r][call[r]][w] = SumOf(call[r])
  <2>1. PICK b \in BlocksOf(call[r]) : w \in Chunk(call[r], b)
    BY <1>1, ChunksCover
  <2>2. b \in Lane
    <3>1. b \in BlocksOf(1)
      BY <1>1, <2>1 DEF UniformGrid, BlocksOf
    <3>2. Grid(1) \in Nat /\ Grid(1) <= MaxBlocks
      BY <1>1, GridBounded DEF Call
    <3> QED
      BY <3>1, <3>2 DEF Lane, Block, BlocksOf
  <2>3. pc[r][b] = "done" /\ unread[r][b] = {}
    BY <1>2, <2>2 DEF ResultInv, DoneHasRead
  <2> QED
    BY <2>1, <2>2, <2>3 DEF ResultInv, ReducedSoFar
<1> QED
  BY <1>1, <1>2, <1>3

LEMMA ResultStep ==
    ASSUME UniformGrid, NoWrap, ~SpinsOut, SafeInv, ResultInv, [Next]_vars
    PROVE  ResultInv'
<1> USE NCallsNat, ParamAssumption DEF SafeInv, TypeInv, ResultInv
<1>1. ASSUME NEW r \in Rank, NEW b \in Block, Start(r, b) PROVE ResultInv'
  <2>1. /\ pc' = [pc EXCEPT ![r][b] = "push"]
        /\ UNCHANGED <<call, unread, out>>
    BY <1>1 DEF Start
  <2>2. ReducedSoFar'
    BY <2>1 DEF ReducedSoFar, TypeOK, Lane
  <2>3. DoneHasRead' /\ ReturnedSums'
    BY <2>1 DEF DoneHasRead, ReturnedSums, TypeOK, Lane
  <2> QED
    BY <2>2, <2>3
<1>2. ASSUME NEW r \in Rank, NEW b \in Block, NEW p \in Peers(r), NEW v \in AnyWord,
             Push(r, b, v, p)
      PROVE ResultInv'
  BY <1>2 DEF Push, ReducedSoFar, DoneHasRead, ReturnedSums, Lane
<1>3. ASSUME NEW r \in Rank, NEW b \in Block, Drain(r, b) PROVE ResultInv'
  <2>1. /\ pc' = [pc EXCEPT ![r][b] = "flag"]
        /\ UNCHANGED <<call, unread, out>>
    BY <1>3 DEF Drain
  <2>2. ReducedSoFar'
    BY <2>1 DEF ReducedSoFar, TypeOK, Lane
  <2>3. DoneHasRead' /\ ReturnedSums'
    BY <2>1 DEF DoneHasRead, ReturnedSums, TypeOK, Lane
  <2> QED
    BY <2>2, <2>3
<1>4. ASSUME NEW r \in Rank, NEW b \in Block, NEW p \in Peers(r), Signal(r, b, p)
      PROVE ResultInv'
  <2>1. PICK stage \in {"flag", "spin"} : pc' = [pc EXCEPT ![r][b] = stage]
    BY <1>4 DEF Signal
  <2>2. UNCHANGED <<call, unread, out>>
    BY <1>4 DEF Signal
  <2>3. ReducedSoFar'
    BY <2>1, <2>2 DEF ReducedSoFar, TypeOK, Lane
  <2>4. DoneHasRead' /\ ReturnedSums'
    BY <2>1, <2>2 DEF DoneHasRead, ReturnedSums, TypeOK, Lane
  <2> QED
    BY <2>3, <2>4
<1>5. ASSUME NEW r \in Rank, NEW b \in Block, NEW p \in Peers(r), Poll(r, b, p)
      PROVE ResultInv'
  <2>1. pc[r][b] = "spin" /\ UNCHANGED <<call, out>>
    BY <1>5 DEF Poll
  <2>2. CASE waiting[r][b] = {p}
    <3>1. /\ pc' = [pc EXCEPT ![r][b] = "reduce"]
          /\ unread' = [unread EXCEPT ![r][b] = Chunk(call[r], b)]
      BY <1>5, <2>2 DEF Poll
    <3>2. ReducedSoFar'
      BY <2>1, <3>1 DEF ReducedSoFar, TypeOK, Lane
    <3>3. DoneHasRead' /\ ReturnedSums'
      BY <2>1, <3>1 DEF DoneHasRead, ReturnedSums, TypeOK, Lane
    <3> QED
      BY <3>2, <3>3
  <2>3. CASE waiting[r][b] # {p}
    <3>1. pc' = pc /\ unread' = unread
      BY <1>5, <2>3 DEF Poll
    <3> QED
      BY <2>1, <3>1 DEF ReducedSoFar, DoneHasRead, ReturnedSums, Lane
  <2> QED
    BY <2>2, <2>3
<1>6. ASSUME NEW r \in Rank, NEW b \in Block, NEW v \in AnyWord, Reduce(r, b, v)
      PROVE ResultInv'
  <2>1. pc[r][b] = "reduce" /\ v \in unread[r][b] /\ call[r] \in Call /\ b \in Lane
    BY <1>6, LaneBusy DEF Reduce
  <2>2. /\ out' = [out EXCEPT ![r][call[r]][v] = SumOf(call[r])]
        /\ unread' = [unread EXCEPT ![r][b] = @ \ {v}]
        /\ UNCHANGED <<call, pc>>
    BY <1>6, <2>1, OperandsOfThisCall DEF Reduce, SumOf
  <2>3. ReducedSoFar'
    <3>0. call' = call /\ pc' = pc
      BY <2>2
    <3> SUFFICES ASSUME NEW i \in Rank, NEW c \in Lane, pc[i][c] \in {"reduce", "done"},
                        NEW w \in Chunk(call[i], c), w \notin unread'[i][c]
                 PROVE  out'[i][call[i]][w] = SumOf(call[i])
      BY <3>0 DEF ReducedSoFar
    <3>1. c \in Block /\ call[i] \in Call /\ w \in AnyWord
      BY LaneBusy, ChunkWords DEF Lane
    <3>2. CASE i = r /\ w = v
      BY <2>1, <2>2, <3>1, <3>2 DEF TypeOK
    <3>3. CASE ~(i = r /\ w = v)
      <4>1. w \notin unread[i][c]
        BY <2>2, <3>1, <3>3 DEF TypeOK
      <4>2. out[i][call[i]][w] = SumOf(call[i])
        BY <4>1 DEF ReducedSoFar
      <4>3. out'[i][call[i]][w] = out[i][call[i]][w]
        BY <2>1, <2>2, <3>1, <3>3 DEF TypeOK
      <4> QED
        BY <4>2, <4>3
    <3> QED
      BY <3>2, <3>3
  <2>4. DoneHasRead'
    BY <2>1, <2>2 DEF DoneHasRead, TypeOK, Lane
  <2>5. ReturnedSums'
    <3> SUFFICES ASSUME NEW i \in Rank, NEW k \in Call, k < call[i], NEW w \in Words(k)
                 PROVE  out'[i][k][w] = SumOf(k)
      BY <2>2 DEF ReturnedSums, SumOf, Words
    <3>1. ~(i = r /\ k = call[r])
      BY DEF Call
    <3>2. out'[i][k] = out[i][k]
      BY <2>1, <2>2, <3>1 DEF TypeOK
    <3> QED
      BY <3>2 DEF ReturnedSums
  <2> QED
    BY <2>3, <2>4, <2>5
<1>7. ASSUME NEW r \in Rank, NEW b \in Block, Exit(r, b) PROVE ResultInv'
  <2>1. /\ pc[r][b] = "reduce" /\ unread[r][b] = {}
        /\ pc' = [pc EXCEPT ![r][b] = "done"]
        /\ UNCHANGED <<call, unread, out>>
    BY <1>7 DEF Exit
  <2>2. ReducedSoFar'
    BY <2>1 DEF ReducedSoFar, TypeOK, Lane
  <2>3. DoneHasRead' /\ ReturnedSums'
    BY <2>1 DEF DoneHasRead, ReturnedSums, TypeOK, Lane
  <2> QED
    BY <2>2, <2>3
<1>8. ASSUME NEW r \in Rank, Retire(r) PROVE ResultInv'
  <2>1. /\ call' = [call EXCEPT ![r] = @ + 1]
        /\ pc' = [pc EXCEPT ![r] = [b \in Block |-> "queued"]]
        /\ UNCHANGED <<unread, out>>
    BY <1>8 DEF Retire
  <2>2. ReducedSoFar'
    BY <2>1 DEF ReducedSoFar, TypeOK, Lane
  <2>3. DoneHasRead'
    BY <2>1 DEF DoneHasRead, TypeOK, Lane
  <2>4. ReturnedSums'
    <3> SUFFICES ASSUME NEW i \in Rank, NEW k \in Call, k < call'[i], NEW w \in Words(k)
                 PROVE  out'[i][k][w] = SumOf(k)
      BY DEF ReturnedSums, SumOf, Words
    <3> USE <2>1
    <3>1. CASE i = r /\ k = call[r]
      BY <1>8, <3>1, RetireComplete
    <3>2. CASE ~(i = r /\ k = call[r])
      <4>1. k < call[i]
        BY <2>1, <3>2 DEF TypeOK, Call
      <4> QED
        BY <4>1 DEF ReturnedSums
    <3> QED
      BY <3>1, <3>2
  <2> QED
    BY <2>2, <2>3, <2>4
<1>9. CASE UNCHANGED vars
  BY <1>9 DEF vars, ReducedSoFar, DoneHasRead, ReturnedSums, Lane
<1>10. \A r \in Rank, b \in Block : ~SpinOut(r, b)
  BY DEF SpinOut, LimitReached
<1> QED
  BY <1>1, <1>2, <1>3, <1>4, <1>5, <1>6, <1>7, <1>8, <1>9, <1>10
  DEF Next, BlockStep, HeldStep, PollAgain, Finished

LEMMA FullInvariant ==
    ASSUME UniformGrid, NoWrap, ~SpinsOut PROVE Spec => []FullInv
<1>1. Init => ResultInv
  BY ResultInit
<1>2. SafeInv /\ ResultInv /\ [Next]_vars => ResultInv'
  BY ResultStep
<1> QED
  BY <1>1, <1>2, SafeInvariant, PTL DEF FullInv, Spec

(* With one grid for all calls, ranks that returned from a call hold the   *)
(* same result.                                                            *)
THEOREM ParityCorrect ==
    ASSUME UniformGrid, NoWrap, ~SpinsOut PROVE Spec => []RankParity
<1>1. FullInv => RankParity
  BY DEF FullInv, ResultInv, ReturnedSums, RankParity
<1> QED
  BY <1>1, FullInvariant, PTL

-----------------------------------------------------------------------------
(***************************************************************************)
(* The refinement: the first block of a kernel to start enters the call,   *)
(* the end of the kernel returns from it, every other step stutters.       *)
(***************************************************************************)
Idle(r) == \A b \in Block : pc[r][b] = "queued"

LEMMA RefineInit == Init => Collective!AbsInit
<1> SUFFICES ASSUME Init PROVE Collective!AbsInit
  OBVIOUS
<1>1. Entered = [r \in Rank |-> 0] /\ Returned = [r \in Rank |-> 0]
  BY DEF Init, Entered, Returned
<1>2. Sums = [r \in Rank |-> [k \in Collective!Call |-> {}]]
  <2>1. Collective!Call = Call
    BY DEF Call, Collective!Call
  <2>2. \A r \in Rank, k \in Call : ~(k < call[r])
    BY DEF Init, Call
  <2> QED
    BY <2>1, <2>2 DEF Sums
<1> QED
  BY <1>1, <1>2 DEF Collective!AbsInit

(* A step that leaves the calls and the finished results alone, and starts *)
(* no block of an idle rank, stutters.                                     *)
LEMMA Stutter ==
    ASSUME call' = call,
           \A r \in Rank : (Idle(r)' <=> Idle(r)),
           \A r \in Rank, k \in Call : k < call[r] => out'[r][k] = out[r][k]
    PROVE  UNCHANGED Collective!avars
<1>1. Entered' = Entered
  BY DEF Entered, Idle
<1>2. Returned' = Returned
  BY DEF Returned
<1>3. Sums' = Sums
  <2>1. \A r \in Rank, k \in Call :
           (IF k < call'[r] THEN {out'[r][k][w] : w \in Words(k)} ELSE {})
           = (IF k < call[r] THEN {out[r][k][w] : w \in Words(k)} ELSE {})
    OBVIOUS
  <2> QED
    BY <2>1 DEF Sums, Words
<1> QED
  BY <1>1, <1>2, <1>3 DEF Collective!avars

LEMMA RefineStart ==
    ASSUME TypeInv, NEW r \in Rank, NEW b \in Block, Start(r, b)
    PROVE  Collective!Enter(r) \/ UNCHANGED Collective!avars
<1> USE NCallsNat, ParamAssumption
<1>1. /\ call[r] \in Call /\ pc[r][b] = "queued"
      /\ pc' = [pc EXCEPT ![r][b] = "push"]
      /\ UNCHANGED <<call, out>>
  BY DEF Start, TypeInv, TypeOK, Call
<1>2. ~Idle(r)' /\ \A i \in Rank : i # r => (Idle(i)' <=> Idle(i))
  BY <1>1 DEF Idle, TypeInv, TypeOK
<1>3. CASE Idle(r)
  <2>1. Entered[r] = call[r] - 1 /\ Returned[r] = call[r] - 1
    BY <1>3 DEF Entered, Returned, Idle
  <2>2. Entered' = [Entered EXCEPT ![r] = @ + 1]
    <3>1. \A i \in Rank : Entered'[i] = IF i = r THEN call[r] ELSE Entered[i]
      BY <1>1, <1>2 DEF Entered, Idle
    <3>2. Entered[r] + 1 = call[r]
      BY <2>1, <1>1 DEF Call
    <3> QED
      BY <3>1, <3>2 DEF Entered
  <2>3. Returned' = Returned /\ Sums' = Sums
    BY <1>1 DEF Returned, Sums, Words
  <2>4. Entered[r] < NCalls
    BY <2>1, <1>1 DEF Call
  <2> QED
    BY <2>1, <2>2, <2>3, <2>4 DEF Collective!Enter
<1>4. CASE ~Idle(r)
  <2>1. \A i \in Rank : (Idle(i)' <=> Idle(i))
    BY <1>2, <1>4
  <2> QED
    BY <1>1, <2>1, Stutter
<1> QED
  BY <1>3, <1>4

LEMMA RefineRetire ==
    ASSUME UniformGrid, FullInv, NEW r \in Rank, Retire(r)
    PROVE  Collective!Return(r)
<1> USE NCallsNat, ParamAssumption DEF FullInv
<1>1. /\ call[r] \in Call
      /\ \A b \in Lane : pc[r][b] = "done"
      /\ \A w \in Words(call[r]) : out[r][call[r]][w] = SumOf(call[r])
  BY RetireComplete
<1>2. /\ call' = [call EXCEPT ![r] = @ + 1]
      /\ pc' = [pc EXCEPT ![r] = [b \in Block |-> "queued"]]
      /\ out' = out
  BY DEF Retire
<1>3. 0 \in Lane
  BY <1>1, GridPositive DEF Lane, Block, BlocksOf, Call
<1>4. Entered[r] = call[r] /\ Returned[r] = call[r] - 1
  BY <1>1, <1>3 DEF Entered, Returned, Lane
<1>5. \A i \in Rank : call[i] \in Int
  BY DEF SafeInv, TypeInv, TypeOK
<1>6. ASSUME NEW i \in Rank PROVE Entered[r] <= Entered[i]
  <2>1. CASE i = r
    BY <1>4, <1>5, <2>1
  <2>2. CASE i # r
    <3>1. flags[r][Region(i, r)][0] >= call[r]
      BY <1>1, <1>3, <2>2 DEF SafeInv, HandshakeInv, Heard, Passed
    <3>2. flags[r][Region(i, r)][0] = IF Flagged(i, 0, r) THEN call[i] ELSE call[i] - 1
      BY <1>3, <2>2 DEF SafeInv, HandshakeInv, FlagsCount
    <3>3. CASE Flagged(i, 0, r)
      <4>1. pc[i][0] # "queued" /\ 0 \in Block
        BY <1>3, <3>3 DEF Flagged, Lane
      <4>2. Entered[i] = call[i]
        BY <4>1 DEF Entered
      <4> QED
        BY <1>4, <1>5, <3>1, <3>2, <3>3, <4>2
    <3>4. CASE ~Flagged(i, 0, r)
      <4>1. Entered[i] \in {call[i], call[i] - 1}
        BY DEF Entered
      <4> QED
        BY <1>4, <1>5, <3>1, <3>2, <3>4, <4>1
    <3> QED
      BY <3>3, <3>4
  <2> QED
    BY <2>1, <2>2
<1>7. Returned' = [Returned EXCEPT ![r] = Entered[r]]
  <2>1. \A i \in Rank : Returned'[i] = IF i = r THEN call[r] ELSE Returned[i]
    BY <1>1, <1>2, <1>5 DEF Returned, SafeInv, TypeInv, TypeOK
  <2> QED
    BY <1>4, <2>1 DEF Returned
<1>8. Entered' = Entered
  <2>1. \A i \in Rank : Entered'[i] = Entered[i]
    <3> SUFFICES ASSUME NEW i \in Rank PROVE Entered'[i] = Entered[i]
      OBVIOUS
    <3>1. CASE i = r
      <4>1. \A b \in Block : pc'[r][b] = "queued"
        BY <1>2 DEF SafeInv, TypeInv, TypeOK
      <4>2. call'[r] = call[r] + 1
        BY <1>2 DEF SafeInv, TypeInv, TypeOK
      <4>3. Entered'[r] = call'[r] - 1
        BY <4>1 DEF Entered
      <4> QED
        BY <1>4, <1>5, <3>1, <4>2, <4>3
    <3>2. CASE i # r
      <4>1. pc'[i] = pc[i] /\ call'[i] = call[i]
        BY <1>2, <3>2 DEF SafeInv, TypeInv, TypeOK
      <4> QED
        BY <4>1 DEF Entered
    <3> QED
      BY <3>1, <3>2
  <2> QED
    BY <2>1 DEF Entered
<1>9. Sums' = [Sums EXCEPT ![r][Entered[r]] = {[i \in Rank |-> Entered[r]]}]
  <2>1. \A i \in Rank, k \in Call :
           k < call'[i] <=> (k < call[i] \/ (i = r /\ k = call[r]))
    BY <1>1, <1>2, <1>5 DEF Call, SafeInv, TypeInv, TypeOK
  <2>2. {out[r][call[r]][w] : w \in Words(call[r])} = {SumOf(call[r])}
    <3>1. 0 \in Words(call[r])
      BY <1>1, MessageNotEmpty DEF Words
    <3> QED
      BY <1>1, <3>1
  <2>3. \A i \in Rank, k \in Call :
           Sums'[i][k] = IF i = r /\ k = call[r] THEN {SumOf(call[r])} ELSE Sums[i][k]
    <3> SUFFICES ASSUME NEW i \in Rank, NEW k \in Call
                 PROVE  Sums'[i][k] = IF i = r /\ k = call[r] THEN {SumOf(call[r])}
                                                              ELSE Sums[i][k]
      OBVIOUS
    <3>1. Sums'[i][k] = IF k < call'[i] THEN {out[i][k][w] : w \in Words(k)} ELSE {}
      BY <1>2 DEF Sums, Words
    <3>2. Sums[i][k] = IF k < call[i] THEN {out[i][k][w] : w \in Words(k)} ELSE {}
      BY DEF Sums
    <3>3. CASE i = r /\ k = call[r]
      BY <2>1, <2>2, <3>1, <3>3
    <3>4. CASE ~(i = r /\ k = call[r])
      BY <2>1, <3>1, <3>2, <3>4
    <3> QED
      BY <3>3, <3>4
  <2>4. /\ Sums' = [i \in Rank |-> [k \in Call |-> Sums'[i][k]]]
        /\ Sums = [i \in Rank |-> [k \in Call |-> Sums[i][k]]]
    BY DEF Sums
  <2> QED
    BY <1>1, <1>4, <2>3, <2>4 DEF SumOf
<1>10. Returned[r] < Entered[r]
  BY <1>4, <1>5
<1> QED
  BY <1>6, <1>7, <1>8, <1>9, <1>10 DEF Collective!Return

LEMMA RefineStep ==
    ASSUME UniformGrid, ~SpinsOut, FullInv, [Next]_vars
    PROVE  [Collective!AbsNext]_(Collective!avars)
<1> USE DEF FullInv, SafeInv
<1>1. ASSUME NEW r \in Rank, NEW b \in Block, Start(r, b)
      PROVE  [Collective!AbsNext]_(Collective!avars)
  BY <1>1, RefineStart DEF Collective!AbsNext
<1>2. ASSUME NEW r \in Rank, Retire(r)
      PROVE  [Collective!AbsNext]_(Collective!avars)
  BY <1>2, RefineRetire DEF Collective!AbsNext
<1>3. ASSUME NEW r \in Rank, NEW b \in Block, NEW stage \in Stages \ {"queued"},
             pc[r][b] # "queued",
             \/ pc' = [pc EXCEPT ![r][b] = stage]
             \/ pc' = pc,
             call' = call, out' = out
      PROVE  UNCHANGED Collective!avars
  <2>1. \A i \in Rank : Idle(i)' <=> Idle(i)
    <3>1. CASE pc' = [pc EXCEPT ![r][b] = stage]
      <4>1. pc'[r][b] # "queued" /\ \A i \in Rank : i # r => pc'[i] = pc[i]
        BY <3>1 DEF Stages, TypeInv, TypeOK
      <4> QED
        BY <1>3, <4>1 DEF Idle
    <3>2. CASE pc' = pc
      BY <3>2 DEF Idle
    <3> QED
      BY <1>3, <3>1, <3>2
  <2> QED
    BY <1>3, <2>1, Stutter
<1>4. ASSUME NEW r \in Rank, NEW b \in Block, NEW p \in Peers(r), NEW v \in AnyWord,
             Push(r, b, v, p)
      PROVE UNCHANGED Collective!avars
  BY <1>4, <1>3 DEF Push, Stages
<1>5. ASSUME NEW r \in Rank, NEW b \in Block, Drain(r, b)
      PROVE UNCHANGED Collective!avars
  BY <1>5, <1>3 DEF Drain, Stages
<1>6. ASSUME NEW r \in Rank, NEW b \in Block, NEW p \in Peers(r), Signal(r, b, p)
      PROVE UNCHANGED Collective!avars
  <2>1. PICK stage \in {"flag", "spin"} : pc' = [pc EXCEPT ![r][b] = stage]
    BY <1>6 DEF Signal
  <2> QED
    BY <1>6, <2>1, <1>3 DEF Signal, Stages
<1>7. ASSUME NEW r \in Rank, NEW b \in Block, NEW p \in Peers(r), Poll(r, b, p)
      PROVE UNCHANGED Collective!avars
  <2>1. \/ pc' = [pc EXCEPT ![r][b] = "reduce"]
        \/ pc' = pc
    BY <1>7 DEF Poll
  <2>2. pc[r][b] # "queued" /\ call' = call /\ out' = out
    BY <1>7 DEF Poll
  <2> QED
    BY <2>1, <2>2, <1>3 DEF Stages
<1>8. ASSUME NEW r \in Rank, NEW b \in Block, NEW v \in AnyWord, Reduce(r, b, v)
      PROVE UNCHANGED Collective!avars
  <2>1. /\ pc[r][b] = "reduce" /\ call' = call /\ pc' = pc
        /\ out' = [out EXCEPT ![r][call[r]][v] = Operands(r, b, v)]
    BY <1>8 DEF Reduce
  <2>2. call[r] \in Call
    BY <2>1 DEF TypeInv, BusyInCall
  <2>3. \A i \in Rank, k \in Call : k < call[i] => out'[i][k] = out[i][k]
    <3> SUFFICES ASSUME NEW i \in Rank, NEW k \in Call, k < call[i]
                 PROVE  out'[i][k] = out[i][k]
      OBVIOUS
    <3>1. ~(i = r /\ k = call[r])
      BY <2>2, NCallsNat DEF Call
    <3> QED
      BY <2>1, <2>2, <3>1 DEF TypeInv, TypeOK
  <2>4. \A i \in Rank : Idle(i)' <=> Idle(i)
    BY <2>1 DEF Idle
  <2> QED
    BY <2>1, <2>3, <2>4, Stutter
<1>9. ASSUME NEW r \in Rank, NEW b \in Block, Exit(r, b)
      PROVE UNCHANGED Collective!avars
  BY <1>9, <1>3 DEF Exit, Stages
<1>10. CASE UNCHANGED vars
  <2>1. call' = call /\ pc' = pc /\ out' = out
    BY <1>10 DEF vars
  <2> QED
    BY <2>1, Stutter DEF Idle
<1>11. \A r \in Rank, b \in Block : ~SpinOut(r, b)
  BY DEF SpinOut, LimitReached
<1> QED
  BY <1>1, <1>2, <1>4, <1>5, <1>6, <1>7, <1>8, <1>9, <1>10, <1>11
  DEF Next, BlockStep, HeldStep, PollAgain, Finished

(* With one grid for all calls, no wrap of the counters and no spin that   *)
(* gives up, the push kernel implements the abstract all-reduce.           *)
THEOREM Refinement ==
    ASSUME UniformGrid, NoWrap, ~SpinsOut PROVE Spec => ImplementsCollectiveSum
<1>1. Init => Collective!AbsInit
  BY RefineInit
<1>2. FullInv /\ [Next]_vars => [Collective!AbsNext]_(Collective!avars)
  BY RefineStep
<1> QED
  BY <1>1, <1>2, FullInvariant, PTL DEF Spec, ImplementsCollectiveSum, Collective!AbsSpec
==============================================================================
