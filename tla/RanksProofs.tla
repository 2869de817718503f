----------------------------- MODULE RanksProofs -----------------------------
(* The two parts of an engine step that MCEngine checks.  DraftRanks: until   *)
(* an exception strikes some ranks and passes others by, the ranks meet in    *)
(* the same collective of the same pass and draft equally many tokens.        *)
(* AdaptiveChunk: a big step runs alone, and a short request that is next in  *)
(* line is passed over only for the tails of prompts.                         *)
EXTENDS MCEngine, FiniteSetTheorems, SequenceTheorems, WellFoundedInduction, TLAPS

Waiting == {"stats", "logits"}
Second == {"sample"} \cup Waiting

\* Some rank has not begun the step that others are in: those are in its first pass,
\* before the reductions.
Lag(r, q) ==
    rkPc[r] = "idle" /\ rkPc[q] # "idle" =>
        rkStep[q] = rkStep[r] + 1 /\ rkSlot[q] = 0 /\ rkPc[q] \notin Second

\* Two ranks that are both in a step, or both out of it, are in the same pass.
SamePass(r, q) ==
    (rkPc[r] = "idle") = (rkPc[q] = "idle") => rkStep[r] = rkStep[q] /\ rkSlot[r] = rkSlot[q]

\* No rank is past the reductions of a pass before all are.
SameHalf(r, q) == rkPc[r] \in Second => rkPc[q] \in Second

\* The local path has raised on both ranks or on neither, but for one that is on its way
\* to find out.
SameLatch(r, q) ==
    \/ rkLocalOk[r] = rkLocalOk[q]
    \/ rkPc[r] = "sample" /\ rkPc[q] \in Waiting
    \/ rkPc[q] = "sample" /\ rkPc[r] \in Waiting

\* What a rank that is in a step has found out follows from the fault alone: one that
\* strikes some ranks only has not struck yet.
Raises(r, kind) == rkFault.kind = kind /\ rkFault.ranks = Rank /\ rkFault.step = rkStep[r]

Known(r) ==
    /\ rkPc[r] # "idle" => rkCont[r] = ~Raises(r, "matcher") /\ rkSlot[r] < NSpec
    /\ rkPc[r] = "stats" => rkLocalOk[r]
    /\ rkPc[r] = "logits" => ~rkLocalOk[r]

\* A rank that has been through the exchange's decision and one that has not differ by
\* the fault of this very slot.
Decided(r, q) ==
    rkPc[r] \in Waiting /\ rkPc[q] = "sample" =>
        rkLocalOk[r] = (rkLocalOk[q] /\ ~(Raises(q, "local") /\ rkFault.slot = rkSlot[q]))

FaultOK ==
    /\ rkFault.ranks \subseteq Rank
    /\ rkFault.kind \in {"none", "matcher", "local"}

Lockstep ==
    /\ RkTypeOK /\ FaultOK
    /\ \A r \in Rank : Known(r)
    /\ \A r, q \in Rank :
         Lag(r, q) /\ SamePass(r, q) /\ SameHalf(r, q) /\ SameLatch(r, q) /\ Decided(r, q)

LEMMA RanksBounds == 0 \in Rank /\ NSpec \in Nat /\ NSpec >= 2
BY RanksAssumption DEF Rank

LEMMA LockInit == RkInit => Lockstep
<1>. SUFFICES ASSUME RkInit PROVE Lockstep
  OBVIOUS
<1>. USE RanksBounds DEF RkInit
<1>1. FaultOK
  BY RanksAssumption DEF FaultOK, NoFault
<1>2. RkTypeOK
  BY RanksAssumption DEF RkTypeOK
<1>3. \A r \in Rank : rkPc[r] = "idle" /\ rkStep[r] = 0 /\ rkSlot[r] = 0 /\ rkLocalOk[r] = TRUE
  OBVIOUS
<1>. QED
  BY <1>1, <1>2, <1>3
     DEF Lockstep, Known, Lag, SamePass, SameHalf, SameLatch, Decided, Second, Waiting

\* What the invariant says of one rank and of two.
LEMMA LockFacts ==
    ASSUME Lockstep, NEW r \in Rank, NEW q \in Rank
    PROVE  /\ Known(r) /\ Known(q) /\ Lag(r, q) /\ Lag(q, r)
           /\ SamePass(r, q) /\ SamePass(q, r) /\ SameHalf(r, q) /\ SameHalf(q, r)
           /\ SameLatch(r, q) /\ Decided(r, q) /\ Decided(q, r)
BY DEF Lockstep

LEMMA BeginKeeps ==
    ASSUME Lockstep, NEW p \in Rank, Begin(p), ~StruckApart'
    PROVE  Lockstep'
<1>. USE RanksBounds DEF Lockstep, Begin
<1>1. /\ RkTypeOK /\ FaultOK /\ rkStep[p] \in 0 .. MaxSteps /\ rkPc[p] = "idle"
      /\ rkStep[p] < MaxSteps /\ MaxSteps \in Nat
  BY RanksAssumption DEF RkTypeOK
<1>2. RkTypeOK'
  BY <1>1 DEF RkTypeOK
<1>3. /\ rkPc'[p] = "launch" /\ rkStep'[p] = rkStep[p] + 1 /\ rkSlot'[p] = 0
      /\ rkLocalOk' = rkLocalOk /\ rkFault' = rkFault
      /\ \A r \in Rank \ {p} : /\ rkPc'[r] = rkPc[r] /\ rkStep'[r] = rkStep[r]
                              /\ rkSlot'[r] = rkSlot[r] /\ rkCont'[r] = rkCont[r]
  BY <1>1 DEF RkTypeOK
\* An exception of the matcher that p meets now is one that all ranks meet.
<1>4. rkCont'[p] = ~Raises(p, "matcher")'
  <2>. DEFINE meets == rkFault.kind = "matcher" /\ rkFault.step = rkStep'[p] /\ p \in rkFault.ranks
  <2>1. rkCont'[p] = ~meets
    BY <1>1 DEF RkTypeOK
  <2>2. ASSUME meets, rkFault.ranks # Rank PROVE FALSE
    <3>1. PICK q \in Rank : q \notin rkFault.ranks
      BY <1>1, <2>2 DEF FaultOK
    <3>2. rkStep'[p] >= rkFault'.step
      BY <1>1, <1>3, <2>2
    <3>. QED  BY <1>3, <2>2, <3>1, <3>2 DEF StruckApart, Struck
  <2>. QED  BY <1>3, <2>1, <2>2 DEF Raises
<1>5. Known(p)'
  BY <1>3, <1>4 DEF Known
\* Who is in a step began the one that p begins, and is before the reductions.
<1>6. \A r \in Rank : rkPc[r] # "idle" =>
          rkStep[r] = rkStep[p] + 1 /\ rkSlot[r] = 0 /\ rkPc[r] \notin Second
  BY <1>1, LockFacts DEF Lag
<1>7. \A r \in Rank : rkPc[r] = "idle" => rkStep[r] = rkStep[p] /\ rkSlot[r] = rkSlot[p]
  BY <1>1, LockFacts DEF SamePass
<1>8. \A r \in Rank : rkPc[r] \notin Second
  BY <1>1, <1>6 DEF Second, Waiting
<1>9. \A r, q \in Rank : rkLocalOk[r] = rkLocalOk[q]
  BY <1>8, LockFacts DEF SameLatch, Second
<1>10. \A r \in Rank : rkPc'[r] \notin Second
  BY <1>3, <1>8 DEF Second, Waiting
<1>11. ASSUME NEW r \in Rank PROVE Known(r)'
  <2>1. CASE r = p
    BY <2>1, <1>5
  <2>2. CASE r # p
    BY <2>2, <1>3 DEF Known, Raises
  <2>. QED  BY <2>1, <2>2
<1>12. \A r, q \in Rank : Lag(r, q)' /\ SamePass(r, q)'
  BY <1>3, <1>6, <1>7, <1>10 DEF Lag, SamePass
<1>13. \A r, q \in Rank : SameHalf(r, q)' /\ SameLatch(r, q)' /\ Decided(r, q)'
  BY <1>3, <1>9, <1>10 DEF SameHalf, SameLatch, Decided, Second
<1>14. FaultOK'
  BY <1>1, <1>3 DEF FaultOK
<1>. QED  BY <1>2, <1>11, <1>12, <1>13, <1>14

LEMMA LaunchKeeps ==
    ASSUME Lockstep, NEW p \in Rank, Launch(p)
    PROVE  Lockstep'
<1>. USE DEF Lockstep, Launch
<1>1. RkTypeOK /\ FaultOK /\ RkTypeOK' /\ FaultOK'
  BY DEF RkTypeOK, FaultOK, Collectives
<1>2. /\ rkPc[p] = "launch" /\ rkPc'[p] = "reduce"
      /\ \A r \in Rank \ {p} : rkPc'[r] = rkPc[r]
  BY <1>1 DEF RkTypeOK
<1>3. \A r \in Rank : /\ (rkPc'[r] \in Second) = (rkPc[r] \in Second)
                     /\ (rkPc'[r] \in Waiting) = (rkPc[r] \in Waiting)
                     /\ \A c \in {"idle", "sample", "stats", "logits"} :
                           (rkPc'[r] = c) = (rkPc[r] = c)
  BY <1>2 DEF Second, Waiting
<1>4. \A r \in Rank : Known(r)'
  BY <1>3 DEF Known, Raises
<1>5. \A r, q \in Rank : Lag(r, q)' /\ SamePass(r, q)' /\ SameHalf(r, q)'
  BY <1>3 DEF Lag, SamePass, SameHalf
<1>6. \A r, q \in Rank : SameLatch(r, q)' /\ Decided(r, q)'
  BY <1>3 DEF SameLatch, Decided, Raises
<1>. QED  BY <1>1, <1>4, <1>5, <1>6

LEMMA SampleKeeps ==
    ASSUME Lockstep, NEW p \in Rank, Sample(p), ~StruckApart'
    PROVE  Lockstep'
<1>. USE DEF Lockstep, Sample
<1>1. RkTypeOK /\ FaultOK /\ RkTypeOK' /\ FaultOK'
  BY DEF RkTypeOK, FaultOK, Collectives
<1>2. /\ rkPc[p] = "sample" /\ \A r \in Rank \ {p} : rkPc'[r] = rkPc[r]
      /\ rkPc'[p] = IF rkLocalOk'[p] THEN "stats" ELSE "logits"
      /\ \A r \in Rank \ {p} : rkLocalOk'[r] = rkLocalOk[r]
      /\ UNCHANGED <<rkStep, rkSlot, rkCont, rkFault>>
  BY <1>1 DEF RkTypeOK
<1>3. /\ rkPc'[p] \in Waiting
      /\ \A r \in Rank : /\ (rkPc'[r] \in Second) = (rkPc[r] \in Second)
                          /\ (rkPc'[r] = "idle") = (rkPc[r] = "idle")
  BY <1>2 DEF Second, Waiting
\* A rank that leaves the local path now leaves it with all the others.
<1>4. rkLocalOk'[p] = (rkLocalOk[p] /\ ~(Raises(p, "local") /\ rkFault.slot = rkSlot[p]))
  <2>1. rkLocalOk'[p] = (rkLocalOk[p] /\ ~(Hit(p, "local") /\ rkFault.slot = rkSlot[p]))
    BY <1>1 DEF RkTypeOK
  <2>2. ASSUME Hit(p, "local"), rkFault.slot = rkSlot[p], rkFault.ranks # Rank PROVE FALSE
    <3>1. PICK q \in Rank : q \notin rkFault.ranks
      BY <1>1, <2>2 DEF FaultOK
    <3>. QED  BY <1>2, <2>1, <2>2, <3>1 DEF StruckApart, Struck
  <2>. QED  BY <2>1, <2>2 DEF Hit, Raises
<1>5. \A r \in Rank : rkPc[r] \in Second /\ rkStep[r] = rkStep[p] /\ rkSlot[r] = rkSlot[p]
  <2>. TAKE r \in Rank
  <2>1. rkPc[p] \in Second /\ rkPc[p] # "idle"
    BY <1>2 DEF Second
  <2>2. rkPc[r] \in Second
    BY <2>1, LockFacts DEF SameHalf
  <2>. QED  BY <2>1, <2>2, LockFacts DEF SamePass, Second, Waiting
<1>6. \A r \in Rank : Known(r)'
  BY <1>2, <1>3 DEF Known, Raises
<1>7. \A r, q \in Rank : Lag(r, q)' /\ SamePass(r, q)' /\ SameHalf(r, q)'
  BY <1>2, <1>3 DEF Lag, SamePass, SameHalf
\* Whoever has been through has found out what p finds out.
<1>8. \A r \in Rank : rkPc[r] \in Waiting => rkLocalOk[r] = rkLocalOk'[p]
  BY <1>2, <1>4, LockFacts DEF Decided
<1>9. \A r \in Rank : rkPc[r] = "sample" => rkLocalOk[r] = rkLocalOk[p]
  BY <1>2, LockFacts DEF SameLatch, Waiting
<1>10. ASSUME NEW r \in Rank, r # p PROVE SameLatch(r, p)' /\ SameLatch(p, r)' /\ Decided(r, p)' /\ Decided(p, r)'
  <2>1. rkPc'[r] = rkPc[r] /\ rkLocalOk'[r] = rkLocalOk[r] /\ rkPc[r] \in Second
    BY <1>2, <1>5, <1>10
  <2>2. CASE rkPc[r] = "sample"
    <3>1. rkStep'[r] = rkStep[p] /\ rkSlot'[r] = rkSlot[p]
      BY <1>2, <1>5
    <3>2. Raises(r, "local")' = Raises(p, "local")
      BY <3>1, <1>2 DEF Raises
    <3>. QED  BY <1>2, <1>3, <1>4, <1>9, <2>1, <2>2, <3>1, <3>2 DEF SameLatch, Decided, Waiting
  <2>3. CASE rkPc[r] \in Waiting
    BY <1>3, <1>8, <2>1, <2>3 DEF SameLatch, Decided, Waiting
  <2>. QED  BY <2>1, <2>2, <2>3 DEF Second
<1>11. SameLatch(p, p)' /\ Decided(p, p)'
  BY <1>3 DEF SameLatch, Decided, Waiting
<1>12. ASSUME NEW r \in Rank, NEW q \in Rank, r # p, q # p PROVE SameLatch(r, q)' /\ Decided(r, q)'
  BY <1>2, <1>12, LockFacts DEF SameLatch, Decided, Raises
<1>13. \A r, q \in Rank : SameLatch(r, q)' /\ Decided(r, q)'
  BY <1>10, <1>11, <1>12
<1>. QED  BY <1>1, <1>6, <1>7, <1>13

LEMMA ReducedKeeps == Lockstep /\ Reduced => Lockstep'
<1>. SUFFICES ASSUME Lockstep, Reduced PROVE Lockstep'
  OBVIOUS
<1>. USE DEF Lockstep, Reduced
<1>1. RkTypeOK' /\ FaultOK'
  BY DEF RkTypeOK, FaultOK, Collectives
<1>2. /\ \A r \in Rank : rkPc[r] = "reduce" /\ rkPc'[r] = "sample"
      /\ UNCHANGED <<rkStep, rkSlot, rkCont, rkLocalOk, rkFault>>
  OBVIOUS
<1>3. \A r \in Rank : Known(r)'
  BY <1>2 DEF Known, Raises
<1>4. \A r, q \in Rank : Lag(r, q)' /\ SamePass(r, q)' /\ SameHalf(r, q)'
  BY <1>2, LockFacts DEF Lag, SamePass, SameHalf, Second
<1>5. \A r, q \in Rank : SameLatch(r, q)' /\ Decided(r, q)'
  BY <1>2, LockFacts DEF SameLatch, Decided, Waiting
<1>. QED  BY <1>1, <1>3, <1>4, <1>5

LEMMA ExchangedKeeps == Lockstep /\ Exchanged => Lockstep'
<1>. SUFFICES ASSUME Lockstep, Exchanged PROVE Lockstep'
  OBVIOUS
<1>. USE RanksBounds DEF Lockstep, Exchanged
<1>1. /\ RkTypeOK /\ FaultOK
      /\ \A r \in Rank : rkPc[r] \in Waiting /\ rkPc[r] # "idle"
      /\ \A r \in Rank : rkPc'[r] = IF PassesEnd(r) THEN "idle" ELSE "launch"
      /\ \A r \in Rank : rkSlot'[r] = rkSlot[r] + 1
      /\ UNCHANGED <<rkStep, rkCont, rkLocalOk, rkFault>>
  BY DEF Waiting
<1>2. \A r \in Rank : /\ Known(r) /\ rkSlot[r] < NSpec /\ rkSlot[r] \in Nat
                      /\ rkCont[r] = ~Raises(r, "matcher")
  BY <1>1 DEF Known, RkTypeOK
<1>3. \A r, q \in Rank : rkStep[r] = rkStep[q] /\ rkSlot[r] = rkSlot[q]
  BY <1>1, LockFacts DEF SamePass
<1>4. \A r, q \in Rank : rkCont[r] = rkCont[q] /\ rkLocalOk[r] = rkLocalOk[q]
  <2>1. \A r \in Rank : rkPc[r] # "sample"
    BY <1>1 DEF Waiting
  <2>. QED  BY <1>2, <1>3, <2>1, LockFacts DEF Raises, SameLatch
\* The confidences have been exchanged: all ranks leave the loop, or none does.
<1>5. \A r, q \in Rank : PassesEnd(r) = PassesEnd(q)
  <2>1. \A r, q \in Rank : StopAt(rkStep[r], r) = StopAt(rkStep[q], q)
    <3>1. \A r, q \in Rank : StopAt(rkStep[r], r) = StopAt(rkStep[r], q)
      BY DEF StopAt
    <3>. QED  BY <1>3, <3>1
  <2>. QED  BY <1>3, <1>4, <2>1 DEF PassesEnd
<1>6. RkTypeOK'
  <2>1. rkSlot' \in [Rank -> 0 .. NSpec]
    BY <1>2
  <2>2. rkPc' \in [Rank -> {"idle", "launch"}]
    OBVIOUS
  <2>. QED  BY <1>1, <2>1, <2>2 DEF RkTypeOK
<1>7. FaultOK'
  BY <1>1 DEF FaultOK
<1>8. \A r \in Rank : Known(r)'
  <2>. TAKE r \in Rank
  <2>1. rkPc'[r] # "idle" => rkSlot[r] + 1 # NSpec
    BY <1>1 DEF PassesEnd
  <2>2. rkPc'[r] # "idle" => rkSlot'[r] < NSpec
    BY <1>1, <1>2, <2>1
  <2>3. rkPc'[r] \in {"idle", "launch"}
    BY <1>1
  <2>. QED  BY <1>1, <1>2, <2>2, <2>3 DEF Known, Raises
<1>9. \A r, q \in Rank : rkPc'[r] = rkPc'[q] /\ rkPc'[r] \notin Second
  BY <1>1, <1>5 DEF Second, Waiting
<1>10. \A r, q \in Rank : Lag(r, q)' /\ SamePass(r, q)' /\ SameHalf(r, q)'
  BY <1>1, <1>3, <1>9 DEF Lag, SamePass, SameHalf
<1>11. \A r, q \in Rank : SameLatch(r, q)' /\ Decided(r, q)'
  BY <1>1, <1>4, <1>9 DEF SameLatch, Decided, Second
<1>. QED  BY <1>6, <1>7, <1>8, <1>10, <1>11

\* The local path has raised on the ranks of the fault only, who has been through it knows
\* it, and who is alone with that waits in the gather of the logits.
Parted ==
    /\ rkStep \in [Rank -> Int] /\ rkLocalOk \in [Rank -> BOOLEAN]
    /\ rkFault.step \in Int /\ rkPc \in [Rank -> {"idle", "launch", "sample"} \cup Collectives]
    /\ \A r \in Rank :
         /\ ~rkLocalOk[r] => rkFault.kind = "local" /\ r \in rkFault.ranks
         /\ rkPc[r] = "logits" => ~rkLocalOk[r]
         /\ rkFault.ranks # Rank /\ ~rkLocalOk[r] => rkPc[r] = "logits"
    /\ rkFault.ranks \subseteq Rank

\* Together or struck apart: what holds in every reachable state.
TogetherOrApart == Parted /\ (StruckApart \/ Lockstep)

LEMMA TogetherInit == RkInit => TogetherOrApart
<1>1. ASSUME RkInit PROVE Parted
  <2>1. rkFault = NoFault \/ (rkFault.step \in RkStep /\ rkFault.ranks \subseteq Rank)
    BY <1>1 DEF RkInit
  <2>2. rkFault.step \in Int /\ rkFault.ranks \subseteq Rank
    BY <2>1 DEF NoFault, RkStep
  <2>. QED  BY <1>1, <2>2 DEF RkInit, Parted
<1>. QED  BY <1>1, LockInit DEF TogetherOrApart

\* Steps are counted up and the local path is never taken up again.
LEMMA StepsOnly ==
    ASSUME Parted, [RkNext]_rkVars
    PROVE  /\ Parted' /\ rkFault' = rkFault
           /\ \A r \in Rank : rkStep'[r] >= rkStep[r] /\ (rkLocalOk'[r] => rkLocalOk[r])
<1>. USE DEF Parted, Collectives
<1>1. CASE UNCHANGED rkVars
  BY <1>1 DEF rkVars
<1>2. CASE \E p \in Rank : Begin(p)
  <2>1. PICK p \in Rank : /\ rkStep' = [rkStep EXCEPT ![p] = @ + 1]
                           /\ rkPc[p] = "idle" /\ rkPc' = [rkPc EXCEPT ![p] = "launch"]
                           /\ UNCHANGED <<rkLocalOk, rkFault>>
    BY <1>2 DEF Begin
  <2>. QED  BY <2>1
<1>3. CASE \E p \in Rank : Launch(p)
  <2>1. PICK p \in Rank : /\ rkPc[p] = "launch" /\ rkPc' = [rkPc EXCEPT ![p] = "reduce"]
                           /\ UNCHANGED <<rkStep, rkLocalOk, rkFault>>
    BY <1>3 DEF Launch
  <2>. QED  BY <2>1
<1>4. CASE \E p \in Rank : Sample(p)
  <2>1. PICK p \in Rank : Sample(p)
    BY <1>4
  <2>. DEFINE goes == rkLocalOk[p] /\ ~(Hit(p, "local") /\ rkFault.slot = rkSlot[p])
  <2>2. /\ UNCHANGED <<rkStep, rkFault>> /\ rkPc[p] = "sample"
        /\ rkLocalOk' = [rkLocalOk EXCEPT ![p] = goes]
    BY <2>1 DEF Sample
  <2>3. goes \in BOOLEAN /\ (goes => rkLocalOk[p])
        /\ (~goes => ~rkLocalOk[p] \/ (rkFault.kind = "local" /\ p \in rkFault.ranks))
    BY DEF Hit
  <2>4. /\ rkPc' = [rkPc EXCEPT ![p] = IF rkLocalOk'[p] THEN "stats" ELSE "logits"]
        /\ rkLocalOk'[p] = goes
    BY <2>1, <2>2 DEF Sample
  <2>5. ASSUME NEW b \in BOOLEAN, b => rkLocalOk[p], rkLocalOk' = [rkLocalOk EXCEPT ![p] = b],
               ~b => ~rkLocalOk[p] \/ (rkFault.kind = "local" /\ p \in rkFault.ranks),
               rkPc' = [rkPc EXCEPT ![p] = IF b THEN "stats" ELSE "logits"]
        PROVE  Parted' /\ \A r \in Rank : rkLocalOk'[r] => rkLocalOk[r]
    BY <2>2, <2>5
  <2>. QED  BY <2>2, <2>3, <2>4, <2>5
<1>5. CASE Reduced
  <2>1. /\ \A r \in Rank : rkPc[r] = "reduce"
        /\ rkPc' = [q \in Rank |-> "sample"]
        /\ UNCHANGED <<rkStep, rkLocalOk, rkFault>>
    BY <1>5 DEF Reduced
  <2>. QED  BY <2>1
\* Ranks that meet in an exchange have all left the local path or none has.
<1>6. CASE Exchanged
  <2>1. /\ rkPc' = [r \in Rank |-> IF PassesEnd(r) THEN "idle" ELSE "launch"]
        /\ UNCHANGED <<rkStep, rkLocalOk, rkFault>>
    BY <1>6 DEF Exchanged
  <2>2. (\A r \in Rank : rkPc[r] = "stats") \/ (\A r \in Rank : rkPc[r] = "logits")
    BY <1>6 DEF Exchanged
  <2>3. CASE \A r \in Rank : rkPc[r] = "stats"
    BY <2>1, <2>3
  <2>4. CASE \A r \in Rank : rkPc[r] = "logits"
    BY <2>1, <2>4
  <2>. QED  BY <2>2, <2>3, <2>4
<1>. QED  BY <1>1, <1>2, <1>3, <1>4, <1>5, <1>6 DEF RkNext

\* A struck rank stays struck.
LEMMA ApartStays ==
    ASSUME Parted, StruckApart, [RkNext]_rkVars
    PROVE  StruckApart'
<1>1. PICK r \in Rank, q \in Rank : Struck(r) /\ q \notin rkFault.ranks
  BY DEF StruckApart
<1>2. /\ rkFault' = rkFault /\ rkStep[r] \in Int /\ rkStep'[r] \in Int /\ rkFault.step \in Int
      /\ rkStep'[r] >= rkStep[r] /\ (rkLocalOk'[r] => rkLocalOk[r])
  BY StepsOnly DEF Parted
<1>3. Struck(r)'
  BY <1>1, <1>2 DEF Struck
<1>. QED  BY <1>1, <1>2, <1>3 DEF StruckApart

LEMMA LockNext ==
    ASSUME Lockstep, [RkNext]_rkVars, ~StruckApart'
    PROVE  Lockstep'
<1>1. UNCHANGED rkVars => Lockstep'
  BY DEF Lockstep, rkVars, RkTypeOK, FaultOK, Known, Lag, SamePass, SameHalf, SameLatch,
         Decided, Raises, Second, Waiting
<1>. QED
  BY <1>1, BeginKeeps, LaunchKeeps, SampleKeeps, ReducedKeeps, ExchangedKeeps DEF RkNext

LEMMA TogetherNext == TogetherOrApart /\ [RkNext]_rkVars => TogetherOrApart'
BY StepsOnly, ApartStays, LockNext DEF TogetherOrApart

\* Ranks in a collective are in the same one, of the same pass, and ranks between two
\* steps have drafted equally many tokens.
LEMMA LockedMeet ==
    Lockstep =>
        \A r, q \in Rank :
            /\ {rkPc[r], rkPc[q]} \subseteq Collectives =>
                  rkPc[r] = rkPc[q] /\ rkStep[r] = rkStep[q] /\ rkSlot[r] = rkSlot[q]
            /\ rkPc[r] = "idle" /\ rkPc[q] = "idle" => rkSlot[r] = rkSlot[q]
<1>. SUFFICES ASSUME Lockstep, NEW r \in Rank, NEW q \in Rank
     PROVE  /\ {rkPc[r], rkPc[q]} \subseteq Collectives =>
                  rkPc[r] = rkPc[q] /\ rkStep[r] = rkStep[q] /\ rkSlot[r] = rkSlot[q]
            /\ rkPc[r] = "idle" /\ rkPc[q] = "idle" => rkSlot[r] = rkSlot[q]
  OBVIOUS
<1>1. rkPc[r] = "idle" /\ rkPc[q] = "idle" => rkSlot[r] = rkSlot[q]
  BY LockFacts DEF SamePass
<1>2. ASSUME rkPc[r] \in Collectives, rkPc[q] \in Collectives
      PROVE  rkPc[r] = rkPc[q] /\ rkStep[r] = rkStep[q] /\ rkSlot[r] = rkSlot[q]
  <2>1. rkStep[r] = rkStep[q] /\ rkSlot[r] = rkSlot[q]
    BY <1>2, LockFacts DEF SamePass, Collectives
  <2>2. (rkPc[r] \in Second) = (rkPc[q] \in Second)
    BY LockFacts DEF SameHalf
  <2>3. CASE rkPc[r] = "reduce"
    BY <1>2, <2>1, <2>2, <2>3 DEF Collectives, Second, Waiting
  <2>4. CASE rkPc[r] \in Waiting
    <3>1. rkPc[q] \in Waiting
      BY <1>2, <2>2, <2>4 DEF Collectives, Second, Waiting
    <3>2. rkLocalOk[r] = rkLocalOk[q]
      BY <2>4, <3>1, LockFacts DEF SameLatch, Waiting
    <3>. QED  BY <2>1, <2>4, <3>1, <3>2, LockFacts DEF Known, Waiting
  <2>. QED  BY <1>2, <2>3, <2>4 DEF Collectives, Waiting
<1>. QED  BY <1>1, <1>2

\* Until an exception strikes some ranks and passes others by, ranks wait for one another
\* only in the same collective of the same pass, for any number of ranks, slots and steps,
\* and whatever strikes all ranks; once the local path has raised on some ranks only, those
\* are in the gather of the logits for good and the others never enter it.
THEOREM RendezvousCorrect == RkSpec => []Rendezvous
<1>1. TogetherOrApart => Rendezvous
  <2>. SUFFICES ASSUME TogetherOrApart PROVE Rendezvous
    OBVIOUS
  <2>1. CASE ~StruckApart
    BY <2>1, LockedMeet DEF TogetherOrApart, Rendezvous
  <2>2. CASE StruckApart
    <3>1. rkFault.ranks # Rank
      BY <2>2 DEF StruckApart
    <3>2. ASSUME rkFault.kind = "local", NEW r \in Rank
          PROVE  IF Struck(r) THEN rkPc[r] = "logits" ELSE rkPc[r] # "logits"
      BY <3>1, <3>2 DEF TogetherOrApart, Parted, Struck
    <3>. QED  BY <2>2, <3>2 DEF Rendezvous
  <2>. QED  BY <2>1, <2>2
<1>. QED  BY <1>1, TogetherInit, TogetherNext, PTL DEF RkSpec

\* Until then, ranks between two steps have drafted equally many tokens.
THEOREM AgreementOfRanks == RkSpec => []DraftsAgree
<1>1. TogetherOrApart => DraftsAgree
  BY LockedMeet DEF TogetherOrApart, DraftsAgree
<1>. QED  BY <1>1, TogetherInit, TogetherNext, PTL DEF RkSpec

-----------------------------------------------------------------------------
(* AdaptiveChunk: what goes along the queue                                *)

LEMMA HasLeast ==
    ASSUME NEW S, S # {}, S \subseteq Nat
    PROVE  \E x \in S : \A y \in S : x <= y
<1>. DEFINE R == OpToRel(<, Nat)
<1>1. IsWellFoundedOn(R, Nat)
  BY NatLessThanWellFounded
<1>2. PICK x \in S : \A y \in S : ~(<<y, x>> \in R)
  BY <1>1, WFMin
<1>3. ASSUME NEW y \in S PROVE ~(y < x)
  BY <1>2 DEF OpToRel
<1>. QED  BY <1>3

LEMMA NatSteps ==
    ASSUME NEW S, 0 \in S, \A n \in Nat : n \in S => n + 1 \in S
    PROVE  \A n \in Nat : n \in S
<1>. SUFFICES ASSUME Nat \ S # {} PROVE FALSE
  OBVIOUS
<1>1. PICK x \in Nat \ S : \A y \in Nat \ S : x <= y
  BY HasLeast
<1>2. x - 1 \in Nat /\ x - 1 \notin Nat \ S
  BY <1>1
<1>3. x - 1 + 1 \in S
  BY <1>2
<1>. QED  BY <1>1, <1>3

\* A function that is defined by steps exists.
Steps(n, D) == [1 .. n -> [D -> D]]
Stepped(f, n, D, g, start) ==
    f \in [0 .. n -> D] /\ f[0] = start /\ \A i \in 1 .. n : f[i] = g[i][f[i - 1]]

LEMMA StepByStep ==
    ASSUME NEW n \in Nat, NEW D, NEW g \in Steps(n, D), NEW start \in D
    PROVE  \E f : Stepped(f, n, D, g, start)
<1>. SUFFICES \E f \in [0 .. n -> D] : f[0] = start /\ \A i \in 1 .. n : f[i] = g[i][f[i - 1]]
  BY DEF Stepped
<1>0. g \in [1 .. n -> [D -> D]]
  BY DEF Steps
<1>. DEFINE S == {k \in Nat : k <= n =>
                    \E f \in [0 .. k -> D] : f[0] = start /\ \A i \in 1 .. k : f[i] = g[i][f[i - 1]]}
<1>1. 0 \in S
  <2>1. [i \in 0 .. 0 |-> start] \in [0 .. 0 -> D] /\ [i \in 0 .. 0 |-> start][0] = start
    OBVIOUS
  <2>2. \A i \in 1 .. 0 : FALSE
    OBVIOUS
  <2>. QED  BY <2>1, <2>2
<1>2. ASSUME NEW k \in Nat, k \in S PROVE k + 1 \in S
  <2>. SUFFICES ASSUME k + 1 <= n
                PROVE  \E f \in [0 .. k + 1 -> D] :
                          f[0] = start /\ \A i \in 1 .. k + 1 : f[i] = g[i][f[i - 1]]
    OBVIOUS
  <2>1. PICK f \in [0 .. k -> D] : f[0] = start /\ \A i \in 1 .. k : f[i] = g[i][f[i - 1]]
    BY <1>2
  <2>2. f[k] \in D /\ k + 1 \in 1 .. n
    BY <2>1
  <2>3. PICK x \in D : x = g[k + 1][f[k]]
    BY <1>0, <2>2
  <2>4. PICK h : h = [i \in 0 .. k + 1 |-> IF i <= k THEN f[i] ELSE x]
    OBVIOUS
  <2>5. h \in [0 .. k + 1 -> D] /\ h[0] = start
    BY <2>1, <2>3, <2>4
  <2>6. ASSUME NEW i \in 1 .. k + 1 PROVE h[i] = g[i][h[i - 1]]
    <3>1. PICK j \in 0 .. k : j = i - 1
      OBVIOUS
    <3>2. h[j] = f[j]
      BY <2>4
    <3>3. CASE i <= k
      <4>1. i \in 1 .. k /\ h[i] = f[i] /\ f[i] = g[i][f[i - 1]]
        BY <2>1, <2>4, <3>3
      <4>. QED  BY <3>1, <3>2, <4>1
    <3>4. CASE i = k + 1
      <4>1. j = k /\ ~(i <= k)
        BY <3>1, <3>4
      <4>2. h[i] = x
        BY <2>4, <4>1
      <4>. QED  BY <2>3, <3>1, <3>2, <3>4, <4>1, <4>2
    <3>. QED  BY <3>3, <3>4
  <2>. QED  BY <2>5, <2>6
<1>. HIDE DEF S
<1>3. n \in S
  BY <1>1, <1>2, NatSteps
<1>. QED  BY <1>3 DEF S

Distinct(q) == \A i, j \in 1 .. Len(q) : q[i] = q[j] => i = j
Among(q) == {q[i] : i \in 1 .. Len(q)}

LEMMA AmongIs == ASSUME NEW T, NEW q \in Seq(T) PROVE ToSet(q) = Among(q) /\ Among(q) \subseteq T
BY DEF ToSet, Among

\* What Only takes from a queue.
LEMMA OnlyIs ==
    ASSUME NEW T, NEW q \in Seq(T), NEW S
    PROVE  /\ Only(q, S) \in Seq(T) /\ Among(Only(q, S)) = Among(q) \cap S
           /\ Distinct(q) => Distinct(Only(q, S))
           /\ Among(q) \subseteq S => Only(q, S) = q
<1>. DEFINE n == Len(q)
            g == [i \in 1 .. n |-> [x \in Seq(T) |-> IF q[i] \in S THEN Append(x, q[i]) ELSE x]]
            d == CHOOSE f : f = [i \in 0 .. n |->
                    IF i = 0 THEN <<>>
                    ELSE IF q[i] \in S THEN Append(f[i - 1], q[i]) ELSE f[i - 1]]
<1>1. n \in Nat /\ \A i \in 1 .. n : q[i] \in T
  OBVIOUS
<1>2. g \in [1 .. n -> [Seq(T) -> Seq(T)]]
  BY <1>1
<1>3. <<>> \in Seq(T)
  OBVIOUS
<1>4. PICK f \in [0 .. n -> Seq(T)] : f[0] = <<>> /\ \A i \in 1 .. n : f[i] = g[i][f[i - 1]]
  <2>1. g \in Steps(n, Seq(T))
    BY <1>2 DEF Steps
  <2>2. \E f : Stepped(f, n, Seq(T), g, <<>>)
    <3>. HIDE DEF g, n
    <3>. QED  BY <1>1, <1>3, <2>1, StepByStep
  <2>. QED  BY <2>2 DEF Stepped
<1>5. ASSUME NEW i \in 1 .. n
      PROVE  f[i] = IF q[i] \in S THEN Append(f[i - 1], q[i]) ELSE f[i - 1]
  <2>1. i - 1 \in 0 .. n
    BY <1>1
  <2>2. f[i - 1] \in Seq(T) /\ f[i] = g[i][f[i - 1]]
    BY <1>4, <2>1
  <2>. QED  BY <2>2
<1>6. f = [i \in 0 .. n |-> IF i = 0 THEN <<>>
                            ELSE IF q[i] \in S THEN Append(f[i - 1], q[i]) ELSE f[i - 1]]
  <2>1. DOMAIN f = 0 .. n
    BY <1>4
  <2>2. ASSUME NEW i \in 0 .. n
        PROVE  f[i] = IF i = 0 THEN <<>>
                      ELSE IF q[i] \in S THEN Append(f[i - 1], q[i]) ELSE f[i - 1]
    <3>1. i # 0 => i \in 1 .. n
      BY <1>1
    <3>. QED  BY <1>4, <1>5, <3>1
  <2>3. f = [i \in 0 .. n |-> f[i]]
    BY <1>4
  <2>. QED  BY <2>2, <2>3
<1>7. d = [i \in 0 .. n |-> IF i = 0 THEN <<>>
                            ELSE IF q[i] \in S THEN Append(d[i - 1], q[i]) ELSE d[i - 1]]
  BY <1>6
<1>8. Only(q, S) = d[n]
  BY DEF Only
<1>. HIDE DEF d, g
<1>9. /\ d[0] = <<>>
      /\ \A i \in 1 .. n : d[i] = IF q[i] \in S THEN Append(d[i - 1], q[i]) ELSE d[i - 1]
  <2>1. \A i \in 0 .. n : d[i] = IF i = 0 THEN <<>>
                            ELSE IF q[i] \in S THEN Append(d[i - 1], q[i]) ELSE d[i - 1]
    BY <1>7
  <2>2. 0 \in 0 .. n /\ \A i \in 1 .. n : i \in 0 .. n /\ i # 0
    BY <1>1
  <2>. QED  BY <2>1, <2>2
\* What is kept of the first k.
<1>. DEFINE Kept(k) == /\ d[k] \in Seq(T) /\ Len(d[k]) <= k
                       /\ \A j \in 1 .. Len(d[k]) : \E i \in 1 .. k : d[k][j] = q[i] /\ q[i] \in S
                       /\ \A i \in 1 .. k : q[i] \in S => \E j \in 1 .. Len(d[k]) : d[k][j] = q[i]
                       /\ Distinct(q) => Distinct(d[k])
                       /\ Among(q) \subseteq S => Len(d[k]) = k /\ \A j \in 1 .. k : d[k][j] = q[j]
            Ks == {k \in Nat : k <= n => Kept(k)}
<1>10. 0 \in Ks
  <2>1. Len(<<>>) = 0 /\ <<>> \in Seq(T) /\ \A j \in 1 .. 0 : FALSE
    OBVIOUS
  <2>2. Distinct(<<>>)
    BY <2>1 DEF Distinct
  <2>3. PICK a : a = d[0]
    OBVIOUS
  <2>4. a = <<>>
    BY <1>9, <2>3
  <2>5. Len(a) = 0 /\ a \in Seq(T) /\ Distinct(a)
    BY <2>1, <2>2, <2>4
  <2>6. Kept(0)
    BY <2>3, <2>5
  <2>. HIDE DEF Kept
  <2>. QED  BY <2>6
<1>11. ASSUME NEW k \in Nat, k \in Ks, k + 1 <= n PROVE Kept(k + 1)
  <2>1. Kept(k)
    <3>. HIDE DEF Kept
    <3>1. k <= n
      BY <1>1, <1>11
    <3>. QED  BY <1>11, <3>1
  <2>2. PICK i : i = k + 1
    OBVIOUS
  <2>3. i \in 1 .. n /\ i - 1 = k /\ q[i] \in T
    BY <1>1, <1>11, <2>2
  <2>4. PICK a, b : a = d[k] /\ b = d[i]
    OBVIOUS
  <2>5. b = IF q[i] \in S THEN Append(a, q[i]) ELSE a
    BY <1>9, <2>3, <2>4
  <2>6. /\ a \in Seq(T) /\ Len(a) \in Nat /\ Len(a) <= k
        /\ \A j \in 1 .. Len(a) : \E m \in 1 .. k : a[j] = q[m] /\ q[m] \in S
        /\ \A m \in 1 .. k : q[m] \in S => \E j \in 1 .. Len(a) : a[j] = q[m]
        /\ Distinct(q) => Distinct(a)
        /\ Among(q) \subseteq S => Len(a) = k /\ \A j \in 1 .. k : a[j] = q[j]
    <3>1. a = d[k]
      BY <2>4
    <3>2. a \in Seq(T) /\ Len(a) <= k
      BY <2>1, <3>1
    <3>3. Len(a) \in Nat
      BY <3>2
    <3>4. \A j \in 1 .. Len(a) : \E m \in 1 .. k : a[j] = q[m] /\ q[m] \in S
      BY <2>1, <3>1, Zenon
    <3>5. \A m \in 1 .. k : q[m] \in S => \E j \in 1 .. Len(a) : a[j] = q[m]
      BY <2>1, <3>1, Zenon
    <3>6. /\ Distinct(q) => Distinct(a)
          /\ Among(q) \subseteq S => Len(a) = k /\ \A j \in 1 .. k : a[j] = q[j]
      BY <2>1, <3>1, Zenon
    <3>. QED  BY <3>2, <3>3, <3>4, <3>5, <3>6
  <2>7. CASE q[i] \notin S
    <3>1. b = a
      BY <2>5, <2>7
    <3>2. ~(Among(q) \subseteq S)
      BY <2>3, <2>7 DEF Among
    <3>3. \A m \in 1 .. i : q[m] \in S => m \in 1 .. k
      BY <2>3, <2>7
    <3>4. \A m \in 1 .. k : m \in 1 .. i
      BY <2>3
    <3>5. Len(a) <= i
      BY <2>2, <2>6
    <3>6. \A m \in 1 .. i : q[m] \in S => \E j \in 1 .. Len(a) : a[j] = q[m]
      BY <2>6, <3>3
    <3>7. \A j \in 1 .. Len(a) : \E m \in 1 .. i : a[j] = q[m] /\ q[m] \in S
      BY <2>6, <3>4
    <3>8. Kept(i)
      BY <2>4, <2>6, <3>1, <3>2, <3>5, <3>6, <3>7
    <3>. QED  BY <2>2, <3>8
  <2>8. CASE q[i] \in S
    <3>1. b = Append(a, q[i])
      BY <2>5, <2>8
    <3>2. PICK l \in Nat : l = Len(a)
      BY <2>6
    <3>3. /\ b \in Seq(T) /\ Len(b) = l + 1 /\ b[l + 1] = q[i]
          /\ \A j \in 1 .. l : b[j] = a[j]
      BY <2>3, <2>6, <3>1, <3>2
    <3>4. \A j \in 1 .. Len(b) : j \in 1 .. l \/ j = l + 1
      BY <3>3
    <3>5. \A j \in 1 .. l : j \in 1 .. Len(b)
      BY <3>3
    <3>6. l + 1 \in 1 .. Len(b)
      BY <3>3
    <3>7. \A m \in 1 .. i : m \in 1 .. k \/ m = i
      BY <2>2
    <3>8. \A m \in 1 .. k : m \in 1 .. i
      BY <2>2
    <3>9. Len(b) <= i
      BY <2>2, <2>6, <3>2, <3>3
    <3>10. ASSUME NEW j \in 1 .. Len(b) PROVE \E m \in 1 .. i : b[j] = q[m] /\ q[m] \in S
      <4>1. CASE j = l + 1
        BY <2>3, <2>8, <3>3, <4>1
      <4>2. CASE j \in 1 .. l
        <5>1. PICK m \in 1 .. k : a[j] = q[m] /\ q[m] \in S
          BY <2>6, <3>2, <4>2
        <5>. QED  BY <3>3, <3>8, <4>2, <5>1
      <4>. QED  BY <3>4, <4>1, <4>2
    <3>11. ASSUME NEW m \in 1 .. i, q[m] \in S PROVE \E j \in 1 .. Len(b) : b[j] = q[m]
      <4>1. CASE m = i
        BY <3>3, <3>6, <4>1
      <4>2. CASE m \in 1 .. k
        <5>1. PICK j \in 1 .. l : a[j] = q[m]
          BY <2>6, <3>2, <3>11, <4>2
        <5>. QED  BY <3>3, <3>5, <5>1
      <4>. QED  BY <3>7, <4>1, <4>2
    <3>12. Distinct(q) => Distinct(b)
      <4>. SUFFICES ASSUME Distinct(q), NEW x \in 1 .. Len(b), NEW y \in 1 .. Len(b), b[x] = b[y]
                    PROVE  x = y
        BY DEF Distinct
      <4>1. ASSUME NEW j \in 1 .. l PROVE b[j] # q[i]
        <5>1. PICK m \in 1 .. k : a[j] = q[m]
          BY <2>6, <3>2
        <5>2. m \in 1 .. Len(q) /\ i \in 1 .. Len(q) /\ m # i
          BY <2>2, <2>3, <1>1
        <5>3. q[m] # q[i]
          BY <5>2 DEF Distinct
        <5>. QED  BY <3>3, <5>1, <5>3
      <4>2. CASE x = l + 1 \/ y = l + 1
        BY <3>3, <3>4, <4>1, <4>2
      <4>3. CASE x \in 1 .. l /\ y \in 1 .. l
        <5>1. a[x] = a[y] /\ Distinct(a)
          BY <2>6, <3>3, <4>3
        <5>. QED  BY <3>2, <4>3, <5>1 DEF Distinct
      <4>. QED  BY <3>4, <4>2, <4>3
    <3>13. Among(q) \subseteq S => Len(b) = i /\ \A j \in 1 .. i : b[j] = q[j]
      <4>. SUFFICES ASSUME Among(q) \subseteq S PROVE Len(b) = i /\ \A j \in 1 .. i : b[j] = q[j]
        OBVIOUS
      <4>1. l = k /\ \A j \in 1 .. k : a[j] = q[j]
        BY <2>6, <3>2
      <4>. QED  BY <2>2, <3>3, <3>7, <4>1
    <3>14. Kept(i)
      BY <2>4, <3>3, <3>9, <3>10, <3>11, <3>12, <3>13
    <3>. QED  BY <2>2, <3>14
  <2>. QED  BY <2>7, <2>8
<1>12. \A k \in Nat : k \in Ks => k + 1 \in Ks
  <2>. HIDE DEF Kept
  <2>. QED  BY <1>11
<1>13. n \in Ks
  <2>. HIDE DEF Ks
  <2>. QED  BY <1>1, <1>10, <1>12, NatSteps
<1>14. Kept(n)
  <2>. HIDE DEF Kept
  <2>. QED  BY <1>1, <1>13
<1>15. PICK o : o = d[n]
  OBVIOUS
<1>16. Among(o) = Among(q) \cap S
  <2>1. \A j \in 1 .. Len(o) : \E i \in 1 .. n : o[j] = q[i] /\ q[i] \in S
    BY <1>14, <1>15
  <2>2. \A i \in 1 .. n : q[i] \in S => \E j \in 1 .. Len(o) : o[j] = q[i]
    BY <1>14, <1>15
  <2>3. ASSUME NEW x \in Among(o) PROVE x \in Among(q) \cap S
    <3>1. PICK j \in 1 .. Len(o) : x = o[j]
      BY DEF Among
    <3>. QED  BY <2>1, <3>1 DEF Among
  <2>4. ASSUME NEW x \in Among(q) \cap S PROVE x \in Among(o)
    <3>1. PICK i \in 1 .. n : x = q[i]
      BY DEF Among
    <3>. QED  BY <2>2, <3>1 DEF Among
  <2>. QED  BY <2>3, <2>4
<1>17. ASSUME Among(q) \subseteq S PROVE o = q
  <2>1. Len(o) = n /\ o \in Seq(T) /\ \A j \in 1 .. n : o[j] = q[j]
    BY <1>14, <1>15, <1>17
  <2>. QED  BY <2>1, SeqEqual
<1>18. o \in Seq(T) /\ (Distinct(q) => Distinct(o))
  BY <1>14, <1>15
<1>. QED  BY <1>8, <1>15, <1>16, <1>17, <1>18

-----------------------------------------------------------------------------
(* AdaptiveChunk: the invariant                                            *)

AcTypeOK ==
    /\ size \in [Req -> Nat] /\ computed \in [Req -> Nat]
    /\ \A r \in Req : computed[r] <= size[r]
    /\ running \in Seq(Req) /\ waiting \in Seq(Req) /\ inbox \in Seq(Req)
    /\ flight \in Seq([tokens : Nat, who : SUBSET Req])
    /\ done \in BOOLEAN /\ (done => flight # <<>>) /\ ahead \in Nat

\* A request is in one queue once, and only in the running one has it computed anything.
QueuesApart ==
    /\ Distinct(running) /\ Distinct(waiting) /\ Distinct(inbox)
    /\ Among(running) \cap Among(waiting) = {}
    /\ Among(running) \cap Among(inbox) = {}
    /\ Among(waiting) \cap Among(inbox) = {}
    /\ \A r \in Among(waiting) \cup Among(inbox) : computed[r] = 0
    /\ \A r \in Among(running) \cup Among(waiting) \cup Among(inbox) : size[r] > 0

\* Before its tail a prompt has been computed in whole blocks.
Aligned == \A r \in Req : computed[r] < LastCached(r) => \E a \in Nat : computed[r] = a * Block

\* Two steps are in flight at most, and under Sync the second one is capped.
FlightBounded ==
    /\ Len(flight) <= 2 /\ (pc # "block" => Len(flight) <= 1)
    /\ \A i \in 1 .. Len(flight) : flight[i].tokens <= Big
    /\ Sync /\ Len(flight) = 2 => flight[2].tokens <= Cap

AcInv == AcTypeOK /\ QueuesApart /\ Aligned /\ FlightBounded

LEMMA Multiples ==
    ASSUME NEW a \in Nat, NEW b \in Nat, NEW m \in Nat \ {0}
    PROVE  /\ a * m \in Nat /\ b * m \in Nat /\ a * m + b * m = (a + b) * m /\ 0 * m = 0
           /\ a <= b => a * m <= b * m /\ b * m - a * m = (b - a) * m
           /\ a * m < b * m => a < b
<1>1. a * m \in Nat /\ b * m \in Nat /\ a * m + b * m = (a + b) * m /\ 0 * m = 0
  OBVIOUS
<1>2. ASSUME NEW x \in Nat, NEW y \in Nat, x <= y PROVE x * m <= y * m /\ y * m - x * m = (y - x) * m
  <2>1. PICK d \in Nat : y = x + d
    <3>1. y - x \in Nat /\ y = x + (y - x)
      BY <1>2
    <3>. QED  BY <3>1
  <2>2. PICK e : e = d * m
    OBVIOUS
  <2>3. e \in Nat /\ y * m = x * m + e /\ y - x = d
    BY <2>1, <2>2
  <2>4. PICK u, v : u = x * m /\ v = y * m
    OBVIOUS
  <2>5. u \in Nat /\ v = u + e
    BY <2>3, <2>4
  <2>. QED  BY <2>2, <2>3, <2>4, <2>5
<1>3. a * m < b * m => a < b
  <2>. SUFFICES ASSUME ~(a < b) PROVE ~(a * m < b * m)
    OBVIOUS
  <2>1. b * m <= a * m
    BY <1>2
  <2>. QED  BY <1>1, <2>1
<1>. QED  BY <1>1, <1>2, <1>3

LEMMA Divided ==
    ASSUME NEW a \in Nat, NEW m \in Nat \ {0}
    PROVE  \E q \in Nat, r \in 0 .. m - 1 : q = a \div m /\ r = a % m /\ a = q * m + r
OBVIOUS

LEMMA LastCachedIs ==
    ASSUME AcTypeOK, NEW r \in Req
    PROVE  /\ LastCached(r) \in Nat /\ LastCached(r) <= size[r]
           /\ \E m \in Nat : LastCached(r) = m * Block
           /\ size[r] < Block => LastCached(r) = 0
<1>1. size[r] \in Nat /\ Block \in Nat \ {0} /\ Pruned \in {0, 1}
  BY BudgetAssumption DEF AcTypeOK
<1>2. PICK q \in Nat, x \in 0 .. Block - 1 : q = size[r] \div Block /\ size[r] = q * Block + x
  BY <1>1, Divided
<1>3. PICK k : k = (q - Pruned) * Block
  OBVIOUS
<1>4. LastCached(r) = IF k > 0 THEN k ELSE 0
  BY <1>2, <1>3 DEF LastCached
<1>5. CASE Pruned <= q
  <2>1. PICK m \in Nat : m = q - Pruned
    BY <1>1, <1>5
  <2>2. m <= q /\ k = m * Block
    BY <1>1, <1>3, <2>1
  <2>3. PICK p : p = q * Block
    OBVIOUS
  <2>4. k \in Nat /\ k <= p /\ p \in Nat
    BY <1>1, <2>2, <2>3, Multiples
  <2>5. LastCached(r) = k
    BY <1>4, <2>4
  <2>6. size[r] < Block => k = 0
    <3>1. q # 0 => p >= Block
      <4>1. q # 0 => 1 <= q
        OBVIOUS
      <4>2. 1 <= q => 1 * Block <= q * Block
        BY <1>1, Multiples
      <4>. QED  BY <1>1, <2>3, <4>1, <4>2
    <3>2. q = 0 => p = 0
      BY <1>1, <2>3
    <3>. QED  BY <1>1, <1>2, <2>3, <2>4, <3>1, <3>2
  <2>. QED  BY <1>1, <1>2, <2>2, <2>3, <2>4, <2>5, <2>6
<1>6. CASE ~(Pruned <= q)
  <2>1. q - Pruned = 0 - 1
    BY <1>1, <1>6
  <2>2. k = 0 - Block
    BY <1>1, <1>3, <2>1
  <2>3. LastCached(r) = 0 /\ 0 = 0 * Block
    BY <1>1, <1>4, <2>2
  <2>. QED  BY <1>1, <2>3
<1>. QED  BY <1>5, <1>6

\* A chunk fits the rest of the budget, and before the tail it is whole blocks.
LEMMA ChunkIs ==
    ASSUME AcTypeOK, Aligned, NEW r \in Req, NEW rest \in Nat
    PROVE  /\ Chunk(r, rest) \in Nat /\ Chunk(r, rest) <= rest
           /\ Decoding(r) => Chunk(r, rest) <= Width
           /\ ~Decoding(r) => computed[r] + Chunk(r, rest) <= size[r]
           /\ ~Decoding(r) /\ computed[r] < LastCached(r) =>
                 /\ \E k \in Nat : Chunk(r, rest) = k * Block
                 /\ \E k \in Nat : computed[r] + Chunk(r, rest) = k * Block
<1>1. PICK s, c, l, n : /\ s = size[r] /\ c = computed[r] /\ l = LastCached(r)
                        /\ n = IF Left(r) < rest THEN Left(r) ELSE rest
  OBVIOUS
<1>2. /\ s \in Nat /\ c \in Nat /\ c <= s /\ l \in Nat /\ l <= s
      /\ Block \in Nat \ {0} /\ Width \in Nat
  BY <1>1, LastCachedIs, BudgetAssumption DEF AcTypeOK
<1>3. /\ Decoding(r) <=> c = s
      /\ Decoding(r) => Left(r) = Width
      /\ ~Decoding(r) => Left(r) = s - c
  BY <1>1 DEF Decoding, Left
<1>4. /\ n \in Nat /\ n <= rest /\ n <= Left(r)
  BY <1>1, <1>2, <1>3
<1>5. PICK z : z = Chunk(r, rest)
  OBVIOUS
<1>6. z = IF Decoding(r) \/ c >= l THEN n
          ELSE IF c + n < l THEN (n \div Block) * Block ELSE l - c
  BY <1>1, <1>5 DEF Chunk
<1>7. CASE Decoding(r) \/ c >= l
  <2>1. z = n
    BY <1>6, <1>7
  <2>. QED  BY <1>1, <1>2, <1>3, <1>4, <1>5, <1>7, <2>1
<1>8. CASE ~Decoding(r) /\ ~(c >= l)
  <2>1. PICK a \in Nat : c = a * Block
    BY <1>1, <1>2, <1>8 DEF Aligned
  <2>2. PICK m \in Nat : l = m * Block
    BY <1>1, LastCachedIs
  <2>3. PICK q \in Nat, x \in 0 .. Block - 1 : q = n \div Block /\ n = q * Block + x
    BY <1>2, <1>4, Divided
  <2>4. PICK y : y = q * Block
    OBVIOUS
  <2>5. y \in Nat /\ y <= n
    BY <1>2, <1>4, <2>3, <2>4
  <2>6. CASE c + n < l
    <3>1. z = y
      BY <1>6, <1>8, <2>3, <2>4, <2>6
    <3>2. c + y = (a + q) * Block /\ a + q \in Nat
      BY <1>2, <2>1, <2>4, Multiples
    <3>7. z \in Nat /\ z <= rest /\ c + z <= s
      BY <1>2, <1>4, <2>5, <2>6, <3>1
    <3>8. \E k \in Nat : z = k * Block
      BY <2>4, <3>1
    <3>9. \E k \in Nat : c + z = k * Block
      BY <3>1, <3>2
    <3>. QED  BY <1>1, <1>5, <1>8, <3>7, <3>8, <3>9
  <2>7. CASE ~(c + n < l)
    <3>1. z = l - c
      BY <1>6, <1>8, <2>7
    <3>2. a < m
      BY <1>2, <1>8, <2>1, <2>2, Multiples
    <3>3. l - c = (m - a) * Block /\ m - a \in Nat
      BY <1>2, <2>1, <2>2, <3>2, Multiples
    <3>4. c + (l - c) = m * Block
      BY <1>2, <2>2
    <3>5. l - c \in Nat /\ l - c <= n
      BY <1>2, <1>4, <1>8, <2>7
    <3>7. z \in Nat /\ z <= rest /\ c + z <= s
      BY <1>2, <1>4, <3>1, <3>5
    <3>8. \E k \in Nat : z = k * Block
      BY <3>1, <3>3
    <3>9. \E k \in Nat : c + z = k * Block
      BY <3>1, <3>4
    <3>. QED  BY <1>1, <1>5, <1>8, <3>7, <3>8, <3>9
  <2>. QED  BY <2>6, <2>7
<1>. QED  BY <1>7, <1>8

-----------------------------------------------------------------------------
(* AdaptiveChunk: the rest of the budget along the queue                   *)

Ends == [rest : Int, open : BOOLEAN]

LEMMA QueueIs ==
    ASSUME AcTypeOK, QueuesApart
    PROVE  /\ Unfinished \in Seq(Req) /\ Distinct(Unfinished)
           /\ Len(Unfinished) = Len(running) + Len(waiting)
           /\ \A i \in 1 .. Len(Unfinished) :
                 /\ i <= Len(running) => i \in 1 .. Len(running) /\ Unfinished[i] = running[i]
                 /\ i > Len(running) => /\ i - Len(running) \in 1 .. Len(waiting)
                                        /\ Unfinished[i] = waiting[i - Len(running)]
           /\ \A i \in 1 .. Len(running) : i \in 1 .. Len(Unfinished) /\ Unfinished[i] = running[i]
           /\ \A i \in 1 .. Len(waiting) : /\ Len(running) + i \in 1 .. Len(Unfinished)
                                           /\ Unfinished[Len(running) + i] = waiting[i]
<1>1. PICK a, b, u : a = running /\ b = waiting /\ u = a \o b
  OBVIOUS
<1>2. a \in Seq(Req) /\ b \in Seq(Req) /\ Len(a) \in Nat /\ Len(b) \in Nat
  BY <1>1 DEF AcTypeOK
<1>3. /\ u \in Seq(Req) /\ Len(u) = Len(a) + Len(b)
      /\ \A i \in 1 .. Len(a) + Len(b) : u[i] = IF i <= Len(a) THEN a[i] ELSE b[i - Len(a)]
  BY <1>1, <1>2
<1>4. \A i \in 1 .. Len(u) :
         /\ i <= Len(a) => i \in 1 .. Len(a) /\ u[i] = a[i]
         /\ i > Len(a) => i - Len(a) \in 1 .. Len(b) /\ u[i] = b[i - Len(a)]
  BY <1>2, <1>3
<1>5. \A i \in 1 .. Len(a) : i \in 1 .. Len(u) /\ u[i] = a[i]
  BY <1>2, <1>3
<1>6. \A i \in 1 .. Len(b) : Len(a) + i \in 1 .. Len(u) /\ u[Len(a) + i] = b[i]
  <2>. TAKE i \in 1 .. Len(b)
  <2>1. PICK j : j = Len(a) + i
    OBVIOUS
  <2>2. j \in 1 .. Len(u) /\ ~(j <= Len(a)) /\ j - Len(a) = i
    BY <1>2, <1>3, <2>1
  <2>. QED  BY <1>4, <2>1, <2>2, <1>2
<1>7. Distinct(a) /\ Distinct(b) /\ Among(a) \cap Among(b) = {}
  BY <1>1 DEF QueuesApart
<1>8. ASSUME NEW i \in 1 .. Len(u), NEW j \in 1 .. Len(u), u[i] = u[j] PROVE i = j
  <2>1. CASE i <= Len(a) /\ j <= Len(a)
    BY <1>4, <1>7, <1>8, <2>1 DEF Distinct
  <2>2. CASE i > Len(a) /\ j > Len(a)
    <3>1. i - Len(a) = j - Len(a)
      BY ZenonT(60), <1>4, <1>7, <1>8, <2>2 DEF Distinct
    <3>. QED  BY <1>2, <3>1
  <2>3. CASE (i <= Len(a) /\ j > Len(a)) \/ (i > Len(a) /\ j <= Len(a))
    <3>1. u[i] \in Among(a) /\ u[i] \in Among(b)
      BY <1>4, <1>8, <2>3 DEF Among
    <3>. QED  BY <1>7, <3>1
  <2>. QED  BY <1>2, <2>1, <2>2, <2>3
<1>9. Distinct(u)
  BY <1>8 DEF Distinct
<1>10. Unfinished = u
  BY <1>1 DEF Unfinished
<1>. QED  BY <1>1, <1>3, <1>4, <1>5, <1>6, <1>9, <1>10

LEMMA AlongIs ==
    ASSUME AcTypeOK, QueuesApart
    PROVE  /\ Along[0] = [rest |-> Budget, open |-> TRUE]
           /\ \A i \in 1 .. Len(Unfinished) : Along[i] = After(i, Along[i - 1])
           /\ \A i \in 0 .. Len(Unfinished) : Along[i] \in Ends
<1>. DEFINE n == Len(Unfinished)
            start == [rest |-> Budget, open |-> TRUE]
            g == [i \in 1 .. n |-> [x \in Ends |-> After(i, x)]]
            d == CHOOSE a : a = [i \in 0 .. n |-> IF i = 0 THEN start ELSE After(i, a[i - 1])]
<1>1. n \in Nat /\ Unfinished \in Seq(Req)
  BY QueueIs
<1>2. start \in Ends
  BY BudgetAssumption DEF Budget, Ends
<1>3. ASSUME NEW i \in 1 .. n, NEW x \in Ends PROVE After(i, x) \in Ends
  <2>1. x.rest \in Int /\ x.open \in BOOLEAN
    BY DEF Ends
  <2>2. PICK r \in Req : r = Unfinished[i]
    BY <1>1
  <2>3. Chunk(r, x.rest) \in Int
    <3>1. /\ Left(r) \in Int /\ LastCached(r) \in Int /\ computed[r] \in Int
          /\ Block \in Nat \ {0}
      BY LastCachedIs, BudgetAssumption DEF AcTypeOK, Left
    <3>2. PICK k : k = IF Left(r) < x.rest THEN Left(r) ELSE x.rest
      OBVIOUS
    <3>3. k \in Int
      BY <2>1, <3>1, <3>2
    <3>4. k \div Block \in Int
      BY <3>1, <3>3
    <3>5. (k \div Block) * Block \in Int /\ LastCached(r) - computed[r] \in Int
      BY <3>1, <3>4
    <3>. QED  BY <3>2, <3>3, <3>5 DEF Chunk
  <2>4. Share(i, x) \in Int
    BY <2>2, <2>3 DEF Share
  <2>5. (x.open /\ (i <= Len(running) \/ Share(i, x) > 0)) \in BOOLEAN
    OBVIOUS
  <2>6. x.rest - Share(i, x) \in Int
    BY <2>1, <2>4
  <2>. QED  BY <2>5, <2>6 DEF After, Ends
<1>4. g \in Steps(n, Ends)
  BY <1>3 DEF Steps
<1>5. PICK f : Stepped(f, n, Ends, g, start)
  <2>. HIDE DEF g, n, start
  <2>. QED  BY <1>1, <1>2, <1>4, StepByStep
<1>6. f \in [0 .. n -> Ends] /\ f[0] = start /\ \A i \in 1 .. n : f[i] = After(i, f[i - 1])
  <2>1. f \in [0 .. n -> Ends] /\ f[0] = start /\ \A i \in 1 .. n : f[i] = g[i][f[i - 1]]
    BY <1>5 DEF Stepped
  <2>2. ASSUME NEW i \in 1 .. n PROVE f[i] = After(i, f[i - 1])
    <3>1. i - 1 \in 0 .. n
      BY <1>1
    <3>2. f[i - 1] \in Ends /\ f[i] = g[i][f[i - 1]]
      BY <2>1, <3>1
    <3>. QED  BY <3>2
  <2>. QED  BY <2>1, <2>2
<1>7. f = [i \in 0 .. n |-> IF i = 0 THEN start ELSE After(i, f[i - 1])]
  <2>1. f = [i \in 0 .. n |-> f[i]]
    BY <1>6
  <2>2. ASSUME NEW i \in 0 .. n PROVE f[i] = IF i = 0 THEN start ELSE After(i, f[i - 1])
    <3>1. i # 0 => i \in 1 .. n
      BY <1>1
    <3>. QED  BY <1>6, <3>1
  <2>. HIDE DEF start
  <2>. QED  BY <2>1, <2>2
<1>8. d = [i \in 0 .. n |-> IF i = 0 THEN start ELSE After(i, d[i - 1])]
  <2>. HIDE DEF start
  <2>. QED  BY <1>7
<1>9. Along = d
  <2>1. Along = [i \in 0 .. n |-> d[i]]
    BY DEF Along
  <2>. HIDE DEF d
  <2>. QED  BY <1>8, <2>1
<1>. HIDE DEF d, start, g
<1>10. \A i \in 0 .. n : d[i] = IF i = 0 THEN start ELSE After(i, d[i - 1])
  BY <1>8
<1>11. d[0] = start /\ \A i \in 1 .. n : d[i] = After(i, d[i - 1])
  <2>1. 0 \in 0 .. n /\ \A i \in 1 .. n : i \in 0 .. n /\ i # 0
    BY <1>1
  <2>. QED  BY <1>10, <2>1
<1>. DEFINE S == {k \in Nat : k <= n => d[k] \in Ends}
<1>12. 0 \in S
  BY <1>2, <1>11
<1>13. ASSUME NEW k \in Nat, k \in S PROVE k + 1 \in S
  <2>. SUFFICES ASSUME k + 1 <= n PROVE d[k + 1] \in Ends
    OBVIOUS
  <2>1. PICK i : i = k + 1
    OBVIOUS
  <2>2. i \in 1 .. n /\ i - 1 = k /\ d[k] \in Ends
    BY <1>1, <1>13, <2>1
  <2>. QED  BY <1>3, <1>11, <2>1, <2>2
<1>14. \A k \in Nat : k \in S
  <2>. HIDE DEF S
  <2>. QED  BY <1>12, <1>13, NatSteps
<1>15. \A i \in 0 .. n : d[i] \in Ends
  BY <1>14
<1>. QED  BY <1>9, <1>11, <1>15 DEF start

\* The share of a place in the queue.
Given(i) == Along[i - 1].rest - Along[i].rest

LEMMA GivenIs ==
    ASSUME AcTypeOK, QueuesApart, Aligned
    PROVE  /\ \A i \in 0 .. Len(Unfinished) : Along[i].rest \in Nat /\ Along[i].rest <= Budget
           /\ \A i \in 1 .. Len(Unfinished) :
                 /\ Given(i) \in Nat /\ Given(i) = Share(i, Along[i - 1])
                 /\ Along[i].rest = Along[i - 1].rest - Given(i)
           /\ \A i \in 0 .. Len(Unfinished) : i <= Len(running) => Along[i].open
<1>. DEFINE n == Len(Unfinished)
            Fits(k) == /\ Along[k].rest \in Nat /\ Along[k].rest <= Budget
                       /\ k <= Len(running) => Along[k].open
            S == {k \in Nat : k <= n => Fits(k)}
<1>1. n \in Nat /\ Unfinished \in Seq(Req) /\ Budget \in Nat
  BY QueueIs, BudgetAssumption DEF Budget
<1>2. ASSUME NEW i \in 1 .. n, Along[i - 1].rest \in Nat
      PROVE  /\ Given(i) \in Nat /\ Given(i) = Share(i, Along[i - 1])
             /\ Along[i].rest = Along[i - 1].rest - Given(i) /\ Along[i].rest \in Nat
             /\ Given(i) <= Along[i - 1].rest
             /\ Along[i].open <=> Along[i - 1].open /\ (i <= Len(running) \/ Given(i) > 0)
  <2>1. PICK a, b : a = Along[i - 1] /\ b = Along[i]
    OBVIOUS
  <2>2. PICK r \in Req : r = Unfinished[i]
    BY <1>1
  <2>3. Chunk(r, a.rest) \in Nat /\ Chunk(r, a.rest) <= a.rest
    BY <1>2, <2>1, ChunkIs
  <2>4. PICK s : s = Share(i, a)
    OBVIOUS
  <2>5. s \in Nat /\ s <= a.rest
    BY <1>2, <2>1, <2>2, <2>3, <2>4 DEF Share
  <2>6. b = After(i, a)
    BY <2>1, AlongIs
  <2>7. b.rest = a.rest - s /\ (b.open <=> a.open /\ (i <= Len(running) \/ s > 0))
    BY <2>4, <2>6 DEF After
  <2>8. Given(i) = a.rest - b.rest
    BY <2>1 DEF Given
  <2>. QED  BY <1>2, <2>1, <2>4, <2>5, <2>7, <2>8
<1>3. 0 \in S
  <2>1. Along[0] = [rest |-> Budget, open |-> TRUE]
    BY AlongIs
  <2>. QED  BY <1>1, <2>1
<1>4. ASSUME NEW k \in Nat, k \in S PROVE k + 1 \in S
  <2>. SUFFICES ASSUME k + 1 <= n PROVE Fits(k + 1)
    OBVIOUS
  <2>1. PICK i : i = k + 1
    OBVIOUS
  <2>2. i \in 1 .. n /\ i - 1 = k /\ k <= n
    BY <1>1, <2>1
  <2>3. Fits(k)
    BY <1>4, <2>2
  <2>4. Along[i - 1].rest \in Nat /\ Along[i - 1].rest <= Budget /\ (k <= Len(running) => Along[i - 1].open)
    BY <2>2, <2>3
  <2>5. Along[i].rest \in Nat /\ Along[i].rest <= Along[i - 1].rest
    BY <1>2, <2>2, <2>4
  <2>6. i <= Len(running) => Along[i].open
    <3>1. Len(running) \in Nat
      BY DEF AcTypeOK
    <3>. QED  BY <1>2, <2>1, <2>2, <2>4, <3>1
  <2>7. Fits(i)
    BY <1>1, <2>4, <2>5, <2>6
  <2>. QED  BY <2>1, <2>7
<1>5. \A k \in Nat : k \in S
  <2>. HIDE DEF S
  <2>. QED  BY <1>3, <1>4, NatSteps
<1>6. \A i \in 0 .. n : Fits(i)
  BY <1>5
<1>7. ASSUME NEW i \in 1 .. n PROVE Along[i - 1].rest \in Nat
  <2>1. i - 1 \in 0 .. n
    BY <1>1
  <2>. QED  BY <1>6, <2>1
<1>. QED  BY <1>2, <1>6, <1>7

-----------------------------------------------------------------------------
(* AdaptiveChunk: a step that passes over a short request                  *)

Place(r) == CHOOSE i \in 1 .. Len(Unfinished) : Unfinished[i] = r
Got(r) == Along[Place(r) - 1].rest - Along[Place(r)].rest
Who == {r \in ToSet(Unfinished) : Got(r) > 0}
Tokens == Budget - Along[Len(Unfinished)].rest

\* What decode rows take of a capped step is less than what whole blocks leave of it.
RoomForDecodes == Width <= Block /\ Width * (Cardinality(Req) - 2) < Cap % Block

LEMMA PlaceIs ==
    ASSUME AcTypeOK, QueuesApart, NEW i \in 1 .. Len(Unfinished)
    PROVE  /\ Place(Unfinished[i]) = i /\ Unfinished[i] \in ToSet(Unfinished)
           /\ Got(Unfinished[i]) = Given(i)
<1>1. Distinct(Unfinished) /\ Unfinished \in Seq(Req)
  BY QueueIs
<1>2. Place(Unfinished[i]) = i
  BY <1>1 DEF Place, Distinct
<1>3. Unfinished[i] \in ToSet(Unfinished)
  BY <1>1 DEF ToSet
<1>. QED  BY <1>2, <1>3 DEF Got, Given

LEMMA WhoIs ==
    ASSUME AcTypeOK, QueuesApart
    PROVE  /\ Who \subseteq Req
           /\ \A r \in Who : \E i \in 1 .. Len(Unfinished) :
                 r = Unfinished[i] /\ Got(r) = Given(i) /\ Given(i) > 0
<1>1. Unfinished \in Seq(Req)
  BY QueueIs
<1>2. ASSUME NEW r \in Who
      PROVE  r \in Req /\ \E i \in 1 .. Len(Unfinished) :
                 r = Unfinished[i] /\ Got(r) = Given(i) /\ Given(i) > 0
  <2>1. r \in ToSet(Unfinished) /\ Got(r) > 0
    BY DEF Who
  <2>2. PICK i \in 1 .. Len(Unfinished) : r = Unfinished[i]
    BY <1>1, <2>1 DEF ToSet
  <2>3. Got(r) = Given(i)
    BY <2>2, PlaceIs
  <2>. QED  BY <1>1, <2>1, <2>2, <2>3
<1>. QED  BY <1>2

LEMMA TokensIs ==
    ASSUME AcTypeOK, QueuesApart, Aligned
    PROVE  Tokens \in Nat /\ Tokens <= Budget /\ Budget \in {Cap, Big}
<1>1. Len(Unfinished) \in 0 .. Len(Unfinished) /\ Unfinished \in Seq(Req)
  BY QueueIs
<1>2. /\ Along[Len(Unfinished)].rest \in Nat /\ Along[Len(Unfinished)].rest <= Budget
      /\ Budget \in {Cap, Big} /\ Cap \in Nat /\ Big \in Nat
  BY <1>1, GivenIs, BudgetAssumption DEF Budget
<1>. QED  BY <1>2 DEF Tokens

LEMMA QueueFits ==
    ASSUME AcTypeOK, QueuesApart
    PROVE  Cardinality(Req) \in Nat /\ Len(Unfinished) <= Cardinality(Req)
<1>1. PICK u, n : u = Unfinished /\ n = Len(u)
  OBVIOUS
<1>2. u \in Seq(Req) /\ n \in Nat /\ Distinct(u)
  BY <1>1, QueueIs
<1>3. u \in [1 .. n -> Req]
  BY <1>1, <1>2
<1>4. \A i, j \in 1 .. n : u[i] = u[j] => i = j
  BY <1>1, <1>2 DEF Distinct
<1>5. u \in Injection(1 .. n, Req)
  BY <1>3, <1>4 DEF Injection, IsInjective
<1>6. IsFiniteSet(Req)
  BY BudgetAssumption
<1>7. Cardinality(1 .. n) <= Cardinality(Req)
  BY <1>5, <1>6, FS_Injection
<1>8. Cardinality(1 .. n) = n
  <2>1. 1 \in Int /\ n \in Int
    BY <1>2
  <2>2. Cardinality(1 .. n) = IF 1 > n THEN 0 ELSE n - 1 + 1
    BY <2>1, FS_Interval
  <2>. QED  BY <1>2, <2>2
<1>. QED  BY <1>1, <1>6, <1>7, <1>8, FS_CardinalityType

\* Decode rows and whole blocks do not make up a capped step.
LEMMA NotFilled ==
    ASSUME RoomForDecodes, NEW N \in Nat, NEW d \in Nat, NEW b \in Nat,
           N + 1 <= Cardinality(Req), Cardinality(Req) \in Nat,
           d <= Width * N, b > 0 => N > 0 /\ d <= Width * (N - 1)
    PROVE  d + b * Block # Cap
<1>1. /\ Block \in Nat \ {0} /\ Cap \in Nat /\ 0 < Cap /\ Block <= Cap /\ Width \in Nat \ {0}
  BY BudgetAssumption
<1>2. PICK q \in Nat, x \in 0 .. Block - 1 : x = Cap % Block /\ Cap = q * Block + x
  <2>1. \E q \in Nat, x \in 0 .. Block - 1 :
           q = Cap \div Block /\ x = Cap % Block /\ Cap = q * Block + x
    BY <1>1, Divided, Zenon
  <2>. QED  BY <2>1
<1>3. SUFFICES ASSUME d + b * Block = Cap PROVE FALSE
  OBVIOUS
<1>4. N # 0
  <2>1. N = 0 => Width * N = 0
    BY <1>1
  <2>2. b = 0 => b * Block = 0
    BY <1>1
  <2>. QED  BY <1>1, <1>3, <2>1, <2>2
<1>5. PICK M \in Nat : N = M + 1
  <2>1. N - 1 \in Nat /\ N = (N - 1) + 1
    BY <1>4
  <2>. QED  BY <2>1
<1>6. PICK C \in Nat : C = Cardinality(Req) - 2 /\ M <= C
  <2>1. Cardinality(Req) - 2 \in Nat /\ M <= Cardinality(Req) - 2
    BY <1>5
  <2>. QED  BY <2>1
<1>7. PICK w, z : w = M * Width /\ z = C * Width
  OBVIOUS
<1>8. w \in Nat /\ z \in Nat /\ w <= z
  BY <1>1, <1>6, <1>7, Multiples
<1>9. z < x /\ Width <= Block
  <2>1. Width * C = z
    BY <1>1, <1>7
  <2>. QED  BY <1>2, <1>6, <2>1 DEF RoomForDecodes
<1>10. Width * N = w + Width /\ N - 1 = M /\ Width * M = w
  BY <1>1, <1>5, <1>7
<1>11. PICK e, f : e = b * Block /\ f = q * Block
  OBVIOUS
<1>12. e \in Nat /\ f \in Nat /\ d + e = f + x
  BY <1>1, <1>2, <1>3, <1>11, Multiples
<1>13. CASE b = 0
  <2>1. e = 0
    BY <1>1, <1>11, <1>13
  <2>2. q # 0
    <3>1. q = 0 => f = 0
      BY <1>1, <1>11
    <3>. QED  BY <1>1, <1>2, <1>11, <1>12, <3>1
  <2>3. f >= Block
    <3>1. 1 <= q
      BY <2>2
    <3>2. 1 * Block <= q * Block
      BY <1>1, <3>1, Multiples
    <3>. QED  BY <1>1, <1>11, <3>2
  <2>4. d <= w + Width
    BY <1>10
  <2>. QED  BY <1>1, <1>2, <1>8, <1>9, <1>12, <2>1, <2>3, <2>4
<1>14. CASE b > 0
  <2>1. d <= w
    BY <1>10, <1>14
  <2>2. CASE b <= q
    <3>1. e <= f
      BY <1>1, <1>11, <2>2, Multiples
    <3>. QED  BY <1>2, <1>8, <1>9, <1>12, <2>1, <3>1
  <2>3. CASE ~(b <= q)
    <3>1. q + 1 <= b /\ q + 1 \in Nat
      BY <2>3
    <3>2. (q + 1) * Block <= b * Block
      BY <1>1, <3>1, Multiples
    <3>3. (q + 1) * Block = f + Block
      BY <1>1, <1>11
    <3>. QED  BY <1>1, <1>2, <1>11, <1>12, <3>2, <3>3
  <2>. QED  BY <2>2, <2>3
<1>. QED  BY <1>13, <1>14

LEMMA PassedOver ==
    ASSUME AcTypeOK, QueuesApart, Aligned, RoomForDecodes,
           waiting # <<>>, size[waiting[1]] < Block, waiting[1] \notin Who
    PROVE  /\ Budget = Cap
           /\ \E i \in 1 .. Len(running) : InTail(running[i]) /\ Given(i) > 0
<1>1. PICK N, p : N = Len(running) /\ p = waiting[1]
  OBVIOUS
<1>2. /\ N \in Nat /\ 1 \in 1 .. Len(waiting) /\ p \in Req /\ N + 1 \in 1 .. Len(Unfinished)
      /\ Unfinished[N + 1] = p /\ computed[p] = 0 /\ size[p] > 0 /\ size[p] < Block
      /\ size[p] \in Nat
  <2>1. N \in Nat /\ Len(waiting) \in Nat /\ 1 \in 1 .. Len(waiting)
    BY <1>1 DEF AcTypeOK
  <2>2. p \in Req /\ p \in Among(waiting)
    BY <1>1, <2>1 DEF AcTypeOK, Among
  <2>. QED  BY <1>1, <2>1, <2>2, QueueIs DEF QueuesApart, AcTypeOK
<1>3. ~Decoding(p) /\ LastCached(p) = 0 /\ Left(p) = size[p]
  BY <1>2, LastCachedIs DEF Decoding, Left
<1>4. Block \in Nat \ {0} /\ Cap \in Nat /\ Block <= Cap /\ 0 < Cap /\ Width \in Nat
  BY BudgetAssumption
<1>5. Budget = Cap
  <2>1. ASSUME NEW r \in SoloLong PROVE FALSE
    <3>1. r \in ToSet(Unfinished) /\ Len(Unfinished) = 1 /\ Left(r) > Cap
      BY DEF SoloLong
    <3>2. PICK i \in 1 .. Len(Unfinished) : r = Unfinished[i]
      BY <3>1, QueueIs DEF ToSet
    <3>3. i = 1 /\ N + 1 = 1
      BY <1>2, <3>1, <3>2
    <3>4. r = p
      BY <1>2, <3>2, <3>3
    <3>. QED  BY <1>2, <1>3, <1>4, <3>1, <3>4
  <2>. QED  BY <2>1 DEF Budget
<1>6. Along[N].rest = 0
  <2>1. ~(Given(N + 1) > 0)
    <3>1. Got(p) = Given(N + 1) /\ p \in ToSet(Unfinished)
      BY <1>2, PlaceIs
    <3>. QED  BY <1>1, <3>1 DEF Who
  <2>2. PICK a : a = Along[N]
    OBVIOUS
  <2>3. N \in 0 .. Len(Unfinished) /\ (N + 1) - 1 = N
    BY <1>2
  <2>4. a.rest \in Nat /\ a.open
    BY <1>1, <1>2, <2>2, <2>3, GivenIs
  <2>5. Given(N + 1) \in Nat /\ Given(N + 1) = Share(N + 1, Along[(N + 1) - 1])
    BY <1>2, GivenIs
  <2>6. Share(N + 1, a) = 0
    BY <2>1, <2>2, <2>3, <2>5
  <2>7. Chunk(p, a.rest) = 0
    BY <1>2, <2>4, <2>6 DEF Share
  <2>8. Chunk(p, a.rest) = IF Left(p) < a.rest THEN Left(p) ELSE a.rest
    BY <1>2, <1>3 DEF Chunk
  <2>. QED  BY <1>2, <1>3, <2>2, <2>4, <2>7, <2>8
<1>7. SUFFICES ASSUME \A i \in 1 .. N : ~(InTail(running[i]) /\ Given(i) > 0) PROVE FALSE
  BY <1>1, <1>5
<1>. DEFINE Parts(k) == \E d, b \in Nat : /\ Along[k].rest + d + b * Block = Cap
                                          /\ d <= Width * k
                                          /\ b > 0 => k > 0 /\ d <= Width * (k - 1)
            S == {k \in Nat : k <= N => Parts(k)}
<1>8. 0 \in S
  <2>1. Along[0].rest = Cap
    <3>1. Along[0] = [rest |-> Budget, open |-> TRUE]
      BY AlongIs
    <3>. QED  BY <1>5, <3>1
  <2>2. Along[0].rest + 0 + 0 * Block = Cap /\ 0 <= Width * 0
    BY <1>4, <2>1
  <2>3. Parts(0)
    BY <2>2
  <2>. HIDE DEF Parts
  <2>. QED  BY <2>3
<1>9. ASSUME NEW k \in Nat, k \in S PROVE k + 1 \in S
  <2>. SUFFICES ASSUME k + 1 <= N PROVE Parts(k + 1)
    OBVIOUS
  <2>1. PICK i : i = k + 1
    OBVIOUS
  <2>2. i \in Nat /\ i \in 1 .. N /\ i - 1 = k /\ k <= N /\ k \in 0 .. Len(Unfinished)
        /\ i \in 1 .. Len(Unfinished)
    BY <1>2, <2>1
  <2>3. PICK d \in Nat, b \in Nat : /\ Along[k].rest + d + b * Block = Cap
                                    /\ d <= Width * k
                                    /\ b > 0 => k > 0 /\ d <= Width * (k - 1)
    BY <1>9, <2>2
  <2>4. PICK a, c, r : a = Along[k].rest /\ c = Given(i) /\ r = running[i]
    OBVIOUS
  <2>5. a \in Nat /\ c \in Nat /\ Along[i].rest = a - c /\ c = Share(i, Along[k])
    BY <2>2, <2>4, GivenIs
  <2>6. r \in Req /\ Unfinished[i] = r
    <3>1. running \in Seq(Req) /\ i \in 1 .. Len(running)
      BY <1>1, <2>2 DEF AcTypeOK
    <3>2. \A j \in 1 .. Len(running) : Unfinished[j] = running[j]
      BY QueueIs
    <3>. QED  BY <2>4, <3>1, <3>2
  <2>7. c = Chunk(r, a)
    BY <1>1, <2>2, <2>4, <2>5, <2>6 DEF Share
  <2>8. PICK e, w : e = b * Block /\ w = Width * k
    OBVIOUS
  <2>9. e \in Nat /\ w \in Nat /\ Width * i = w + Width /\ a + d + e = Cap /\ d <= w
    <3>1. e \in Nat
      BY <1>4, <2>8, Multiples
    <3>2. w \in Nat /\ Width * i = w + Width
      <4>1. \A x, y \in Nat : x * y \in Nat /\ x * (y + 1) = x * y + x
        OBVIOUS
      <4>. QED  BY <1>4, <2>1, <2>8, <4>1
    <3>3. a + d + e = Cap /\ d <= w
      BY <2>3, <2>4, <2>8
    <3>. QED  BY <3>1, <3>2, <3>3
  <2>10. k > 0 => Width * (k - 1) = w - Width
    BY <1>4, <2>8
  <2>11. CASE Decoding(r)
    <3>1. c <= Width
      BY <2>5, <2>6, <2>7, <2>11, ChunkIs
    <3>2. d + c \in Nat /\ (a - c) + (d + c) + e = Cap
      BY <2>5, <2>9
    <3>3. d + c <= Width * i
      BY <1>4, <2>5, <2>9, <3>1
    <3>4. b > 0 => i > 0 /\ d + c <= Width * (i - 1)
      <4>. SUFFICES ASSUME b > 0 PROVE i > 0 /\ d + c <= Width * (i - 1)
        OBVIOUS
      <4>1. d <= w - Width
        BY <2>3, <2>10
      <4>2. Width * (i - 1) = w
        BY <2>2, <2>8
      <4>. QED  BY <1>4, <2>2, <2>5, <2>9, <3>1, <4>1, <4>2
    <3>5. Parts(i)
      BY <2>5, <2>8, <3>2, <3>3, <3>4
    <3>. QED  BY <2>1, <3>5
  <2>12. CASE ~Decoding(r) /\ computed[r] < LastCached(r)
    <3>1. PICK m \in Nat : c = m * Block
      <4>1. \E m \in Nat : Chunk(r, a) = m * Block
        BY <2>5, <2>6, <2>12, ChunkIs
      <4>. QED  BY <2>7, <4>1
    <3>2. b + m \in Nat /\ (b + m) * Block = e + c
      BY <1>4, <2>8, <3>1, Multiples
    <3>3. (a - c) + d + (e + c) = Cap
      BY <2>5, <2>9
    <3>4. d <= Width * i /\ i > 0 /\ d <= Width * (i - 1)
      BY <1>4, <2>2, <2>8, <2>9
    <3>5. Parts(i)
      BY <2>5, <3>2, <3>3, <3>4
    <3>. QED  BY <2>1, <3>5
  <2>13. CASE ~Decoding(r) /\ ~(computed[r] < LastCached(r))
    <3>1. InTail(r)
      <4>1. computed[r] \in Nat /\ LastCached(r) \in Nat
        BY <2>6, LastCachedIs DEF AcTypeOK
      <4>. QED  BY <2>13, <4>1 DEF InTail
    <3>2. c = 0
      <4>1. ~(InTail(running[i]) /\ Given(i) > 0)
        BY <1>7, <2>2
      <4>2. ~(c > 0)
        BY <2>4, <3>1, <4>1
      <4>. QED  BY <2>5, <4>2
    <3>3. d <= Width * i
      BY <1>4, <2>9
    <3>4. b > 0 => i > 0 /\ d <= Width * (i - 1)
      BY <2>2, <2>8, <2>9
    <3>5. Along[i].rest + d + e = Cap
      BY <2>5, <2>9, <3>2
    <3>6. Parts(i)
      BY <2>8, <3>3, <3>4, <3>5
    <3>. QED  BY <2>1, <3>6
  <2>. QED  BY <2>11, <2>12, <2>13
<1>10. \A k \in Nat : k \in S
  <2>. HIDE DEF S
  <2>. QED  BY <1>8, <1>9, NatSteps
<1>11. Parts(N)
  <2>. HIDE DEF Parts
  <2>. QED  BY <1>2, <1>10
<1>12. PICK d \in Nat, b \in Nat : /\ Along[N].rest + d + b * Block = Cap
                                   /\ d <= Width * N
                                   /\ b > 0 => N > 0 /\ d <= Width * (N - 1)
  BY <1>11
<1>13. d + b * Block = Cap
  <2>1. b * Block \in Nat
    BY <1>4, Multiples
  <2>. QED  BY <1>6, <1>12, <2>1
<1>14. N + 1 <= Cardinality(Req) /\ Cardinality(Req) \in Nat
  <2>1. Len(Unfinished) \in Nat
    BY QueueIs
  <2>. QED  BY <1>2, <2>1, QueueFits
<1>. QED  BY <1>2, <1>12, <1>13, <1>14, NotFilled

-----------------------------------------------------------------------------
(* AdaptiveChunk: every action keeps the invariant                         *)

LEMMA QueuedIs ==
    ASSUME NEW f \in Seq([tokens : Nat, who : SUBSET Req]), NEW d \in BOOLEAN, Len(f) <= 2,
           \A i \in 1 .. Len(f) : f[i].tokens <= Big,
           Sync /\ Len(f) = 2 => f[2].tokens <= Cap
    PROVE  Queued(f, d) \in Nat /\ Queued(f, d) <= MostInFlight
<1>1. Cap \in Nat /\ Big \in Nat /\ Cap < Big /\ Len(f) \in Nat /\ Sync \in BOOLEAN
  BY BudgetAssumption
<1>2. \A i \in 1 .. Len(f) : f[i].tokens \in Nat
  <2>1. PICK h, R : h = f /\ R = [tokens : Nat, who : SUBSET Req]
    OBVIOUS
  <2>2. h \in Seq(R)
    BY <2>1
  <2>3. \A i \in 1 .. Len(h) : h[i] \in R
    BY <2>2
  <2>4. \A x \in R : x.tokens \in Nat
    BY <2>1
  <2>. QED  BY <2>1, <2>3, <2>4
<1>3. PICK a, b : /\ a = IF Len(f) > 0 /\ ~d THEN f[1].tokens ELSE 0
                  /\ b = IF Len(f) > 1 THEN f[2].tokens ELSE 0
  OBVIOUS
<1>4. a \in Nat /\ a <= Big
  <2>1. Len(f) > 0 => 1 \in 1 .. Len(f)
    BY <1>1
  <2>. QED  BY <1>1, <1>2, <1>3, <2>1
<1>5. b \in Nat /\ b <= Big /\ (Sync => b <= Cap)
  <2>1. Len(f) > 1 => 2 \in 1 .. Len(f) /\ Len(f) = 2
    <3>1. PICK l \in Nat : l = Len(f)
      BY <1>1
    <3>2. l <= 2
      BY <3>1
    <3>. QED  BY <3>1, <3>2
  <2>. QED  BY <1>1, <1>2, <1>3, <2>1
<1>6. Queued(f, d) = a + b
  BY <1>3 DEF Queued
<1>7. MostInFlight \in Nat /\ a + b <= MostInFlight
  BY SMTT(30), <1>1, <1>4, <1>5 DEF MostInFlight
<1>. QED  BY <1>4, <1>5, <1>6, <1>7

LEMMA ScheduleIs ==
    ASSUME Schedule
    PROVE  /\ pc = "step" /\ Unfinished # <<>> /\ ~Hold
           /\ computed' = [r \in Req |-> IF r \in Who /\ ~Decoding(r) THEN computed[r] + Got(r)
                                         ELSE computed[r]]
           /\ running' = running \o Only(waiting, Who)
           /\ waiting' = Only(waiting, Req \ Who)
           /\ flight' = Append(flight, [tokens |-> Tokens, who |-> Who])
           /\ \/ ahead' = 0
              \/ Only(waiting, Who) = <<>> /\ waiting # <<>> /\ ahead' = ahead + Tokens
              \/ ahead' = Queued(flight', done)
           /\ waiting' \o inbox # <<>> /\ Only(waiting, Who) = <<>> /\ waiting # <<>> =>
                 ahead' = ahead + Tokens
           /\ pc' = IF Tokens > 0 /\ Len(flight') < 2 /\ ~done THEN "take" ELSE "block"
           /\ UNCHANGED <<size, inbox, done>>
BY DEF Schedule, Place, Got, Who, Tokens

LEMMA LastCachedSame ==
    ASSUME NEW r, size'[r] = size[r] PROVE LastCached(r)' = LastCached(r)
BY DEF LastCached

LEMMA ArriveKeeps2 == ASSUME AcInv, NEW r \in Req, Arrive(r) PROVE AcInv'
<1>1. PICK n \in Lengths : size' = [size EXCEPT ![r] = n]
  BY DEF Arrive
<1>2. /\ AcTypeOK /\ QueuesApart /\ Aligned /\ FlightBounded /\ size[r] = 0
      /\ inbox' = Append(inbox, r)
      /\ ahead' = IF Pending = <<>> THEN Queued(flight, done) ELSE ahead
      /\ UNCHANGED <<computed, running, waiting, flight, done, pc>>
  BY DEF AcInv, Arrive
<1>3. n \in Nat \ {0}
  BY BudgetAssumption
<1>4. computed[r] = 0 /\ size'[r] = n /\ \A s \in Req \ {r} : size'[s] = size[s]
  BY <1>1, <1>2 DEF AcTypeOK
<1>5. r \notin Among(running) /\ r \notin Among(waiting) /\ r \notin Among(inbox)
  BY <1>2 DEF QueuesApart
<1>6. inbox' \in Seq(Req) /\ Among(inbox') = Among(inbox) \cup {r} /\ Distinct(inbox')
  <2>1. PICK b, c, l : b = inbox /\ c = inbox' /\ l = Len(b)
    OBVIOUS
  <2>2. /\ b \in Seq(Req) /\ c \in Seq(Req) /\ l \in Nat /\ Len(c) = l + 1 /\ c[l + 1] = r
        /\ \A i \in 1 .. l : c[i] = b[i]
    BY <1>2, <2>1 DEF AcTypeOK
  <2>3. \A i \in 1 .. Len(c) : i \in 1 .. l \/ i = l + 1
    BY <2>2
  <2>4. \A i \in 1 .. l : i \in 1 .. Len(c)
    BY <2>2
  <2>5. l + 1 \in 1 .. Len(c)
    BY <2>2
  <2>6. Distinct(b) /\ \A i \in 1 .. l : b[i] # r
    BY <1>2, <1>5, <2>1 DEF QueuesApart, Among
  <2>7. Distinct(c)
    <3>. SUFFICES ASSUME NEW i \in 1 .. Len(c), NEW j \in 1 .. Len(c), c[i] = c[j] PROVE i = j
      BY DEF Distinct
    <3>1. CASE i \in 1 .. l /\ j \in 1 .. l
      BY <2>1, <2>2, <2>6, <3>1 DEF Distinct
    <3>2. CASE i = l + 1 \/ j = l + 1
      BY <2>2, <2>3, <2>6, <3>2
    <3>. QED  BY <2>3, <3>1, <3>2
  <2>8. Among(c) = Among(b) \cup {r}
    <3>1. ASSUME NEW x \in Among(c) PROVE x \in Among(b) \cup {r}
      BY <2>1, <2>2, <2>3 DEF Among
    <3>2. ASSUME NEW x \in Among(b) PROVE x \in Among(c)
      BY <2>1, <2>2, <2>4 DEF Among
    <3>3. r \in Among(c)
      BY <2>2, <2>5 DEF Among
    <3>. QED  BY <3>1, <3>2, <3>3
  <2>. QED  BY <2>1, <2>2, <2>7, <2>8
<1>7. AcTypeOK'
  <2>1. Queued(flight, done) \in Nat
    BY <1>2, QueuedIs DEF AcTypeOK, FlightBounded
  <2>2. ahead' \in Nat
    BY <1>2, <2>1 DEF AcTypeOK
  <2>3. size' \in [Req -> Nat] /\ \A s \in Req : computed'[s] <= size'[s]
    <3>1. size' \in [Req -> Nat]
      BY <1>1, <1>2, <1>3 DEF AcTypeOK
    <3>2. ASSUME NEW s \in Req PROVE computed[s] <= size'[s]
      <4>1. CASE s = r
        BY <1>3, <1>4, <4>1
      <4>2. CASE s # r
        BY <1>2, <1>4, <4>2 DEF AcTypeOK
      <4>. QED  BY <4>1, <4>2
    <3>. QED  BY <1>2, <3>1, <3>2
  <2>. QED  BY <1>2, <1>6, <2>2, <2>3 DEF AcTypeOK
<1>8. QueuesApart'
  <2>1. Among(running') = Among(running) /\ Among(waiting') = Among(waiting)
    BY <1>2
  <2>2. \A s \in Among(waiting) \cup Among(inbox') : computed'[s] = 0
    BY <1>2, <1>4, <1>6 DEF QueuesApart
  <2>3. Among(running) \subseteq Req /\ Among(waiting) \subseteq Req /\ Among(inbox) \subseteq Req
    BY <1>2, AmongIs DEF AcTypeOK
  <2>4. \A s \in Among(running) \cup Among(waiting) \cup Among(inbox') : size'[s] > 0
    BY <1>2, <1>3, <1>4, <1>6, <2>3 DEF QueuesApart
  <2>. QED  BY <1>2, <1>5, <1>6, <2>1, <2>2, <2>4 DEF QueuesApart
<1>9. Aligned'
  <2>. SUFFICES ASSUME NEW s \in Req, computed'[s] < LastCached(s)'
                PROVE  \E a \in Nat : computed'[s] = a * Block
    BY DEF Aligned
  <2>1. CASE s = r
    <3>1. computed'[s] = 0 * Block /\ 0 \in Nat
      BY <1>2, <1>4, <2>1, BudgetAssumption
    <3>. QED  BY <3>1
  <2>2. CASE s # r
    BY <1>2, <1>4, <2>2, LastCachedSame DEF Aligned
  <2>. QED  BY <2>1, <2>2
<1>10. FlightBounded'
  BY <1>2 DEF FlightBounded
<1>. QED  BY <1>7, <1>8, <1>9, <1>10 DEF AcInv

LEMMA JoinIs ==
    ASSUME NEW T, NEW a \in Seq(T), NEW b \in Seq(T)
    PROVE  /\ a \o b \in Seq(T) /\ Among(a \o b) = Among(a) \cup Among(b)
           /\ Distinct(a) /\ Distinct(b) /\ Among(a) \cap Among(b) = {} => Distinct(a \o b)
<1>1. PICK u : u = a \o b
  OBVIOUS
<1>2. /\ Len(a) \in Nat /\ Len(b) \in Nat /\ u \in Seq(T) /\ Len(u) = Len(a) + Len(b)
      /\ \A i \in 1 .. Len(a) + Len(b) : u[i] = IF i <= Len(a) THEN a[i] ELSE b[i - Len(a)]
  BY <1>1
<1>3. \A i \in 1 .. Len(u) :
         /\ i <= Len(a) => i \in 1 .. Len(a) /\ u[i] = a[i]
         /\ i > Len(a) => i - Len(a) \in 1 .. Len(b) /\ u[i] = b[i - Len(a)]
  BY <1>2
<1>4. \A i \in 1 .. Len(a) : i \in 1 .. Len(u) /\ u[i] = a[i]
  BY <1>2
<1>5. \A i \in 1 .. Len(b) : Len(a) + i \in 1 .. Len(u) /\ u[Len(a) + i] = b[i]
  <2>. TAKE i \in 1 .. Len(b)
  <2>1. PICK j : j = Len(a) + i
    OBVIOUS
  <2>2. j \in 1 .. Len(u) /\ ~(j <= Len(a)) /\ j > Len(a) /\ j - Len(a) = i
    BY <1>2, <2>1
  <2>. QED  BY <1>3, <2>1, <2>2
<1>6. Among(u) = Among(a) \cup Among(b)
  <2>1. ASSUME NEW x \in Among(u) PROVE x \in Among(a) \cup Among(b)
    <3>1. PICK i \in 1 .. Len(u) : x = u[i]
      BY DEF Among
    <3>2. i <= Len(a) \/ i > Len(a)
      BY <1>2
    <3>. QED  BY <1>3, <3>1, <3>2 DEF Among
  <2>2. ASSUME NEW x \in Among(a) PROVE x \in Among(u)
    BY <1>4 DEF Among
  <2>3. ASSUME NEW x \in Among(b) PROVE x \in Among(u)
    BY <1>5 DEF Among
  <2>. QED  BY <2>1, <2>2, <2>3
<1>7. ASSUME Distinct(a), Distinct(b), Among(a) \cap Among(b) = {} PROVE Distinct(u)
  <2>. SUFFICES ASSUME NEW i \in 1 .. Len(u), NEW j \in 1 .. Len(u), u[i] = u[j] PROVE i = j
    BY DEF Distinct
  <2>1. CASE i <= Len(a) /\ j <= Len(a)
    BY <1>3, <1>7, <2>1 DEF Distinct
  <2>2. CASE i > Len(a) /\ j > Len(a)
    <3>1. i - Len(a) = j - Len(a)
      BY SMTT(30), <1>3, <1>7, <2>2 DEF Distinct
    <3>. QED  BY <1>2, <3>1
  <2>3. CASE (i <= Len(a) /\ j > Len(a)) \/ (i > Len(a) /\ j <= Len(a))
    <3>1. u[i] \in Among(a) /\ u[i] \in Among(b)
      BY <1>3, <2>3 DEF Among
    <3>. QED  BY <1>7, <3>1
  <2>. QED  BY <1>2, <2>1, <2>2, <2>3
<1>. QED  BY <1>1, <1>2, <1>6, <1>7

LEMMA TakeKeeps == ASSUME AcInv, Take PROVE AcInv'
<1>1. /\ AcTypeOK /\ QueuesApart /\ Aligned /\ FlightBounded /\ pc = "take"
      /\ waiting' = waiting \o inbox /\ inbox' = <<>> /\ pc' = "step"
      /\ UNCHANGED <<size, computed, running, flight, done, ahead>>
  BY DEF AcInv, Take
<1>2. /\ waiting' \in Seq(Req) /\ Among(waiting') = Among(waiting) \cup Among(inbox)
      /\ Distinct(waiting')
  BY <1>1, JoinIs DEF AcTypeOK, QueuesApart
<1>3. inbox' \in Seq(Req) /\ Among(inbox') = {} /\ Distinct(inbox')
  <2>1. Len(<<>>) = 0 /\ <<>> \in Seq(Req) /\ 1 .. 0 = {}
    OBVIOUS
  <2>. QED  BY <1>1, <2>1 DEF Among, Distinct
<1>4. AcTypeOK'
  BY <1>1, <1>2, <1>3 DEF AcTypeOK
<1>5. QueuesApart'
  <2>1. Among(running') = Among(running) /\ Distinct(running')
    BY <1>1 DEF QueuesApart
  <2>. QED  BY <1>1, <1>2, <1>3, <2>1 DEF QueuesApart
<1>6. Aligned'
  BY <1>1, LastCachedSame DEF Aligned
<1>7. FlightBounded'
  BY <1>1 DEF FlightBounded
<1>. QED  BY <1>4, <1>5, <1>6, <1>7 DEF AcInv

\* What a step of the scheduler does to the queues.
LEMMA SplitIs ==
    ASSUME AcTypeOK, QueuesApart, Schedule
    PROVE  /\ running' \in Seq(Req) /\ waiting' \in Seq(Req)
           /\ Distinct(running') /\ Distinct(waiting')
           /\ Among(running') = Among(running) \cup (Among(waiting) \cap Who)
           /\ Among(waiting') = Among(waiting) \ Who
           /\ Only(waiting, Who) = <<>> => Among(waiting) \cap Who = {} /\ waiting' = waiting
<1>1. running' = running \o Only(waiting, Who) /\ waiting' = Only(waiting, Req \ Who)
  BY ScheduleIs
<1>2. PICK a, b : a = Only(waiting, Who) /\ b = Only(waiting, Req \ Who)
  OBVIOUS
<1>3. /\ waiting \in Seq(Req) /\ running \in Seq(Req) /\ Distinct(waiting) /\ Distinct(running)
      /\ Among(running) \cap Among(waiting) = {}
  BY DEF AcTypeOK, QueuesApart
<1>4. a \in Seq(Req) /\ Among(a) = Among(waiting) \cap Who /\ Distinct(a)
  BY <1>2, <1>3, OnlyIs
<1>5. /\ b \in Seq(Req) /\ Among(b) = Among(waiting) \cap (Req \ Who) /\ Distinct(b)
      /\ Among(waiting) \subseteq Req \ Who => b = waiting
  BY <1>2, <1>3, OnlyIs
<1>6. Among(waiting) \subseteq Req
  BY <1>3, AmongIs
<1>7. running \o a \in Seq(Req) /\ Among(running \o a) = Among(running) \cup Among(a)
      /\ Distinct(running \o a)
  BY <1>3, <1>4, JoinIs
<1>8. Among(<<>>) = {}
  <2>1. Len(<<>>) = 0 /\ 1 .. 0 = {}
    OBVIOUS
  <2>. QED  BY <2>1 DEF Among
<1>. QED  BY <1>1, <1>2, <1>4, <1>5, <1>6, <1>7, <1>8

\* What a step of the scheduler computes.
LEMMA ComputedIs ==
    ASSUME AcTypeOK, QueuesApart, Aligned, Schedule, NEW r \in Req
    PROVE  /\ computed'[r] \in Nat /\ computed[r] <= computed'[r] /\ computed'[r] <= size[r]
           /\ r \notin Who => computed'[r] = computed[r]
           /\ computed'[r] < LastCached(r) => \E a \in Nat : computed'[r] = a * Block
<1>1. computed'[r] = IF r \in Who /\ ~Decoding(r) THEN computed[r] + Got(r) ELSE computed[r]
  BY ScheduleIs
<1>2. computed[r] \in Nat /\ computed[r] <= size[r] /\ size[r] \in Nat /\ LastCached(r) \in Nat
  BY LastCachedIs DEF AcTypeOK
<1>3. CASE ~(r \in Who /\ ~Decoding(r))
  BY <1>1, <1>2, <1>3 DEF Aligned
<1>4. CASE r \in Who /\ ~Decoding(r)
  <2>1. PICK i \in 1 .. Len(Unfinished) : r = Unfinished[i] /\ Got(r) = Given(i) /\ Given(i) > 0
    BY <1>4, WhoIs
  <2>2. PICK b : b = Along[i - 1]
    OBVIOUS
  <2>3. i - 1 \in 0 .. Len(Unfinished)
    BY QueueIs
  <2>4. b.rest \in Nat /\ Given(i) = Share(i, b) /\ Given(i) \in Nat
    BY <2>2, <2>3, GivenIs
  <2>5. Given(i) = Chunk(r, b.rest)
    BY <2>1, <2>4 DEF Share
  <2>6. /\ computed[r] + Given(i) <= size[r]
        /\ computed[r] < LastCached(r) => \E k \in Nat : computed[r] + Given(i) = k * Block
    <3>1. PICK c \in Nat : c = b.rest
      BY <2>4
    <3>2. /\ computed[r] + Chunk(r, c) <= size[r]
          /\ computed[r] < LastCached(r) => \E k \in Nat : computed[r] + Chunk(r, c) = k * Block
      BY <1>4, ChunkIs
    <3>3. Chunk(r, c) = Given(i)
      BY <2>5, <3>1
    <3>. QED  BY <3>2, <3>3
  <2>7. computed'[r] = computed[r] + Given(i)
    BY <1>1, <1>4, <2>1
  <2>. QED  BY <1>2, <1>4, <2>4, <2>6, <2>7
<1>. QED  BY <1>3, <1>4

LEMMA ScheduleKeeps == ASSUME AcInv, Schedule PROVE AcInv'
<1>1. AcTypeOK /\ QueuesApart /\ Aligned /\ FlightBounded
  BY DEF AcInv
<1>2. /\ pc = "step" /\ ~Hold
      /\ computed' = [r \in Req |-> IF r \in Who /\ ~Decoding(r) THEN computed[r] + Got(r)
                                    ELSE computed[r]]
      /\ flight' = Append(flight, [tokens |-> Tokens, who |-> Who])
      /\ \/ ahead' = 0
         \/ Only(waiting, Who) = <<>> /\ waiting # <<>> /\ ahead' = ahead + Tokens
         \/ ahead' = Queued(flight', done)
      /\ pc' = IF Tokens > 0 /\ Len(flight') < 2 /\ ~done THEN "take" ELSE "block"
      /\ UNCHANGED <<size, inbox, done>>
  BY ScheduleIs
<1>3. /\ \A r \in Req : computed'[r] \in Nat /\ computed[r] <= computed'[r] /\ computed'[r] <= size[r]
      /\ \A r \in Req : r \notin Who => computed'[r] = computed[r]
      /\ \A r \in Req : computed'[r] < LastCached(r) => \E a \in Nat : computed'[r] = a * Block
  BY <1>1, ComputedIs
<1>4. /\ running' \in Seq(Req) /\ waiting' \in Seq(Req)
      /\ Distinct(running') /\ Distinct(waiting')
      /\ Among(running') = Among(running) \cup (Among(waiting) \cap Who)
      /\ Among(waiting') = Among(waiting) \ Who
  BY <1>1, SplitIs
<1>5. /\ Tokens \in Nat /\ Tokens <= Budget /\ Budget \in {Cap, Big} /\ Cap < Big
      /\ Cap \in Nat /\ Big \in Nat /\ Who \subseteq Req
  BY <1>1, TokensIs, WhoIs, BudgetAssumption
<1>6. /\ flight' \in Seq([tokens : Nat, who : SUBSET Req]) /\ flight' # <<>>
      /\ Len(flight) \in Nat /\ Len(flight) <= 1 /\ Len(flight') = Len(flight) + 1
      /\ flight'[Len(flight) + 1].tokens = Tokens
      /\ \A i \in 1 .. Len(flight) : flight'[i] = flight[i]
  <2>1. PICK s, R, f, l : /\ s = [tokens |-> Tokens, who |-> Who] /\ R = [tokens : Nat, who : SUBSET Req]
                          /\ f = flight /\ l = Len(f)
    OBVIOUS
  <2>2. s \in R /\ s.tokens = Tokens /\ f \in Seq(R) /\ l \in Nat
    BY <1>1, <1>5, <2>1 DEF AcTypeOK
  <2>3. /\ Append(f, s) \in Seq(R) /\ Len(Append(f, s)) = l + 1 /\ Append(f, s)[l + 1] = s
        /\ \A i \in 1 .. l : Append(f, s)[i] = f[i]
    BY <2>1, <2>2
  <2>4. Append(f, s) # <<>>
    <3>1. Len(<<>>) = 0 /\ l + 1 # 0
      BY <2>2
    <3>. QED  BY <2>3, <3>1
  <2>5. l <= 1
    BY <1>1, <1>2, <2>1 DEF FlightBounded
  <2>. QED  BY <1>2, <2>1, <2>2, <2>3, <2>4, <2>5
<1>7. FlightBounded'
  <2>1. Len(flight') <= 2
    BY <1>6
  <2>2. \A i \in 1 .. Len(flight') : i \in 1 .. Len(flight) \/ i = Len(flight) + 1
    BY <1>6
  <2>3. \A i \in 1 .. Len(flight') : flight'[i].tokens <= Big
    BY <1>1, <1>5, <1>6, <2>2 DEF FlightBounded
  <2>4. ASSUME Sync, Len(flight') = 2 PROVE flight'[2].tokens <= Cap
    <3>1. Len(flight) = 1
      <4>1. PICK l \in Nat : l = Len(flight) /\ Len(flight') = l + 1
        BY <1>6
      <4>2. l + 1 = 2
        BY <2>4, <4>1
      <4>3. l = 1
        BY <4>2
      <4>. QED  BY <4>1, <4>3
    <3>2. flight # <<>>
      BY <3>1
    <3>3. SoloLong = {}
      BY <1>2, <2>4, <3>2 DEF Hold
    <3>4. Budget = Cap
      BY <3>3 DEF Budget
    <3>5. Len(flight) + 1 = 2
      BY <3>1
    <3>. QED  BY <1>5, <1>6, <3>4, <3>5
  <2>5. pc' # "block" => Len(flight') <= 1
    BY <1>2, <1>6
  <2>. QED  BY <2>1, <2>3, <2>4, <2>5 DEF FlightBounded
<1>8. ahead' \in Nat
  <2>1. Queued(flight', done) \in Nat
    BY <1>1, <1>6, <1>7, QueuedIs DEF AcTypeOK, FlightBounded
  <2>2. ahead \in Nat
    BY <1>1 DEF AcTypeOK
  <2>. QED  BY <1>2, <1>5, <2>1, <2>2
<1>9. AcTypeOK'
  <2>1. computed' \in [Req -> Nat]
    <3>1. computed' = [r \in Req |-> computed'[r]]
      BY <1>2
    <3>. QED  BY <1>3, <3>1
  <2>. QED  BY <1>1, <1>2, <1>3, <1>4, <1>6, <1>8, <2>1 DEF AcTypeOK
<1>10. QueuesApart'
  <2>1. Among(inbox') = Among(inbox) /\ Distinct(inbox')
    BY <1>1, <1>2 DEF QueuesApart
  <2>2. Among(waiting) \subseteq Req /\ Among(inbox) \subseteq Req
    BY <1>1, AmongIs DEF AcTypeOK
  <2>3. ASSUME NEW r \in Among(inbox) PROVE r \notin Who
    <3>1. SUFFICES ASSUME r \in Who PROVE FALSE
      OBVIOUS
    <3>2. PICK i \in 1 .. Len(Unfinished) : r = Unfinished[i]
      BY <1>1, <3>1, WhoIs
    <3>3. r \in Among(running) \cup Among(waiting)
      <4>1. Len(running) \in Nat /\ Len(Unfinished) \in Nat
        BY SMTT(30), <1>1, QueueIs DEF AcTypeOK
      <4>2. i <= Len(running) \/ i > Len(running)
        BY <4>1
      <4>3. i <= Len(running) => i \in 1 .. Len(running) /\ Unfinished[i] = running[i]
        BY <1>1, QueueIs
      <4>4. i > Len(running) => /\ i - Len(running) \in 1 .. Len(waiting)
                                /\ Unfinished[i] = waiting[i - Len(running)]
        BY <1>1, QueueIs
      <4>. QED  BY <3>2, <4>2, <4>3, <4>4 DEF Among
    <3>. QED  BY <1>1, <3>3 DEF QueuesApart
  <2>4. \A r \in Among(waiting') \cup Among(inbox') : computed'[r] = 0
    <3>1. \A r \in Among(waiting) \cup Among(inbox) : computed[r] = 0
      BY <1>1 DEF QueuesApart
    <3>. QED  BY <1>3, <1>4, <2>1, <2>2, <2>3, <3>1
  <2>5. \A r \in Among(running') \cup Among(waiting') \cup Among(inbox') : size'[r] > 0
    BY <1>1, <1>2, <1>4, <2>1 DEF QueuesApart
  <2>6. /\ Among(running') \cap Among(waiting') = {} /\ Among(running') \cap Among(inbox') = {}
        /\ Among(waiting') \cap Among(inbox') = {}
    BY <1>1, <1>4, <2>1 DEF QueuesApart
  <2>. QED  BY <1>4, <2>1, <2>4, <2>5, <2>6 DEF QueuesApart
<1>11. Aligned'
  BY <1>2, <1>3, LastCachedSame DEF Aligned
<1>. QED  BY <1>7, <1>9, <1>10, <1>11 DEF AcInv

LEMMA PopKeeps2 == ASSUME AcInv, Pop PROVE AcInv'
<1>1. AcTypeOK /\ QueuesApart /\ Aligned /\ FlightBounded
  BY DEF AcInv
<1>2. PICK ended \in SUBSET {r \in flight[1].who : Decoding(r)} :
         /\ size' = [r \in Req |-> IF r \in ended THEN 0 ELSE size[r]]
         /\ computed' = [r \in Req |-> IF r \in ended THEN 0 ELSE computed[r]]
         /\ running' = Only(running, Req \ ended)
  BY DEF Pop
<1>3. /\ done /\ flight' = Tail(flight) /\ done' = FALSE /\ pc' = "take"
      /\ UNCHANGED <<waiting, inbox, ahead>>
  BY DEF Pop
<1>4. /\ flight' \in Seq([tokens : Nat, who : SUBSET Req])
      /\ Len(flight') <= 1 /\ Len(flight') \in Nat
      /\ \A i \in 1 .. Len(flight') : flight'[i].tokens <= Big
  <2>1. PICK f, R : f = flight /\ R = [tokens : Nat, who : SUBSET Req]
    OBVIOUS
  <2>2. f \in Seq(R) /\ f # <<>> /\ Len(f) <= 2
    BY <1>1, <1>3, <2>1 DEF AcTypeOK, FlightBounded
  <2>3. /\ Tail(f) \in Seq(R) /\ Len(Tail(f)) = Len(f) - 1 /\ Len(f) \in Nat
        /\ \A i \in 1 .. Len(Tail(f)) : Tail(f)[i] = f[i + 1]
    BY <2>2, HeadTailProperties
  <2>4. \A i \in 1 .. Len(Tail(f)) : i + 1 \in 1 .. Len(f)
    BY <2>3
  <2>5. \A i \in 1 .. Len(f) : f[i].tokens <= Big
    BY <1>1, <2>1 DEF FlightBounded
  <2>. QED  BY <1>3, <2>1, <2>2, <2>3, <2>4, <2>5
<1>5. \A r \in ended : computed[r] = size[r]
  BY <1>2 DEF Decoding
<1>6. /\ running' \in Seq(Req) /\ Distinct(running')
      /\ Among(running') = Among(running) \cap (Req \ ended)
  BY <1>1, <1>2, OnlyIs DEF AcTypeOK, QueuesApart
<1>7. \A r \in Among(waiting) \cup Among(inbox) : r \notin ended
  <2>1. \A r \in Among(waiting) \cup Among(inbox) : computed[r] = 0 /\ size[r] > 0
    BY <1>1 DEF QueuesApart
  <2>. QED  BY <1>5, <2>1
<1>8. /\ size' \in [Req -> Nat] /\ computed' \in [Req -> Nat]
      /\ \A r \in Req : computed'[r] <= size'[r]
      /\ \A r \in Req : r \notin ended => computed'[r] = computed[r] /\ size'[r] = size[r]
      /\ \A r \in Req : r \in ended => computed'[r] = 0
  <2>1. \A r \in Req : r \notin ended => computed'[r] = computed[r] /\ size'[r] = size[r]
    BY <1>2
  <2>2. \A r \in Req : r \in ended => computed'[r] = 0 /\ size'[r] = 0
    BY <1>2
  <2>3. size' \in [Req -> Nat] /\ computed' \in [Req -> Nat]
    BY <1>1, <1>2 DEF AcTypeOK
  <2>4. \A r \in Req : computed[r] <= size[r]
    BY <1>1 DEF AcTypeOK
  <2>5. ASSUME NEW r \in Req PROVE computed'[r] <= size'[r]
    <3>1. CASE r \in ended
      BY <2>2, <3>1
    <3>2. CASE r \notin ended
      BY <2>1, <2>4, <3>2
    <3>. QED  BY <3>1, <3>2
  <2>. QED  BY <2>1, <2>2, <2>3, <2>5
<1>9. AcTypeOK'
  <2>1. done' \in BOOLEAN /\ (done' => flight' # <<>>) /\ ahead' \in Nat
    BY <1>1, <1>3 DEF AcTypeOK
  <2>2. waiting' \in Seq(Req) /\ inbox' \in Seq(Req)
    BY <1>1, <1>3 DEF AcTypeOK
  <2>. QED  BY <1>4, <1>6, <1>8, <2>1, <2>2 DEF AcTypeOK
<1>10. QueuesApart'
  <2>1. /\ Among(waiting') = Among(waiting) /\ Among(inbox') = Among(inbox)
        /\ Distinct(waiting') /\ Distinct(inbox')
    BY <1>1, <1>3 DEF QueuesApart
  <2>2. Among(running) \subseteq Req /\ Among(waiting) \subseteq Req /\ Among(inbox) \subseteq Req
    BY <1>1, AmongIs DEF AcTypeOK
  <2>3. \A r \in Among(waiting) \cup Among(inbox) : computed'[r] = 0 /\ size'[r] > 0
    BY <1>1, <1>7, <1>8, <2>2 DEF QueuesApart
  <2>4. \A r \in Among(running') : size'[r] > 0
    BY <1>1, <1>6, <1>8, <2>2 DEF QueuesApart
  <2>5. Among(running') \cap Among(waiting) = {} /\ Among(running') \cap Among(inbox) = {}
    BY <1>1, <1>6 DEF QueuesApart
  <2>6. Among(waiting) \cap Among(inbox) = {}
    BY <1>1 DEF QueuesApart
  <2>. QED  BY <1>6, <2>1, <2>3, <2>4, <2>5, <2>6 DEF QueuesApart
<1>11. Aligned'
  <2>. SUFFICES ASSUME NEW r \in Req, computed'[r] < LastCached(r)'
                PROVE  \E a \in Nat : computed'[r] = a * Block
    BY DEF Aligned
  <2>1. CASE r \in ended
    <3>1. computed'[r] = 0 * Block /\ 0 \in Nat
      BY <1>8, <2>1, BudgetAssumption
    <3>. QED  BY <3>1
  <2>2. CASE r \notin ended
    BY <1>1, <1>8, <2>2, LastCachedSame DEF Aligned
  <2>. QED  BY <2>1, <2>2
<1>12. FlightBounded'
  <2>1. PICK l \in Nat : l = Len(flight') /\ l <= 1
    BY <1>4
  <2>2. Len(flight') <= 2 /\ Len(flight') # 2
    BY <2>1
  <2>. QED  BY <1>3, <1>4, <2>2 DEF FlightBounded
<1>. QED  BY <1>9, <1>10, <1>11, <1>12 DEF AcInv

LEMMA AcInit == Init => AcInv
<1>. SUFFICES ASSUME Init PROVE AcInv
  OBVIOUS
<1>1. Len(<<>>) = 0 /\ 1 .. 0 = {} /\ \A T : <<>> \in Seq(T)
  OBVIOUS
<1>2. /\ size = [r \in Req |-> 0] /\ computed = [r \in Req |-> 0]
      /\ running = <<>> /\ waiting = <<>> /\ inbox = <<>> /\ flight = <<>>
      /\ done = FALSE /\ pc = "take" /\ ahead = 0
  BY DEF Init
<1>3. AcTypeOK
  <2>1. \A T : flight \in Seq(T) /\ running \in Seq(T) /\ waiting \in Seq(T) /\ inbox \in Seq(T)
    BY <1>1, <1>2
  <2>2. size \in [Req -> Nat] /\ computed \in [Req -> Nat] /\ \A r \in Req : computed[r] <= size[r]
    BY <1>2
  <2>. QED  BY <1>2, <2>1, <2>2 DEF AcTypeOK
<1>4. QueuesApart
  <2>1. Among(<<>>) = {} /\ Distinct(<<>>)
    BY <1>1 DEF Among, Distinct
  <2>. QED  BY <1>2, <2>1 DEF QueuesApart
<1>5. Aligned
  <2>1. \A r \in Req : computed[r] = 0 * Block /\ 0 \in Nat
    BY <1>2, BudgetAssumption
  <2>. QED  BY <2>1 DEF Aligned
<1>6. FlightBounded
  BY <1>1, <1>2 DEF FlightBounded
<1>. QED  BY <1>3, <1>4, <1>5, <1>6 DEF AcInv

LEMMA AcSame == ASSUME AcInv, UNCHANGED vars PROVE AcInv'
<1>1. UNCHANGED <<size, computed, running, waiting, inbox, flight, done, pc, ahead>>
  BY DEF vars
<1>2. LastCached(CHOOSE r : TRUE)' = LastCached(CHOOSE r : TRUE)
  BY <1>1 DEF LastCached
<1>3. AcTypeOK' /\ FlightBounded'
  BY <1>1 DEF AcInv, AcTypeOK, FlightBounded
<1>4. QueuesApart'
  BY <1>1 DEF AcInv, QueuesApart
<1>5. Aligned'
  BY <1>1, LastCachedSame DEF AcInv, Aligned
<1>. QED  BY <1>3, <1>4, <1>5 DEF AcInv

\* Waiting for a result, and the GPU's finishing a step, only move pc and done.
LEMMA PlainKeeps == ASSUME AcInv, WaitForStep \/ Complete PROVE AcInv'
<1>1. /\ AcTypeOK /\ QueuesApart /\ Aligned /\ FlightBounded
      /\ UNCHANGED <<size, computed, running, waiting, inbox, flight, ahead>>
  BY DEF AcInv, WaitForStep, Complete
<1>2. /\ done' \in BOOLEAN /\ (done' => flight # <<>>)
      /\ pc' # "block" => pc # "block" \/ flight = <<>>
  <2>1. CASE WaitForStep
    <3>1. done' = done /\ pc' = IF flight = <<>> THEN "take" ELSE "block"
      BY <2>1 DEF WaitForStep
    <3>2. done \in BOOLEAN /\ (done => flight # <<>>)
      BY <1>1 DEF AcTypeOK
    <3>. QED  BY <3>1, <3>2
  <2>2. CASE Complete
    <3>1. done' = TRUE /\ flight # <<>> /\ pc' = pc
      BY <2>2 DEF Complete
    <3>. QED  BY <3>1
  <2>. QED  BY <2>1, <2>2
<1>3. AcTypeOK'
  BY <1>1, <1>2 DEF AcTypeOK
<1>4. QueuesApart'
  BY <1>1 DEF QueuesApart
<1>5. Aligned'
  BY <1>1, LastCachedSame DEF Aligned
<1>6. FlightBounded'
  <2>1. flight = <<>> => Len(flight) = 0
    OBVIOUS
  <2>. QED  BY <1>1, <1>2, <2>1 DEF FlightBounded
<1>. QED  BY <1>3, <1>4, <1>5, <1>6 DEF AcInv

LEMMA AcStep == AcInv /\ [Next]_vars => AcInv'
<1>. SUFFICES ASSUME AcInv, [Next]_vars PROVE AcInv'
  OBVIOUS
<1>1. CASE UNCHANGED vars
  BY <1>1, AcSame
<1>2. ASSUME NEW r \in Req, Arrive(r) PROVE AcInv'
  BY <1>2, ArriveKeeps2
<1>3. CASE Engine
  BY <1>3, TakeKeeps, ScheduleKeeps, PlainKeeps, PopKeeps2 DEF Engine
<1>4. CASE Complete
  BY <1>4, PlainKeeps
<1>. QED  BY <1>1, <1>2, <1>3, <1>4 DEF Next

LEMMA AcAlways == Spec => []AcInv
BY AcInit, AcStep, PTL DEF Spec

-----------------------------------------------------------------------------
(* AdaptiveChunk: the theorems                                             *)

\* The step of PassedOverForTails, and of BigStepsRunAlone.
PassedStep ==
    Pending' # <<>> /\ size'[Pending'[1]] < Block /\ ahead' > MostInFlight =>
       /\ Pending # <<>> /\ Pending[1] = Pending'[1]
       /\ ahead' # ahead =>
             /\ ahead' <= ahead + Cap
             /\ \E q \in ToSet(running) : InTail(q) /\ computed'[q] > computed[q]

BigStep ==
    Len(flight') > Len(flight) /\ flight'[Len(flight')].tokens > Cap
       => flight = <<>> /\ Cardinality(flight'[1].who) = 1

LEMMA PendingIs ==
    ASSUME AcTypeOK
    PROVE  /\ Pending \in Seq(Req)
           /\ waiting # <<>> => Pending # <<>> /\ Pending[1] = waiting[1]
           /\ waiting = <<>> => Pending = inbox
<1>1. PICK a, b, u : a = waiting /\ b = inbox /\ u = a \o b
  OBVIOUS
<1>2. a \in Seq(Req) /\ b \in Seq(Req) /\ Len(a) \in Nat /\ Len(b) \in Nat
  BY <1>1 DEF AcTypeOK
<1>3. /\ u \in Seq(Req) /\ Len(u) = Len(a) + Len(b)
      /\ \A i \in 1 .. Len(a) + Len(b) : u[i] = IF i <= Len(a) THEN a[i] ELSE b[i - Len(a)]
  BY <1>1, <1>2
<1>4. ASSUME a # <<>> PROVE u # <<>> /\ u[1] = a[1]
  <2>1. Len(a) # 0 /\ Len(<<>>) = 0
    BY <1>2, <1>4
  <2>2. 1 \in 1 .. Len(a) + Len(b) /\ 1 <= Len(a) /\ Len(u) # 0
    BY <1>2, <1>3, <2>1
  <2>. QED  BY <1>3, <2>1, <2>2
<1>5. ASSUME a = <<>> PROVE u = b
  BY <1>1, <1>2, <1>5
<1>6. Pending = u
  BY <1>1 DEF Pending
<1>. QED  BY <1>1, <1>3, <1>4, <1>5, <1>6

LEMMA ArrivePasses == ASSUME AcInv, NEW r \in Req, Arrive(r) PROVE PassedStep
<1>1. /\ AcTypeOK /\ FlightBounded
      /\ inbox' = Append(inbox, r) /\ waiting' = waiting
      /\ ahead' = IF Pending = <<>> THEN Queued(flight, done) ELSE ahead
  BY DEF AcInv, Arrive
<1>2. CASE Pending = <<>>
  <2>1. Queued(flight, done) \in Nat /\ Queued(flight, done) <= MostInFlight
    BY <1>1, QueuedIs DEF AcTypeOK, FlightBounded
  <2>2. MostInFlight \in Nat
    BY BudgetAssumption DEF MostInFlight
  <2>. QED  BY <1>1, <1>2, <2>1, <2>2 DEF PassedStep
<1>3. CASE Pending # <<>>
  <2>1. Pending'[1] = Pending[1]
    <3>1. PICK u, v, l : u = Pending /\ v = Pending' /\ l = Len(u)
      OBVIOUS
    <3>2. u \in Seq(Req) /\ u # <<>>
      BY <1>1, <1>3, <3>1, PendingIs
    <3>3. v = Append(u, r)
      <4>1. PICK a, b : a = waiting /\ b = inbox
        OBVIOUS
      <4>2. a \in Seq(Req) /\ b \in Seq(Req)
        BY <1>1, <4>1 DEF AcTypeOK
      <4>3. a \o Append(b, r) = Append(a \o b, r)
        BY <4>2
      <4>. QED  BY <1>1, <3>1, <4>1, <4>3 DEF Pending
    <3>4. 1 \in 1 .. Len(u)
      BY <3>2
    <3>5. Append(u, r)[1] = u[1]
      BY <3>2, <3>4
    <3>. QED  BY <3>1, <3>3, <3>5
  <2>2. ahead' = ahead
    BY <1>1, <1>3
  <2>. QED  BY <1>3, <2>1, <2>2 DEF PassedStep
<1>. QED  BY <1>2, <1>3

LEMMA TakePasses == ASSUME AcInv, Take PROVE PassedStep
<1>1. /\ AcTypeOK /\ waiting' = waiting \o inbox /\ inbox' = <<>> /\ ahead' = ahead
  BY DEF AcInv, Take
<1>2. Pending' = Pending
  <2>1. PICK u : u = waiting \o inbox
    OBVIOUS
  <2>2. u \in Seq(Req)
    BY <1>1, <2>1 DEF AcTypeOK
  <2>3. u \o <<>> = u
    BY <2>2
  <2>. QED  BY <1>1, <2>1, <2>3 DEF Pending
<1>. QED  BY <1>1, <1>2 DEF PassedStep

LEMMA PlainPasses ==
    ASSUME UNCHANGED <<waiting, inbox, ahead>> PROVE PassedStep
<1>1. Pending' = Pending
  BY DEF Pending
<1>. QED  BY <1>1 DEF PassedStep

\* The step that passes the next in line over serves the tail of a running prompt.
LEMMA SchedulePasses == ASSUME RoomForDecodes, AcInv, Schedule PROVE PassedStep
<1>. SUFFICES ASSUME Pending' # <<>>, size'[Pending'[1]] < Block, ahead' > MostInFlight
              PROVE  /\ Pending # <<>> /\ Pending[1] = Pending'[1]
                     /\ ahead' <= ahead + Cap
                     /\ \E q \in ToSet(running) : InTail(q) /\ computed'[q] > computed[q]
  BY DEF PassedStep
<1>1. AcTypeOK /\ QueuesApart /\ Aligned /\ FlightBounded /\ AcTypeOK' /\ FlightBounded'
  BY ScheduleKeeps DEF AcInv
<1>2. MostInFlight \in Nat /\ Cap \in Nat
  BY BudgetAssumption DEF MostInFlight
<1>3. Queued(flight', done) <= MostInFlight /\ Queued(flight', done) \in Nat
  <2>1. done \in BOOLEAN
    BY <1>1 DEF AcTypeOK
  <2>. QED  BY <1>1, <2>1, QueuedIs DEF AcTypeOK, FlightBounded
<1>4. Only(waiting, Who) = <<>> /\ waiting # <<>> /\ ahead' = ahead + Tokens
  <2>1. \/ ahead' = 0
        \/ Only(waiting, Who) = <<>> /\ waiting # <<>> /\ ahead' = ahead + Tokens
        \/ ahead' = Queued(flight', done)
    BY ScheduleIs
  <2>. QED  BY <1>2, <1>3, <2>1
<1>5. /\ size' = size /\ inbox' = inbox
      /\ computed' = [r \in Req |-> IF r \in Who /\ ~Decoding(r) THEN computed[r] + Got(r)
                                    ELSE computed[r]]
  BY ScheduleIs
<1>6. waiting' = waiting /\ Among(waiting) \cap Who = {}
  BY <1>1, <1>4, SplitIs
<1>7. Pending' = Pending /\ Pending # <<>> /\ Pending[1] = waiting[1]
  <2>1. Pending' = Pending
    BY <1>5, <1>6 DEF Pending
  <2>. QED  BY <1>1, <1>4, <2>1, PendingIs
<1>8. size[waiting[1]] < Block /\ waiting[1] \notin Who
  <2>1. size[waiting[1]] < Block
    BY <1>5, <1>7
  <2>2. waiting[1] \in Among(waiting)
    <3>1. waiting \in Seq(Req)
      BY <1>1 DEF AcTypeOK
    <3>2. 1 \in 1 .. Len(waiting)
      BY <1>4, <3>1
    <3>. QED  BY <3>2 DEF Among
  <2>. QED  BY <1>6, <2>1, <2>2
<1>9. Budget = Cap /\ \E i \in 1 .. Len(running) : InTail(running[i]) /\ Given(i) > 0
  BY <1>1, <1>4, <1>8, PassedOver
<1>10. PICK i \in 1 .. Len(running) : InTail(running[i]) /\ Given(i) > 0
  BY <1>9
<1>11. PICK q : q = running[i]
  OBVIOUS
<1>12. /\ q \in Req /\ q \in ToSet(running) /\ q = Unfinished[i] /\ i \in 1 .. Len(Unfinished)
  <2>1. running \in Seq(Req)
    BY <1>1 DEF AcTypeOK
  <2>2. q \in Req /\ q \in ToSet(running)
    BY <1>11, <2>1 DEF ToSet
  <2>3. \A j \in 1 .. Len(running) : j \in 1 .. Len(Unfinished) /\ Unfinished[j] = running[j]
    BY <1>1, QueueIs
  <2>. QED  BY <1>11, <2>2, <2>3
<1>13. q \in Who /\ Got(q) = Given(i) /\ Given(i) > 0
  <2>1. Unfinished[i] \in ToSet(Unfinished) /\ Got(Unfinished[i]) = Given(i)
    BY <1>1, <1>12, PlaceIs
  <2>. QED  BY <1>10, <1>12, <2>1 DEF Who
<1>14. computed'[q] > computed[q]
  <2>1. ~Decoding(q)
    BY <1>10, <1>11 DEF InTail
  <2>2. computed'[q] = computed[q] + Given(i)
    BY <1>5, <1>12, <1>13, <2>1
  <2>3. computed[q] \in Nat /\ Given(i) \in Nat
    BY <1>1, <1>12, GivenIs DEF AcTypeOK
  <2>. QED  BY <1>13, <2>2, <2>3
<1>15. InTail(q)
  BY <1>10, <1>11
<1>16. ahead' <= ahead + Cap
  <2>1. Tokens \in Nat /\ Tokens <= Cap /\ ahead \in Nat
    BY <1>1, <1>9, TokensIs DEF AcTypeOK
  <2>. QED  BY <1>2, <1>4, <2>1
<1>. QED  BY <1>7, <1>12, <1>14, <1>15, <1>16

LEMMA PassedAlways == ASSUME RoomForDecodes PROVE AcInv /\ [Next]_vars => [PassedStep]_vars
<1>. SUFFICES ASSUME AcInv, Next PROVE PassedStep
  OBVIOUS
<1>1. ASSUME NEW r \in Req, Arrive(r) PROVE PassedStep
  BY <1>1, ArrivePasses
<1>2. CASE Take
  BY <1>2, TakePasses
<1>3. CASE Schedule
  BY <1>3, SchedulePasses
<1>4. CASE WaitForStep \/ Pop \/ Complete
  <2>1. UNCHANGED <<waiting, inbox, ahead>>
    BY <1>4 DEF WaitForStep, Pop, Complete
  <2>. QED  BY <2>1, PlainPasses
<1>. QED  BY <1>1, <1>2, <1>3, <1>4 DEF Next, Engine

\* A request that fits into a block and is next in line is passed over only by
\* capped steps that bring the tail of an earlier prompt nearer to its end
\* (radiance_adaptive_chunk.py: the budget and the hold), as long as the cap
\* leaves the decode rows room beside whole blocks.
THEOREM ShortRequestsPass == ASSUME RoomForDecodes PROVE Spec => PassedOverForTails
<1>1. PassedOverForTails <=> [][PassedStep]_vars
  BY DEF PassedOverForTails, PassedStep
<1>2. Spec => [][PassedStep]_vars
  BY AcAlways, PassedAlways, PTL DEF Spec
<1>. QED  BY <1>1, <1>2

LEMMA ScheduleAlone == ASSUME Sync, AcInv, Schedule PROVE BigStep
<1>. SUFFICES ASSUME flight'[Len(flight')].tokens > Cap
              PROVE  flight = <<>> /\ Cardinality(flight'[1].who) = 1
  BY DEF BigStep
<1>1. AcTypeOK /\ QueuesApart /\ Aligned /\ ~Hold
  BY ScheduleIs DEF AcInv
<1>2. Tokens \in Nat /\ Tokens <= Budget /\ Budget \in {Cap, Big} /\ Who \subseteq Req
      /\ Cap \in Nat /\ Big \in Nat /\ Cap < Big
  BY <1>1, TokensIs, WhoIs, BudgetAssumption
<1>3. PICK s, R, f, l : /\ s = [tokens |-> Tokens, who |-> Who] /\ R = [tokens : Nat, who : SUBSET Req]
                        /\ f = flight /\ l = Len(f)
  OBVIOUS
<1>4. s \in R /\ s.tokens = Tokens /\ s.who = Who /\ f \in Seq(R) /\ l \in Nat
  BY <1>1, <1>2, <1>3 DEF AcTypeOK
<1>5. flight' = Append(f, s) /\ Len(Append(f, s)) = l + 1 /\ Append(f, s)[l + 1] = s
  BY <1>3, <1>4, ScheduleIs
<1>6. Tokens > Cap
  BY <1>4, <1>5
<1>7. SoloLong # {}
  BY <1>2, <1>6 DEF Budget
<1>8. flight = <<>>
  BY <1>1, <1>7 DEF Hold
<1>9. l = 0
  BY <1>3, <1>8
<1>10. flight'[1].who = Who
  <2>1. l + 1 = 1
    BY <1>9
  <2>. QED  BY <1>4, <1>5, <2>1
<1>11. Len(Unfinished) = 1
  BY <1>7 DEF SoloLong
<1>12. PICK p : p = Unfinished[1]
  OBVIOUS
<1>13. p \in ToSet(Unfinished) /\ Got(p) = Given(1)
  <2>1. 1 \in 1 .. Len(Unfinished)
    BY <1>11
  <2>. QED  BY <1>1, <1>12, <2>1, PlaceIs
<1>14. Given(1) = Tokens
  <2>1. Along[0] = [rest |-> Budget, open |-> TRUE]
    BY <1>1, AlongIs
  <2>2. Along[0].rest = Budget /\ 1 - 1 = 0
    BY <2>1
  <2>. QED  BY <1>11, <2>2 DEF Given, Tokens
<1>15. Who = {p}
  <2>1. p \in Who
    BY <1>2, <1>6, <1>13, <1>14 DEF Who
  <2>2. ASSUME NEW r \in Who PROVE r = p
    <3>1. PICK i \in 1 .. Len(Unfinished) : r = Unfinished[i]
      BY <1>1, WhoIs
    <3>2. i = 1
      BY <1>11, <3>1
    <3>. QED  BY <1>12, <3>1, <3>2
  <2>. QED  BY <2>1, <2>2
<1>. QED  BY <1>8, <1>10, <1>15, FS_Singleton

LEMMA AloneAlways == ASSUME Sync PROVE AcInv /\ [Next]_vars => [BigStep]_vars
<1>. SUFFICES ASSUME AcInv, Next PROVE BigStep
  OBVIOUS
<1>1. CASE Schedule
  BY <1>1, ScheduleAlone
<1>2. CASE Take \/ WaitForStep \/ Complete \/ \E r \in Req : Arrive(r)
  <2>1. flight' = flight
    BY <1>2 DEF Take, WaitForStep, Complete, Arrive
  <2>2. Len(flight) \in Nat
    BY DEF AcInv, AcTypeOK
  <2>3. ~(Len(flight') > Len(flight))
    BY <2>1, <2>2
  <2>. QED  BY <2>3 DEF BigStep
<1>3. CASE Pop
  <2>1. PICK f, R : f = flight /\ R = [tokens : Nat, who : SUBSET Req]
    OBVIOUS
  <2>2. f \in Seq(R) /\ f # <<>> /\ flight' = Tail(f)
    BY <1>3, <2>1 DEF AcInv, AcTypeOK, Pop
  <2>3. Len(Tail(f)) = Len(f) - 1 /\ Len(f) \in Nat
    BY <2>2, HeadTailProperties
  <2>4. ~(Len(Tail(f)) > Len(f))
    BY <2>3
  <2>. QED  BY <2>1, <2>2, <2>4 DEF BigStep
<1>. QED  BY <1>1, <1>2, <1>3 DEF Next, Engine

\* With RADIANCE_ADAPTIVE_CHUNK_SYNC a step of more than the cap holds one request
\* and starts with nothing in flight (radiance_adaptive_chunk.py: the budget and
\* the hold count the same queue).
THEOREM BigStepsAlone == ASSUME Sync PROVE Spec => BigStepsRunAlone
<1>1. BigStepsRunAlone <=> [][BigStep]_vars
  BY DEF BigStepsRunAlone, BigStep
<1>2. Spec => [][BigStep]_vars
  BY AcAlways, AloneAlways, PTL DEF Spec
<1>. QED  BY <1>1, <1>2
=============================================================================
