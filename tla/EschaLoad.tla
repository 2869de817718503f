------------------------------ MODULE EschaLoad ------------------------------
(***************************************************************************)
(* Loading a trellis-coded checkpoint on one rank (radiance_escha.py).  A  *)
(* merged linear has partitions, which the engine knows, and sources,      *)
(* which the checkpoint stores; a source may supply several partitions,    *)
(* each split over the ranks on its own.  A source has its own bit rate,   *)
(* so it keeps its own tensors and writes its own columns of the output.   *)
(* The embedding and the head come as an int8 tensor and a row scale.      *)
(*                                                                         *)
(* Widths are in units of 64, two to a transform block.  A layer is [ic,   *)
(* row, sources]; a source is the full widths of its partitions.  A tensor *)
(* is the units of the source's output and input axes that it holds.       *)
(***************************************************************************)
EXTENDS Integers, Sequences, FiniteSets, SequencesExt

CONSTANTS
    EsLayers,   \* [ic, row, sources]
    EsRanks,    \* number of ranks
    EsIds       \* how the engine may name a shard: "name", "index"

VARIABLES
    esRank, esLayer,
    esPhase,    \* "create", "stream", "load", "serve", "called"; "refused"
    esLeft,     \* tensors of the checkpoint still to come
    esHeld,     \* the shim's q and sc: halves that wait for the other one
    esDense,    \* what the shim has yielded: <<name, the tensors it is made of>>
    esRaw,      \* by source: suffix -> the units received
    esOutput    \* the columns of the last call

esVars == <<esRank, esLayer, esPhase, esLeft, esHeld, esDense, esRaw, esOutput>>

Kinds == {"code", "rin", "rout"}
Nil == [out |-> <<>>, in |-> <<>>]
Halves == {"weight_int8", "weight_scale"}

\* Two targets of the shim, and another scheme's scale.
Stream == ({"embed_tokens", "lm_head"} \X Halves) \cup {<<"gate_proj", "weight_scale">>}

EsInit ==
    /\ esRank \in 0 .. EsRanks - 1 /\ esLayer \in EsLayers
    /\ esPhase = "create" /\ esHeld = {} /\ esDense = {}
    /\ esRaw = <<>> /\ esOutput = <<>>
    /\ \E lost \in SUBSET {<<"lm_head", "weight_scale">>} : esLeft = Stream \ lost

SumOf(s) == FoldLeft(LAMBDA a, b : a + b, 0, s)
Upto(s, n) == SumOf(SubSeq(s, 1, n))
UnitsOf(first, count) == [j \in 1 .. count |-> first + j - 1]

Split == IF esLayer.row THEN 1 ELSE EsRanks

\* What this rank's engine says of the output: every partition's own share.
Partitions == FlattenSeq(esLayer.sources)
Parts == [p \in DOMAIN Partitions |-> Partitions[p] \div Split]
SourceWidths == [i \in DOMAIN esLayer.sources |-> SumOf(esLayer.sources[i]) \div Split]

\* create_weights: the input share must be whole transform blocks.
CreateEscha ==
    /\ esPhase = "create"
    /\ esPhase' = IF esLayer.row /\ (esLayer.ic \div EsRanks) % 2 # 0
                  THEN "refused" ELSE "stream"
    /\ esRaw' = [i \in DOMAIN esLayer.sources |-> [k \in Kinds |-> Nil]]
    /\ UNCHANGED <<esRank, esLayer, esLeft, esHeld, esDense, esOutput>>

\* Mutant of IsTarget: every scale is taken for one of the shim's.
IsTargetBySuffix(base) == TRUE

IsTarget(base) == base \in {"embed_tokens", "lm_head"}

\* One tensor of get_all_weights, in whatever order: a target's half waits for the other.
StreamWeight ==
    /\ esPhase = "stream"
    /\ \E t \in esLeft :
          LET mine == {<<t[1], h>> : h \in Halves}
              both == mine \subseteq esHeld \cup {t}
          IN  /\ esLeft' = esLeft \ {t}
              /\ esHeld' = IF ~IsTarget(t[1]) THEN esHeld
                           ELSE IF both THEN esHeld \ mine ELSE esHeld \cup {t}
              /\ esDense' = IF ~IsTarget(t[1]) THEN esDense \cup {<<t[1], {t}>>}
                            ELSE IF both THEN esDense \cup {<<t[1], mine>>} ELSE esDense
    /\ UNCHANGED <<esRank, esLayer, esPhase, esRaw, esOutput>>

\* The end of the stream: a half left over is refused.
StreamEnds ==
    /\ esPhase = "stream" /\ esLeft = {}
    /\ esPhase' = IF esHeld = {} THEN "load" ELSE "refused"
    /\ esLeft' = (DOMAIN esLayer.sources) \X Kinds
    /\ UNCHANGED <<esRank, esLayer, esHeld, esDense, esRaw, esOutput>>

\* The first partition a source supplies: the engine passes one index, or all of them.
FirstPart(i) == SumOf([j \in 1 .. i - 1 |-> Len(esLayer.sources[j])]) + 1

\* _shard_index: the source whose span has the lowest partition's column.
SourceOf(first) ==
    CHOOSE i \in DOMAIN SourceWidths :
        /\ Upto(SourceWidths, i - 1) <= Upto(Parts, first - 1)
        /\ Upto(Parts, first - 1) < Upto(SourceWidths, i)

\* Mutant of Share: one cut through the whole source.
ShareOfSource(i) == LET w == SumOf(esLayer.sources[i]) \div EsRanks
                    IN  UnitsOf(esRank * w + 1, w)

\* This rank's share of source i: its part of every partition the source supplies.
Share(i) ==
    LET full == esLayer.sources[i]
        piece(p) == UnitsOf(Upto(full, p - 1) + esRank * (full[p] \div EsRanks) + 1,
                            full[p] \div EsRanks)
    IN  FlattenSeq([p \in DOMAIN full |-> piece(p)])

WholeIn == UnitsOf(1, esLayer.ic)
InShare == UnitsOf(esRank * (esLayer.ic \div EsRanks) + 1, esLayer.ic \div EsRanks)
MyOut(i) == IF esLayer.row THEN UnitsOf(1, SumOf(esLayer.sources[i])) ELSE Share(i)

\* Mutant of Sliced: the input scales of a row-parallel layer are loaded whole.
SlicedCode(i, kind) ==
    [out |-> IF kind = "rin" THEN <<>> ELSE MyOut(i),
     in |-> IF kind = "rout" THEN <<>>
            ELSE IF esLayer.row /\ kind = "code" THEN InShare ELSE WholeIn]

\* The loader: row parallel splits the input axis, column parallel the output axis.
Sliced(i, kind) ==
    [out |-> IF kind = "rin" THEN <<>> ELSE MyOut(i),
     in |-> IF kind = "rout" THEN <<>> ELSE IF esLayer.row THEN InShare ELSE WholeIn]

\* The next tensor of a coded linear, in whatever order it is read; the file it was
\* read from knows the source, the loader is told a name or partition indices.
LoadTensor ==
    /\ esPhase = "load"
    /\ \E t \in esLeft, id \in EsIds :
          LET dest == IF id = "name" THEN t[1] ELSE SourceOf(FirstPart(t[1]))
          IN  /\ esRaw' = [esRaw EXCEPT ![dest][t[2]] = Sliced(t[1], t[2])]
              /\ esLeft' = esLeft \ {t}
    /\ UNCHANGED <<esRank, esLayer, esPhase, esHeld, esDense, esOutput>>

\* process_weights_after_loading: every source complete, whole blocks of columns, and
\* the columns the layer has.
ProcessEscha ==
    /\ esPhase = "load" /\ esLeft = {}
    /\ LET width(i) == Len(esRaw[i]["code"].out)
       IN  esPhase' = IF /\ \A i \in DOMAIN esRaw, k \in Kinds : esRaw[i][k] # Nil
                         /\ \A i \in DOMAIN esRaw : width(i) % 2 = 0
                         /\ SumOf([i \in DOMAIN esRaw |-> width(i)]) = SumOf(Parts)
                      THEN "serve" ELSE "refused"
    /\ UNCHANGED <<esRank, esLayer, esLeft, esHeld, esDense, esRaw, esOutput>>

\* apply: each source writes its columns after the ones before it.  A column is the unit
\* that was decoded, the one whose output scale it got, and the inputs both sides read.
ApplyEscha ==
    /\ esPhase = "serve" /\ esPhase' = "called"
    /\ esOutput' = FlattenSeq([i \in DOMAIN esRaw |->
                       [j \in DOMAIN esRaw[i]["code"].out |->
                           [source |-> i, unit |-> esRaw[i]["code"].out[j],
                            gain |-> esRaw[i]["rout"].out[j],
                            code |-> esRaw[i]["code"].in, scale |-> esRaw[i]["rin"].in]]])
    /\ UNCHANGED <<esRank, esLayer, esLeft, esHeld, esDense, esRaw>>

EsNext ==
    \/ CreateEscha \/ StreamWeight \/ StreamEnds \/ LoadTensor \/ ProcessEscha \/ ApplyEscha
EsSpec == EsInit /\ [][EsNext]_esVars

-----------------------------------------------------------------------------
(* Properties                                                              *)

\* Unit j of partition p on this rank, as the engine means it.
MeantColumn(p, j) ==
    LET i == CHOOSE i \in DOMAIN esLayer.sources :
                FirstPart(i) <= p /\ p < FirstPart(i) + Len(esLayer.sources[i])
        before == Upto(esLayer.sources[i], p - FirstPart(i))
        unit == before + (IF esLayer.row THEN 0 ELSE esRank * Parts[p]) + j
        inputs == IF esLayer.row THEN InShare ELSE WholeIn
    IN  [source |-> i, unit |-> unit, gain |-> unit, code |-> inputs, scale |-> inputs]

\* Every column of a call is the one the engine's partitions mean on this rank, decoded and
\* scaled by the same column of the checkpoint over the inputs this rank holds; it is only
\* served when every dense tensor was made of both its halves, in whatever order they came,
\* and no other scheme's scale was kept back.  A checkpoint is only refused for a half it
\* lacks, or for a share that would cut a transform block.
ColumnsAsPartitioned ==
    /\ esPhase = "refused" =>
        \/ esHeld = {<<"lm_head", "weight_int8">>}
        \/ esLayer.row /\ (esLayer.ic \div EsRanks) % 2 # 0
        \/ \E i \in DOMAIN SourceWidths : SourceWidths[i] % 2 # 0
    /\ esPhase = "called" =>
        /\ esOutput = FlattenSeq([p \in DOMAIN Parts |->
                          [j \in 1 .. Parts[p] |-> MeantColumn(p, j)]])
        /\ esDense = {<<b, {<<b, h>> : h \in Halves}>> : b \in {"embed_tokens", "lm_head"}}
                     \cup {<<"gate_proj", {<<"gate_proj", "weight_scale">>}>>}
=============================================================================
