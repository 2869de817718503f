-------------------------------- MODULE Tp3Pad --------------------------------
(***************************************************************************)
(* Serving on three cards with zero-weight dummy heads (radiance_tp3pad.py *)
(* and the three hooks patch_tp3_pad.py installs): the configuration is    *)
(* widened once, every affected checkpoint tensor is padded on its way to  *)
(* vLLM's loaders, which then cut it into equal shards, and a tally at the *)
(* end says whether all of them were.                                      *)
(*                                                                         *)
(* Sizes are the real ones, in the tensor's own units: a packed weight has *)
(* K/2 columns, its e8m0 scale K/32, an fp8 block scale K/128.             *)
(***************************************************************************)
EXTENDS Arith, Sequences, FiniteSets, SequencesExt

CONSTANTS
    TpEnvs,      \* [tp, pad, inter, padDrafter, strict]
    TpModels,    \* [spec, full, lin, mtp]: which checkpoint, and its layers of each kind
    TpRenamed,   \* labels a checkpoint may spell so that no rule knows them; "" is none
    TpHooks      \* bound: how often the configuration hook sees a configuration

VARIABLES
    tpPhase,    \* "hook", "load", "serve", "refused"
    tpEnv, tpModel, tpBad,
    tpConfig,   \* [heads, kv, linK, linV, inter, marker]
    tpHooked,   \* calls of the hook so far
    tpTodo,     \* tensors the iterator still holds
    tpLoaded,   \* tensors that came out: [label, form, olds, news, fill]
    tpTally     \* by label: padded tensors

tpVars == <<tpPhase, tpEnv, tpModel, tpBad, tpConfig, tpHooked, tpTodo, tpLoaded, tpTally>>

-----------------------------------------------------------------------------
(* Geometry                                                                *)

TargetStock == [heads |-> 24, kv |-> 4, linK |-> 16, linV |-> 48, inter |-> 17408]
DrafterStock == [heads |-> 32, kv |-> 8, linK |-> 0, linV |-> 0, inter |-> 17408]
StockOf(spec) == IF spec = "target" THEN TargetStock ELSE DrafterStock

TargetPadded(inter) == [heads |-> 36, kv |-> 6, linK |-> 18, linV |-> 54, inter |-> inter]

\* Mutant of DrafterPadded: the next multiple of three for the query heads alone.
DrafterPaddedNext == [heads |-> 36, kv |-> 12, linK |-> 0, linV |-> 0, inter |-> 17664]

\* The ratio of heads is part of the weights, the kv heads of the cache.
DrafterPadded == [heads |-> 48, kv |-> 12, linK |-> 0, linV |-> 0, inter |-> 17664]

PaddedOf(spec, inter) == IF spec = "target" THEN TargetPadded(inter) ELSE DrafterPadded

Rule(label, axis, olds, news) == [label |-> label, axis |-> axis, olds |-> olds, news |-> news]

\* Mutant of Sections: the dummies of all three parts at the end of the tensor.
SectionsAtEnd(label) == Rule(label, "rows", <<10240>>, <<11520>>)

\* q, k and v of a GDN layer lie in one tensor and are padded where they lie.
Sections(label) == Rule(label, "rows", <<2048, 2048, 6144>>, <<2304, 2304, 6912>>)

TargetRules(inter) ==
    {Rule("q_proj", "rows", <<12288>>, <<18432>>), Rule("k_proj", "rows", <<1024>>, <<1536>>),
     Rule("v_proj", "rows", <<1024>>, <<1536>>), Rule("o_proj", "kcols", <<6144>>, <<9216>>),
     Rule("gate_proj", "rows", <<17408>>, <<inter>>), Rule("up_proj", "rows", <<17408>>, <<inter>>),
     Rule("down_proj", "kcols", <<17408>>, <<inter>>),
     Sections("in_proj_qkv"), Sections("conv1d"),
     Rule("in_proj_z", "rows", <<6144>>, <<6912>>), Rule("in_proj_b", "rows", <<48>>, <<54>>),
     Rule("in_proj_a", "rows", <<48>>, <<54>>), Rule("out_proj", "kcols", <<6144>>, <<6912>>),
     Rule("A_log", "rows", <<48>>, <<54>>), Rule("dt_bias", "rows", <<48>>, <<54>>)}

DrafterRules ==
    {Rule("q_proj", "rows", <<4096>>, <<6144>>),
     Rule("k_proj", "rows", <<1024>>, <<1536>>),
     Rule("v_proj", "rows", <<1024>>, <<1536>>),
     Rule("o_proj", "kcols", <<4096>>, <<6144>>),
     Rule("gate_proj", "rows", <<17408>>, <<17664>>), Rule("up_proj", "rows", <<17408>>, <<17664>>),
     Rule("down_proj", "kcols", <<17408>>, <<17664>>)}

RulesOf(spec, inter) == IF spec = "target" THEN TargetRules(inter) ELSE DrafterRules

\* Logical elements in one unit of a tensor along the padded axis.
Unit(form, axis) ==
    CASE form = "packed" -> IF axis = "kcols" THEN 2 ELSE 1
      [] form = "e8m0"   -> IF axis = "kcols" THEN 32 ELSE 1
      [] form = "block"  -> 128
      [] OTHER           -> 1

\* _scaled, for every section: a size that is not whole in these units is refused.
WholeUnits(rule, form) ==
    \A i \in DOMAIN rule.olds : /\ rule.olds[i] % Unit(form, rule.axis) = 0
                                /\ rule.news[i] % Unit(form, rule.axis) = 0
Scaled(sizes, unit) == [i \in DOMAIN sizes |-> sizes[i] \div unit]

\* Mutant of Fill: padded columns get the exponent of padded rows.
FillOne(form, axis) == IF form = "e8m0" THEN 127 ELSE IF form \in {"chan", "block"} THEN 1 ELSE 0

\* fill_value: an exponent on a real row must never be its largest.
Fill(form, axis) ==
    IF form = "e8m0" THEN (IF axis = "kcols" THEN 0 ELSE 127)
    ELSE IF form \in {"chan", "block"} THEN 1 ELSE 0

\* Mutant of VocabMultiple: vLLM's own multiple.
VocabMultipleStock(base) == base

\* vocab_pad_multiple: the least common multiple with 64 * 3.
VocabMultiple(base) == CHOOSE n \in 1 .. base * 192 :
    n % base = 0 /\ n % 192 = 0 /\ \A k \in 1 .. n - 1 : k % base # 0 \/ k % 192 # 0

-----------------------------------------------------------------------------
(* The configuration hook                                                  *)

\* Mutant of Marked: the marker is lost with the copy.
MarkedNever == FALSE

Marked == tpConfig.marker # ""

\* maybe_pad_config, on the configuration or on a copy of it.
TpHook ==
    /\ tpPhase = "hook" /\ tpHooked < TpHooks
    /\ tpHooked' = tpHooked + 1
    /\ LET spec == tpModel.spec
           stock == StockOf(spec)
           geometry == [f \in DOMAIN stock |-> tpConfig[f]]
           leave == spec = "drafter" /\ ~tpEnv.padDrafter
       IN  IF ~tpEnv.pad \/ Marked THEN UNCHANGED <<tpPhase, tpConfig>>
           ELSE IF leave
           THEN tpConfig' = [tpConfig EXCEPT !.marker = "none"] /\ UNCHANGED tpPhase
           ELSE IF geometry # stock THEN tpPhase' = "refused" /\ UNCHANGED tpConfig
           ELSE /\ tpConfig' = PaddedOf(spec, tpEnv.inter) @@ [marker |-> spec]
                /\ UNCHANGED tpPhase
    /\ UNCHANGED <<tpEnv, tpModel, tpBad, tpTodo, tpLoaded, tpTally>>

-----------------------------------------------------------------------------
(* The weights                                                             *)

\* The forms a label's tensors come in, and how many layers have each.
Forms(model, label) ==
    LET attn == {"q_proj", "k_proj", "v_proj", "o_proj"}
        mlp == {"gate_proj", "up_proj", "down_proj"}
        small == {"conv1d", "A_log", "dt_bias"}
    IN  IF model.spec = "drafter"
        THEN {[form |-> f, n |-> model.full] : f \in {"fp8", "block"}}
        ELSE IF label \in small THEN {[form |-> "bf16", n |-> model.lin]}
        ELSE IF label \notin attn \cup mlp
        THEN {[form |-> f, n |-> model.lin] : f \in {"packed", "e8m0"}}
        ELSE {[form |-> f, n |-> model.full + IF label \in mlp THEN model.lin ELSE 0]
                 : f \in {"packed", "e8m0"}}
             \cup {[form |-> f, n |-> model.mtp] : f \in {"fp8", "chan"}}

Labels(spec) == {r.label : r \in RulesOf(spec, 17408)}

\* The affected tensors of a checkpoint, a layer's worth of one form at a time.
Checkpoint(model) ==
    UNION {{[label |-> l, form |-> f.form, n |-> f.n] : f \in {g \in Forms(model, l) : g.n > 0}}
              : l \in Labels(model.spec)}

StartLoad ==
    /\ tpPhase = "hook" /\ tpHooked > 0
    /\ tpPhase' = "load"
    /\ tpTodo' = Checkpoint(tpModel)
    /\ UNCHANGED <<tpEnv, tpModel, tpBad, tpConfig, tpHooked, tpLoaded, tpTally>>

\* plan_shape finds no rule, or leaves the tensor as it is.
Untouched(rule, form) ==
    \/ rule.label = tpBad \/ rule.olds = rule.news
    \/ rule.axis = "kcols" /\ form = "chan"

\* pad_weights yields the next tensors, padded if the model is.  The order does not
\* matter, so it is fixed.
TpTensor ==
    /\ tpPhase = "load" /\ tpTodo # {}
    /\ LET t == CHOOSE u \in tpTodo : TRUE
           padded == tpConfig.marker \in {"target", "drafter"}
           rule == CHOOSE r \in RulesOf(tpModel.spec, IF padded THEN tpConfig.inter ELSE 17408) :
                      r.label = t.label
           unit == Unit(t.form, rule.axis)
           out(news) == [label |-> t.label, form |-> t.form, axis |-> rule.axis,
                         olds |-> Scaled(rule.olds, unit), news |-> Scaled(news, unit),
                         fill |-> Fill(t.form, rule.axis)]
       IN  IF ~padded \/ Untouched(rule, t.form)
           THEN tpLoaded' = tpLoaded \cup {out(rule.olds)} /\ UNCHANGED <<tpTally, tpPhase>>
           ELSE IF ~WholeUnits(rule, t.form)
           THEN tpPhase' = "refused" /\ UNCHANGED <<tpLoaded, tpTally>>
           ELSE /\ tpLoaded' = tpLoaded \cup {out(rule.news)}
                /\ tpTally' = [tpTally EXCEPT ![t.label] = @ + t.n]
                /\ UNCHANGED tpPhase
    /\ tpTodo' = tpTodo \ {CHOOSE u \in tpTodo : TRUE}
    /\ UNCHANGED <<tpEnv, tpModel, tpBad, tpConfig, tpHooked>>

\* _expected_counts, from the configuration's layer table alone.
Expected(label) ==
    LET m == tpModel
        kcols == {"o_proj", "down_proj"}
        mlp == {"gate_proj", "up_proj", "down_proj"}
        layers == IF label \in mlp THEN m.full + m.lin ELSE m.full
    IN  IF m.spec = "drafter" THEN 2 * m.full
        ELSE IF label \in mlp /\ tpConfig.inter = 17408 THEN 0
        ELSE IF label \in {"conv1d", "A_log", "dt_bias"} THEN m.lin
        ELSE IF label \in {"in_proj_qkv", "in_proj_z", "in_proj_b", "in_proj_a", "out_proj"}
        THEN 2 * m.lin
        ELSE 2 * layers + (IF label \in kcols THEN m.mtp ELSE 2 * m.mtp)

\* Mutant of Mismatch: only a tensor padded too often is noticed.
MismatchMore(label) == tpTally[label] > Expected(label)

Mismatch(label) == tpTally[label] # Expected(label)

\* The iterator is exhausted: compare the tally.
TpFinish ==
    /\ tpPhase = "load" /\ tpTodo = {}
    /\ LET padded == tpConfig.marker \in {"target", "drafter"}
           mismatch == \E l \in Labels(tpModel.spec) : Mismatch(l)
       IN  tpPhase' = IF padded /\ mismatch /\ tpEnv.strict THEN "refused" ELSE "serve"
    /\ UNCHANGED <<tpEnv, tpModel, tpBad, tpConfig, tpHooked, tpTodo, tpLoaded, tpTally>>

TpInit ==
    /\ tpPhase = "hook" /\ tpHooked = 0 /\ tpTodo = {} /\ tpLoaded = {}
    /\ tpEnv \in TpEnvs /\ tpModel \in TpModels /\ tpBad \in TpRenamed
    /\ tpBad \in Labels(tpModel.spec) \cup {""}
    /\ tpConfig = StockOf(tpModel.spec) @@ [marker |-> ""]
    /\ tpTally = [l \in Labels(tpModel.spec) |-> 0]

TpNext == TpHook \/ StartLoad \/ TpTensor \/ TpFinish
TpSpec == TpInit /\ [][TpNext]_tpVars

-----------------------------------------------------------------------------
(* Properties                                                              *)

Padded == tpConfig.marker \in {"target", "drafter"}
Served == tpPhase = "serve" /\ tpEnv.strict

\* The loaded tensors that have the padded axis: a scale per channel has no columns.
Affected == {t \in tpLoaded : t.axis = "kcols" => t.form # "chan"}
Total(sizes) == FoldLeft(LAMBDA a, b : a + b, 0, sizes)
Start(sizes, i) == Total(SubSeq(sizes, 1, i - 1))

\* The unit of the checkpoint's tensor that lies at a position of the padded one;
\* -1 for a dummy.
Source(t, pos) ==
    LET i == CHOOSE k \in DOMAIN t.news :
                pos >= Start(t.news, k) /\ pos < Start(t.news, k) + t.news[k]
        off == pos - Start(t.news, i)
    IN  IF off < t.olds[i] THEN Start(t.olds, i) + off ELSE -1

\* The kinds of heads along the padded axis of a tensor, section by section.
HeadKinds(label) ==
    CASE label \in {"q_proj", "o_proj"} -> <<"heads">>
      [] label \in {"k_proj", "v_proj"} -> <<"kv">>
      [] label \in {"in_proj_qkv", "conv1d"} -> <<"linK", "linK", "linV">>
      [] label \in {"gate_proj", "up_proj", "down_proj"} -> <<>>
      [] OTHER -> <<"linV">>

\* The sizes of the parts that vLLM shards on their own, in the tensor's units.
PartSizes(t, config) ==
    [i \in DOMAIN HeadKinds(t.label) |->
       LET logical == CASE HeadKinds(t.label)[i] = "heads" ->
                             (IF tpModel.spec = "drafter" THEN 128
                              ELSE IF t.label = "q_proj" THEN 512 ELSE 256)
                        [] HeadKinds(t.label)[i] = "kv" -> IF tpModel.spec = "drafter" THEN 128 ELSE 256
                        [] t.label \in {"in_proj_b", "in_proj_a", "A_log", "dt_bias"} -> 1
                        [] OTHER -> 128
       IN  (config[HeadKinds(t.label)[i]] * logical) \div Unit(t.form, t.axis)]

\* The stock head that part i of a tensor holds at local head h of rank r: -1 for a
\* dummy, -2 where the units of one head come from several.
HeadAt(t, i, r, h) ==
    LET sizes == PartSizes(t, tpConfig)
        heads == tpConfig[HeadKinds(t.label)[i]]
        width == sizes[i] \div heads
        first == Start(sizes, i) + (r * (heads \div tpEnv.tp) + h) * width
        a == Source(t, first)
        b == Source(t, first + width - 1)
        stock == a - Start(PartSizes(t, StockOf(tpModel.spec)), i)
    IN  IF a = -1 /\ b = -1 THEN -1
        ELSE IF a = -1 \/ b # a + width - 1 \/ stock % width # 0 THEN -2
        ELSE stock \div width

LocalHeads(kind) == 0 .. (tpConfig[kind] \div tpEnv.tp) - 1

\* A served model has, on every rank, the same stock head at the same place in every
\* tensor that head runs through (projections, convolution, decay, output), and each
\* real query or value head reads the key head it was trained with: the dummies may
\* not shift a section nor change a ratio.
HeadsKeepTheirPartners ==
    Served /\ Padded =>
       LET parts == {p \in Affected \X (1 .. 3) : p[2] \in DOMAIN HeadKinds(p[1].label)}
           at(kind) == [x \in (0 .. tpEnv.tp - 1) \X LocalHeads(kind) |->
                          {HeadAt(p[1], p[2], x[1], x[2]) : p \in {q \in parts : HeadKinds(q[1].label)[q[2]] = kind}}]
           group(kind, of) ==
              LET mine == at(kind)
                  theirs == at(of)
                  local == tpConfig[kind] \div tpConfig[of]
                  stock == StockOf(tpModel.spec)[kind] \div StockOf(tpModel.spec)[of]
              IN  \A x \in DOMAIN mine : \E s \in mine[x] :
                     /\ mine[x] = {s} /\ s # -2
                     /\ s >= 0 => theirs[<<x[1], x[2] \div local>>] = {s \div stock}
       IN  /\ group("heads", "kv")
           /\ tpModel.lin > 0 => group("linV", "linK")

\* Every padded axis and the vocabulary divide among the ranks; a rank's part of a
\* reduction is whole scale groups and whole kernel slabs, the codes and the scales of
\* a tensor are cut at the same column, and the drafter's cache rows stay as wide as
\* the target's.
ShardsAreWhole ==
    Served /\ Padded =>
       /\ \A t \in Affected : \A i \in DOMAIN t.news : t.news[i] % tpEnv.tp = 0
       /\ \A t \in {u \in Affected : u.axis = "kcols"} :
             (t.news[1] \div tpEnv.tp) * Unit(t.form, t.axis)
                % (IF tpModel.spec = "drafter" THEN 128 ELSE 64) = 0
       /\ \A t, u \in {v \in Affected : v.axis = "kcols"} :
             t.label = u.label => t.news[1] * Unit(t.form, t.axis) = u.news[1] * Unit(u.form, u.axis)
       /\ \A base \in {64, 256} :
             (CeilDiv(248320, VocabMultiple(base)) * VocabMultiple(base)) % tpEnv.tp = 0
       /\ tpModel.spec = "drafter" => tpConfig.kv * 128 = TargetPadded(17472).kv * 256

\* The kernel folds a real row against its largest exponent, which the padded columns
\* of that row must not be, and no exponent is the one that means NaN.
ExponentsKept ==
    \A t \in {u \in tpLoaded : u.form = "e8m0" /\ u.olds # u.news} :
       /\ t.fill # 255
       /\ t.axis = "kcols" => \A real \in 1 .. 254 : Larger(real, t.fill) = real

\* A complete checkpoint is served whichever knobs are set, however often vLLM builds
\* its configuration: the count expected from the layer table is the count the rules
\* find, and a configuration is widened once.
CompleteLoads == tpPhase = "refused" => tpBad # ""

\* What is served has the configuration's geometry in every tensor: a tensor that no
\* rule recognised has stopped the load.
ServedAsConfigured ==
    Served /\ Padded =>
       \A t \in Affected :
          IF HeadKinds(t.label) = <<>> THEN t.news[1] * Unit(t.form, t.axis) = tpConfig.inter
          ELSE Total(t.news) = Total(PartSizes(t, tpConfig))
=============================================================================
