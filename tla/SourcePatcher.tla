---------------------------- MODULE SourcePatcher ----------------------------
(***************************************************************************)
(* The source patches (_patchlib.py, patch_*.py) and the ways they are     *)
(* run: into the image, by a launcher every time its container starts, and *)
(* by audit_upgrade.py, in isolation and in order.                         *)
(*                                                                         *)
(* A file is a bag of fragments of text, whose order matters only to a     *)
(* write that is cut short.  A hunk is [file, sentinel, shapes]; a shape   *)
(* is [anchor, adds, keeps]: the text put in the anchor's place holds the  *)
(* fragments adds, and the anchor itself if keeps.                         *)
(***************************************************************************)
EXTENDS Integers, Sequences, FiniteSets, TLC, SequencesExt

CONSTANTS
    SpPatches,    \* patch -> its hunks, in order
    SpPristine,   \* file -> its fragments, each there once
    SpLines,      \* file -> all that is ever in it, in the order it stands in
    SpBaked,      \* patches of the image, in order
    SpLaunch,     \* patches of the launcher, in order
    SpStarts      \* bound: starts of the container

\* The text of a file behind the last that a patch looks at.
Closing == "closing lines"

ASSUME PatchAssumption ==
    /\ \A p \in DOMAIN SpPatches :
          /\ SpPatches[p] # <<>> /\ SpPatches[p] \in Seq(ToSet(SpPatches[p]))
          /\ \A h \in ToSet(SpPatches[p]) :
                /\ h.shapes \in Seq(ToSet(h.shapes))
                /\ \A s \in ToSet(h.shapes) : Closing \notin s.adds
    /\ \A f \in DOMAIN SpPristine : Closing \in SpPristine[f] \ ToSet(SpLines[f])
    /\ SpBaked \in Seq(DOMAIN SpPatches) /\ SpLaunch \in Seq(DOMAIN SpPatches)

VARIABLES
    spFiles,      \* file -> fragment -> how often it is there
    spReport,     \* the audit's verdicts: [alone, ordered], by patch
    spAt,         \* <<patch, hunk>>, by place in the launcher's order
    spPhase,      \* "audit", "image", "run"; "serve", "failed", "stopped"
    spStarted,    \* starts of the container
    spTorn        \* files a stop caught half written

spVars == <<spFiles, spReport, spAt, spPhase, spStarted, spTorn>>

HunksOf == UNION {ToSet(SpPatches[p]) : p \in DOMAIN SpPatches}
Fragments == (UNION {SpPristine[f] : f \in DOMAIN SpPristine})
                 \cup (UNION {UNION {s.adds : s \in ToSet(h.shapes)} : h \in HunksOf})
Pristine == [f \in DOMAIN SpPristine |->
                [t \in Fragments |-> IF t \in SpPristine[f] THEN 1 ELSE 0]]

SpInit ==
    /\ spFiles = Pristine /\ spReport = <<>> /\ spAt = <<1, 1>>
    /\ spPhase = "audit" /\ spStarted = 0 /\ spTorn = {}

Count(text, t) == IF t \in Fragments THEN text[t] ELSE 0

\* Mutant of Applied: a hunk goes in whether or not it is there.
AppliedAlways(text, h) == FALSE

\* The sentinel says the hunk is in already.
Applied(text, h) == Count(text, h.sentinel) > 0

AnchorFits(text, s) == Count(text, s.anchor) = 1

\* The text with the shape put in its anchor's place.
Replaced(text, s) ==
    [t \in Fragments |-> text[t] + (IF t \in s.adds THEN 1 ELSE 0)
                                 - (IF t = s.anchor /\ ~s.keeps THEN 1 ELSE 0)]

\* apply and apply_any: [files, ok] after one hunk.
Apply(files, h) ==
    LET text == files[h.file]
        fit == {i \in DOMAIN h.shapes : AnchorFits(text, h.shapes[i])}
        first == CHOOSE i \in fit : \A j \in fit : i <= j
    IN  IF h.file \notin DOMAIN files THEN [files |-> files, ok |-> FALSE]
        ELSE IF Applied(text, h) THEN [files |-> files, ok |-> TRUE]
        ELSE IF fit = {} THEN [files |-> files, ok |-> FALSE]
        ELSE [files |-> [files EXCEPT ![h.file] = Replaced(text, h.shapes[first])], ok |-> TRUE]

\* One patch script: its hunks in order, up to the first that fails.
Continued(st, h) == IF st.ok THEN Apply(st.files, h) ELSE st

HunkByHunk(files, p) ==
    LET after[j \in 0 .. Len(SpPatches[p])] ==
            IF j = 0 THEN [files |-> files, ok |-> TRUE]
            ELSE Continued(after[j - 1], SpPatches[p][j])
    IN  after

RunPatch(files, p) == HunkByHunk(files, p)[Len(SpPatches[p])]

\* run_pass without restoring: every script of a list on one tree, whatever fails.
Patched(st, p) ==
    LET r == RunPatch(st.files, p) IN [files |-> r.files, ok |-> Append(st.ok, r.ok)]

PatchByPatch(files, list) ==
    LET after[i \in 0 .. Len(list)] ==
            IF i = 0 THEN [files |-> files, ok |-> <<>>] ELSE Patched(after[i - 1], list[i])
    IN  after

RunPass(files, list) == PatchByPatch(files, list)[Len(list)]

\* Mutant of TreeFor: the launcher's patches are tried on the pristine tree too.
TreeForPristine(p) == Pristine

\* The isolated pass: a launcher's patch is tried on the image, as it anchors on text that
\* the image's patches wrote.
TreeFor(p) == IF p \in ToSet(SpBaked) THEN Pristine ELSE RunPass(Pristine, SpBaked).files

\* audit(): the verdicts, then the image is built.
Audit ==
    /\ spPhase = "audit" /\ spPhase' = "image"
    /\ LET image == RunPass(Pristine, SpBaked)
           launch == RunPass(image.files, SpLaunch)
       IN  spReport' = [alone |-> [p \in ToSet(SpBaked) \cup ToSet(SpLaunch) |->
                                       RunPatch(TreeFor(p), p).ok],
                        ordered |-> ToSet(image.ok) \cup ToSet(launch.ok)]
    /\ UNCHANGED <<spFiles, spAt, spStarted, spTorn>>

\* docker build: stops at the first patch that fails.
BuildImage ==
    /\ spPhase = "image"
    /\ LET image == RunPass(Pristine, SpBaked)
       IN  /\ spFiles' = image.files
           /\ spPhase' = IF FALSE \in ToSet(image.ok) THEN "failed" ELSE "stopped"
    /\ UNCHANGED <<spReport, spAt, spStarted, spTorn>>

\* The container is started, or started again with the files it left.
StartContainer ==
    /\ spPhase \in {"stopped", "serve"} /\ spStarted < SpStarts
    /\ spStarted' = spStarted + 1 /\ spPhase' = "run" /\ spAt' = <<1, 1>>
    /\ UNCHANGED <<spFiles, spReport, spTorn>>

\* The launcher's next hunk; a patch that fails ends the start.
LaunchHunk ==
    /\ spPhase = "run" /\ spAt[1] \in DOMAIN SpLaunch
    /\ LET hunks == SpPatches[SpLaunch[spAt[1]]]
           r == Apply(spFiles, hunks[spAt[2]])
       IN  /\ spFiles' = r.files
           /\ spPhase' = IF r.ok THEN "run" ELSE "failed"
           /\ spAt' = IF spAt[2] < Len(hunks) THEN <<spAt[1], spAt[2] + 1>> ELSE <<spAt[1] + 1, 1>>
    /\ UNCHANGED <<spReport, spStarted, spTorn>>

\* A file cut short that is patched again: ast.parse may refuse its text.
ParseFails ==
    /\ spPhase = "run" /\ spAt[1] \in DOMAIN SpLaunch /\ spPhase' = "failed"
    /\ LET h == SpPatches[SpLaunch[spAt[1]]][spAt[2]]
       IN  h.file \in spTorn /\ Apply(spFiles, h).files # spFiles
    /\ UNCHANGED <<spFiles, spReport, spAt, spStarted, spTorn>>

\* vLLM starts on the files as they are; one cut short may not import.
Serve ==
    /\ spPhase = "run" /\ spAt[1] \notin DOMAIN SpLaunch
    /\ spPhase' \in IF spTorn = {} THEN {"serve"} ELSE {"serve", "failed"}
    /\ UNCHANGED <<spFiles, spReport, spAt, spStarted, spTorn>>

\* The container is stopped between two hunks, or as write_text has written a part.
Stop ==
    /\ spPhase = "run" /\ spPhase' = "stopped"
    /\ UNCHANGED <<spFiles, spReport, spAt, spStarted, spTorn>>

\* What a write that is cut behind the first n of a file's lines leaves of a text.
Cut(text, f, n) ==
    [t \in Fragments |-> IF t \in ToSet(SubSeq(SpLines[f], 1, n)) THEN text[t] ELSE 0]

StopTorn ==
    /\ spPhase = "run" /\ spAt[1] \in DOMAIN SpLaunch /\ spPhase' = "stopped"
    /\ LET h == SpPatches[SpLaunch[spAt[1]]][spAt[2]]
           new == Apply(spFiles, h).files
       IN  /\ new # spFiles
           /\ \E n \in 0 .. Len(SpLines[h.file]) :
                 spFiles' = [spFiles EXCEPT ![h.file] = Cut(new[h.file], h.file, n)]
           /\ spTorn' = spTorn \cup {h.file}
    /\ UNCHANGED <<spReport, spAt, spStarted>>

SpNext ==
    \/ Audit \/ BuildImage \/ StartContainer \/ LaunchHunk \/ ParseFails \/ Serve
    \/ Stop \/ StopTorn
SpSpec == SpInit /\ [][SpNext]_spVars

-----------------------------------------------------------------------------
(* Properties                                                              *)

\* The text of a run that nothing interrupted.
Meant == RunPass(RunPass(Pristine, SpBaked).files, SpLaunch).files

AllClear == FALSE \notin spReport.ordered

\* A container whose patches have gone in once may be stopped and started again: a start
\* never fails on what an earlier one wrote whole.
AppliesTwice == spPhase = "failed" => spTorn # {}

\* Every file that no stop left half written serves patched exactly once, however often
\* the container was stopped on the way and whatever became of the other files; one that
\* was may serve too, if its sentinels are in the part, but no start completes it again:
\* it stays short of its closing lines.  And what the audit called clear starts.
PatchedOnce ==
    /\ AppliesTwice
    /\ spPhase = "serve" => \A f \in DOMAIN SpPristine :
          IF f \in spTorn THEN spFiles[f][Closing] = 0 ELSE spFiles[f] = Meant[f]
    /\ spPhase \notin {"audit"} =>
          AllClear /\ \A p \in DOMAIN spReport.alone : spReport.alone[p]

-------------------------------------------------------------------------------
(* The patches of the recurrent layers, hunk by hunk: what each anchors on,      *)
(* what it puts there, and the sentinel it looks for.  A fragment is named for   *)
(* the text it stands for; "old" and "new" mark the two vLLM versions.           *)

Shape(anchor, adds) == [anchor |-> anchor, adds |-> adds, keeps |-> FALSE]
Around(anchor, adds) == [anchor |-> anchor, adds |-> adds, keeps |-> TRUE]
Hunk(file, sentinel, shapes) == [file |-> file, sentinel |-> sentinel, shapes |-> shapes]

\* The stock files of one vLLM version: "old" is 0.27, "new" is 0.29.
StockFiles(version) ==
    LET stock ==
            "registry" :> {"ROCM_ATTN ="}
            @@ "linear_attn" :> ({"import GDNAttentionMetadata", "b, a = self.split_ba",
                                  "core_attn_out = torch.zeros"} \cup
                                 (IF version = "old" THEN {"warmup return", "split and contiguous"}
                                  ELSE {"warmup return 029"}))
            @@ "chunk" :> {"def chunk_gated_delta_rule_fwd", "A = solve_tril"}
            @@ "gdn_attn" :> ({"class Builder", "index tensors", "def build", "m = common",
                               "accepted fill", "return attn_metadata", "num_accepted field",
                               "state buffer", "attn_metadata = GDN"} \cup
                              (IF version = "old" THEN {"spec mask", "counts"}
                               ELSE {"spec mask 029", "counts 029"}))
            @@ "attn_utils" :> {"attn_metadata dict", "builder.build("}
            @@ "abstract" :> {"num_speculative_blocks=", "class MambaBase"}
            @@ "mamba_utils" :> {"post signature", "post row", "pre signature", "pre row",
                                 "initialized", "v1 guard", "precopy launch", "align guard",
                                 "align launch", "def get_mamba_groups"}
    IN  [f \in DOMAIN stock |-> stock[f] \cup {Closing}]

\* The order of the fragments in each file, in whichever version they are.
InOrder ==
    "registry" :> <<"ROCM_ATTN =", "radiance_r4d_attn">>
    @@ "linear_attn" :>
           <<"import GDNAttentionMetadata", "import radiance_gdn", "b, a = self.split_ba",
             "split and contiguous", "reads strided gates", "zeroes the pad rows itself",
             "core_attn_out = torch.zeros", "warmup return", "warmup return 029",
             "all-R4D gated delta net", "forward_core_fused call", "the Triton body below">>
    @@ "chunk" :> <<"import radiance_gdn", "def chunk_gated_delta_rule_fwd", "A = solve_tril",
                    "fused GDN prefill kernel">>
    @@ "gdn_attn" :>
           <<"num_accepted field", "radiance_stash_indices:", "_RADIANCE_GDN_META",
             "class Builder", "state buffer", "self._rad_lazy =", "def build",
             "_radiance_shared: dict", "m = common", "kind == spec_fast", "acc_src copy",
             "stash, fast", "spec mask", "spec mask 029", "one numpy pass", "counts",
             "counts 029", "same integers", "index tensors", "read once, by the copy_",
             "padded slice", "_rad_mask_all = True", "accepted fill", "_rad_fastpath = True",
             "attn_metadata = GDN", "stash, full", "kind=spec_fast, md=",
             "return attn_metadata">>
    @@ "attn_utils" :> <<"attn_metadata dict", "_rad_gdn_shared", "_radiance_shared kwarg",
                         "builder.build(">>
    @@ "abstract" :> <<"def _radiance_lazy_spec_blocks", "class MambaBase",
                       "num_speculative_blocks=", "radiance lazy gdn">>
    @@ "mamba_utils" :>
           <<"post signature", "LAZY_TEMPORAL, post", "post row", "skip, post", "pre signature",
             "LAZY_TEMPORAL, pre", "pre row", "skip, pre", "initialized", "_radiance_kv_cfg",
             "v1 guard", "V2 model runner", "precopy launch", "materialize, precopy",
             "align guard", "materialize, postalign", "align launch", "LAZY_TEMPORAL, align",
             "def _radiance_lazy", "def get_mamba_groups">>

\* patch_r4d.py
R4dHunks ==
    <<Hunk("registry", "radiance_r4d_attn", <<Around("ROCM_ATTN =", {"radiance_r4d_attn"})>>),
      Hunk("linear_attn", "import radiance_gdn",
           <<Around("import GDNAttentionMetadata", {"import radiance_gdn"})>>),
      Hunk("linear_attn", "all-R4D gated delta net",
           <<Around("warmup return", {"all-R4D gated delta net", "forward_core_fused call"}),
             Around("warmup return 029", {"all-R4D gated delta net", "forward_core_fused call"})>>),
      Hunk("chunk", "import radiance_gdn",
           <<Around("def chunk_gated_delta_rule_fwd", {"import radiance_gdn"})>>),
      Hunk("chunk", "fused GDN prefill kernel",
           <<Around("A = solve_tril", {"fused GDN prefill kernel"})>>)>>

\* patch_gdn_metadata.py
MetadataHunks ==
    <<Hunk("gdn_attn", "_RADIANCE_GDN_META", <<Around("class Builder", {"_RADIANCE_GDN_META"})>>),
      Hunk("gdn_attn", "one numpy pass", <<Shape("spec mask", {"one numpy pass"}),
                                           Shape("spec mask 029", {"one numpy pass"})>>),
      Hunk("gdn_attn", "same integers", <<Shape("counts", {"same integers"}),
                                          Shape("counts 029", {"same integers"})>>),
      Hunk("gdn_attn", "read once, by the copy_",
           <<Shape("index tensors", {"read once, by the copy_", "padded slice"})>>)>>

\* patch_gdn_shared_build.py; the padded slice is patch_gdn_metadata.py's.
SharedBuildHunks ==
    <<Hunk("attn_utils", "_rad_gdn_shared", <<Shape("attn_metadata dict", {"_rad_gdn_shared"})>>),
      Hunk("attn_utils", "_radiance_shared kwarg",
           <<Around("builder.build(", {"_radiance_shared kwarg"})>>),
      Hunk("gdn_attn", "_radiance_shared: dict", <<Shape("def build", {"_radiance_shared: dict"})>>),
      Hunk("gdn_attn", "kind == spec_fast",
           <<Shape("m = common", {"kind == spec_fast", "acc_src copy"})>>),
      Hunk("gdn_attn", "_rad_mask_all = True", <<Around("padded slice", {"_rad_mask_all = True"})>>),
      Hunk("gdn_attn", "_rad_fastpath = True", <<Around("accepted fill", {"_rad_fastpath = True"})>>),
      Hunk("gdn_attn", "kind=spec_fast, md=",
           <<Shape("return attn_metadata", {"kind=spec_fast, md="})>>)>>

\* patch_gdn_glue.py; the call it packs the gates after is patch_r4d.py's.
GlueHunks ==
    <<Hunk("linear_attn", "reads strided gates",
           <<Shape("split and contiguous", {"reads strided gates"}),
             Around("b, a = self.split_ba", {"reads strided gates"})>>),
      Hunk("linear_attn", "the Triton body below",
           <<Around("forward_core_fused call", {"the Triton body below"})>>),
      Hunk("linear_attn", "zeroes the pad rows itself",
           <<Shape("core_attn_out = torch.zeros", {"zeroes the pad rows itself"})>>)>>

\* patch_gdn_lazy.py: every sentinel but the first is the common one and a word more; the
\* texts it inserts hold the common one only.
LazyHunks ==
    <<Hunk("abstract", "radiance lazy gdn",
           <<Shape("num_speculative_blocks=", {"radiance lazy gdn"})>>),
      Hunk("abstract", "radiance lazy gdn helper",
           <<Around("class MambaBase", {"def _radiance_lazy_spec_blocks"})>>),
      Hunk("gdn_attn", "radiance lazy gdn field",
           <<Around("num_accepted field", {"radiance_stash_indices:"})>>),
      Hunk("gdn_attn", "radiance lazy gdn width", <<Shape("state buffer", {"self._rad_lazy ="})>>),
      Hunk("gdn_attn", "radiance lazy gdn fast", <<Around("acc_src copy", {"stash, fast"})>>),
      Hunk("gdn_attn", "radiance lazy gdn full", <<Shape("attn_metadata = GDN", {"stash, full"})>>),
      Hunk("mamba_utils", "radiance lazy gdn post-sig",
           <<Shape("post signature", {"LAZY_TEMPORAL, post"})>>),
      Hunk("mamba_utils", "radiance lazy gdn post-skip", <<Shape("post row", {"skip, post"})>>),
      Hunk("mamba_utils", "radiance lazy gdn pre-sig",
           <<Shape("pre signature", {"LAZY_TEMPORAL, pre"})>>),
      Hunk("mamba_utils", "radiance lazy gdn pre-skip", <<Around("pre row", {"skip, pre"})>>),
      Hunk("mamba_utils", "radiance lazy gdn tables",
           <<Shape("initialized", {"_radiance_kv_cfg"})>>),
      Hunk("mamba_utils", "radiance lazy gdn v1", <<Shape("v1 guard", {"V2 model runner"})>>),
      Hunk("mamba_utils", "radiance lazy gdn precopy",
           <<Shape("precopy launch", {"materialize, precopy"})>>),
      Hunk("mamba_utils", "radiance lazy gdn postalign",
           <<Shape("align guard", {"materialize, postalign"})>>),
      Hunk("mamba_utils", "radiance lazy gdn postalign-flag",
           <<Shape("align launch", {"LAZY_TEMPORAL, align"})>>),
      Hunk("mamba_utils", "radiance lazy gdn flag",
           <<Around("def get_mamba_groups", {"def _radiance_lazy"})>>)>>

Patches == [r4d |-> R4dHunks, metadata |-> MetadataHunks, shared |-> SharedBuildHunks,
            glue |-> GlueHunks, lazy |-> LazyHunks]
==============================================================================
