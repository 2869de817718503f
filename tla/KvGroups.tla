------------------------------- MODULE KvGroups -------------------------------
(***************************************************************************)
(* The size of a KV-cache group (patch_kv_group_size.py).  A model's layers*)
(* come in buckets of one kind; the allocator cuts each into groups of at  *)
(* most a given size, and every group reserves whole blocks for a request. *)
(* A block of the pool is as large as the largest group has layers.        *)
(***************************************************************************)
EXTENDS Arith, Sequences, FiniteSets, SequencesExt

CONSTANTS
    KgBuckets,    \* models: sequences of [layers, blocks]; blocks a group needs per request
    KgEnvs,       \* [opt, forced, config, maxGroups]: the switches, and whether the caller
                  \* passes its configuration
    KgPool        \* bound: layers' worth of blocks the pool has

ASSUME KvGroupsAssumption ==
    /\ \A m \in KgBuckets :
          m # <<>> /\ m \in Seq([layers : Nat \ {0}, blocks : Nat \ {0}])
    /\ \A e \in KgEnvs : e.forced \in Nat
    /\ KgPool \in Nat

VARIABLES
    kgEnv, kgModel,
    kgPicked,     \* _radiance_pick_group_size; 0 before
    kgGroups,     \* the allocator's groups: the layers each holds
    kgRequests    \* worst-case requests the pool holds

kgVars == <<kgEnv, kgModel, kgPicked, kgGroups, kgRequests>>

KgInit ==
    /\ kgEnv \in KgEnvs /\ kgModel \in KgBuckets
    /\ kgPicked = 0 /\ kgGroups = <<>> /\ kgRequests = 0

Sum(s) == PartialSums(s)[Len(s)]
Sizes == [i \in DOMAIN kgModel |-> kgModel[i].layers]
Most(s) == Max(ToSet(s))
Least(s) == Min(ToSet(s))

\* Upstream: the smallest bucket, unless all are within a quarter of the largest.
Upstream == IF 4 * Most(Sizes) < 5 * Least(Sizes) THEN Most(Sizes) ELSE Least(Sizes)

Cuts(g) == [i \in DOMAIN kgModel |-> CeilDiv(kgModel[i].layers, g)]
Blocks(g) == Sum([i \in DOMAIN kgModel |-> Cuts(g)[i] * kgModel[i].blocks])

\* The largest group the allocator makes when it is given g.
Effective(g) == Most([i \in DOMAIN kgModel |-> CeilDiv(kgModel[i].layers, Cuts(g)[i])])

\* Mutant of Candidates: only sizes that divide the largest bucket are tried.
CandidatesDividing == {g \in 1 .. Most(Sizes) : Most(Sizes) % g = 0 /\ Sum(Cuts(g)) <= kgEnv.maxGroups}

\* Canonical sizes with few enough groups.
Candidates == {g \in 1 .. Most(Sizes) : Effective(g) = g /\ Sum(Cuts(g)) <= kgEnv.maxGroups}

\* Mutant of Before: least padding, as upstream's note proposes.
BeforePadding(g, h) ==
    Sum([i \in DOMAIN kgModel |-> (g * Cuts(g)[i]) - kgModel[i].layers])
        < Sum([i \in DOMAIN kgModel |-> (h * Cuts(h)[i]) - kgModel[i].layers])

\* The order of the search's keys: cost of a request, then number of groups.
Before(g, h) ==
    \/ g * Blocks(g) < h * Blocks(h)
    \/ g * Blocks(g) = h * Blocks(h) /\ Sum(Cuts(g)) < Sum(Cuts(h))

\* The first of the best candidates; upstream's choice if there is none.
Best == IF Candidates = {} THEN Upstream
        ELSE CHOOSE g \in Candidates :
                /\ \A h \in Candidates : ~Before(h, g)
                /\ \A h \in Candidates : h < g => Before(g, h)

\* What sizes the blocks: the most layers in a group.
LargestGroup(groups) == Max(UNION {ToSet(groups[i]) : i \in DOMAIN groups})

PickGroupSize ==
    /\ kgPicked = 0
    /\ kgPicked' = IF ~kgEnv.opt THEN Upstream
                   ELSE IF kgEnv.forced # 0 THEN Larger(1, kgEnv.forced)
                   ELSE IF ~kgEnv.config THEN Upstream
                   ELSE Best
    /\ UNCHANGED <<kgEnv, kgModel, kgGroups, kgRequests>>

\* The allocator cuts every bucket into even groups of at most the size it was given, and
\* sizes a block by the largest.
Allocate ==
    /\ kgPicked # 0 /\ kgGroups = <<>>
    /\ kgGroups' = [i \in DOMAIN kgModel |->
                       [j \in 1 .. Cuts(kgPicked)[i] |->
                           CeilDiv(kgModel[i].layers, Cuts(kgPicked)[i])]]
    /\ kgRequests' = (KgPool \div LargestGroup(kgGroups'))
                        \div Sum([i \in DOMAIN kgModel |-> Len(kgGroups'[i]) * kgModel[i].blocks])
    /\ UNCHANGED <<kgEnv, kgModel, kgPicked>>

KgNext == PickGroupSize \/ Allocate
KgSpec == KgInit /\ [][KgNext]_kgVars

-----------------------------------------------------------------------------
(* Properties                                                              *)

\* Worst-case requests a pool would hold in groups of g.
Held(g) == (KgPool \div Effective(g)) \div Blocks(g)

\* The search gives up no capacity: the pool holds as many requests as with any size of
\* group within the limit, canonical or not, and so at least as many as with upstream's when
\* that is within the limit; the size is the one the allocator's groups come out with.
CapacityBest ==
    kgGroups # <<>> /\ kgEnv.opt /\ kgEnv.forced = 0 /\ kgEnv.config /\ Candidates # {} =>
        /\ LargestGroup(kgGroups) = kgPicked
        /\ \A g \in 1 .. Most(Sizes) :
              Sum(Cuts(g)) <= kgEnv.maxGroups => Effective(g) * Blocks(g) >= kgPicked * Blocks(kgPicked)
        /\ Sum(Cuts(Upstream)) <= kgEnv.maxGroups => kgRequests >= Held(Upstream)
        /\ \A i \in DOMAIN kgModel : Sum(kgGroups[i]) >= kgModel[i].layers
=============================================================================
