------------------------------ MODULE MCRequests ------------------------------
(* What the worker keeps of a request from one step to the next: its tokens   *)
(* in the mirror, its recurrent state, and the metadata that say which state  *)
(* a step reads.  A behaviour exercises one of the three, focus; the others   *)
(* stay in one initial state.                                                 *)
EXTENDS ContextMirror, GdnLazy, GdnBuild, TLC

\* Every batch of up to three rows: not running, decoding, in prefill, and with
\* drafts that are absent or as long as the row says.
BatchRows ==
    {[ndt |-> -1, len |-> 0], [ndt |-> -1, len |-> 1], [ndt |-> -1, len |-> 4],
     [ndt |-> 0, len |-> 1], [ndt |-> 2, len |-> 3]}
Batches == UNION {[1 .. n -> BatchRows] : n \in 1 .. 3}

\* Requests, tokens and blocks are alike.
Alike == Permutations(Req) \cup Permutations(Tok) \cup Permutations(Block)

CONSTANT Focus  \* of "mirror", "state" and "metadata", those this run exercises

VARIABLE focus

all == <<focus, vars, glVars, gbVars>>

MCInit ==
    /\ focus \in Focus
    /\ IF focus = "mirror" THEN Init
       ELSE /\ text = CHOOSE t \in [Req -> [Pos -> Tok]] : TRUE
            /\ len = [r \in Req |-> 0] /\ rows = <<>> /\ cont = <<>>
            /\ mirror = [i \in Row |-> [p \in Pos |-> Empty]]
            /\ seen = [r \in {} |-> 0]
    /\ GlInit
    /\ GbInit

MCNext ==
    \/ (focus = "mirror" /\ Next /\ UNCHANGED <<focus, glVars, gbVars>>)
    \/ (focus = "state" /\ GlNext /\ UNCHANGED <<focus, vars, gbVars>>)
    \/ (focus = "metadata" /\ GbNext /\ UNCHANGED <<focus, vars, glVars>>)
    \* The metadata may stop where their bound is reached, nowhere else.
    \/ (focus = "metadata" /\ gbStep = GbSteps /\ UNCHANGED all)

MCSpec == MCInit /\ [][MCNext]_all
===============================================================================
