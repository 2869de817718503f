------------------------------- MODULE MCEngine -------------------------------
(* The two parts of an engine step whose promise is that it ends: the ranks'   *)
(* draft loops, which meet in collectives, and the engine's queue of steps.    *)
(* A behaviour exercises one of them, focus, while the other stays where it    *)
(* starts: they share nothing but the step itself.                             *)
EXTENDS DraftRanks, AdaptiveChunk

VARIABLE focus  \* "ranks" or "queue"

all == <<focus, rkVars, vars>>

\* The part that is not in focus has one initial state.
MCInit ==
    /\ focus \in {"ranks", "queue"}
    /\ RkInit /\ Init
    /\ focus = "queue" => rkFault = NoFault /\ rkShard = [s \in RkStep |-> [r \in Rank |-> 1]]

MCNext ==
    \/ (focus = "ranks" /\ RkNext /\ UNCHANGED <<focus, vars>>)
    \/ (focus = "queue" /\ Next /\ UNCHANGED <<focus, rkVars>>)

InRanks(A) == focus = "ranks" /\ A /\ UNCHANGED <<focus, vars>>
InQueue(A) == focus = "queue" /\ A /\ UNCHANGED <<focus, rkVars>>

\* The fairness of RkFairSpec and of FairSpec.
MCFairSpec ==
    /\ MCInit /\ [][MCNext]_all
    /\ \A r \in Rank : WF_all(InRanks(Begin(r) \/ Launch(r) \/ Sample(r)))
    /\ WF_all(InRanks(Reduced)) /\ WF_all(InRanks(Exchanged))
    /\ WF_all(InQueue(Engine)) /\ WF_all(InQueue(Complete))

\* The draft loops end on every rank, or an exception has struck some ranks and passed
\* others by (DraftRanks).
LoopsEnd == focus = "ranks" => StepsEnd
===============================================================================
