-------------------------- MODULE MCOneShotAllReduce --------------------------
(* Instances of OneShotAllReduce for TLC.                                   *)
EXTENDS OneShotAllReduce

CONSTANT Alive  \* the ranks that are known to keep running

Exact(n) == [kind |-> "exact", n16 |-> n, rows |-> 1]
Nq(n, m) == [kind |-> "nq", n16 |-> n, rows |-> m]

\* Calls of different sizes whose grids all come out two blocks wide.
UniformMsgs == <<Exact(2), Exact(3), Nq(2, 2), Exact(2)>>
OneCallMsgs == <<Exact(2)>>

\* The grids of a step with more rows, one with fewer, one with more again.
MixedMsgs == <<Exact(4), Exact(3), Exact(4)>>

FairForAlive ==
    Spec /\ \A r \in Alive : /\ WF_vars(Retire(r))
                            /\ \A b \in Block : WF_vars(BlockStep(r, b))

\* The bounded spin keeps a rank from hanging on one that has died.
AliveCallsReturn == \A r \in Alive : <>(call[r] = NCalls + 1)
==============================================================================
