---------------------------- MODULE CollectiveSum ----------------------------
(***************************************************************************)
(* What a tensor-parallel all-reduce promises its callers, whatever kernel *)
(* carries it: every rank issues the same calls in the same order, a call  *)
(* returns on a rank only once every rank has made it, and what it returns *)
(* is the sum of what the ranks contributed to THAT call.                  *)
(*                                                                         *)
(* A sum is represented by who contributed and to which call: the outcome  *)
(* of call k is the function that maps every rank to k.                    *)
(***************************************************************************)
EXTENDS Integers

CONSTANTS Rank,     \* the ranks of the tensor-parallel group
          NCalls    \* how many all-reduces the program makes

VARIABLES entered,  \* entered[r]: how many calls rank r has made
          returned, \* returned[r]: how many of them have returned
          sums      \* sums[r][k]: the outcomes the elements of call k show on r

avars == <<entered, returned, sums>>

Call == 1 .. NCalls

AbsInit ==
    /\ entered  = [r \in Rank |-> 0]
    /\ returned = [r \in Rank |-> 0]
    /\ sums     = [r \in Rank |-> [k \in Call |-> {}]]

Enter(r) ==
    /\ entered[r] = returned[r]
    /\ entered[r] < NCalls
    /\ entered' = [entered EXCEPT ![r] = @ + 1]
    /\ UNCHANGED <<returned, sums>>

Return(r) ==
    /\ returned[r] < entered[r]
    /\ \A i \in Rank : entered[r] <= entered[i]
    /\ returned' = [returned EXCEPT ![r] = entered[r]]
    /\ sums' = [sums EXCEPT ![r][entered[r]] = {[i \in Rank |-> entered[r]]}]
    /\ UNCHANGED entered

AbsNext == \E r \in Rank : Enter(r) \/ Return(r)

AbsSpec == AbsInit /\ [][AbsNext]_avars
==============================================================================
