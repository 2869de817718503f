------------------------------- MODULE DynWidth -------------------------------
(***************************************************************************)
(* The verify width of a request (patch_dynwidth.py and                    *)
(* patch_async_dynwidth.py): an average of what the request accepted caps  *)
(* the list of drafts, or of placeholders for drafts, that its next step   *)
(* verifies.  Steps form a pipeline: a scheduled step takes the lists, and *)
(* its outputs are observed when it has run.                               *)
(*                                                                         *)
(* Synchronous: one step at a time; after its outputs the drafts arrive    *)
(* and become the next lists.  Asynchronous: the next list is made from    *)
(* the scheduler's placeholders as soon as a step is scheduled, while that *)
(* step and the one before it have not been observed.                      *)
(*                                                                         *)
(* Lists are objects: dwSpec says which one a request points at, dwLen how *)
(* long each of them is.  Averages are in hundredths.                      *)
(***************************************************************************)
EXTENDS Arith, FiniteSets

CONSTANTS
    DwRequests,
    DwFull,       \* num_spec_tokens
    DwModes,      \* subset of {"async", "sync"}: which scheduler
    DwKnobs,      \* [margin, min, batch]: RADIANCE_DYNW_MARGIN, _MIN, _MIN_BATCH
    DwSteps       \* bound: steps that are scheduled and requests that arrive

ASSUME DynWidthAssumption ==
    /\ IsFiniteSet(DwRequests) /\ "placeholders" \notin DwRequests
    /\ DwFull \in Nat \ {0}
    /\ DwKnobs \subseteq [margin : Nat, min : Nat \ {0}, batch : Nat]

VARIABLES
    dwMode, dwKnob,
    dwRunning,    \* requests that run
    dwSpec,       \* request -> the list it points at
    dwLen,        \* list -> its length
    dwFlight,     \* the steps in flight, oldest first: request -> drafts it verifies
    dwEma,        \* request -> _rad_dynw_ema; NoEma before the first observation
    dwPhase,      \* "schedule", or "draft": synchronous, the drafts are still to come
    dwStep,
    dwSlack,      \* request -> it was refused a draft, or given fewer than all
    dwStreak      \* request -> steps in a row in which it accepted all it verified

dwVars == <<dwMode, dwKnob, dwRunning, dwSpec, dwLen, dwFlight, dwEma, dwPhase, dwStep,
            dwSlack, dwStreak>>

Shared == "placeholders"
Lists == DwRequests \cup {Shared}
NoEma == -1
Alpha == 35

\* Steps in flight: the asynchronous engine's batch queue holds two.
Depth == IF dwMode = "async" THEN 2 ELSE 1

DwInit ==
    /\ dwMode \in DwModes /\ dwKnob \in DwKnobs
    /\ dwRunning \in SUBSET DwRequests
    /\ dwSpec = [r \in DwRequests |-> r]
    /\ dwLen = [l \in Lists |-> IF l = Shared THEN DwFull ELSE 0]
    /\ dwFlight = <<>>
    /\ dwEma = [r \in DwRequests |-> NoEma]
    /\ dwPhase = "schedule" /\ dwStep = 0
    /\ dwSlack = [r \in DwRequests |-> FALSE]
    /\ dwStreak = [r \in DwRequests |-> 0]

\* Mutant of Observed: what was accepted, no more, when all of it was.
ObservedPlain(accepted, drafted) == 100 * accepted

\* An observation: one more than the width when all of it was accepted.
Observed(accepted, drafted) == 100 * (accepted + (IF accepted >= drafted THEN 1 ELSE 0))

Average(ema, obs) ==
    IF ema = NoEma THEN obs ELSE (Alpha * obs + (100 - Alpha) * ema) \div 100

\* _radiance_cap_spec_width on a list of n: none in a small batch or without evidence.
Capped(r, n) ==
    IF \/ n = 0
       \/ Cardinality(dwRunning) < dwKnob.batch
       \/ dwEma[r] = NoEma
    THEN n
    ELSE Smaller(n, Larger(dwKnob.min, CeilDiv(dwEma[r], 100) + dwKnob.margin))

\* Mutant of Planned: the placeholders are not copied, and the caps trim the shared list.
PlannedShared(took, n) ==
    LET cut == {dwLen[Shared]} \cup {Capped(r, dwLen[Shared]) : r \in took}
    IN  /\ dwSpec' = [r \in DwRequests |-> IF r \in took THEN Shared ELSE dwSpec[r]]
        /\ dwLen' = [dwLen EXCEPT ![Shared] = CHOOSE c \in cut : \A d \in cut : c <= d]

\* The next lists of the requests of took, n long before the cap: each its own copy of the
\* placeholders, or the drafts that were made for it.
Planned(took, n) ==
    /\ dwSpec' = [r \in DwRequests |-> IF r \in took THEN r ELSE dwSpec[r]]
    /\ dwLen' = [l \in Lists |-> IF l \in took THEN Capped(l, n[l]) ELSE dwLen[l]]

\* schedule() turns the lists of some running requests into verify rows.  Synchronous: the
\* lists are used up.  Asynchronous, _update_after_schedule: their successors are made.
ScheduleStep ==
    /\ dwPhase = "schedule" /\ Len(dwFlight) < Depth
    /\ dwStep < DwSteps /\ dwStep' = dwStep + 1
    /\ \E took \in (SUBSET dwRunning) \ {{}} :
          /\ dwFlight' = Append(dwFlight,
                [r \in DwRequests |-> IF r \in took THEN dwLen[dwSpec[r]] ELSE 0])
          /\ Planned(took, [r \in took |-> IF dwMode = "async" THEN dwLen[Shared] ELSE 0])
    /\ UNCHANGED <<dwMode, dwKnob, dwRunning, dwEma, dwPhase, dwSlack, dwStreak>>

\* update_from_output of the oldest step: every request that verified drafts observes how
\* many of them it accepted.
ObserveStep ==
    /\ dwFlight # <<>> /\ dwFlight' = Tail(dwFlight)
    /\ \E accepted \in [DwRequests -> 0 .. DwFull] :
          LET drafted == Head(dwFlight)
              all(r) == accepted[r] = drafted[r]
          IN  /\ \A r \in DwRequests : accepted[r] <= drafted[r]
              /\ dwEma' = [r \in DwRequests |->
                              IF drafted[r] > 0
                              THEN Average(dwEma[r], Observed(accepted[r], drafted[r]))
                              ELSE dwEma[r]]
              /\ dwSlack' = [r \in DwRequests |-> dwSlack[r] \/ ~all(r)]
              /\ dwStreak' = [r \in DwRequests |->
                                 IF ~all(r) THEN 0
                                 ELSE IF drafted[r] > 0 THEN dwStreak[r] + 1
                                 ELSE dwStreak[r]]
    /\ dwPhase' = IF dwMode = "sync" THEN "draft" ELSE dwPhase
    /\ UNCHANGED <<dwMode, dwKnob, dwRunning, dwSpec, dwLen, dwStep>>

\* Synchronous, update_draft_token_ids: the drafts that were made, as many as the controller
\* and the grammar let through, none for a prompt that is still being read.
TakeDrafts ==
    /\ dwPhase = "draft" /\ dwPhase' = "schedule"
    /\ \E took \in SUBSET dwRunning : \E want \in [took -> 1 .. DwFull] :
          /\ Planned(took, want)
          /\ dwSlack' = [r \in DwRequests |-> dwSlack[r] \/ (r \in took /\ want[r] < DwFull)]
          /\ dwStreak' = [r \in DwRequests |->
                             IF r \in took /\ want[r] < DwFull THEN 0 ELSE dwStreak[r]]
    /\ UNCHANGED <<dwMode, dwKnob, dwRunning, dwFlight, dwEma, dwStep>>

\* A request ends, at its last output or aborted: what is in flight for it is ignored.
Finish(r) ==
    /\ r \in dwRunning /\ dwRunning' = dwRunning \ {r}
    /\ dwFlight' = [i \in DOMAIN dwFlight |-> [dwFlight[i] EXCEPT ![r] = 0]]
    /\ UNCHANGED <<dwMode, dwKnob, dwSpec, dwLen, dwEma, dwPhase, dwStep, dwSlack, dwStreak>>

\* A request starts: schedule() moves it to running, without drafts and without history.
Arrive(r) ==
    /\ dwPhase = "schedule" /\ Len(dwFlight) < Depth
    /\ dwStep < DwSteps /\ dwStep' = dwStep + 1
    /\ r \notin dwRunning /\ dwRunning' = dwRunning \cup {r}
    /\ dwEma' = [dwEma EXCEPT ![r] = NoEma]
    /\ dwLen' = [dwLen EXCEPT ![r] = 0]
    /\ dwSpec' = [dwSpec EXCEPT ![r] = r]
    /\ dwSlack' = [dwSlack EXCEPT ![r] = FALSE]
    /\ dwStreak' = [dwStreak EXCEPT ![r] = 0]
    /\ UNCHANGED <<dwMode, dwKnob, dwFlight, dwPhase>>

DwNext ==
    \/ ScheduleStep \/ ObserveStep \/ TakeDrafts
    \/ \E r \in DwRequests : Finish(r) \/ Arrive(r)

DwSpec == DwInit /\ [][DwNext]_dwVars

-----------------------------------------------------------------------------
(* Properties                                                              *)

\* A request verifies fewer drafts than there are, in a step in flight or in the next, only
\* because of its own history: it was refused a draft, or was given fewer.  The list that
\* all requests start from keeps its length.
NarrowedByItself ==
    /\ dwLen[Shared] = DwFull
    /\ \A r \in dwRunning :
          \A width \in {dwLen[dwSpec[r]]} \cup {dwFlight[i][r] : i \in DOMAIN dwFlight} :
              width \in 1 .. DwFull - 1 => dwSlack[r]

\* A cap never holds down the evidence against itself.  Lists that were made before the
\* evidence are still verified under it: four steps in a row that accept all they verify
\* widen the next list by one, so that after 4 * (DwFull - 1) of them a request that is
\* given drafts is given every draft again.
ClimbsBack ==
    \A r \in dwRunning :
        dwStreak[r] >= 4 * (DwFull - 1) => dwLen[dwSpec[r]] \in {0, DwFull}

WidthEarned == NarrowedByItself /\ ClimbsBack
=============================================================================
