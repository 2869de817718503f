-------------------------------- MODULE MCDraft --------------------------------
(* How wide a step's draft is: the controller's decisions, overlapped with the  *)
(* forward passes, and the width the scheduler lets a request verify.  A        *)
(* behaviour exercises one of the two, focus.                                   *)
EXTENDS DraftOverlap, DynWidth

\* One request may draft to the full width, two to depth two.
CapAtTwo == << <<1, 8>>, <<2, 2>> >>

\* Margin and least width of the launcher's file, and a batch of one.
Knobs == {[margin |-> 0, min |-> 1, batch |-> 2], [margin |-> 1, min |-> 1, batch |-> 1]}

VARIABLE focus  \* "controller" or "width"

all == <<focus, ovars, dwVars>>

MCInit ==
    /\ focus \in {"controller", "width"}
    /\ OInit /\ DwInit
    /\ focus = "controller" =>
           /\ dwMode = CHOOSE m \in DwModes : TRUE
           /\ dwKnob = CHOOSE k \in DwKnobs : TRUE
           /\ dwRunning = {}

\* Bound: one request accepts as it likes; the others are always refused something.
Refused ==
    \A r \in DwRequests \ {CHOOSE q \in DwRequests : TRUE} :
        (dwFlight # <<>> /\ dwFlight' = Tail(dwFlight) /\ Head(dwFlight)[r] > 0)
            => dwStreak'[r] = 0

\* Bound: a second step follows only where one request is alone in both.
Bounded == (pc # "idle" \/ steps = 0) \/ (batch = 1 /\ batch' = 1)

MCNext ==
    \/ (focus = "controller" /\ Bounded /\ ONext /\ UNCHANGED <<focus, dwVars>>)
    \/ (focus = "width" /\ DwNext /\ Refused /\ UNCHANGED <<focus, ovars>>)

MCSpec == MCInit /\ [][MCNext]_all
=================================================================================
