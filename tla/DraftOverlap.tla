----------------------------- MODULE DraftOverlap -----------------------------
(***************************************************************************)
(* The draft controller with RADIANCE_MOE_DRAFT_OVERLAP                    *)
(* (moe-draftloop/radiance_moe_draftloop.py, patch_moe_draftloop.py): a    *)
(* slot's report is copied to one pinned host buffer without blocking, and *)
(* its decision waits until the host has prepared the next pass.           *)
(*                                                                         *)
(* The variables and the decisions are DraftGate's; here the device's copy *)
(* is a step of its own.  Inline below is the controller that decides at   *)
(* every slot before it goes on.                                           *)
(***************************************************************************)
EXTENDS DraftGate

CONSTANT NoSlot     \* no decision is deferred, nothing was copied

ASSUME OverlapAssumption == NoSlot \notin Slots

VARIABLES
    pending,  \* the slot of the deferred decision, _radiance_resolve
    pin,      \* the slot whose report the pinned buffer holds
    landed    \* the event behind the latest copy has completed

ovars == <<vars, pending, pin, landed>>

OInit == Init /\ pending = NoSlot /\ pin = NoSlot /\ landed = TRUE

OMatch == Match /\ UNCHANGED <<pending, pin, landed>>

\* propose drops a deferred decision that nothing resolved.
OPropose == Propose /\ pending' = NoSlot /\ UNCHANGED <<pin, landed>>

\* defer_d2h: the copy is queued behind the slot's forward, the decision kept.
DeferSample ==
    /\ pc = "slot" /\ pending = NoSlot
    /\ slot' = slot + 1
    /\ IF matched THEN pending' = slot /\ landed' = FALSE
                  ELSE UNCHANGED <<pending, landed>>
    /\ pc' = "loop"
    /\ UNCHANGED <<batch, input, matched, gate, stop, cap, draft, steps, pin>>

\* The device runs the stream up to the event: the buffer is overwritten.
CopyLands ==
    /\ ~landed
    /\ landed' = TRUE
    /\ pin' = slot - 1
    /\ UNCHANGED <<vars, pending>>

\* The head of the loop still sees the decisions of earlier slots only; a pass
\* that it lets through is prepared (positions, slot mapping, metadata).
PreparePass ==
    /\ pc = "loop"
    /\ pc' = IF LoopDone THEN "exit" ELSE "prepared"
    /\ UNCHANGED <<batch, input, matched, gate, slot, stop, cap, draft, steps>>
    /\ UNCHANGED <<pending, pin, landed>>

\* Mutant of Synchronized: the decision does not wait for the event.
NotSynchronized == TRUE

\* ev.synchronize()
Synchronized == landed

\* resolve_pending, before the forward, before the next deferral and before the
\* postprocessor: decide the deferred slot with what the pinned buffer holds.
Resolve ==
    /\ pending # NoSlot /\ pc \in {"prepared", "slot", "exit"} /\ Synchronized
    /\ pending' = NoSlot
    /\ gate' = DecideAll(pending, IF pin = NoSlot THEN 0 ELSE pin)
    /\ stop' = (stop \/ \A r \in Rows(batch) : gate'[r].stopped)
    /\ UNCHANGED <<pc, batch, input, matched, slot, cap, draft, steps, pin, landed>>

\* Mutant of Resolved: the prepared pass does not wait for the decision.
NotResolved == TRUE
Resolved == pending = NoSlot

\* before_forward: the stop check still precedes every forward.
BeforeForward ==
    /\ pc = "prepared" /\ Resolved
    /\ pc' = IF stop THEN "exit" ELSE "slot"
    /\ UNCHANGED <<batch, input, matched, gate, slot, stop, cap, draft, steps>>
    /\ UNCHANGED <<pending, pin, landed>>

EnterPostprocess ==
    /\ pc = "exit" /\ Resolved
    /\ pc' = "post"
    /\ UNCHANGED <<batch, input, matched, gate, slot, stop, cap, draft, steps>>
    /\ UNCHANGED <<pending, pin, landed>>

OPostprocess == Postprocess /\ UNCHANGED <<pending, pin, landed>>

ONext ==
    \/ OMatch \/ OPropose \/ DeferSample \/ CopyLands \/ PreparePass \/ Resolve
    \/ BeforeForward \/ EnterPostprocess \/ OPostprocess

OSpec == OInit /\ [][ONext]_ovars

-----------------------------------------------------------------------------
(* Properties                                                              *)

\* A deferred slot has not been sampled yet as far as the inline controller is
\* concerned, and the host's preparation is part of the head of its loop.
InlinePc ==
    IF pending # NoSlot THEN "slot"
    ELSE IF pc \in {"prepared", "exit"} THEN "loop" ELSE pc

InlineSlot == IF pending # NoSlot THEN pending ELSE slot

Inline == INSTANCE DraftGate WITH pc <- InlinePc, slot <- InlineSlot

\* Overlapping changes no decision: the same passes run and the same drafts come
\* out as when every slot blocks for its report.
ImplementsInline == Inline!Spec

\* What a decision is made from is its own slot's report: the one buffer is
\* never overwritten by the next slot before it is read.
PinIsPending ==
    [][gate' # gate /\ gate' # <<>> => pin = pending]_ovars
=============================================================================
