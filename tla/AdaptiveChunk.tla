----------------------------- MODULE AdaptiveChunk -----------------------------
(* The prefill budget of the MoE lane (moe-adaptivechunk/, installed by      *)
(* patch_adaptive_chunk.py) inside vLLM's engine loop with its two-deep      *)
(* queue of steps.  A step may take Big tokens only for a request that is    *)
(* alone with more than Cap left; Sync keeps such a step from being          *)
(* scheduled behind another.  Requests come at any time; the loop sees them  *)
(* between its steps.  vLLM's scheduler and loop are modelled from how the   *)
(* patch and the module's docstring use them.                                *)
EXTENDS Integers, Sequences, FiniteSets, SequencesExt

CONSTANTS
    Req,        \* the clients; each has at most one request
    Lengths,    \* lengths of prompts
    Block,      \* tokens of an attention block, the unit of a prefill chunk
    Cap,        \* RADIANCE_ADAPTIVE_CHUNK_CAP
    Big,        \* RADIANCE_ADAPTIVE_CHUNK, the scheduler's full budget
    Width,      \* tokens of a decode row: one and its drafts
    Pruned,     \* blocks vLLM recomputes at a prompt's end: 1 under MTP, else 0
    Sync        \* RADIANCE_ADAPTIVE_CHUNK_SYNC

ASSUME BudgetAssumption ==
    /\ Block \in Nat \ {0} /\ Cap \in Nat /\ Big \in Nat
    /\ 0 < Cap /\ Cap < Big            \* _check
    /\ Block <= Cap
    /\ Lengths \subseteq Nat \ {0} /\ Width \in Nat \ {0}
    /\ Pruned \in {0, 1} /\ Sync \in BOOLEAN
    /\ IsFiniteSet(Req)

VARIABLES
    size,       \* prompt length of a client's request, 0 without one
    computed,   \* num_computed_tokens, up to the prompt's end
    running,    \* the scheduler's queues, in order
    waiting,
    inbox,      \* requests the engine loop has not taken yet
    flight,     \* scheduled steps whose results are not taken, oldest first
    done,       \* the oldest of them has finished on the GPU
    pc,         \* what the engine loop does next: "take", "step" or "block"
    ahead       \* tokens scheduled ahead of the first pending request
vars == <<size, computed, running, waiting, inbox, flight, done, pc, ahead>>

Init ==
    /\ size = [r \in Req |-> 0]
    /\ computed = [r \in Req |-> 0]
    /\ running = <<>> /\ waiting = <<>> /\ inbox = <<>>
    /\ flight = <<>> /\ done = FALSE
    /\ pc = "take" /\ ahead = 0

------------------------------------------------------------------------------
Decoding(r) == computed[r] = size[r]

\* The tokens a request still has to schedule; a decoding one always has its
\* next token and its drafts.
\* Mutant of Left: drafts are counted while the prompt is being computed.
LeftWithDrafts(r) == IF Decoding(r) THEN Width ELSE size[r] - computed[r] + Width
Left(r) == IF Decoding(r) THEN Width ELSE size[r] - computed[r]

Unfinished == running \o waiting

\* Those of a queue that are in S.
Only(queue, S) ==
    LET kept[i \in 0 .. Len(queue)] ==
            IF i = 0 THEN <<>>
            ELSE IF queue[i] \in S THEN Append(kept[i - 1], queue[i]) ELSE kept[i - 1]
    IN  kept[Len(queue)]

\* Mutant of SoloLong: only the running queue is counted.
SoloLongRunning == {r \in ToSet(running) : Len(running) = 1 /\ Left(r) > Cap}

\* The request that is alone in the scheduler with a long way to go, if any.
SoloLong == {r \in ToSet(Unfinished) : Len(Unfinished) = 1 /\ Left(r) > Cap}

Budget == IF SoloLong # {} THEN Big ELSE Cap

\* Mutants of Hold: without Sync, and without the test of the queue.
HoldNever == FALSE
HoldIdle == Sync /\ SoloLong # {}

\* A step is in flight and the next one would be a big one.
Hold == Sync /\ flight # <<>> /\ SoloLong # {}

\* The last position of a prompt whose state is cached.
LastCached(r) ==
    LET floor == (size[r] \div Block - Pruned) * Block
    IN  IF floor > 0 THEN floor ELSE 0

\* What a request gets of a rest of the budget: prefill chunks end at block
\* boundaries, and at the last one of the prompt.
Chunk(r, rest) ==
    LET n == IF Left(r) < rest THEN Left(r) ELSE rest
        end == computed[r] + n
    IN  IF Decoding(r) \/ computed[r] >= LastCached(r) THEN n
        ELSE IF end < LastCached(r) THEN (n \div Block) * Block
        ELSE LastCached(r) - computed[r]

\* What each unfinished request gets of the budget: the running ones in order,
\* then the waiting ones up to the first that gets nothing.  Along the queue
\* goes the rest of the budget and whether the waiting ones may still enter.
Share(i, before) ==
    IF i <= Len(running) \/ before.open THEN Chunk(Unfinished[i], before.rest) ELSE 0

After(i, before) ==
    [rest |-> before.rest - Share(i, before),
     open |-> before.open /\ (i <= Len(running) \/ Share(i, before) > 0)]

Along ==
    LET a[i \in 0 .. Len(Unfinished)] ==
            IF i = 0 THEN [rest |-> Budget, open |-> TRUE] ELSE After(i, a[i - 1])
    IN  [i \in 0 .. Len(Unfinished) |-> a[i]]

------------------------------------------------------------------------------
\* The tokens of the steps that have not finished on the GPU.
Queued(steps, d) ==
    (IF Len(steps) > 0 /\ ~d THEN steps[1].tokens ELSE 0)
        + (IF Len(steps) > 1 THEN steps[2].tokens ELSE 0)

Pending == waiting \o inbox

Arrive(r) ==
    /\ size[r] = 0
    /\ \A i \in 1 .. Len(flight) : r \notin flight[i].who
    /\ \E n \in Lengths : size' = [size EXCEPT ![r] = n]
    /\ inbox' = Append(inbox, r)
    /\ ahead' = IF Pending = <<>> THEN Queued(flight, done) ELSE ahead
    /\ UNCHANGED <<computed, running, waiting, flight, done, pc>>

\* The loop takes its input queue, sleeping while there is nothing to do.
Take ==
    /\ pc = "take"
    /\ inbox # <<>> \/ Unfinished # <<>> \/ flight # <<>>
    /\ waiting' = waiting \o inbox /\ inbox' = <<>>
    /\ pc' = "step"
    /\ UNCHANGED <<size, computed, running, flight, done, ahead>>

\* step_with_batch_queue schedules; it goes on without waiting for a result
\* while there is room for another step.
Schedule ==
    /\ pc = "step" /\ Unfinished # <<>> /\ ~Hold
    /\ \E along \in {Along} :
         LET place(r) == CHOOSE i \in 1 .. Len(Unfinished) : Unfinished[i] = r
             got(r) == along[place(r) - 1].rest - along[place(r)].rest
             step == [tokens |-> Budget - along[Len(Unfinished)].rest,
                      who |-> {r \in ToSet(Unfinished) : got(r) > 0}]
             admitted == Only(waiting, step.who)
         IN  /\ computed' = [r \in Req |->
                   IF r \in step.who /\ ~Decoding(r) THEN computed[r] + got(r)
                   ELSE computed[r]]
             /\ running' = running \o admitted
             /\ waiting' = Only(waiting, Req \ step.who)
             /\ flight' = Append(flight, step)
             /\ ahead' = CASE waiting' \o inbox = <<>> -> 0
                           [] admitted = <<>> /\ waiting # <<>> -> ahead + step.tokens
                           [] OTHER -> Queued(flight', done)
             /\ pc' = IF step.tokens > 0 /\ Len(flight') < 2 /\ ~done
                      THEN "take" ELSE "block"
    /\ UNCHANGED <<size, inbox, done>>

\* Nothing is scheduled ahead: the loop waits for the step in flight.
WaitForStep ==
    /\ pc = "step" /\ (Unfinished = <<>> \/ Hold)
    /\ pc' = IF flight = <<>> THEN "take" ELSE "block"
    /\ UNCHANGED <<size, computed, running, waiting, inbox, flight, done, ahead>>

\* The loop takes the oldest result; requests that decoded in it may end.
Pop ==
    /\ pc = "block" /\ done
    /\ \E ended \in SUBSET {r \in flight[1].who : Decoding(r)} :
         /\ size' = [r \in Req |-> IF r \in ended THEN 0 ELSE size[r]]
         /\ computed' = [r \in Req |-> IF r \in ended THEN 0 ELSE computed[r]]
         /\ running' = Only(running, Req \ ended)
    /\ flight' = Tail(flight) /\ done' = FALSE
    /\ pc' = "take"
    /\ UNCHANGED <<waiting, inbox, ahead>>

\* The GPU finishes the oldest step.
Complete ==
    /\ flight # <<>> /\ ~done
    /\ done' = TRUE
    /\ UNCHANGED <<size, computed, running, waiting, inbox, flight, pc, ahead>>

Engine == Take \/ Schedule \/ WaitForStep \/ Pop
Next == (\E r \in Req : Arrive(r)) \/ Engine \/ Complete

Spec == Init /\ [][Next]_vars
FairSpec == Spec /\ WF_vars(Engine) /\ WF_vars(Complete)

------------------------------------------------------------------------------
TypeOK ==
    /\ size \in [Req -> Lengths \cup {0}]
    /\ computed \in [Req -> Nat] /\ \A r \in Req : computed[r] <= size[r]
    /\ \A q \in {running, waiting, inbox} : q \in Seq(Req)
    /\ IsInjective(running \o waiting \o inbox)
    /\ ToSet(running \o waiting \o inbox) = {r \in Req : size[r] > 0}
    /\ Len(flight) <= 2
    /\ \A i \in 1 .. Len(flight) : flight[i].tokens \in Nat /\ flight[i].who \subseteq Req
    /\ done \in BOOLEAN /\ (done => flight # <<>>)
    /\ pc \in {"take", "step", "block"} /\ ahead \in Nat

\* What the steps in flight may hold when a request becomes the next in line.
MostInFlight == IF Sync THEN Big + Cap ELSE 2 * Big

InTail(r) == ~Decoding(r) /\ computed[r] >= LastCached(r)

\* A request that fits into a block and is next in line waits for the steps in flight,
\* and is passed over after that only by capped steps that bring the tail of a prompt
\* admitted before it nearer to its end (radiance_adaptive_chunk.py: the budget, hold
\* under SYNC): mid-prompt chunks are whole blocks and leave room for it.
PassedOverForTails ==
    [][LET r == Pending'[1] IN
       Pending' # <<>> /\ size'[r] < Block /\ ahead' > MostInFlight =>
          /\ Pending # <<>> /\ Pending[1] = r
          /\ ahead' # ahead =>
                /\ ahead' <= ahead + Cap
                /\ \E q \in ToSet(running) : InTail(q) /\ computed'[q] > computed[q]]_vars

\* A step of more than Cap tokens holds one request and starts with nothing
\* else in flight (budget and hold agree on what a big step is).
BigStepsRunAlone ==
    [][Len(flight') > Len(flight) /\ flight'[Len(flight')].tokens > Cap
          => flight = <<>> /\ Cardinality(flight'[1].who) = 1]_vars

\* However chunks are floored to blocks and cut to the cap, and however long
\* the loop holds a step back, every prompt is computed to its end.
PromptsFinish == \A r \in Req : computed[r] < size[r] ~> Decoding(r)
==============================================================================
