------------------------------- MODULE ArOverlap -------------------------------
(***************************************************************************)
(* The pipelined all-reduce of a row-parallel linear (radiance_aroverlap.py*)
(* mxfp4_linear_ar): one rank's host, which only queues work, and the two  *)
(* device streams, which run it.  The comm stream runs the GEMM slice by   *)
(* slice out of and into two scratch buffers that every call shares; main  *)
(* quantises into the first and reduces the slices as they come.  The host *)
(* may be several calls ahead of the device.                               *)
(***************************************************************************)
EXTENDS Arith, Sequences

CONSTANTS
    AoRows,     \* numbers of rows a call may have
    AoMinM,     \* RADIANCE_AR_OVERLAP_MIN_M
    AoSlices,   \* RADIANCE_AR_OVERLAP_SLICES
    AoCalls     \* bound: calls

ASSUME AoAssumption == AoSlices \in Nat \ {0} /\ AoRows \subseteq Nat \ {0} /\ AoMinM \in Nat

VARIABLES
    aoM,       \* by call: its rows
    aoMain,    \* the main stream: operations not yet run, in order
    aoComm,    \* the comm stream
    aoEvents,  \* events that have fired
    aoX8,      \* the quantised activation: by row, the call it belongs to
    aoY,       \* the GEMM's output: by row, the call and the row it was computed from
    aoOut      \* by call: the rows reduced so far, each with what was reduced

aoVars == <<aoM, aoMain, aoComm, aoEvents, aoX8, aoY, aoOut>>

AllRows == UNION {0 .. (m - 1) : m \in AoRows}

\* Mutant of SliceRows: the remainder is lost.
SliceRowsEven(m, i) == LET w == m \div AoSlices IN {r \in AllRows : i * w <= r /\ r < (i + 1) * w}

\* bounds[i] .. bounds[i + 1]
SliceRows(m, i) == {r \in AllRows : (i * m) \div AoSlices <= r /\ r < ((i + 1) * m) \div AoSlices}

AoInit ==
    /\ aoM = <<>> /\ aoMain = <<>> /\ aoComm = <<>> /\ aoEvents = {}
    /\ aoX8 = [r \in AllRows |-> 0]
    /\ aoY = [r \in AllRows |-> <<0, 0>>]
    /\ aoOut = <<>>

Ready == -1   \* the event recorded after the quantisation; slices count from 0

Do(op, call, slice, rows) == [op |-> op, call |-> call, slice |-> slice, rows |-> rows]

Steps(f(_)) == [i \in 1 .. AoSlices |-> f(i - 1)]
Flat(s, t) == [i \in 1 .. 2 * AoSlices |-> IF i % 2 = 1 THEN s[(i + 1) \div 2] ELSE t[i \div 2]]

\* Mutant of ReadyWait: the comm stream starts at once.
ReadyWaitNone(c) == <<>>

\* _comm_stream.wait_event(ready)
ReadyWait(c) == <<Do("wait", c, Ready, {})>>

\* Mutant of MainWaits: the main stream waits for the last slice only at the end.
MainWaitsFirst(c, i) == Do("wait", c, 0, {})

\* main.wait_event(e) ahead of each slice's reduction.
MainWaits(c, i) == Do("wait", c, i, {})

\* A call of fewer rows runs the stock op and its reduction on the main stream.
EnqueuePlain(m) ==
    LET c == Len(aoM) + 1
    IN  /\ aoM' = Append(aoM, m)
        /\ aoMain' = Append(aoMain, Do("plain", c, 0, 0 .. m - 1))
        /\ aoOut' = Append(aoOut, [r \in 0 .. m - 1 |-> <<>>])
        /\ UNCHANGED <<aoComm, aoEvents, aoX8, aoY>>

\* Quantise, mark it ready; a GEMM and an event per slice on the comm stream; a wait
\* and a reduction per slice on the main stream.
EnqueueSliced(m) ==
    LET c == Len(aoM) + 1
    IN  /\ aoM' = Append(aoM, m)
        /\ aoMain' = aoMain \o <<Do("quant", c, 0, 0 .. m - 1), Do("record", c, Ready, {})>>
               \o Flat(Steps(LAMBDA i : MainWaits(c, i)),
                       Steps(LAMBDA i : Do("reduce", c, i, SliceRows(m, i))))
        /\ aoComm' = aoComm \o ReadyWait(c)
               \o Flat(Steps(LAMBDA i : Do("gemm", c, i, SliceRows(m, i))),
                       Steps(LAMBDA i : Do("record", c, i, {})))
        /\ aoOut' = Append(aoOut, [r \in 0 .. m - 1 |-> <<>>])
        /\ UNCHANGED <<aoEvents, aoX8, aoY>>

\* mxfp4_linear_ar
Enqueue ==
    /\ Len(aoM) < AoCalls
    /\ \E m \in AoRows : IF m < AoMinM THEN EnqueuePlain(m) ELSE EnqueueSliced(m)

\* One operation of a stream runs; a wait blocks it until the event has fired.
Perform(o) ==
    CASE o.op = "wait" ->
           /\ <<o.call, o.slice>> \in aoEvents
           /\ UNCHANGED <<aoEvents, aoX8, aoY, aoOut>>
      [] o.op = "record" ->
           /\ aoEvents' = aoEvents \cup {<<o.call, o.slice>>}
           /\ UNCHANGED <<aoX8, aoY, aoOut>>
      [] o.op = "quant" ->
           /\ aoX8' = [r \in AllRows |-> IF r \in o.rows THEN o.call ELSE aoX8[r]]
           /\ UNCHANGED <<aoEvents, aoY, aoOut>>
      [] o.op = "gemm" ->
           /\ aoY' = [r \in AllRows |-> IF r \in o.rows THEN <<aoX8[r], r>> ELSE aoY[r]]
           /\ UNCHANGED <<aoEvents, aoX8, aoOut>>
      [] o.op = "reduce" ->
           /\ aoOut' = [aoOut EXCEPT ![o.call] =
                 [r \in DOMAIN @ |-> IF r \in o.rows THEN Append(@[r], aoY[r]) ELSE @[r]]]
           /\ UNCHANGED <<aoEvents, aoX8, aoY>>
      [] o.op = "plain" ->
           /\ aoOut' = [aoOut EXCEPT ![o.call] =
                 [r \in DOMAIN @ |-> Append(@[r], <<o.call, r>>)]]
           /\ UNCHANGED <<aoEvents, aoX8, aoY>>

RunMain == aoMain # <<>> /\ Perform(Head(aoMain)) /\ aoMain' = Tail(aoMain) /\ UNCHANGED <<aoM, aoComm>>
RunComm == aoComm # <<>> /\ Perform(Head(aoComm)) /\ aoComm' = Tail(aoComm) /\ UNCHANGED <<aoM, aoMain>>

AoNext == Enqueue \/ RunMain \/ RunComm

AoSpec == AoInit /\ [][AoNext]_aoVars

-----------------------------------------------------------------------------
(* Properties                                                              *)

\* Whatever the device runs first, a call's output holds each of its rows reduced
\* once, computed from the call's own activation: neither the next call's
\* quantisation nor its GEMM may reach a buffer the last call still reads.
OwnRowsOnce ==
    \A c \in 1 .. Len(aoM) :
       /\ \A r \in DOMAIN aoOut[c] : aoOut[c][r] \in {<<>>, <<<<c, r>>>>}
       /\ (\A i \in 1 .. Len(aoMain) : aoMain[i].call # c) =>
              \A r \in DOMAIN aoOut[c] : aoOut[c][r] = <<<<c, r>>>>
=============================================================================
