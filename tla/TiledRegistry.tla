----------------------------- MODULE TiledRegistry -----------------------------
(***************************************************************************)
(* How a GEMM learns that the activation it is handed was written in       *)
(* fragment order (radiance_mxfp4.py, a_tiled_take): the producer leaves  *)
(* the shape under the tensor's address, the consumer takes it from there. *)
(* The allocator hands an address out again as soon as its tensor is gone, *)
(* to producers that tile and to producers that do not.                    *)
(***************************************************************************)
EXTENDS Integers, Sequences, TLAPS

CONSTANTS
    TrAddrs,    \* addresses the allocator reuses
    TrSites,    \* [k, tiles]: producers; the gated norm's never tile
    TrRows,     \* numbers of rows of a step
    TrMin       \* RADIANCE_MXFP4_A_TILED_MIN_M; 0 switches the layout off

ASSUME RegistryAssumption == TrMin \in Nat /\ TrRows \subseteq Nat

VARIABLES
    trM,        \* the rows of the step under way
    trTensors,  \* activations produced and not consumed: [addr, m, k, tiled]
    trTable,    \* _A_TILED
    trRead      \* what the last GEMM took its activation for: [tiled, as, raised]

trVars == <<trM, trTensors, trTable, trRead>>

Shape0 == <<0, 0>>
NoRead == [tiled |-> FALSE, as |-> FALSE, raised |-> FALSE]

TrInit ==
    /\ trM \in TrRows
    /\ trTensors = {} /\ trTable = [a \in TrAddrs |-> Shape0] /\ trRead = NoRead

\* a_tiled_wanted
Wanted(m) == TrMin > 0 /\ m >= TrMin

\* A producer of the fp8 stream writes its codes, tiled for a large batch.
Produce ==
    /\ \E a \in TrAddrs, s \in TrSites :
          /\ \A t \in trTensors : t.addr # a
          /\ trTensors' = trTensors \cup {[addr |-> a, m |-> trM, k |-> s.k,
                                           tiled |-> s.tiles /\ Wanted(trM)]}
          /\ trTable' = IF s.tiles /\ Wanted(trM) THEN [trTable EXCEPT ![a] = <<trM, s.k>>] ELSE trTable
    /\ UNCHANGED <<trM, trRead>>

\* Mutant of Taken: the entry stays in the table.
TakenStays(a) == trTable

\* a_tiled_take pops the entry.
Taken(a) == IF TrMin = 0 THEN trTable ELSE [trTable EXCEPT ![a] = Shape0]

\* mxfp4_linear_pq: the shape on record decides how the codes are read.
Consume ==
    /\ \E t \in trTensors :
          /\ trRead' = [tiled |-> t.tiled,
                        as |-> TrMin > 0 /\ trTable[t.addr] # Shape0,
                        raised |-> TrMin > 0 /\ trTable[t.addr] \notin {Shape0, <<t.m, t.k>>}]
          /\ trTable' = Taken(t.addr)
          /\ trTensors' = trTensors \ {t}
    /\ UNCHANGED trM

\* The next forward, with another batch.
NextForward ==
    /\ trTensors = {}
    /\ trM' \in TrRows
    /\ UNCHANGED <<trTensors, trTable, trRead>>

TrNext == Produce \/ Consume \/ NextForward
TrSpec == TrInit /\ [][TrNext]_trVars

-----------------------------------------------------------------------------
(* Properties                                                              *)

\* A GEMM reads its activation in the order it was written in, and no shape left
\* by an earlier tenant of the address makes it raise.
ReadAsWritten == trRead.as = trRead.tiled /\ ~trRead.raised

-----------------------------------------------------------------------------
(* Proofs                                                                  *)

\* At an address with a tensor the table has the shape of a tiled one and nothing of
\* another; at an address without it has nothing.
EntriesOfTenants ==
    /\ trM \in TrRows
    /\ trTable \in [TrAddrs -> Nat \X {s.k : s \in TrSites} \cup {Shape0}]
    /\ \A t \in trTensors :
          /\ t.addr \in TrAddrs
          /\ t.tiled \in BOOLEAN
          /\ trTable[t.addr] = IF t.tiled THEN <<t.m, t.k>> ELSE Shape0
          /\ t.tiled => TrMin > 0 /\ <<t.m, t.k>> # Shape0
    /\ \A t, u \in trTensors : t.addr = u.addr => t = u
    /\ \A a \in TrAddrs : (\A t \in trTensors : t.addr # a) => trTable[a] = Shape0

RegistryInv == EntriesOfTenants /\ ReadAsWritten

LEMMA RegistryInit == TrInit => RegistryInv
BY DEF TrInit, RegistryInv, EntriesOfTenants, ReadAsWritten, NoRead

LEMMA ProduceKeeps == RegistryInv /\ Produce => RegistryInv'
<1>. SUFFICES ASSUME RegistryInv, Produce PROVE RegistryInv'
  OBVIOUS
<1>. USE RegistryAssumption DEF RegistryInv
<1>. PICK a \in TrAddrs, s \in TrSites :
        /\ \A t \in trTensors : t.addr # a
        /\ trTensors' = trTensors \cup {[addr |-> a, m |-> trM, k |-> s.k,
                                         tiled |-> s.tiles /\ Wanted(trM)]}
        /\ trTable' = IF s.tiles /\ Wanted(trM) THEN [trTable EXCEPT ![a] = <<trM, s.k>>] ELSE trTable
  BY DEF Produce
<1>1. UNCHANGED <<trM, trRead>>
  BY DEF Produce
<1>. DEFINE new == [addr |-> a, m |-> trM, k |-> s.k, tiled |-> s.tiles /\ Wanted(trM)]
<1>2. new.addr = a /\ new.m = trM /\ new.k = s.k /\ new.tiled = (s.tiles /\ Wanted(trM))
  OBVIOUS
<1>3. trM \in Nat /\ trTable[a] = Shape0
  BY DEF EntriesOfTenants
<1>4. new.tiled => TrMin > 0 /\ trM # 0
  <2>1. Wanted(trM) => TrMin > 0 /\ trM # 0
    BY <1>3 DEF Wanted
  <2>. QED  BY <1>2, <2>1, Zenon
<1>5. /\ trTable' = [trTable EXCEPT ![a] = IF new.tiled THEN <<new.m, new.k>> ELSE Shape0]
      /\ trTable'[a] = IF new.tiled THEN <<new.m, new.k>> ELSE Shape0
      /\ \A b \in TrAddrs \ {a} : trTable'[b] = trTable[b]
  BY <1>2, <1>3 DEF EntriesOfTenants
<1>6. trTensors' = trTensors \cup {new} /\ \A t \in trTensors : t.addr # a
  OBVIOUS
<1>7. <<new.m, new.k>> \in Nat \X {z.k : z \in TrSites} /\ new.tiled \in BOOLEAN
  BY <1>2, <1>3 DEF Wanted
<1>8. new.tiled => <<new.m, new.k>> # Shape0
  BY <1>2, <1>4 DEF Shape0
<1>. HIDE DEF new
<1>9. trTable' \in [TrAddrs -> Nat \X {z.k : z \in TrSites} \cup {Shape0}]
  BY <1>5, <1>7 DEF EntriesOfTenants
<1>10. ASSUME NEW t \in trTensors
       PROVE  /\ t.addr \in TrAddrs /\ t.addr # a /\ t.tiled \in BOOLEAN
              /\ trTable'[t.addr] = IF t.tiled THEN <<t.m, t.k>> ELSE Shape0
              /\ t.tiled => TrMin > 0 /\ <<t.m, t.k>> # Shape0
  <2>1. t.addr \in TrAddrs \ {a}
    BY <1>6 DEF EntriesOfTenants
  <2>2. trTable'[t.addr] = trTable[t.addr]
    BY <1>5, <2>1
  <2>. QED  BY <2>1, <2>2 DEF EntriesOfTenants
<1>11. /\ new.addr \in TrAddrs /\ new.tiled \in BOOLEAN
       /\ trTable'[new.addr] = IF new.tiled THEN <<new.m, new.k>> ELSE Shape0
       /\ new.tiled => TrMin > 0 /\ <<new.m, new.k>> # Shape0
  BY <1>2, <1>4, <1>5, <1>7, <1>8
<1>12. \A t, u \in trTensors' : t.addr = u.addr => t = u
  <2>1. \A t, u \in trTensors : t.addr = u.addr => t = u
    BY DEF EntriesOfTenants
  <2>2. \A t \in trTensors : t.addr # new.addr
    BY <1>2, <1>6
  <2>. QED  BY <1>6, <2>1, <2>2
<1>13. \A b \in TrAddrs : (\A t \in trTensors' : t.addr # b) => trTable'[b] = Shape0
  <2>. SUFFICES ASSUME NEW b \in TrAddrs, \A t \in trTensors' : t.addr # b
                PROVE  trTable'[b] = Shape0
    OBVIOUS
  <2>1. b # a /\ \A t \in trTensors : t.addr # b
    BY <1>2, <1>6
  <2>2. trTable'[b] = trTable[b]
    BY <1>5, <2>1
  <2>. QED  BY <2>1, <2>2 DEF EntriesOfTenants
<1>14. trM' \in TrRows
  BY <1>1 DEF EntriesOfTenants
<1>15. ReadAsWritten'
  BY <1>1 DEF ReadAsWritten
<1>16. \A t \in trTensors' : t \in trTensors \/ t = new
  BY <1>6
<1>. QED
  BY <1>9, <1>10, <1>11, <1>12, <1>13, <1>14, <1>15, <1>16 DEF EntriesOfTenants

LEMMA ConsumeKeeps == RegistryInv /\ Consume => RegistryInv'
<1>. SUFFICES ASSUME RegistryInv, Consume PROVE RegistryInv'
  OBVIOUS
<1>. USE RegistryAssumption DEF RegistryInv
<1>. PICK t \in trTensors :
        /\ trRead' = [tiled |-> t.tiled,
                      as |-> TrMin > 0 /\ trTable[t.addr] # Shape0,
                      raised |-> TrMin > 0 /\ trTable[t.addr] \notin {Shape0, <<t.m, t.k>>}]
        /\ trTable' = Taken(t.addr)
        /\ trTensors' = trTensors \ {t}
  BY DEF Consume
<1>1. UNCHANGED trM
  BY DEF Consume
<1>2. /\ t.addr \in TrAddrs /\ t.tiled \in BOOLEAN
      /\ trTable[t.addr] = IF t.tiled THEN <<t.m, t.k>> ELSE Shape0
      /\ t.tiled => TrMin > 0 /\ <<t.m, t.k>> # Shape0
  BY DEF EntriesOfTenants
<1>3. trTable[t.addr] \in {Shape0, <<t.m, t.k>>}
  BY <1>2
<1>4. t.tiled = (TrMin > 0 /\ trTable[t.addr] # Shape0)
  BY <1>2
<1>5. ReadAsWritten'
  BY <1>3, <1>4 DEF ReadAsWritten
\* Without the layout there is nothing to take.
<1>6. /\ trTable'[t.addr] = Shape0
      /\ \A b \in TrAddrs \ {t.addr} : trTable'[b] = trTable[b]
      /\ trTable' \in [TrAddrs -> Nat \X {z.k : z \in TrSites} \cup {Shape0}]
  <2>1. CASE TrMin = 0
    BY <1>2, <2>1 DEF Taken, EntriesOfTenants
  <2>2. CASE TrMin # 0
    BY <1>2, <2>2 DEF Taken, EntriesOfTenants
  <2>. QED  BY <2>1, <2>2
<1>7. \A u \in trTensors' : u \in trTensors /\ u.addr # t.addr
  BY DEF EntriesOfTenants
<1>8. EntriesOfTenants'
  <2>1. \A u \in trTensors' : trTable'[u.addr] = trTable[u.addr]
    BY <1>6, <1>7 DEF EntriesOfTenants
  <2>2. \A a \in TrAddrs : (\A u \in trTensors' : u.addr # a) => trTable'[a] = Shape0
    <3>. TAKE a \in TrAddrs
    <3>. HAVE \A u \in trTensors' : u.addr # a
    <3>1. CASE a = t.addr
      BY <1>6, <3>1
    <3>2. CASE a # t.addr
      <4>1. \A u \in trTensors : u.addr # a
        BY <3>2
      <4>. QED  BY <1>6, <3>2, <4>1 DEF EntriesOfTenants
    <3>. QED  BY <3>1, <3>2
  <2>. QED  BY <1>1, <1>6, <1>7, <2>1, <2>2 DEF EntriesOfTenants
<1>. QED  BY <1>5, <1>8

LEMMA RegistryNext == RegistryInv /\ [TrNext]_trVars => RegistryInv'
<1>1. RegistryInv /\ NextForward => RegistryInv'
  BY DEF RegistryInv, NextForward, EntriesOfTenants, ReadAsWritten
<1>2. RegistryInv /\ UNCHANGED trVars => RegistryInv'
  BY DEF RegistryInv, trVars, EntriesOfTenants, ReadAsWritten
<1>. QED  BY <1>1, <1>2, ProduceKeeps, ConsumeKeeps DEF TrNext

\* However the allocator reuses addresses, between producers that tile and producers that
\* do not, a GEMM reads its activation in the order it was written in: for any number of
\* addresses, any shapes, batches and limit.
THEOREM RegistryCorrect == TrSpec => []ReadAsWritten
<1>1. RegistryInv => ReadAsWritten
  BY DEF RegistryInv
<1>. QED  BY <1>1, RegistryInit, RegistryNext, PTL DEF TrSpec
=============================================================================
