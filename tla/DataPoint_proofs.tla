-------------------------- MODULE DataPoint_proofs --------------------------
(* What holds of DataPoint for any handlers, addresses, values and events whose *)
(* chunks fit a telegram (ChunkAssumption: WriteChunk and ReadFails are not the *)
(* code's for longer ones).                                                     *)
EXTENDS DataPoint, Integers, TLAPS

USE NoneAssumption, ValueAssumption, SizeAssumption, StepAssumption, RawAssumption

\* What RawCmd is asked for: a chunk of an event, or a raw read.
Ranges == Chunks \cup {Bytes(r.addr, r.len) : r \in Raws}

\* The locals of a handler that has none, has not begun to read, only reads, or has
\* a value to write.
Locals == \A p \in Procs :
  /\ pc[p] = "idle" => ev[p] = None /\ val[p] = None
  /\ pc[p] # "idle" => ev[p] \in Events
  /\ pc[p] \in {"idle", "lock"} => i[p] = 0 /\ buf[p] = NoBuf
  /\ pc[p] \in {"lock", "write"} => val[p] # None

\* The loop counter is at the beginning of a chunk.
OnChunk == \A p \in Procs : pc[p] # "idle" => i[p] % Step(ev[p]) = 0

\* A byte that is young enough to be read from the cache has been read.
CacheKnown == \A c \in AnyCell : c[1] \in cached => mem[c] # None

\* A writer has the chunks it has read so far, and writes no others.
HasChunks == \A p \in Procs :
  Writing(p) => \A k \in Offsets(ev[p]) :
    pc[p] = "write" \/ k < i[p]
      => Cells(Bytes(ev[p].addr + k, Step(ev[p]))) \subseteq DOMAIN buf[p]

BufFun == buf = [p \in Procs |-> buf[p]]

PInv == /\ TypeOK /\ BufFun /\ Locals /\ OnChunk /\ CacheKnown /\ HasChunks /\ WLockHeld

\* While a writer is at work, nothing but its own value makes its block differ from
\* what the boiler owes.
BufCurrent == \A p \in Procs :
  Writing(p) => \A c \in DOMAIN buf[p] :
    IF pc[p] = "write" /\ c \in Field(ev[p]) THEN buf[p][c] = val[p]
    ELSE owed[c] # None => buf[p][c] = owed[c]

UInv == PInv /\ KeepsWritten /\ CacheFollowsWrites /\ BufCurrent

-----------------------------------------------------------------------------
(* About chunks.                                                             *)

LEMMA NextMultiple ==
  ASSUME NEW k \in Nat, NEW s \in Nat \ {0}, k % s = 0
  PROVE  (k + s) % s = 0
  <1> DEFINE d == k \div s
             f == (k + s) \div s
             r == (k + s) % s
  <1>1. d \in Nat /\ k = s * d
    OBVIOUS
  <1>2. f \in Nat /\ r \in 0 .. s - 1 /\ k + s = (s * f) + r
    OBVIOUS
  <1>3. r = s * (d + 1 - f) /\ d + 1 - f \in Int
    BY <1>1, <1>2
  <1>4. ASSUME NEW z \in Int, s * z \in 0 .. s - 1  PROVE s * z = 0
    <2>1. z >= 1 => s * z >= s
      OBVIOUS
    <2>2. z <= -1 => s * z <= -s
      OBVIOUS
    <2> QED  BY <1>4, <2>1, <2>2
  <1> HIDE DEF d, f, r
  <1> QED  BY <1>2, <1>3, <1>4 DEF r

\* There is no multiple of s between k and k + s.
LEMMA SameChunk ==
  ASSUME NEW k \in Nat, NEW j \in Nat, NEW s \in Nat \ {0},
         k % s = 0, j % s = 0, j < k + s
  PROVE  j <= k
  <1> DEFINE d == k \div s
             f == j \div s
  <1>1. d \in Nat /\ k = s * d /\ f \in Nat /\ j = s * f
    OBVIOUS
  <1>2. f <= d => s * f <= s * d
    BY <1>1
  <1>3. f >= d + 1 => s * f >= s * (d + 1)
    BY <1>1
  <1>4. s * (d + 1) = (s * d) + s
    BY <1>1
  <1> HIDE DEF d, f
  <1> QED  BY <1>1, <1>2, <1>3, <1>4

LEMMA EventParts ==
  ASSUME NEW e \in Events
  PROVE  /\ e.addr \in Nat /\ e.len \in 1 .. Width - 1
         /\ Step(e) \in Nat \ {0} /\ e.len + Step(e) <= Width
         /\ e # None
  <1>1. e \in Event /\ Step(e) > 0 /\ e.len + Step(e) <= Width
    OBVIOUS
  <1>2. e.len \in 1 .. Width - 1 /\ e.factor \in 0 .. Width - 1 /\ e.addr \in Nat
    BY <1>1 DEF Event
  <1>3. Step(e) \in Int
    BY <1>2 DEF Step
  <1> QED  BY <1>1, <1>2, <1>3

\* Where a loop is, a chunk begins, and the counter does not wrap on its way to
\* the next one.
LEMMA ChunkHere ==
  ASSUME PInv, NEW p \in Procs, pc[p] # "idle", Looping(p)
  PROVE  /\ ev[p] \in Events /\ i[p] \in Offsets(ev[p])
         /\ Chunk(p) = Bytes(ev[p].addr + i[p], Step(ev[p]))
         /\ Chunk(p) \in Chunks /\ Chunk(p) \subseteq Addr
         /\ ev[p].addr + i[p] \in Chunk(p)
         /\ NextI(p) = [i EXCEPT ![p] = i[p] + Step(ev[p])]
         /\ i[p] + Step(ev[p]) \in 0 .. Width - 1
         /\ (i[p] + Step(ev[p])) % Step(ev[p]) = 0
  <1>1. ev[p] \in Events /\ i[p] \in 0 .. Width - 1 /\ i[p] % Step(ev[p]) = 0
    BY DEF PInv, TypeOK, Locals, OnChunk
  <1>2. /\ ev[p].addr \in Nat /\ ev[p].len \in 1 .. Width - 1
        /\ Step(ev[p]) \in Nat \ {0} /\ ev[p].len + Step(ev[p]) <= Width
    BY <1>1, EventParts
  <1>3. i[p] \in Offsets(ev[p])
    BY <1>1, <1>2 DEF Looping, Offsets
  <1>4. Chunk(p) = Bytes(ev[p].addr + i[p], Step(ev[p]))
    BY DEF Chunk
  <1>5. Chunk(p) \in Chunks /\ Chunk(p) \subseteq Addr
    BY <1>1, <1>3, <1>4 DEF Chunks
  <1>6. ev[p].addr + i[p] \in Chunk(p)
    BY <1>1, <1>2, <1>4 DEF Bytes
  <1>7. i[p] + Step(ev[p]) \in 0 .. Width - 1
    <2>1. i[p] < ev[p].len
      BY DEF Looping
    <2> HIDE DEF Looping, Step
    <2> QED  BY <1>1, <1>2, <2>1
  <1>8. NextI(p) = [i EXCEPT ![p] = i[p] + Step(ev[p])]
    <2>1. (i[p] + Step(ev[p])) % Width = i[p] + Step(ev[p])
      BY <1>7
    <2> QED  BY <2>1 DEF NextI
  <1>9. (i[p] + Step(ev[p])) % Step(ev[p]) = 0
    <2>1. i[p] \in Nat /\ Step(ev[p]) \in Nat \ {0}
      BY <1>1, <1>2
    <2> QED  BY <1>1, <2>1, NextMultiple
  <1> QED  BY <1>1, <1>3, <1>4, <1>5, <1>6, <1>7, <1>8, <1>9

-----------------------------------------------------------------------------
(* About the cache.                                                          *)

\* A read returns a value for every part of every byte.
LEMMA FetchedValues ==
  ASSUME PInv, NEW bytes \in SUBSET Addr, NEW c \in Cells(bytes)
  PROVE  c \in AnyCell /\ c[1] \in bytes /\ Fetched(bytes)[c] \in Value
  <1>1. c \in AnyCell /\ c[1] \in bytes
    BY DEF Cells, AnyCell
  <1>2. CASE bytes \subseteq cached
    BY <1>1, <1>2 DEF Fetched, PInv, TypeOK, CacheKnown
  <1>3. CASE ~(bytes \subseteq cached)
    BY <1>1, <1>3 DEF Fetched, PInv, TypeOK
  <1> QED  BY <1>1, <1>2, <1>3

LEMMA KeepCache ==
  ASSUME PInv, NEW bytes \in SUBSET Addr, Keep(bytes)
  PROVE  /\ cached' \subseteq Addr /\ mem' \in [AnyCell -> Value \cup {None}]
         /\ CacheKnown'
  <1>1. \A c \in AnyCell : c[1] \in bytes => Fetched(bytes)[c] \in Value
    <2> SUFFICES ASSUME NEW c \in AnyCell, c[1] \in bytes
                 PROVE  Fetched(bytes)[c] \in Value
      OBVIOUS
    <2>1. c \in Cells(bytes)
      BY DEF Cells, AnyCell
    <2> QED  BY <2>1, FetchedValues
  <1>2. cached' = cached \cup bytes
        /\ mem' = [c \in AnyCell |-> IF c[1] \in bytes THEN Fetched(bytes)[c] ELSE mem[c]]
    BY DEF Keep
  <1>3. mem' \in [AnyCell -> Value \cup {None}]
    BY <1>1, <1>2 DEF PInv, TypeOK
  <1>4. CacheKnown'
    <2> SUFFICES ASSUME NEW c \in AnyCell, c[1] \in cached'  PROVE mem'[c] # None
      BY DEF CacheKnown, AnyCell
    <2> QED  BY <1>1, <1>2 DEF PInv, CacheKnown
  <1> QED  BY <1>2, <1>3, <1>4 DEF PInv, TypeOK

LEMMA DropCache ==
  ASSUME PInv, NEW a, Drop(a)
  PROVE  /\ cached' \subseteq Addr /\ mem' \in [AnyCell -> Value \cup {None}]
         /\ CacheKnown'
  <1>1. /\ cached' = cached \ {a}
        /\ mem' = [c \in AnyCell |-> IF c[1] = a THEN None ELSE mem[c]]
    BY DEF Drop
  <1>2. cached' \subseteq Addr /\ mem' \in [AnyCell -> Value \cup {None}]
    BY <1>1 DEF PInv, TypeOK
  <1>3. CacheKnown'
    BY <1>1 DEF PInv, CacheKnown, AnyCell
  <1> QED  BY <1>2, <1>3

-----------------------------------------------------------------------------
(* Types, locals and the write lock.                                         *)

LEMMA InitPInv == Init => PInv
  <1> SUFFICES ASSUME Init  PROVE PInv
    OBVIOUS
  <1>1. TypeOK
    <2>1. boiler \in [AnyCell -> Value]
      BY DEF Init
    <2>2. i \in [Procs -> 0 .. Width - 1]
      BY DEF Init
    <2>3. \A p \in Procs : buf[p] \in [DOMAIN buf[p] -> Value] /\ DOMAIN buf[p] \subseteq AnyCell
      BY DEF Init, NoBuf
    <2> QED  BY <2>1, <2>2, <2>3 DEF Init, TypeOK
  <1>2. BufFun /\ Locals /\ CacheKnown /\ WLockHeld
    BY DEF Init, BufFun, Locals, CacheKnown, WLockHeld, Writing
  <1>3. OnChunk /\ HasChunks
    BY DEF Init, OnChunk, HasChunks, Writing
  <1> QED  BY <1>1, <1>2, <1>3 DEF PInv

\* What is true of the handlers alone.
HInv == /\ wlock \in Procs \cup {None}
        /\ pc \in [Procs -> {"idle", "lock", "read", "write"}]
        /\ ev \in [Procs -> Events \cup {None}]
        /\ val \in [Procs -> Value \cup {None}]
        /\ i \in [Procs -> 0 .. Width - 1]
        /\ \A p \in Procs : buf[p] \in [DOMAIN buf[p] -> Value] /\ DOMAIN buf[p] \subseteq AnyCell
        /\ BufFun /\ Locals /\ OnChunk /\ HasChunks /\ WLockHeld

\* What is true of the memory and the cache alone.
MInv == /\ boiler \in [AnyCell -> Value]
        /\ cached \subseteq Addr
        /\ mem \in [AnyCell -> Value \cup {None}]
        /\ owed \in [AnyCell -> Value \cup {None}]
        /\ CacheKnown

LEMMA Halves == PInv <=> HInv /\ MInv
  BY DEF PInv, HInv, MInv, TypeOK

LEMMA HalvesNext == HInv' /\ MInv' => PInv'
  BY DEF PInv, HInv, MInv, TypeOK

LEMMA HandlersRest ==
  ASSUME HInv, UNCHANGED <<wlock, procVars>>
  PROVE  HInv'
  BY DEF HInv, BufFun, Locals, OnChunk, HasChunks, WLockHeld, Writing, procVars

LEMMA MemoryRests ==
  ASSUME MInv, UNCHANGED <<boiler, cached, mem, owed>>
  PROVE  MInv'
  BY DEF MInv, CacheKnown

LEMMA Returned ==
  ASSUME HInv, NEW p \in Procs, pc[p] # "idle", Return(p)
  PROVE  HInv'
  <1> USE DEF HInv
  <1>1. /\ pc' = [pc EXCEPT ![p] = "idle"]
        /\ ev' = [ev EXCEPT ![p] = None] /\ val' = [val EXCEPT ![p] = None]
        /\ i' = [i EXCEPT ![p] = 0] /\ buf' = [buf EXCEPT ![p] = NoBuf]
        /\ wlock' = IF wlock = p THEN None ELSE wlock
    BY DEF Return
  <1>2. /\ wlock' \in Procs \cup {None}
        /\ pc' \in [Procs -> {"idle", "lock", "read", "write"}]
        /\ ev' \in [Procs -> Events \cup {None}]
        /\ val' \in [Procs -> Value \cup {None}]
        /\ i' \in [Procs -> 0 .. Width - 1]
    BY <1>1
  <1>3. buf'[p] = NoBuf /\ \A q \in Procs : q # p => buf'[q] = buf[q]
    BY <1>1 DEF BufFun
  <1>4. \A q \in Procs : buf'[q] \in [DOMAIN buf'[q] -> Value] /\ DOMAIN buf'[q] \subseteq AnyCell
    <2>1. NoBuf \in [DOMAIN NoBuf -> Value] /\ DOMAIN NoBuf \subseteq AnyCell
      BY DEF NoBuf
    <2> QED  BY <1>3, <2>1
  <1>5. BufFun'
    BY <1>1, <1>3 DEF BufFun
  <1>6. Locals' /\ OnChunk'
    BY <1>1, <1>3 DEF Locals, OnChunk
  <1>7. HasChunks' /\ WLockHeld'
    BY <1>1, <1>3 DEF HasChunks, WLockHeld, Writing
  <1> QED  BY <1>2, <1>4, <1>5, <1>6, <1>7

LEMMA Begun ==
  ASSUME HInv, NEW p \in Procs, NEW e \in Events, NEW v \in Value \cup {None},
         pc[p] = "idle",
         pc' = [pc EXCEPT ![p] = IF v = None THEN "read" ELSE "lock"],
         ev' = [ev EXCEPT ![p] = e], val' = [val EXCEPT ![p] = v],
         UNCHANGED <<wlock, i, buf>>
  PROVE  HInv'
  <1> USE DEF HInv
  <1>1. BufFun' /\ Locals'
    BY DEF BufFun, Locals
  <1>2. OnChunk'
    <2>1. 0 % Step(e) = 0
      BY EventParts
    <2> QED  BY <2>1 DEF OnChunk, Locals
  <1>3. HasChunks'
    <2> SUFFICES ASSUME NEW q \in Procs, Writing(q)', NEW k \in Offsets(ev'[q]),
                        pc'[q] = "write" \/ k < i'[q]
                 PROVE  Cells(Bytes(ev'[q].addr + k, Step(ev'[q]))) \subseteq DOMAIN buf'[q]
      BY DEF HasChunks, Step, Offsets
    <2>1. q # p
      BY DEF Writing
    <2> QED  BY <2>1 DEF HasChunks, Writing
  <1>4. WLockHeld'
    BY DEF WLockHeld, Writing
  <1> QED  BY <1>1, <1>2, <1>3, <1>4

LEMMA Locked ==
  ASSUME HInv, NEW p \in Procs, Lock(p)
  PROVE  HInv'
  <1> USE DEF HInv, Lock
  <1>1. BufFun' /\ Locals' /\ OnChunk'
    BY DEF BufFun, Locals, OnChunk
  <1>2. HasChunks'
    BY DEF HasChunks, Locals, Writing, Offsets
  <1>3. WLockHeld'
    BY DEF WLockHeld, Writing, Locals
  <1> QED  BY <1>1, <1>2, <1>3

\* A pass of either loop: the counter moves on by a chunk.
LEMMA PassedChunk ==
  ASSUME PInv, NEW p \in Procs, pc[p] # "idle", Looping(p),
         i' = NextI(p), UNCHANGED <<wlock, pc, ev, val>>
  PROVE  i' \in [Procs -> 0 .. Width - 1] /\ OnChunk'
  <1>1. /\ i' = [i EXCEPT ![p] = i[p] + Step(ev[p])]
        /\ i[p] + Step(ev[p]) \in 0 .. Width - 1
        /\ (i[p] + Step(ev[p])) % Step(ev[p]) = 0
    BY ChunkHere
  <1>2. i' \in [Procs -> 0 .. Width - 1]
    BY <1>1 DEF PInv, TypeOK
  <1>3. OnChunk'
    BY <1>1 DEF PInv, TypeOK, OnChunk
  <1> QED  BY <1>2, <1>3

\* What a writer has after one more chunk, and that it is this one.
LEMMA ChunkRead ==
  ASSUME PInv, NEW p \in Procs, ReadChunk(p), val[p] # None
  PROVE  /\ DOMAIN buf'[p] = DOMAIN buf[p] \cup Cells(Chunk(p))
         /\ \A c \in DOMAIN buf'[p] :
              buf'[p][c] = IF c[1] \in Chunk(p) THEN Fetched(Chunk(p))[c] ELSE buf[p][c]
         /\ \A c \in DOMAIN buf'[p] : c \in AnyCell /\ buf'[p][c] \in Value
         /\ buf'[p] \in [DOMAIN buf'[p] -> Value]
  <1> DEFINE new == [c \in DOMAIN buf[p] \cup Cells(Chunk(p)) |->
                       IF c[1] \in Chunk(p) THEN Fetched(Chunk(p))[c] ELSE buf[p][c]]
  <1>1. buf'[p] = new
    BY DEF ReadChunk, PInv, BufFun
  <1>2. Chunk(p) \in SUBSET Addr
    BY ChunkHere DEF ReadChunk
  <1>3. \A c \in DOMAIN buf[p] : c \in AnyCell /\ buf[p][c] \in Value
    BY DEF PInv, TypeOK
  <1>4. ASSUME NEW c \in DOMAIN buf[p] \cup Cells(Chunk(p))
        PROVE  c \in AnyCell /\ new[c] \in Value
    <2>1. CASE c[1] \in Chunk(p)
      <3>1. c \in Cells(Chunk(p))
        BY <1>3, <2>1 DEF Cells, AnyCell
      <3> QED  BY <1>2, <2>1, <3>1, FetchedValues
    <2>2. CASE c[1] \notin Chunk(p)
      <3>1. c \in DOMAIN buf[p]
        BY <2>2 DEF Cells
      <3> QED  BY <1>3, <2>2, <3>1
    <2> QED  BY <2>1, <2>2
  <1> QED  BY <1>1, <1>4

LEMMA ReadsOn ==
  ASSUME PInv, NEW p \in Procs, ReadChunk(p)
  PROVE  HInv'
  <1> USE DEF HInv
  <1>1. /\ pc[p] = "read" /\ Looping(p) /\ i' = NextI(p)
        /\ UNCHANGED <<wlock, pc, ev, val>>
        /\ \A q \in Procs : q # p => buf'[q] = buf[q]
        /\ BufFun'
    BY DEF ReadChunk, PInv, BufFun
  <1>2. i' \in [Procs -> 0 .. Width - 1] /\ OnChunk'
    BY <1>1, PassedChunk
  <1>3. val[p] = None => buf'[p] = NoBuf
    BY DEF ReadChunk, PInv, BufFun
  <1>4. \A q \in Procs : buf'[q] \in [DOMAIN buf'[q] -> Value] /\ DOMAIN buf'[q] \subseteq AnyCell
    <2>1. NoBuf \in [DOMAIN NoBuf -> Value] /\ DOMAIN NoBuf \subseteq AnyCell
      BY DEF NoBuf
    <2>2. \A q \in Procs : buf[q] \in [DOMAIN buf[q] -> Value] /\ DOMAIN buf[q] \subseteq AnyCell
      BY DEF PInv, TypeOK
    <2> QED  BY <1>1, <1>3, <2>1, <2>2, ChunkRead
  <1>5. i' = [i EXCEPT ![p] = i[p] + Step(ev[p])]
    BY <1>1, ChunkHere
  <1>6. Locals'
    BY <1>1, <1>5 DEF PInv, Locals, TypeOK
  <1>7. HasChunks'
    <2> SUFFICES ASSUME NEW q \in Procs, Writing(q), NEW k \in Offsets(ev[q]),
                        pc[q] = "write" \/ k < i'[q]
                 PROVE  Cells(Bytes(ev[q].addr + k, Step(ev[q]))) \subseteq DOMAIN buf'[q]
      BY <1>1 DEF HasChunks, Writing
    <2>1. CASE q # p
      BY <1>1, <1>5, <2>1 DEF PInv, HasChunks, TypeOK
    <2>2. CASE q = p
      <3>1. /\ DOMAIN buf'[p] = DOMAIN buf[p] \cup Cells(Chunk(p))
            /\ Chunk(p) = Bytes(ev[p].addr + i[p], Step(ev[p]))
        BY <1>1, <2>2, ChunkRead, ChunkHere DEF Writing
      <3>2. k < i[p] \/ k = i[p]
        <4>1. k < i[p] + Step(ev[p])
          BY <1>1, <1>5, <2>2 DEF PInv, TypeOK
        <4>2. /\ ev[p] \in Events /\ i[p] \in Offsets(ev[p])
              /\ Step(ev[p]) \in Nat \ {0}
          BY <1>1, ChunkHere, EventParts
        <4>3. /\ k \in Nat /\ k % Step(ev[p]) = 0
              /\ i[p] \in Nat /\ i[p] % Step(ev[p]) = 0
          BY <2>2, <4>2, EventParts DEF Offsets
        <4>4. k <= i[p]
          BY <4>1, <4>2, <4>3, SameChunk
        <4> QED  BY <4>3, <4>4
      <3> QED  BY <2>2, <3>1, <3>2 DEF PInv, HasChunks
    <2> QED  BY <2>1, <2>2
  <1>8. WLockHeld'
    BY <1>1 DEF PInv, WLockHeld, Writing
  <1> QED  BY <1>1, <1>2, <1>4, <1>6, <1>7, <1>8 DEF PInv, TypeOK

\* Encode sets the event's own cells and keeps the rest of the block.
LEMMA Encoded ==
  ASSUME HInv, NEW p \in Procs, Encode(p)
  PROVE  /\ HInv'
         /\ buf'[p] = [c \in DOMAIN buf[p] |-> IF c \in Field(ev[p]) THEN val[p] ELSE buf[p][c]]
         /\ \A q \in Procs : q # p => buf'[q] = buf[q]
  <1> USE DEF HInv
  <1>1. /\ pc[p] = "read" /\ ~Looping(p) /\ val[p] # None
        /\ pc' = [pc EXCEPT ![p] = "write"] /\ i' = [i EXCEPT ![p] = 0]
        /\ UNCHANGED <<wlock, ev, val>>
    BY DEF Encode
  <1>2. /\ buf'[p] = [c \in DOMAIN buf[p] |-> IF c \in Field(ev[p]) THEN val[p] ELSE buf[p][c]]
        /\ \A q \in Procs : q # p => buf'[q] = buf[q]
        /\ BufFun'
    BY DEF Encode, BufFun
  <1>3. ev[p] \in Events /\ ev[p].len \in Nat /\ Step(ev[p]) \in Nat \ {0}
    BY <1>1, EventParts DEF Locals
  <1>4. /\ pc' \in [Procs -> {"idle", "lock", "read", "write"}]
        /\ i' \in [Procs -> 0 .. Width - 1]
        /\ \A q \in Procs : buf'[q] \in [DOMAIN buf'[q] -> Value]
                            /\ DOMAIN buf'[q] \subseteq AnyCell
    <2>1. val[p] \in Value
      BY <1>1
    <2>2. buf'[p] \in [DOMAIN buf'[p] -> Value] /\ DOMAIN buf'[p] \subseteq AnyCell
      BY <1>2, <2>1
    <2> QED  BY <1>1, <1>2, <2>2
  <1>5. Locals'
    BY <1>1, <1>2 DEF Locals
  <1>6. OnChunk'
    <2>1. 0 % Step(ev[p]) = 0
      BY <1>3
    <2> QED  BY <1>1, <2>1 DEF OnChunk
  <1>7. HasChunks'
    <2> SUFFICES ASSUME NEW q \in Procs, Writing(q)', NEW k \in Offsets(ev[q]),
                        pc'[q] = "write" \/ k < i'[q]
                 PROVE  Cells(Bytes(ev[q].addr + k, Step(ev[q]))) \subseteq DOMAIN buf'[q]
      BY <1>1 DEF HasChunks
    <2>1. CASE q # p
      BY <1>1, <1>2, <2>1 DEF HasChunks, Writing
    <2>2. CASE q = p
      <3>1. k < i[p]
        BY <1>1, <1>3, <2>2 DEF Offsets, Looping
      <3> QED  BY <1>1, <1>2, <2>2, <3>1 DEF HasChunks, Writing
    <2> QED  BY <2>1, <2>2
  <1>8. WLockHeld'
    BY <1>1 DEF WLockHeld, Writing
  <1> QED  BY <1>1, <1>2, <1>4, <1>5, <1>6, <1>7, <1>8

\* A chunk is sent: the boiler gets it or not, and what was owed is replaced.
LEMMA ChunkWritten ==
  ASSUME PInv, NEW p \in Procs, NEW outcome \in {"acked", "unheard", "lost"},
         WriteChunk(p, outcome)
  PROVE  /\ HInv'
         /\ boiler' \in [AnyCell -> Value] /\ owed' \in [AnyCell -> Value \cup {None}]
  <1>1. /\ pc[p] = "write" /\ Looping(p) /\ i' = NextI(p)
        /\ UNCHANGED <<wlock, pc, ev, val, buf>>
    BY DEF WriteChunk
  <1>2. i' \in [Procs -> 0 .. Width - 1] /\ OnChunk'
    BY <1>1, PassedChunk
  <1>3. i' = [i EXCEPT ![p] = i[p] + Step(ev[p])]
    BY <1>1, ChunkHere
  <1>4. HInv'
    <2>1. BufFun' /\ Locals' /\ WLockHeld'
      BY <1>1, <1>3 DEF PInv, TypeOK, BufFun, Locals, WLockHeld, Writing
    <2>2. HasChunks'
      BY <1>1, <1>3 DEF PInv, TypeOK, HasChunks, Writing
    <2> QED  BY <1>1, <1>2, <2>1, <2>2 DEF HInv, PInv, TypeOK
  <1>5. val[p] \in Value
    BY <1>1 DEF PInv, TypeOK, Locals
  <1>6. \A c \in AnyCell : c[1] \in Chunk(p) => buf[p][c] \in Value
    <2>1. Writing(p)
      BY <1>1 DEF PInv, Locals, Writing
    <2>2. Cells(Chunk(p)) \subseteq DOMAIN buf[p]
      BY <1>1, <2>1, ChunkHere DEF PInv, HasChunks
    <2>3. \A c \in AnyCell : c[1] \in Chunk(p) => c \in Cells(Chunk(p))
      BY DEF Cells, AnyCell
    <2> QED  BY <2>2, <2>3 DEF PInv, TypeOK
  <1>7. boiler' \in [AnyCell -> Value]
    BY <1>6 DEF WriteChunk, PInv, TypeOK
  <1>8. owed' \in [AnyCell -> Value \cup {None}]
    BY <1>5 DEF WriteChunk, PInv, TypeOK
  <1> QED  BY <1>4, <1>7, <1>8

LEMMA NextPInv == PInv /\ [Next]_vars => PInv'
  <1> SUFFICES ASSUME PInv, [Next]_vars  PROVE HInv' /\ MInv'
    BY Halves, HalvesNext
  <1>0. HInv /\ MInv
    BY Halves
  <1>1. ASSUME NEW p \in Procs, NEW e \in Events, VRead(p, e)  PROVE HInv' /\ MInv'
    BY <1>0, <1>1, Begun, MemoryRests DEF VRead, Begin
  <1>2. ASSUME NEW p \in Procs, NEW e \in Events, NEW v \in Value, VWrite(p, e, v)
        PROVE  HInv' /\ MInv'
    BY <1>0, <1>2, Begun, MemoryRests DEF VWrite, Begin
  <1>3. ASSUME NEW p \in Procs, Lock(p)  PROVE HInv' /\ MInv'
    BY <1>0, <1>3, Locked, MemoryRests DEF Lock
  <1>4. ASSUME NEW p \in Procs, ReadChunk(p)  PROVE HInv' /\ MInv'
    <2>1. Chunk(p) \in SUBSET Addr /\ Keep(Chunk(p)) /\ UNCHANGED <<boiler, owed>>
      BY <1>4, ChunkHere DEF ReadChunk
    <2> QED  BY <1>0, <1>4, <2>1, ReadsOn, KeepCache DEF MInv
  <1>5. ASSUME NEW p \in Procs,
               ReadFails(p) \/ Decode(p) \/ EncodeFails(p) \/ WriteDone(p)
        PROVE  HInv' /\ MInv'
    BY <1>0, <1>5, Returned, MemoryRests DEF ReadFails, Decode, EncodeFails, WriteDone
  <1>6. ASSUME NEW p \in Procs, Encode(p)  PROVE HInv' /\ MInv'
    BY <1>0, <1>6, Encoded, MemoryRests DEF Encode
  <1>7. ASSUME NEW p \in Procs, NEW outcome \in {"acked", "unheard", "lost"},
               WriteChunk(p, outcome)
        PROVE  HInv' /\ MInv'
    <2>1. HInv' /\ boiler' \in [AnyCell -> Value] /\ owed' \in [AnyCell -> Value \cup {None}]
      BY <1>7, ChunkWritten
    <2>2. /\ cached' \subseteq Addr /\ mem' \in [AnyCell -> Value \cup {None}]
          /\ CacheKnown'
      <3>1. CASE outcome = "acked"
        BY <1>7, <3>1, DropCache DEF WriteChunk
      <3>2. CASE outcome # "acked"
        BY <1>0, <1>7, <3>2 DEF WriteChunk, MInv, CacheKnown
      <3> QED  BY <3>1, <3>2
    <2> QED  BY <2>1, <2>2 DEF MInv
  <1>8. ASSUME NEW a \in Addr, Expire(a)  PROVE HInv' /\ MInv'
    BY <1>0, <1>8, HandlersRest, DropCache DEF Expire, MInv
  <1>9. ASSUME NEW c \in Restless, NEW v \in Value, BoilerChanges(c, v)
        PROVE  HInv' /\ MInv'
    <2>1. boiler' \in [AnyCell -> Value] /\ owed' \in [AnyCell -> Value \cup {None}]
      BY <1>0, <1>9 DEF BoilerChanges, MInv
    <2>2. UNCHANGED <<wlock, procVars>> /\ UNCHANGED <<cached, mem>>
      BY <1>9 DEF BoilerChanges
    <2>3. CacheKnown'
      BY <1>0, <2>2 DEF MInv, CacheKnown
    <2> QED  BY <1>0, <2>1, <2>2, <2>3, HandlersRest DEF MInv
  <1>10. ASSUME NEW r \in Raws, RawRead(r)  PROVE HInv' /\ MInv'
    <2>1. /\ Bytes(r.addr, r.len) \in SUBSET Addr /\ Keep(Bytes(r.addr, r.len))
          /\ UNCHANGED <<boiler, owed>> /\ UNCHANGED <<wlock, procVars>>
      BY <1>10 DEF RawRead
    <2> QED  BY <1>0, <2>1, HandlersRest, KeepCache DEF MInv
  <1>11. CASE UNCHANGED vars
    BY <1>0, <1>11, HandlersRest, MemoryRests DEF vars
  <1> QED
    BY <1>1, <1>2, <1>3, <1>4, <1>5, <1>6, <1>7, <1>8, <1>9, <1>10, <1>11
       DEF Next, Request, Work

\* The types, for any handlers, events and numbers: the counters do not run over,
\* what is written to the boiler has been read or is the value to write, and
\* nothing is read from a cache entry that is not there.
THEOREM TypeCorrect == Spec => []TypeOK
  <1>1. PInv => TypeOK
    BY DEF PInv
  <1> QED  BY InitPInv, NextPInv, <1>1, PTL DEF Spec

\* However many handlers write at once, at most one is between its read and its
\* last write, and none leaves with the lock.
THEOREM WLockHeldHolds == Spec => []WLockHeld
  <1>1. PInv => WLockHeld
    BY DEF PInv
  <1> QED  BY InitPInv, NextPInv, <1>1, PTL DEF Spec

-----------------------------------------------------------------------------
(* Lost updates and stale chunks, where no two ranges overlap in part.       *)

\* What the boiler owes in these bytes is in the cache if they all are.
Follows(r) == r \subseteq cached => \A c \in Cells(r) : owed[c] # None => mem[c] = owed[c]

LEMMA FollowsAll == CacheFollowsWrites <=> \A r \in Ranges : Follows(r)
  BY DEF CacheFollowsWrites, Follows, Ranges

LEMMA FollowsAllNext == CacheFollowsWrites' <=> \A r \in Ranges : Follows(r)'
  BY DEF CacheFollowsWrites, Follows, Ranges, Chunks, Bytes, Offsets, Step

LEMMA RangesInMemory ==
  ASSUME NEW r \in Ranges
  PROVE  r \in SUBSET Addr /\ \A c \in Cells(r) : c \in AnyCell /\ c[1] \in r
  <1>1. r \subseteq Addr
    BY DEF Ranges, Chunks
  <1> QED  BY <1>1 DEF Cells, AnyCell

\* Nothing that is owed changes in a range the step does not touch.
LEMMA FollowsStill ==
  ASSUME NEW r \in Ranges, Follows(r), cached' \cap r \subseteq cached,
         \A c \in Cells(r) : owed'[c] \in {owed[c], None} /\ mem'[c] = mem[c]
  PROVE  Follows(r)'
  BY DEF Follows, Cells

\* What RawCmd reads is what is owed, from the cache or from the boiler.
LEMMA FetchedCurrent ==
  ASSUME UInv, NEW bytes \in Ranges, NEW c \in Cells(bytes), owed[c] # None
  PROVE  Fetched(bytes)[c] = owed[c]
  <1>1. c \in AnyCell /\ Follows(bytes)
    BY RangesInMemory, FollowsAll DEF UInv
  <1>2. CASE bytes \subseteq cached
    BY <1>1, <1>2 DEF Fetched, Follows
  <1>3. CASE ~(bytes \subseteq cached)
    BY <1>1, <1>3 DEF Fetched, UInv, KeepsWritten
  <1> QED  BY <1>2, <1>3

LEMMA KeepFollows ==
  ASSUME Aligned, UInv, NEW bytes \in Ranges, Keep(bytes), UNCHANGED owed
  PROVE  CacheFollowsWrites'
  <1> SUFFICES ASSUME NEW r \in Ranges  PROVE Follows(r)'
    BY FollowsAllNext
  <1>1. /\ cached' = cached \cup bytes
        /\ mem' = [c \in AnyCell |-> IF c[1] \in bytes THEN Fetched(bytes)[c] ELSE mem[c]]
    BY DEF Keep
  <1>2. \A c \in Cells(r) : c \in AnyCell /\ c[1] \in r
    BY RangesInMemory
  <1>3. CASE r = bytes
    <2>1. \A c \in Cells(r) : mem'[c] = Fetched(bytes)[c]
      BY <1>1, <1>2, <1>3
    <2> QED  BY <1>3, <2>1, FetchedCurrent DEF Follows
  <1>4. CASE r \cap bytes = {}
    <2>1. \A c \in Cells(r) : mem'[c] = mem[c]
      BY <1>1, <1>2, <1>4
    <2>2. cached' \cap r \subseteq cached
      BY <1>1, <1>4
    <2>3. Follows(r)
      BY FollowsAll DEF UInv
    <2> QED  BY <2>1, <2>2, <2>3, FollowsStill
  <1> QED  BY <1>3, <1>4 DEF Aligned, Ranges

LEMMA DropFollows ==
  ASSUME UInv, NEW a, Drop(a), UNCHANGED owed
  PROVE  CacheFollowsWrites'
  <1> SUFFICES ASSUME NEW r \in Ranges  PROVE Follows(r)'
    BY FollowsAllNext
  <1>1. /\ cached' = cached \ {a}
        /\ mem' = [c \in AnyCell |-> IF c[1] = a THEN None ELSE mem[c]]
    BY DEF Drop
  <1>2. CASE a \in r
    BY <1>1, <1>2 DEF Follows
  <1>3. CASE a \notin r
    <2>1. \A c \in Cells(r) : mem'[c] = mem[c]
      BY <1>1, <1>3, RangesInMemory
    <2>2. Follows(r)
      BY FollowsAll DEF UInv
    <2> QED  BY <1>1, <2>1, <2>2, FollowsStill
  <1> QED  BY <1>2, <1>3

LEMMA InitUInv == Init => UInv
  <1> SUFFICES ASSUME Init  PROVE UInv
    OBVIOUS
  <1>1. KeepsWritten /\ BufCurrent
    BY DEF Init, KeepsWritten, BufCurrent, Writing
  <1>2. CacheFollowsWrites
    <2> SUFFICES ASSUME NEW r \in Ranges  PROVE Follows(r)
      BY FollowsAll
    <2> QED  BY RangesInMemory DEF Init, Follows
  <1> QED  BY <1>1, <1>2, InitPInv DEF UInv

\* A handler that is not the one at work has its block as it was.
LEMMA OthersCurrent ==
  ASSUME UInv, NEW p \in Procs, ~Writing(p)',
         \A q \in Procs : q # p => /\ pc'[q] = pc[q] /\ ev'[q] = ev[q]
                                   /\ val'[q] = val[q] /\ buf'[q] = buf[q],
         UNCHANGED owed
  PROVE  BufCurrent'
  BY DEF UInv, BufCurrent, Writing, Field

LEMMA RestCurrent ==
  ASSUME UInv, UNCHANGED procVars,
         \A c \in AnyCell : owed'[c] \in {owed[c], None}
  PROVE  BufCurrent'
  BY DEF UInv, PInv, TypeOK, BufCurrent, Writing, Field, procVars

\* What a writer reads is current, and still is when it has put its value in.
LEMMA ReadCurrent ==
  ASSUME UInv, NEW p \in Procs, ReadChunk(p)
  PROVE  BufCurrent'
  <1>1. /\ pc[p] = "read" /\ Looping(p) /\ UNCHANGED <<pc, ev, val, owed>>
        /\ \A q \in Procs : q # p => buf'[q] = buf[q]
    BY DEF ReadChunk, UInv, PInv, BufFun
  <1>2. CASE val[p] = None
    BY <1>1, <1>2, OthersCurrent DEF Writing
  <1>3. CASE val[p] # None
    <2>1. /\ DOMAIN buf'[p] = DOMAIN buf[p] \cup Cells(Chunk(p))
          /\ \A c \in DOMAIN buf'[p] :
               buf'[p][c] = IF c[1] \in Chunk(p) THEN Fetched(Chunk(p))[c] ELSE buf[p][c]
          /\ \A c \in DOMAIN buf'[p] : c \in AnyCell
      BY <1>3, ChunkRead DEF UInv
    <2>2. Chunk(p) \in Ranges
      BY <1>1, ChunkHere DEF UInv, Ranges
    <2>3. ASSUME NEW c \in DOMAIN buf'[p], owed[c] # None  PROVE buf'[p][c] = owed[c]
      <3>1. CASE c[1] \in Chunk(p)
        <4>1. c \in Cells(Chunk(p))
          BY <2>1, <3>1 DEF Cells, AnyCell
        <4> QED  BY <2>1, <2>2, <2>3, <3>1, <4>1, FetchedCurrent
      <3>2. CASE c[1] \notin Chunk(p)
        <4>1. c \in DOMAIN buf[p]
          BY <2>1, <3>2 DEF Cells
        <4>2. Writing(p)
          BY <1>1, <1>3 DEF Writing
        <4> QED  BY <1>1, <2>1, <2>3, <3>2, <4>1, <4>2 DEF UInv, BufCurrent
      <3> QED  BY <3>1, <3>2
    <2> QED  BY <1>1, <2>3 DEF UInv, BufCurrent, Writing, Field
  <1> QED  BY <1>2, <1>3

LEMMA EncodeCurrent ==
  ASSUME UInv, NEW p \in Procs, Encode(p)
  PROVE  BufCurrent'
  <1>1. /\ pc[p] = "read" /\ val[p] # None /\ UNCHANGED <<ev, val, owed>>
        /\ pc'[p] = "write" /\ \A q \in Procs : q # p => pc'[q] = pc[q]
    BY DEF Encode, UInv, PInv, TypeOK
  <1>2. /\ buf'[p] = [c \in DOMAIN buf[p] |-> IF c \in Field(ev[p]) THEN val[p] ELSE buf[p][c]]
        /\ \A q \in Procs : q # p => buf'[q] = buf[q]
    BY Encoded, Halves DEF UInv
  <1> QED  BY <1>1, <1>2 DEF UInv, BufCurrent, Writing, Field

\* Writing a block keeps what others have written to it.
LEMMA WriteCurrent ==
  ASSUME Aligned, UInv, NEW p \in Procs, NEW outcome \in {"acked", "unheard", "lost"},
         WriteChunk(p, outcome)
  PROVE  KeepsWritten' /\ CacheFollowsWrites' /\ BufCurrent'
  <1> DEFINE mine == Field(ev[p]) \cap Cells(Chunk(p))
  <1>1. /\ pc[p] = "write" /\ Looping(p) /\ UNCHANGED <<wlock, pc, ev, val, buf>>
        /\ owed' = [c \in AnyCell |-> IF c \notin mine THEN owed[c]
                                      ELSE IF outcome = "acked" THEN val[p] ELSE None]
        /\ boiler' = IF outcome = "lost" THEN boiler
                     ELSE [c \in AnyCell |-> IF c[1] \in Chunk(p) THEN buf[p][c]
                                                                  ELSE boiler[c]]
    BY DEF WriteChunk
  <1>2. Writing(p) /\ \A q \in Procs : Writing(q) => q = p
    BY <1>1 DEF UInv, PInv, Locals, Writing, WLockHeld
  <1>3. /\ Chunk(p) \in Ranges /\ ev[p].addr + i[p] \in Chunk(p)
        /\ Cells(Chunk(p)) \subseteq DOMAIN buf[p]
    BY <1>1, <1>2, ChunkHere DEF UInv, PInv, Ranges, HasChunks
  <1>4. \A c \in DOMAIN buf[p] :
          IF c \in Field(ev[p]) THEN buf[p][c] = val[p]
          ELSE owed[c] # None => buf[p][c] = owed[c]
    BY <1>1, <1>2 DEF UInv, BufCurrent
  <1>5. KeepsWritten'
    <2> SUFFICES ASSUME NEW c \in AnyCell, owed'[c] # None  PROVE boiler'[c] = owed'[c]
      BY DEF KeepsWritten, AnyCell
    <2>1. CASE c[1] \in Chunk(p)
      <3>1. c \in Cells(Chunk(p)) /\ c \in DOMAIN buf[p]
        BY <1>3, <2>1 DEF Cells, AnyCell
      <3>2. CASE c \in Field(ev[p])
        BY <1>1, <1>4, <2>1, <3>1, <3>2
      <3>3. CASE c \notin Field(ev[p])
        BY <1>1, <1>4, <2>1, <3>1, <3>3 DEF UInv, KeepsWritten
      <3> QED  BY <3>2, <3>3
    <2>2. CASE c[1] \notin Chunk(p)
      <3>1. c \notin Cells(Chunk(p))
        BY <2>2 DEF Cells
      <3> QED  BY <1>1, <2>2, <3>1 DEF UInv, KeepsWritten
    <2> QED  BY <2>1, <2>2
  <1>6. CacheFollowsWrites'
    <2> SUFFICES ASSUME NEW r \in Ranges  PROVE Follows(r)'
      BY FollowsAllNext
    <2>1. Follows(r) /\ \A c \in Cells(r) : c \in AnyCell /\ c[1] \in r
      BY FollowsAll, RangesInMemory DEF UInv
    <2>2. CASE outcome = "acked"
      <3>1. /\ cached' = cached \ {ev[p].addr + i[p]}
            /\ mem' = [c \in AnyCell |-> IF c[1] = ev[p].addr + i[p] THEN None ELSE mem[c]]
        BY <2>2 DEF WriteChunk, Drop
      <3>2. CASE r = Chunk(p)
        BY <1>3, <3>1, <3>2 DEF Follows
      <3>3. CASE r \cap Chunk(p) = {}
        <4>1. \A c \in Cells(r) : c \notin mine /\ c[1] # ev[p].addr + i[p]
          BY <1>3, <2>1, <3>3 DEF Cells
        <4>2. \A c \in Cells(r) : owed'[c] = owed[c] /\ mem'[c] = mem[c]
          BY <1>1, <2>1, <3>1, <4>1
        <4> QED  BY <2>1, <3>1, <4>2, FollowsStill
      <3> QED  BY <1>3, <3>2, <3>3 DEF Aligned, Ranges
    <2>3. CASE outcome # "acked"
      <3>1. UNCHANGED <<cached, mem>>
        BY <2>3 DEF WriteChunk
      <3>2. \A c \in Cells(r) : owed'[c] \in {owed[c], None}
        BY <1>1, <2>1, <2>3
      <3> QED  BY <2>1, <3>1, <3>2, FollowsStill
    <2> QED  BY <2>2, <2>3
  <1>7. BufCurrent'
    <2> SUFFICES ASSUME NEW c \in DOMAIN buf[p]
                 PROVE  IF c \in Field(ev[p]) THEN buf[p][c] = val[p]
                        ELSE owed'[c] # None => buf[p][c] = owed'[c]
      BY <1>1, <1>2, SMTT(20) DEF BufCurrent, Writing, Field
    <2>1. c \in AnyCell
      BY DEF UInv, PInv, TypeOK
    <2> QED  BY <1>1, <1>4, <2>1
  <1> QED  BY <1>5, <1>6, <1>7

LEMMA MemorySame ==
  ASSUME UInv, UNCHANGED <<boiler, cached, mem, owed>>
  PROVE  KeepsWritten' /\ CacheFollowsWrites'
  BY DEF UInv, KeepsWritten, CacheFollowsWrites, Chunks, Offsets, Step, Bytes

LEMMA NextUInv ==
  ASSUME Aligned
  PROVE  UInv /\ [Next]_vars => UInv'
  <1> SUFFICES ASSUME UInv, [Next]_vars
               PROVE  KeepsWritten' /\ CacheFollowsWrites' /\ BufCurrent'
    BY NextPInv DEF UInv
  <1> DEFINE Goal == KeepsWritten' /\ CacheFollowsWrites' /\ BufCurrent'
  <1>1. ASSUME NEW p \in Procs, NEW e \in Events, NEW v \in Value \cup {None},
               VRead(p, e) \/ (v # None /\ VWrite(p, e, v))
        PROVE  Goal
    <2>1. /\ UNCHANGED <<boiler, cached, mem, owed>>
          /\ \A q \in Procs : q # p => /\ pc'[q] = pc[q] /\ ev'[q] = ev[q]
                                       /\ val'[q] = val[q] /\ buf'[q] = buf[q]
      BY <1>1 DEF VRead, VWrite, Begin, UInv, PInv, TypeOK
    <2>2. ~Writing(p)'
      BY <1>1 DEF VRead, VWrite, Begin, UInv, PInv, TypeOK, Writing
    <2> QED  BY <2>1, <2>2, MemorySame, OthersCurrent
  <1>2. ASSUME NEW p \in Procs, Lock(p)  PROVE Goal
    <2>1. UNCHANGED <<boiler, cached, mem, ev, val, buf, owed>>
      BY <1>2 DEF Lock
    <2>2. /\ pc[p] = "lock" /\ pc'[p] = "read" /\ buf[p] = NoBuf
          /\ \A q \in Procs : q # p => pc'[q] = pc[q]
      BY <1>2 DEF Lock, UInv, PInv, TypeOK, Locals
    <2>3. BufCurrent'
      BY <2>1, <2>2 DEF UInv, BufCurrent, Writing, NoBuf, Field
    <2> QED  BY <2>1, <2>3, MemorySame
  <1>3. ASSUME NEW p \in Procs, ReadChunk(p)  PROVE Goal
    <2>1. /\ Chunk(p) \in Ranges /\ Keep(Chunk(p))
          /\ UNCHANGED <<boiler, owed>>
      BY <1>3, ChunkHere DEF ReadChunk, UInv, Ranges
    <2>2. KeepsWritten'
      BY <2>1 DEF UInv, KeepsWritten
    <2> QED  BY <1>3, <2>1, <2>2, KeepFollows, ReadCurrent
  <1>4. ASSUME NEW p \in Procs,
               ReadFails(p) \/ Decode(p) \/ EncodeFails(p) \/ WriteDone(p)
        PROVE  Goal
    <2>1. Return(p) /\ UNCHANGED <<boiler, cached, mem, owed>>
      BY <1>4 DEF ReadFails, Decode, EncodeFails, WriteDone
    <2>2. /\ \A q \in Procs : q # p => /\ pc'[q] = pc[q] /\ ev'[q] = ev[q]
                                       /\ val'[q] = val[q] /\ buf'[q] = buf[q]
          /\ ~Writing(p)'
      BY <2>1 DEF Return, UInv, PInv, TypeOK, BufFun, Writing
    <2> QED  BY <2>1, <2>2, MemorySame, OthersCurrent
  <1>5. ASSUME NEW p \in Procs, Encode(p)  PROVE Goal
    BY <1>5, MemorySame, EncodeCurrent DEF Encode
  <1>6. ASSUME NEW p \in Procs, NEW outcome \in {"acked", "unheard", "lost"},
               WriteChunk(p, outcome)
        PROVE  Goal
    BY <1>6, WriteCurrent
  <1>7. ASSUME NEW a \in Addr, Expire(a)  PROVE Goal
    <2>1. Drop(a) /\ UNCHANGED <<boiler, owed>> /\ UNCHANGED procVars
      BY <1>7 DEF Expire
    <2>2. KeepsWritten'
      BY <2>1 DEF UInv, KeepsWritten
    <2> QED  BY <2>1, <2>2, DropFollows, RestCurrent
  <1>8. ASSUME NEW c \in Restless, NEW v \in Value, BoilerChanges(c, v)  PROVE Goal
    <2>1. /\ boiler' = [boiler EXCEPT ![c] = v] /\ owed' = [owed EXCEPT ![c] = None]
          /\ UNCHANGED <<cached, mem>> /\ UNCHANGED procVars
      BY <1>8 DEF BoilerChanges
    <2>2. \A d \in AnyCell : owed'[d] \in {owed[d], None}
      BY <2>1 DEF UInv, PInv, TypeOK
    <2>3. KeepsWritten'
      BY <2>1 DEF UInv, PInv, TypeOK, KeepsWritten, AnyCell
    <2>4. CacheFollowsWrites'
      <3> SUFFICES ASSUME NEW r \in Ranges  PROVE Follows(r)'
        BY FollowsAllNext
      <3>1. Follows(r)
        BY FollowsAll DEF UInv
      <3> QED  BY <2>1, <2>2, <3>1, RangesInMemory, FollowsStill
    <2> QED  BY <2>1, <2>2, <2>3, <2>4, RestCurrent
  <1>9. ASSUME NEW r \in Raws, RawRead(r)  PROVE Goal
    <2>1. /\ Bytes(r.addr, r.len) \in Ranges /\ Keep(Bytes(r.addr, r.len))
          /\ UNCHANGED <<boiler, owed>> /\ UNCHANGED procVars
      BY <1>9 DEF RawRead, Ranges
    <2>2. KeepsWritten'
      BY <2>1 DEF UInv, KeepsWritten
    <2> QED  BY <2>1, <2>2, KeepFollows, RestCurrent
  <1>10. CASE UNCHANGED vars
    <2>1. UNCHANGED <<boiler, cached, mem, owed>> /\ UNCHANGED procVars
      BY <1>10 DEF vars
    <2> QED  BY <2>1, MemorySame, RestCurrent
  <1> QED
    BY <1>1, <1>2, <1>3, <1>4, <1>5, <1>6, <1>7, <1>8, <1>9, <1>10
       DEF Next, Request, Work

\* No lost updates, for any handlers and events whose chunks, and raw reads, fit a
\* telegram (ChunkAssumption) and do not overlap in part: the block a VWrite has read before another one's write cannot
\* put the old bits back.
THEOREM KeepsWrittenHolds ==
  ASSUME Aligned
  PROVE  Spec => []KeepsWritten
  <1>1. UInv => KeepsWritten
    BY DEF UInv
  <1> QED  BY InitUInv, NextUInv, <1>1, PTL DEF Spec

\* Under the same conditions no chunk that is answered from the cache holds what an
\* acknowledged write has replaced, although a write's result drops only the
\* first byte of it.
THEOREM CacheFollowsWritesHolds ==
  ASSUME Aligned
  PROVE  Spec => []CacheFollowsWrites
  <1>1. UInv => CacheFollowsWrites
    BY DEF UInv
  <1> QED  BY InitUInv, NextUInv, <1>1, PTL DEF Spec
==============================================================================
