------------------------------ MODULE DataPoint ------------------------------
(***************************************************************************)
(* VRead and VWrite of commands.go, run by concurrent HTTP handlers, and   *)
(* the raw reads of getRaw, over one boiler and one read cache.            *)
(*                                                                         *)
(* A byte is made of Parts (bits that different events may own), a Cell is *)
(* one part of one byte.  One RawCmd call is one step here: cmdLock        *)
(* serialises them, RawCmds.tla has its inside.  How old a cached byte is  *)
(* shows only in that it may expire at any moment.  No RawCmd here needs   *)
(* more than one telegram (ChunkAssumption).                               *)
(*                                                                         *)
(* Events are those VRead and VWrite do not refuse.  (One without a read   *)
(* code is refused, or makes VWrite hang: run fsm_stuck.)                  *)
(***************************************************************************)
EXTENDS Naturals, FiniteSets

CONSTANTS
  Procs,      \* handlers
  Addr,       \* addresses, 0 .. 2^16 - 1 in the code
  Parts,
  Value,      \* what a part of a byte holds
  Events,     \* event types that can be read and written
  Restless,   \* the cells the boiler changes by itself
  Raws,       \* ranges [addr, len] read by getRaw
  Width,      \* 2^8: VRead and VWrite count in uint8
  ChunkSize,  \* 32 in the code: what RawCmd puts into one telegram
  None        \* no process; no value

\* addr, BlockLength, BlockFactor, and the cells Encode writes, with offsets
\* into the block for bytes.
Event == [addr : Addr, len : 1 .. Width - 1, factor : 0 .. Width - 1,
          field : SUBSET ((0 .. Width - 1) \X Parts)]

ASSUME NoneAssumption == None \notin Procs /\ None \notin Value /\ None \notin Events
ASSUME ValueAssumption == Value # {}
ASSUME SizeAssumption == /\ Width \in Nat \ {0} /\ Addr \subseteq Nat
                         /\ Events \subseteq Event
                         /\ Restless \subseteq Addr \X Parts
                         /\ Raws \subseteq [addr : Addr, len : 1 .. Width - 1]

Step(e) == IF e.factor > 0 THEN e.len \div e.factor ELSE e.len

Bytes(a, n) == a .. a + n - 1
Cells(bytes) == bytes \X Parts

\* The chunks of an event: what one RawCmd of VRead or VWrite covers.
Offsets(e) == {k \in 0 .. e.len - 1 : k % Step(e) = 0}
Chunks     == UNION {{Bytes(e.addr + k, Step(e)) : k \in Offsets(e)} : e \in Events}

\* What the XML must provide and nobody checks: a step that is not zero, a loop
\* counter that does not wrap, fields within what has been read.
ASSUME StepAssumption ==
  \A e \in Events : /\ Step(e) > 0 /\ e.len + Step(e) <= Width
                    /\ e.field \subseteq (0 .. e.len - 1) \X Parts
                    /\ \A k \in Offsets(e) : Bytes(e.addr + k, Step(e)) \subseteq Addr

\* No raw read goes over the end of the memory.  (RawCmds.tla has those that do.)
ASSUME RawAssumption == \A r \in Raws : Bytes(r.addr, r.len) \subseteq Addr

\* Each RawCmd needs one telegram only.  Of a longer write each telegram would carry
\* all its bytes again, to the next address (commands.go:78-86, run chunked_write),
\* and a longer read that fails would leave its good parts in the cache (96-104).
ASSUME ChunkAssumption == /\ ChunkSize \in Nat \ {0}
                          /\ \A e \in Events : Step(e) <= ChunkSize
                          /\ \A r \in Raws : r.len <= ChunkSize

\* No two events, and no raw reads, overlap in part of a chunk only.
Aligned ==
  \A c, d \in Chunks \cup {Bytes(r.addr, r.len) : r \in Raws} :
    c = d \/ c \cap d = {}

VARIABLES
  boiler,     \* the boiler's memory
  cached,     \* the addresses whose entry in Device.Mem is young enough
  mem,        \* Device.Mem
  wlock,      \* who holds cmdWLock
  pc, ev, val, i, buf,      \* a handler's VRead or VWrite: place, event, data,
                            \* loop counter, bytes read so far
  owed        \* history: the value a cell owes to an acknowledged write

procVars == <<pc, ev, val, i, buf>>
vars     == <<boiler, cached, mem, wlock, procVars, owed>>

AnyCell == Cells(Addr)
NoBuf   == [c \in {} |-> None]

Init ==
  /\ boiler = [c \in AnyCell |-> CHOOSE v \in Value : TRUE]   \* any would do
  /\ cached = {}
  /\ mem = [c \in AnyCell |-> None]
  /\ wlock = None
  /\ pc = [p \in Procs |-> "idle"]
  /\ ev = [p \in Procs |-> None]
  /\ val = [p \in Procs |-> None]
  /\ i = [p \in Procs |-> 0]
  /\ buf = [p \in Procs |-> NoBuf]
  /\ owed = [c \in AnyCell |-> None]

-----------------------------------------------------------------------------
(* RawCmd.                                                                  *)

\* Mutant: a byte that is missing in the cache does not make it a miss.
FetchedGaps(bytes) == IF bytes \cap cached # {} THEN mem ELSE boiler

\* The cells a read of these bytes returns, and what it leaves in the cache.
Fetched(bytes) == IF bytes \subseteq cached THEN mem ELSE boiler

Keep(bytes) ==
  /\ cached' = cached \cup bytes
  /\ mem' = [c \in AnyCell |-> IF c[1] \in bytes THEN Fetched(bytes)[c] ELSE mem[c]]

\* Mutant: the count a write returns is not stored at its first byte.
DropKept(a) == UNCHANGED <<cached, mem>>

\* A write's result has one byte, stored without a time at its first address.
Drop(a) ==
  /\ cached' = cached \ {a}
  /\ mem' = [c \in AnyCell |-> IF c[1] = a THEN None ELSE mem[c]]

-----------------------------------------------------------------------------
(* Around the handlers.                                                     *)

Expire(a) ==
  /\ a \in cached
  /\ Drop(a)
  /\ UNCHANGED <<boiler, wlock, procVars, owed>>

BoilerChanges(c, v) ==
  /\ boiler' = [boiler EXCEPT ![c] = v]
  /\ owed' = [owed EXCEPT ![c] = None]
  /\ UNCHANGED <<cached, mem, wlock, procVars>>

RawRead(r) ==
  /\ Keep(Bytes(r.addr, r.len))
  /\ UNCHANGED <<boiler, wlock, procVars, owed>>

-----------------------------------------------------------------------------
(* VRead and VWrite.                                                        *)

Begin(p, e, v) ==
  /\ ev' = [ev EXCEPT ![p] = e]
  /\ val' = [val EXCEPT ![p] = v]
  /\ UNCHANGED <<boiler, cached, mem, wlock, i, buf, owed>>

VRead(p, e) ==
  /\ pc[p] = "idle"
  /\ pc' = [pc EXCEPT ![p] = "read"]
  /\ Begin(p, e, None)

VWrite(p, e, v) ==
  /\ pc[p] = "idle"
  /\ pc' = [pc EXCEPT ![p] = "lock"]
  /\ Begin(p, e, v)

\* Mutant: cmdWLock is not taken.
LockFree(p) ==
  /\ pc[p] = "lock"
  /\ pc' = [pc EXCEPT ![p] = "read"]
  /\ UNCHANGED <<boiler, cached, mem, wlock, ev, val, i, buf, owed>>

Lock(p) ==
  /\ pc[p] = "lock" /\ wlock = None
  /\ wlock' = p
  /\ pc' = [pc EXCEPT ![p] = "read"]
  /\ UNCHANGED <<boiler, cached, mem, ev, val, i, buf, owed>>

\* Mutant: the early return of an error misses the unlock.
ReturnLocked(p) ==
  /\ pc' = [pc EXCEPT ![p] = "idle"]
  /\ ev' = [ev EXCEPT ![p] = None] /\ val' = [val EXCEPT ![p] = None]
  /\ i' = [i EXCEPT ![p] = 0] /\ buf' = [buf EXCEPT ![p] = NoBuf]
  /\ wlock' = IF wlock = p /\ pc[p] = "write" THEN None ELSE wlock

\* Every return: the deferred unlock, and the locals are gone.
Return(p) ==
  /\ pc' = [pc EXCEPT ![p] = "idle"]
  /\ ev' = [ev EXCEPT ![p] = None] /\ val' = [val EXCEPT ![p] = None]
  /\ i' = [i EXCEPT ![p] = 0] /\ buf' = [buf EXCEPT ![p] = NoBuf]
  /\ wlock' = IF wlock = p THEN None ELSE wlock

Chunk(p) == Bytes(ev[p].addr + i[p], Step(ev[p]))
Looping(p) == i[p] < ev[p].len
NextI(p)   == [i EXCEPT ![p] = (@ + Step(ev[p])) % Width]

\* What VRead returns is not followed further: CacheFollowsWrites has each chunk.
ReadChunk(p) ==
  /\ pc[p] = "read" /\ Looping(p)
  /\ Keep(Chunk(p))
  /\ buf' = [buf EXCEPT ![p] =
               IF val[p] = None THEN NoBuf
               ELSE [c \in DOMAIN @ \cup Cells(Chunk(p)) |->
                       IF c[1] \in Chunk(p) THEN Fetched(Chunk(p))[c] ELSE @[c]]]
  /\ i' = NextI(p)
  /\ UNCHANGED <<boiler, wlock, pc, ev, val, owed>>

\* Its only telegram (ChunkAssumption) has failed: nothing comes into the cache.
ReadFails(p) ==
  /\ pc[p] = "read" /\ Looping(p)
  /\ ~(Chunk(p) \subseteq cached)
  /\ Return(p)
  /\ UNCHANGED <<boiler, cached, mem, owed>>

\* VRead decodes and returns.
Decode(p) ==
  /\ pc[p] = "read" /\ ~Looping(p) /\ val[p] = None
  /\ Return(p)
  /\ UNCHANGED <<boiler, cached, mem, owed>>

Field(e) == {<<e.addr + c[1], c[2]>> : c \in e.field}

\* Mutant: Encode builds the block from nothing.
EncodeBlank(p) ==
  /\ pc[p] = "read" /\ ~Looping(p) /\ val[p] # None
  /\ pc' = [pc EXCEPT ![p] = "write"]
  /\ i' = [i EXCEPT ![p] = 0]
  /\ buf' = [buf EXCEPT ![p] = [c \in DOMAIN @ |-> val[p]]]
  /\ UNCHANGED <<boiler, cached, mem, wlock, ev, val, owed>>

\* VWrite puts its value into the block.
Encode(p) ==
  /\ pc[p] = "read" /\ ~Looping(p) /\ val[p] # None
  /\ pc' = [pc EXCEPT ![p] = "write"]
  /\ i' = [i EXCEPT ![p] = 0]
  /\ buf' = [buf EXCEPT ![p] =
               [c \in DOMAIN @ |-> IF c \in Field(ev[p]) THEN val[p] ELSE @[c]]]
  /\ UNCHANGED <<boiler, cached, mem, wlock, ev, val, owed>>

EncodeFails(p) ==
  /\ pc[p] = "read" /\ ~Looping(p) /\ val[p] # None
  /\ Return(p)
  /\ UNCHANGED <<boiler, cached, mem, owed>>

\* VWrite sends a chunk, in one telegram (ChunkAssumption), and ignores what comes
\* back: "acked", or an error after the boiler has executed it ("unheard") or not
\* ("lost").
WriteChunk(p, outcome) ==
  /\ pc[p] = "write" /\ Looping(p)
  /\ LET mine == Field(ev[p]) \cap Cells(Chunk(p))
     IN /\ boiler' = IF outcome = "lost" THEN boiler
                     ELSE [c \in AnyCell |-> IF c[1] \in Chunk(p) THEN buf[p][c]
                                                                  ELSE boiler[c]]
        /\ owed' = [c \in AnyCell |-> IF c \notin mine THEN owed[c]
                                      ELSE IF outcome = "acked" THEN val[p] ELSE None]
  /\ IF outcome = "acked" THEN Drop(ev[p].addr + i[p]) ELSE UNCHANGED <<cached, mem>>
  /\ i' = NextI(p)
  /\ UNCHANGED <<wlock, pc, ev, val, buf>>

WriteDone(p) ==
  /\ pc[p] = "write" /\ ~Looping(p)
  /\ Return(p)
  /\ UNCHANGED <<boiler, cached, mem, owed>>

-----------------------------------------------------------------------------
Work(p) == \/ ReadChunk(p) \/ ReadFails(p) \/ Decode(p) \/ Encode(p) \/ EncodeFails(p)
           \/ WriteDone(p)
           \/ \E outcome \in {"acked", "unheard", "lost"} : WriteChunk(p, outcome)

Request(p) == \E e \in Events : VRead(p, e) \/ \E v \in Value : VWrite(p, e, v)

Next == \/ \E p \in Procs : Request(p) \/ Lock(p) \/ Work(p)
        \/ \E a \in Addr : Expire(a)
        \/ \E c \in Restless, v \in Value : BoilerChanges(c, v)
        \/ \E r \in Raws : RawRead(r)

Spec == Init /\ [][Next]_vars

-----------------------------------------------------------------------------
TypeOK ==
  /\ boiler \in [AnyCell -> Value]
  /\ cached \subseteq Addr
  /\ mem \in [AnyCell -> Value \cup {None}]
  /\ wlock \in Procs \cup {None}
  /\ pc \in [Procs -> {"idle", "lock", "read", "write"}]
  /\ ev \in [Procs -> Events \cup {None}]
  /\ val \in [Procs -> Value \cup {None}]
  /\ i \in [Procs -> 0 .. Width - 1]
  /\ \A p \in Procs : buf[p] \in [DOMAIN buf[p] -> Value] /\ DOMAIN buf[p] \subseteq AnyCell
  /\ owed \in [AnyCell -> Value \cup {None}]

\* No lost updates: what a write has set and the boiler has acknowledged stays,
\* until the boiler or another write to the same cell changes it.  A write of
\* another event in the same block, with the block it read before, does not put
\* the old value back.
KeepsWritten == \A c \in AnyCell : owed[c] # None => boiler[c] = owed[c]

\* A read that is answered from the cache does not return what an acknowledged
\* write has replaced.
CacheFollowsWrites ==
  \A r \in Chunks \cup {Bytes(r.addr, r.len) : r \in Raws} :
    r \subseteq cached => \A c \in Cells(r) : owed[c] # None => mem[c] = owed[c]

\* cmdWLock: at most one VWrite is between its read and its last write, and the
\* lock comes back on every way out of it.
Writing(p) == pc[p] \in {"read", "write"} /\ val[p] # None
WLockHeld  == \A p \in Procs : Writing(p) <=> wlock = p
==============================================================================
