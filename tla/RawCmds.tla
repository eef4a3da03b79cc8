------------------------------- MODULE RawCmds -------------------------------
(***************************************************************************)
(* RawCmds and getCache of commands.go: one command at a time (cmdLock),   *)
(* cut into chunks, with the read cache Device.Mem.                        *)
(*                                                                         *)
(* Data bytes are not values here.  What matters about a copy of a byte is *)
(* since when it is no longer what the boiler holds, so a copy carries     *)
(*   out   when the boiler's byte changed away from it (Never: not yet;    *)
(*         0: it never was the boiler's byte)                              *)
(*   over  whether one of our own writes changed it                        *)
(* The boiler changes bytes at any time, and the clock may tick between    *)
(* any two steps.                                                          *)
(***************************************************************************)
EXTENDS Naturals, FiniteSets

CONSTANTS
  N,               \* size of the address space: 2^16 in the code
  ChunkSize,       \* 32 in the code
  CacheDuration,   \* in ticks
  MaxLen,          \* bound on ResultLen
  Issued,          \* the commands callers issue: kind, first address, length
  MaxTime          \* bound on the clock

ASSUME SizeAssumption == /\ N \in Nat \ {0} /\ ChunkSize \in Nat \ {0}
                         /\ MaxLen \in 1 .. N - 1
ASSUME TimeAssumption == CacheDuration \in Nat /\ MaxTime \in Nat \ {0}

Addr  == 0 .. N - 1
Cmd   == [kind : {"read", "write"}, addr : Addr, len : 1 .. MaxLen]
ASSUME IssuedAssumption == Issued \subseteq Cmd
Never == MaxTime + 1

\* The addresses of n bytes from a on, as uint16 counts.
Span(a, n) == {(a + i) % N : i \in 0 .. n - 1}

VARIABLES
  now,
  mem,        \* Device.Mem: a copy and its CacheTime; 0 for none or the zero time
  pc,         \* idle, send: offering a chunk, recv: waiting for its result
  cmd,        \* the command: kind, first address, length
  start,      \* RawCmds' now
  remainder, addr, err,
  body,       \* the copies collected for the result
  res,        \* the result just returned, NoRes when the caller is gone with it
  wrote       \* ghost: the last command, if it was a successful write

callVars == <<pc, cmd, start, remainder, addr, err>>
vars     == <<now, mem, callVars, body, res, wrote>>

Copy   == [out : 0 .. Never, over : BOOLEAN]
Absent == [out |-> 0, over |-> FALSE]
Fresh  == [out |-> Never, over |-> FALSE]
NoCmd  == [kind |-> "none", addr |-> 0, len |-> 0]
NoRes  == [cmd |-> NoCmd, ok |-> FALSE, whole |-> TRUE, fresh |-> TRUE,
           over |-> FALSE]

Init ==
  /\ now = 1
  /\ mem = [a \in Addr |-> [time |-> 0, copy |-> Absent]]
  /\ pc = "idle" /\ cmd = NoCmd /\ start = 0
  /\ remainder = 0 /\ addr = 0 /\ err = FALSE
  /\ body = [a \in {} |-> Absent]
  /\ res = NoRes
  /\ wrote = NoCmd

-----------------------------------------------------------------------------
(* The world outside.                                                       *)

Tick ==
  /\ now < MaxTime
  /\ now' = now + 1
  /\ res' = NoRes
  /\ UNCHANGED <<mem, callVars, body, wrote>>

\* A copy once the boiler's byte has changed.
Outdated(c, own) == [out  |-> IF c.out = Never THEN now ELSE c.out,
                     over |-> c.over \/ own]

\* The same for a cache entry; one with the zero time is never read.
Aged(m, own) == IF m.time = 0 THEN m ELSE [m EXCEPT !.copy = Outdated(@, own)]

BoilerChanges(a) ==
  /\ mem' = [mem EXCEPT ![a] = Aged(@, FALSE)]
  /\ body' = [x \in DOMAIN body |->
                IF x = a THEN Outdated(body[x], FALSE) ELSE body[x]]
  /\ res' = NoRes
  /\ UNCHANGED <<now, callVars, wrote>>

-----------------------------------------------------------------------------
(* RawCmds.                                                                 *)

\* What a result says of the copies in it: whether the length is right, whether
\* each was the boiler's byte at the call or less than CacheDuration before it,
\* and whether one was overwritten since.  (A write returns a count.)
Result(c, ok, copies, since) ==
  [cmd |-> c, ok |-> ok,
   whole |-> c.kind = "read" => Cardinality(DOMAIN copies) = c.len,
   fresh |-> \A a \in DOMAIN copies : \/ copies[a].out >= since
                                       \/ copies[a].out + CacheDuration > since,
   over  |-> \E a \in DOMAIN copies : copies[a].over]

Finish(ok, copies) ==
  /\ res' = Result(cmd, ok, copies, start)
  /\ wrote' = IF ok /\ cmd.kind = "write" THEN cmd ELSE NoCmd
  /\ pc' = "idle"
  /\ cmd' = NoCmd /\ start' = 0 /\ remainder' = 0 /\ addr' = 0 /\ err' = FALSE
  /\ body' = [a \in {} |-> Absent]

\* Mutant: the age of the newest byte decides.
CacheHitByNewest(a, n) ==
  /\ a + n < N
  /\ \A x \in Span(a, n) : mem[x].time # 0
  /\ \E x \in Span(a, n) : now - mem[x].time < CacheDuration

\* getCache has the bytes, and the oldest of them is young enough.  Its loop
\* compares a uint16 with a uint16 sum, and does not run when that sum wraps.
CacheHit(a, n) ==
  /\ a + n < N
  /\ \A x \in Span(a, n) : mem[x].time # 0
  /\ \A x \in Span(a, n) : now - mem[x].time < CacheDuration

CallHit(c) ==
  /\ pc = "idle"
  /\ c.kind = "read" /\ CacheHit(c.addr, c.len)
  /\ res' = Result(c, TRUE, [a \in Span(c.addr, c.len) |-> mem[a].copy], now)
  /\ wrote' = NoCmd
  /\ UNCHANGED <<now, mem, callVars, body>>

CallMiss(c) ==
  /\ pc = "idle"
  /\ ~(c.kind = "read" /\ CacheHit(c.addr, c.len))
  /\ pc' = "send"
  /\ cmd' = c /\ start' = now /\ remainder' = c.len /\ addr' = c.addr
  /\ res' = NoRes
  /\ UNCHANGED <<now, mem, err, body, wrote>>

\* Nobody takes the command for 10 s, or resChan is closed.
ReturnEof ==
  /\ pc \in {"send", "recv"}
  /\ Finish(FALSE, [a \in {} |-> Absent])
  /\ UNCHANGED <<now, mem>>

Chunk == IF remainder > ChunkSize THEN ChunkSize ELSE remainder

\* The addresses a chunk touches in the boiler: a write sends all of Args
\* every time.
Touched == Span(addr, IF cmd.kind = "read" THEN Chunk ELSE cmd.len)

\* The boiler executes the chunk.
Execute ==
  /\ pc = "send"
  /\ pc' = "recv"
  /\ IF cmd.kind = "read"
     THEN /\ body' = [a \in DOMAIN body \cup Touched |->
                        IF a \in Touched THEN Fresh ELSE body[a]]
          /\ UNCHANGED mem
     ELSE /\ mem' = [a \in Addr |-> IF a \in Touched THEN Aged(mem[a], TRUE)
                                                      ELSE mem[a]]
          /\ UNCHANGED body
  /\ UNCHANGED <<now, cmd, start, remainder, addr, err, res, wrote>>

\* Mutant: the copy is dated when it is stored.
StoredLate(good) ==
  IF ~good THEN mem
  ELSE IF cmd.kind = "read"
       THEN [a \in Addr |-> IF a \in Touched
                            THEN [time |-> now, copy |-> body[a]] ELSE mem[a]]
       ELSE [mem EXCEPT ![addr] = [time |-> 0, copy |-> Absent]]

\* Mutant: only reads touch the cache.
StoredReads(good) ==
  IF ~good \/ cmd.kind = "write" THEN mem
  ELSE [a \in Addr |-> IF a \in Touched
                       THEN [time |-> start, copy |-> body[a]] ELSE mem[a]]

\* A good result is stored, dated before the command went out.  The one byte of
\* a write's result is the count of bytes written, with the zero time.
Stored(good) ==
  IF ~good THEN mem
  ELSE IF cmd.kind = "read"
       THEN [a \in Addr |-> IF a \in Touched
                            THEN [time |-> start, copy |-> body[a]] ELSE mem[a]]
       ELSE [mem EXCEPT ![addr] = [time |-> 0, copy |-> Absent]]

\* Mutant: only the last chunk's error is kept.
KeptErrorLast(good) == ~good

KeptError(good) == err \/ ~good

\* Mutant: one more round when the last chunk is a full one.
MoreChunksOne == remainder >= ChunkSize

MoreChunks == remainder > ChunkSize

\* A result comes back; a bad one has no body, or one of the wrong length.
Receive(good) ==
  /\ pc = "recv"
  /\ mem' = Stored(good)
  /\ LET bodyNow == IF good THEN body
                    ELSE [a \in DOMAIN body \ Touched |-> body[a]]
         errNow  == KeptError(good)
     IN IF MoreChunks
        THEN /\ pc' = "send"
             /\ remainder' = remainder - ChunkSize
             /\ addr' = (addr + ChunkSize) % N
             /\ err' = errNow
             /\ body' = bodyNow
             /\ UNCHANGED <<cmd, start, res, wrote>>
        ELSE Finish(~errNow, bodyNow)
  /\ UNCHANGED now

-----------------------------------------------------------------------------
Call == \E c \in Issued : CallHit(c) \/ CallMiss(c)

Next == \/ Tick \/ Call \/ ReturnEof \/ Execute
        \/ \E a \in Addr : BoilerChanges(a)
        \/ \E good \in BOOLEAN : Receive(good)

Spec == Init /\ [][Next]_vars

-----------------------------------------------------------------------------
TypeOK ==
  /\ now \in 1 .. MaxTime
  /\ mem \in [Addr -> [time : 0 .. MaxTime, copy : Copy]]
  /\ pc \in {"idle", "send", "recv"}
  /\ cmd \in Issued \cup {NoCmd}
  /\ pc # "idle" => cmd # NoCmd /\ remainder > 0
  /\ start \in 0 .. now
  /\ remainder \in 0 .. MaxLen /\ addr \in Addr /\ err \in BOOLEAN
  /\ DOMAIN body \subseteq Addr /\ \A a \in DOMAIN body : body[a] \in Copy
  /\ wrote \in Issued \cup {NoCmd}

\* A byte in the cache was still the boiler's at the time it is dated, or later:
\* its age is never understated, however long the boiler took to answer.
CacheHonest == \A a \in Addr : mem[a].time # 0 => mem[a].copy.out >= mem[a].time

\* No successful read returns a byte that had changed in the boiler a
\* CacheDuration or longer before the call.
FreshResult == res.ok => res.fresh

\* A result without an error is whole: no chunk of it failed.
WholeResult == res.ok => res.whole

\* A read of the range just written successfully does not return what the write
\* has replaced.  (After a read of part of the range it may: only the first byte
\* of a written chunk leaves the cache.)
ReadBack ==
  [][ /\ res'.ok /\ res'.cmd.kind = "read" /\ wrote.kind = "write"
      /\ res'.cmd.addr = wrote.addr /\ res'.cmd.len = wrote.len
      => ~res'.over ]_vars

\* A write changes the bytes it names and no other, chunk by chunk.
WriteInRange ==
  pc = "recv" /\ cmd.kind = "write" => Touched \subseteq Span(cmd.addr, cmd.len)
=============================================================================
