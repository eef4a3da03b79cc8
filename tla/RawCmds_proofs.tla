--------------------------- MODULE RawCmds_proofs ---------------------------
(* What holds of RawCmds for any address space, chunk size, cache duration     *)
(* and commands.                                                               *)
EXTENDS RawCmds, Integers, FiniteSetTheorems, TLAPS

USE SizeAssumption, TimeAssumption, IssuedAssumption

Reading == pc # "idle" /\ cmd.kind = "read"

\* How much of the command the boiler has executed since the call.
Executed == cmd.len - remainder + IF pc = "recv" THEN Chunk ELSE 0

\* A call works through its range from the first address on.
Progress ==
  /\ pc # "idle" => /\ cmd \in Issued /\ remainder \in 1 .. cmd.len
                    /\ addr = (cmd.addr + (cmd.len - remainder)) % N
  /\ ~Reading => body = [a \in {} |-> Absent]

\* What a read has collected: at least the chunk it waits for, and everything up to
\* there as long as no chunk has failed.
Collected ==
  Reading => /\ pc = "recv" => Touched \subseteq DOMAIN body
             /\ ~err => DOMAIN body = Span(cmd.addr, Executed)

\* Copies in a result under way were the boiler's bytes after the call began, and
\* none of our writes has come in between.
BodyNew == Reading => \A a \in DOMAIN body : body[a].out >= start /\ ~body[a].over

\* No entry is dated in the future.
DatedPast == \A a \in Addr : mem[a].time <= now

\* After a write its first byte is not in the cache.
FirstDropped ==
  /\ pc = "idle" /\ wrote.kind = "write" => mem[wrote.addr].time = 0
  /\ pc # "idle" /\ cmd.kind = "write" /\ ~err /\ remainder < cmd.len
       => mem[cmd.addr].time = 0

RInv == /\ TypeOK /\ Progress /\ Collected /\ BodyNew /\ DatedPast /\ CacheHonest
        /\ FirstDropped

-----------------------------------------------------------------------------
(* About ranges of addresses.                                                *)

LEMMA ModSum ==
  ASSUME NEW x \in Addr, NEW y \in 0 .. N
  PROVE  /\ (x + y) % N = IF x + y < N THEN x + y ELSE x + y - N
         /\ (x + y) % N \in Addr
  BY DEF Addr

LEMMA ModZero ==
  ASSUME NEW x \in Addr
  PROVE  x % N = x /\ (x + 0) % N = x
  <1>1. x \in 0 .. N - 1 /\ x + 0 = x
    BY DEF Addr
  <1>2. x % N = x
    BY <1>1
  <1> QED  BY <1>1, <1>2

LEMMA ModTwice ==
  ASSUME NEW x \in Addr, NEW y \in Nat, NEW z \in Nat, y + z <= N
  PROVE  (((x + y) % N) + z) % N = (x + (y + z)) % N
  <1> DEFINE first == (x + y) % N
             second == (first + z) % N
             once == (x + (y + z)) % N
  <1>1. y \in 0 .. N /\ z \in 0 .. N /\ y + z \in 0 .. N
    OBVIOUS
  <1>2. first \in Addr /\ first = IF x + y < N THEN x + y ELSE x + y - N
    BY <1>1, ModSum
  <1>3. once = IF x + (y + z) < N THEN x + (y + z) ELSE x + (y + z) - N
    BY <1>1, ModSum
  <1> HIDE DEF first, once
  <1>4. second = IF first + z < N THEN first + z ELSE first + z - N
    BY <1>1, <1>2, ModSum
  <1> HIDE DEF second
  <1>5. second = once
    BY <1>1, <1>2, <1>3, <1>4 DEF Addr
  <1> QED  BY <1>5 DEF first, second, once

LEMMA SpanInside ==
  ASSUME NEW a \in Addr, NEW n \in 0 .. N
  PROVE  Span(a, n) \subseteq Addr /\ (n > 0 => a \in Span(a, n))
  <1>1. \A k \in 0 .. n - 1 : (a + k) % N \in Addr
    BY ModSum
  <1>2. (a + 0) % N = a
    BY ModZero
  <1> QED  BY <1>1, <1>2 DEF Span

\* A range is its first m bytes and the rest.
LEMMA SpanJoin ==
  ASSUME NEW a \in Addr, NEW m \in Nat, NEW n \in Nat, m + n <= N
  PROVE  Span(a, m) \cup Span((a + m) % N, n) = Span(a, m + n)
  <1>1. ASSUME NEW k \in 0 .. n - 1
        PROVE  (((a + m) % N) + k) % N = (a + (m + k)) % N
    BY ModTwice
  <1>2. Span((a + m) % N, n) = {(a + (m + k)) % N : k \in 0 .. n - 1}
    BY <1>1 DEF Span
  <1>3. ASSUME NEW k \in 0 .. m + n - 1
        PROVE  k \in 0 .. m - 1 \/ (k - m \in 0 .. n - 1 /\ m + (k - m) = k)
    OBVIOUS
  <1>4. Span(a, m + n) \subseteq Span(a, m) \cup Span((a + m) % N, n)
    BY <1>2, <1>3 DEF Span
  <1>5. \A k \in 0 .. m - 1 : k \in 0 .. m + n - 1
    OBVIOUS
  <1>6. \A k \in 0 .. n - 1 : m + k \in 0 .. m + n - 1
    OBVIOUS
  <1>7. Span(a, m) \cup Span((a + m) % N, n) \subseteq Span(a, m + n)
    BY <1>2, <1>5, <1>6 DEF Span
  <1> QED  BY <1>4, <1>7

\* A range that is no longer than the memory has as many addresses as bytes.
LEMMA SpanSize ==
  ASSUME NEW a \in Addr, NEW n \in 0 .. N
  PROVE  Cardinality(Span(a, n)) = n
  <1> DEFINE f == [k \in 0 .. n - 1 |-> (a + k) % N]
  <1>1. \A k \in 0 .. n - 1 : f[k] \in Span(a, n)
    BY DEF Span
  <1>2. \A b \in Span(a, n) : \E k \in 0 .. n - 1 : f[k] = b
    BY DEF Span
  <1>3. ASSUME NEW j \in 0 .. n - 1, NEW k \in 0 .. n - 1, f[j] = f[k]
        PROVE  j = k
    <2> DEFINE b == (a + j) % N
               c == (a + k) % N
    <2>1. b = c
      BY <1>3
    <2>2. b = IF a + j < N THEN a + j ELSE a + j - N
      BY ModSum
    <2>3. c = IF a + k < N THEN a + k ELSE a + k - N
      BY ModSum
    <2> HIDE DEF b, c, f
    <2>4. a \in 0 .. N - 1 /\ j \in 0 .. N - 1 /\ k \in 0 .. N - 1
      BY DEF Addr
    <2>5. (IF a + j < N THEN a + j ELSE a + j - N) = IF a + k < N THEN a + k ELSE a + k - N
      BY <2>1, <2>2, <2>3
    <2>6. N \in Nat
      OBVIOUS
    <2>7. CASE a + j < N
      BY <2>4, <2>5, <2>6, <2>7
    <2>8. CASE ~(a + j < N)
      BY <2>4, <2>5, <2>6, <2>8
    <2> QED  BY <2>7, <2>8
  <1>4. f \in Bijection(0 .. n - 1, Span(a, n))
    <2>1. f \in [0 .. n - 1 -> Span(a, n)]
      BY <1>1
    <2> HIDE DEF f
    <2>2. f \in Injection(0 .. n - 1, Span(a, n))
      BY <1>3, <2>1 DEF Injection, IsInjective
    <2>3. f \in Surjection(0 .. n - 1, Span(a, n))
      BY <1>2, <2>1 DEF Surjection
    <2> QED  BY <2>2, <2>3 DEF Bijection
  <1>5. ExistsBijection(0 .. n - 1, Span(a, n))
    BY <1>4 DEF ExistsBijection
  <1>6. IsFiniteSet(0 .. n - 1) /\ Cardinality(0 .. n - 1) = n
    BY FS_Interval
  <1> QED  BY <1>5, <1>6, FS_Bijection

-----------------------------------------------------------------------------
(* About copies.                                                             *)

LEMMA CopyTypes == Absent \in Copy /\ Fresh \in Copy /\ Never \in Nat
  BY DEF Absent, Fresh, Copy, Never

LEMMA OutdatedCopy ==
  ASSUME TypeOK, NEW c \in Copy, NEW own \in BOOLEAN
  PROVE  /\ Outdated(c, own) \in Copy
         /\ Outdated(c, own).out = IF c.out = Never THEN now ELSE c.out
         /\ Outdated(c, own).over = (c.over \/ own)
         /\ \A t \in 0 .. now : c.out >= t => Outdated(c, own).out >= t
  BY DEF TypeOK, Outdated, Copy, Never

LEMMA AgedEntry ==
  ASSUME TypeOK, NEW m \in [time : 0 .. MaxTime, copy : Copy], m.time <= now,
         NEW own \in BOOLEAN
  PROVE  /\ Aged(m, own) \in [time : 0 .. MaxTime, copy : Copy]
         /\ Aged(m, own).time = m.time
         /\ m.time # 0 /\ m.copy.out >= m.time => Aged(m, own).copy.out >= m.time
  <1>1. CASE m.time = 0
    BY <1>1 DEF Aged
  <1>2. CASE m.time # 0
    <2>1. Aged(m, own) = [m EXCEPT !.copy = Outdated(m.copy, own)]
      BY <1>2 DEF Aged
    <2> QED  BY <2>1, OutdatedCopy DEF TypeOK
  <1> QED  BY <1>1, <1>2

-----------------------------------------------------------------------------
(* The invariant.                                                            *)

Entry == [time : 0 .. MaxTime, copy : Copy]

LEMMA CallParts ==
  ASSUME RInv, pc # "idle"
  PROVE  /\ cmd \in Issued /\ cmd \in Cmd
         /\ cmd.kind \in {"read", "write"} /\ cmd.addr \in Addr
         /\ cmd.len \in 1 .. MaxLen /\ cmd.len \in 1 .. N - 1
         /\ remainder \in 1 .. cmd.len
         /\ addr = (cmd.addr + (cmd.len - remainder)) % N
         /\ Chunk \in 1 .. remainder
  <1>1. cmd \in Issued /\ remainder \in 1 .. cmd.len
        /\ addr = (cmd.addr + (cmd.len - remainder)) % N
    BY DEF RInv, Progress
  <1>2. cmd \in Cmd
    BY <1>1
  <1>3. cmd.kind \in {"read", "write"} /\ cmd.addr \in Addr /\ cmd.len \in 1 .. MaxLen
    BY <1>2 DEF Cmd
  <1>4. Chunk \in 1 .. remainder
    BY <1>1, <1>3 DEF Chunk
  <1> QED  BY <1>1, <1>2, <1>3, <1>4

LEMMA TouchedInside ==
  ASSUME RInv, pc # "idle"
  PROVE  Touched \subseteq Addr
  <1>1. addr \in Addr /\ Chunk \in 0 .. N /\ cmd.len \in 0 .. N
    BY CallParts DEF RInv, TypeOK
  <1> QED  BY <1>1, SpanInside DEF Touched

LEMMA InitRInv == Init => RInv
  <1> SUFFICES ASSUME Init  PROVE RInv
    OBVIOUS
  <1>1. TypeOK
    <2>1. mem \in [Addr -> Entry]
      BY CopyTypes DEF Init, Entry
    <2>2. now \in 1 .. MaxTime /\ start \in 0 .. now /\ remainder \in 0 .. MaxLen
          /\ addr \in Addr
      BY DEF Init, Addr
    <2>3. DOMAIN body = {}
      BY DEF Init
    <2> QED  BY <2>1, <2>2, <2>3 DEF Init, TypeOK, Entry
  <1>2. Progress /\ Collected /\ BodyNew
    BY DEF Init, Progress, Collected, BodyNew, Reading
  <1>3. DatedPast /\ CacheHonest /\ FirstDropped
    BY DEF Init, DatedPast, CacheHonest, FirstDropped, NoCmd
  <1> QED  BY <1>1, <1>2, <1>3 DEF RInv

\* However a call ends, nothing of it is left, and a write that is reported as done
\* has dropped its first byte.
LEMMA Finished ==
  ASSUME RInv, pc # "idle", NEW ok, NEW copies, Finish(ok, copies),
         UNCHANGED now, mem' \in [Addr -> Entry], DatedPast', CacheHonest',
         ok /\ cmd.kind = "write" => mem'[cmd.addr].time = 0
  PROVE  RInv'
  <1>1. /\ pc' = "idle" /\ cmd' = NoCmd /\ start' = 0 /\ remainder' = 0 /\ addr' = 0
        /\ err' = FALSE /\ body' = [a \in {} |-> Absent]
        /\ wrote' = IF ok /\ cmd.kind = "write" THEN cmd ELSE NoCmd
    BY DEF Finish
  <1>2. TypeOK'
    <2>1. /\ now' \in 1 .. MaxTime /\ start' \in 0 .. now' /\ remainder' \in 0 .. MaxLen
          /\ addr' \in Addr
      BY <1>1 DEF RInv, TypeOK, Addr
    <2>2. DOMAIN body' = {} /\ wrote' \in Issued \cup {NoCmd}
      BY <1>1, CallParts
    <2> QED  BY <1>1, <2>1, <2>2 DEF TypeOK, Entry
  <1>3. Progress' /\ Collected' /\ BodyNew'
    BY <1>1 DEF Progress, Collected, BodyNew, Reading
  <1>4. FirstDropped'
    BY <1>1 DEF FirstDropped, NoCmd
  <1> QED  BY <1>2, <1>3, <1>4 DEF RInv

LEMMA TickRInv ==
  ASSUME RInv, Tick
  PROVE  RInv'
  <1>1. /\ now' = now + 1 /\ now \in 1 .. MaxTime /\ now < MaxTime
        /\ UNCHANGED <<mem, pc, cmd, start, remainder, addr, err, body, wrote>>
    BY DEF Tick, callVars, RInv, TypeOK
  <1>2. TypeOK'
    BY <1>1 DEF RInv, TypeOK
  <1>3. Progress' /\ Collected' /\ BodyNew' /\ FirstDropped' /\ CacheHonest'
    BY <1>1 DEF RInv, Progress, Collected, BodyNew, FirstDropped, CacheHonest, Reading,
                Executed, Chunk, Touched
  <1>4. DatedPast'
    BY <1>1 DEF RInv, DatedPast, TypeOK
  <1> QED  BY <1>2, <1>3, <1>4 DEF RInv

LEMMA CallRInv ==
  ASSUME RInv, NEW c \in Issued, CallHit(c) \/ CallMiss(c)
  PROVE  RInv'
  <1>1. CASE CallHit(c)
    <2>1. /\ pc = "idle" /\ wrote' = NoCmd
          /\ UNCHANGED <<now, mem, pc, cmd, start, remainder, addr, err, body>>
      BY <1>1 DEF CallHit, callVars
    <2>2. TypeOK' /\ DatedPast' /\ CacheHonest'
      BY <2>1 DEF RInv, TypeOK, DatedPast, CacheHonest
    <2>3. Progress' /\ Collected' /\ BodyNew' /\ FirstDropped'
      BY <2>1 DEF RInv, Progress, Collected, BodyNew, FirstDropped, Reading, NoCmd
    <2> QED  BY <2>2, <2>3 DEF RInv
  <1>2. CASE CallMiss(c)
    <2>1. /\ pc = "idle" /\ pc' = "send" /\ cmd' = c /\ start' = now
          /\ remainder' = c.len /\ addr' = c.addr
          /\ UNCHANGED <<now, mem, err, body, wrote>>
      BY <1>2 DEF CallMiss
    <2>2. c \in Cmd /\ c.len \in 1 .. MaxLen /\ c.addr \in Addr /\ c # NoCmd
      BY DEF Cmd, NoCmd
    <2>3. body = [a \in {} |-> Absent]
      BY <2>1 DEF RInv, Progress, Reading
    <2>4. TypeOK'
      BY <2>1, <2>2 DEF RInv, TypeOK
    <2>5. Progress'
      <3>1. (c.addr + (c.len - c.len)) % N = c.addr
        <4>1. c.len - c.len = 0
          BY <2>2
        <4> QED  BY <2>2, <4>1, ModZero
      <3> QED  BY <2>1, <2>2, <2>3, <3>1 DEF Progress
    <2>6. Collected' /\ BodyNew'
      <3>1. Executed' = 0
        BY <2>1, <2>2 DEF Executed
      <3>2. Span(c.addr, 0) = {}
        BY DEF Span
      <3> QED  BY <2>1, <2>3, <3>1, <3>2 DEF Collected, BodyNew
    <2>7. DatedPast' /\ CacheHonest' /\ FirstDropped'
      BY <2>1, <2>2 DEF RInv, DatedPast, CacheHonest, FirstDropped
    <2> QED  BY <2>4, <2>5, <2>6, <2>7 DEF RInv
  <1> QED  BY <1>1, <1>2

LEMMA BoilerRInv ==
  ASSUME RInv, NEW b \in Addr, BoilerChanges(b)
  PROVE  RInv'
  <1>1. /\ mem' = [mem EXCEPT ![b] = Aged(mem[b], FALSE)]
        /\ body' = [x \in DOMAIN body |->
                      IF x = b THEN Outdated(body[x], FALSE) ELSE body[x]]
        /\ UNCHANGED <<now, pc, cmd, start, remainder, addr, err, wrote>>
    BY DEF BoilerChanges, callVars
  <1>2. mem \in [Addr -> Entry] /\ mem[b].time <= now
    BY DEF RInv, TypeOK, Entry, DatedPast
  <1>3. /\ mem' \in [Addr -> Entry]
        /\ \A a \in Addr : mem'[a].time = mem[a].time
        /\ CacheHonest'
    <2>1. /\ Aged(mem[b], FALSE) \in Entry /\ Aged(mem[b], FALSE).time = mem[b].time
          /\ mem[b].time # 0 /\ mem[b].copy.out >= mem[b].time
               => Aged(mem[b], FALSE).copy.out >= mem[b].time
      BY <1>2, AgedEntry DEF Entry, RInv
    <2> QED  BY <1>1, <1>2, <2>1 DEF RInv, CacheHonest
  <1>4. \A a \in DOMAIN body : /\ body'[a] \in Copy
                               /\ body[a].out >= start => body'[a].out >= start
                               /\ body'[a].over = body[a].over
    <2> SUFFICES ASSUME NEW a \in DOMAIN body
                 PROVE  /\ body'[a] \in Copy
                        /\ body[a].out >= start => body'[a].out >= start
                        /\ body'[a].over = body[a].over
      OBVIOUS
    <2>1. body[a] \in Copy /\ start \in 0 .. now
      BY DEF RInv, TypeOK
    <2>2. body[a].over \in BOOLEAN
      BY <2>1 DEF Copy
    <2> QED  BY <1>1, <2>1, <2>2, OutdatedCopy DEF RInv
  <1>5. TypeOK'
    BY <1>1, <1>3, <1>4 DEF RInv, TypeOK, Entry
  <1>6. Progress' /\ Collected' /\ BodyNew'
    <2>1. DOMAIN body' = DOMAIN body
      BY <1>1
    <2>2. body = [a \in {} |-> Absent] => body' = [a \in {} |-> Absent]
      BY <1>1
    <2> QED
      BY <1>1, <1>4, <2>1, <2>2
         DEF RInv, Progress, Collected, BodyNew, Reading, Executed, Chunk, Touched
  <1>7. DatedPast' /\ FirstDropped'
    <2>1. pc # "idle" => cmd.addr \in Addr
      BY CallParts
    <2>2. wrote.kind = "write" => wrote.addr \in Addr
      BY DEF RInv, TypeOK, NoCmd, Cmd
    <2> QED  BY <1>1, <1>3, <2>1, <2>2 DEF RInv, DatedPast, FirstDropped
  <1> QED  BY <1>3, <1>5, <1>6, <1>7 DEF RInv

\* The boiler executes the next chunk: what a read has collected grows by it.
LEMMA ExecuteRInv ==
  ASSUME RInv, Execute
  PROVE  RInv'
  <1>1. /\ pc = "send" /\ pc' = "recv"
        /\ UNCHANGED <<now, cmd, start, remainder, addr, err, res, wrote>>
    BY DEF Execute
  <1>2. Touched \subseteq Addr /\ Touched' = Touched /\ Chunk' = Chunk
    BY <1>1, TouchedInside DEF Touched, Chunk
  <1>3. mem \in [Addr -> Entry] /\ \A a \in Addr : mem[a].time <= now
    BY DEF RInv, TypeOK, Entry, DatedPast
  <1>4. CASE cmd.kind = "read"
    <2>1. /\ mem' = mem
          /\ body' = [a \in DOMAIN body \cup Touched |->
                        IF a \in Touched THEN Fresh ELSE body[a]]
      BY <1>4 DEF Execute
    <2>2. start <= now /\ now <= MaxTime /\ start \in Nat /\ now \in Nat
      BY DEF RInv, TypeOK
    <2>3. \A a \in DOMAIN body' : a \in Addr /\ body'[a] \in Copy
      BY <1>2, <2>1, CopyTypes DEF RInv, TypeOK
    <2>4. BodyNew'
      <3>1. Fresh.out >= start /\ ~Fresh.over
        BY <2>2 DEF Fresh, Never
      <3>2. \A a \in DOMAIN body : body[a].out >= start /\ ~body[a].over
        BY <1>1, <1>4 DEF RInv, BodyNew, Reading
      <3> QED  BY <1>1, <2>1, <3>1, <3>2 DEF BodyNew
    <2>5. Collected'
      <3>1. Touched' \subseteq DOMAIN body'
        BY <1>2, <2>1
      <3>2. ASSUME ~err  PROVE DOMAIN body' = Span(cmd.addr, Executed')
        <4> DEFINE m == cmd.len - remainder
        <4>1. DOMAIN body = Span(cmd.addr, m)
          <5>1. Executed = m
            BY <1>1, CallParts DEF Executed
          <5> QED  BY <1>1, <1>4, <3>2, <5>1 DEF RInv, Collected, Reading
        <4>2. m \in Nat /\ Chunk \in Nat /\ m + Chunk <= N /\ cmd.addr \in Addr
          BY <1>1, CallParts
        <4>3. Touched = Span((cmd.addr + m) % N, Chunk)
          BY <1>1, <1>4, CallParts DEF Touched
        <4>4. DOMAIN body' = Span(cmd.addr, m + Chunk)
          <5>1. DOMAIN body' = DOMAIN body \cup Touched
            BY <2>1
          <5> HIDE DEF m
          <5> QED  BY <4>1, <4>2, <4>3, <5>1, SpanJoin
        <4>5. Executed' = m + Chunk
          BY <1>1, <1>2 DEF Executed
        <4> QED  BY <4>4, <4>5
      <3> QED  BY <1>1, <3>1, <3>2 DEF Collected
    <2>6. TypeOK' /\ Progress' /\ DatedPast' /\ CacheHonest' /\ FirstDropped'
      <3>1. TypeOK'
        BY <1>1, <2>1, <2>3 DEF RInv, TypeOK
      <3>2. Progress'
        BY <1>1, <1>4 DEF RInv, Progress, Reading
      <3> QED
        BY <1>1, <1>4, <2>1, <3>1, <3>2 DEF RInv, DatedPast, CacheHonest, FirstDropped
    <2> QED  BY <2>4, <2>5, <2>6 DEF RInv
  <1>5. CASE cmd.kind # "read"
    <2>1. /\ body' = body
          /\ mem' = [a \in Addr |-> IF a \in Touched THEN Aged(mem[a], TRUE) ELSE mem[a]]
      BY <1>5 DEF Execute
    <2>2. \A a \in Addr : /\ mem'[a] \in Entry /\ mem'[a].time = mem[a].time
                          /\ mem'[a].time # 0 => mem'[a].copy.out >= mem'[a].time
      <3> SUFFICES ASSUME NEW a \in Addr
                   PROVE  /\ mem'[a] \in Entry /\ mem'[a].time = mem[a].time
                          /\ mem'[a].time # 0 => mem'[a].copy.out >= mem'[a].time
        OBVIOUS
      <3>1. mem[a] \in Entry /\ mem[a].time <= now
        BY <1>3
      <3>2. /\ Aged(mem[a], TRUE) \in Entry /\ Aged(mem[a], TRUE).time = mem[a].time
            /\ mem[a].time # 0 /\ mem[a].copy.out >= mem[a].time
                 => Aged(mem[a], TRUE).copy.out >= mem[a].time
        BY <3>1, AgedEntry DEF Entry, RInv
      <3> QED  BY <2>1, <3>1, <3>2 DEF RInv, CacheHonest
    <2>3. TypeOK'
      <3>1. mem' \in [Addr -> Entry]
        BY <2>1, <2>2
      <3> QED  BY <1>1, <2>1, <3>1 DEF RInv, TypeOK, Entry
    <2>4. DatedPast' /\ CacheHonest'
      BY <1>1, <2>2 DEF RInv, DatedPast, CacheHonest
    <2>5. Progress' /\ Collected' /\ BodyNew'
      BY <1>1, <1>5, <2>1 DEF RInv, Progress, Collected, BodyNew, Reading
    <2>6. FirstDropped'
      <3>1. cmd.addr \in Addr
        BY <1>1, CallParts
      <3> QED  BY <1>1, <2>2, <3>1 DEF RInv, FirstDropped
    <2> QED  BY <2>3, <2>4, <2>5, <2>6 DEF RInv
  <1> QED  BY <1>4, <1>5

\* What a result leaves in the cache is dated honestly.
LEMMA StoredEntries ==
  ASSUME RInv, pc = "recv", NEW good \in BOOLEAN, mem' = Stored(good), UNCHANGED now
  PROVE  mem' \in [Addr -> Entry] /\ DatedPast' /\ CacheHonest'
  <1>1. /\ mem \in [Addr -> Entry] /\ addr \in Addr /\ start \in 0 .. now
        /\ now \in 1 .. MaxTime
        /\ \A a \in Addr : mem[a].time <= now
        /\ \A a \in Addr : mem[a].time # 0 => mem[a].copy.out >= mem[a].time
    BY DEF RInv, TypeOK, Entry, DatedPast, CacheHonest
  <1>2. CASE ~good
    BY <1>1, <1>2 DEF Stored, DatedPast, CacheHonest
  <1>3. CASE good /\ cmd.kind = "read"
    <2>1. mem' = [a \in Addr |-> IF a \in Touched THEN [time |-> start, copy |-> body[a]]
                                                   ELSE mem[a]]
      BY <1>3 DEF Stored
    <2>2. \A a \in Addr : a \in Touched => body[a] \in Copy /\ body[a].out >= start
      BY <1>3 DEF RInv, TypeOK, Collected, BodyNew, Reading
    <2>3. \A a \in Addr : /\ mem'[a] \in Entry /\ mem'[a].time <= now
                          /\ mem'[a].time # 0 => mem'[a].copy.out >= mem'[a].time
      BY <1>1, <2>1, <2>2 DEF Entry
    <2> QED  BY <2>1, <2>3 DEF DatedPast, CacheHonest
  <1>4. CASE good /\ cmd.kind # "read"
    <2>1. mem' = [mem EXCEPT ![addr] = [time |-> 0, copy |-> Absent]]
      BY <1>4 DEF Stored
    <2>2. [time |-> 0, copy |-> Absent] \in Entry
      BY CopyTypes DEF Entry
    <2> QED  BY <1>1, <2>1, <2>2 DEF DatedPast, CacheHonest
  <1> QED  BY <1>2, <1>3, <1>4

\* A good result of a write drops the first byte of the range, or that has been
\* dropped with an earlier chunk.
LEMMA StoredDrops ==
  ASSUME RInv, pc = "recv", cmd.kind = "write", ~err, mem' = Stored(TRUE)
  PROVE  mem'[cmd.addr].time = 0
  <1>1. mem' = [mem EXCEPT ![addr] = [time |-> 0, copy |-> Absent]]
    BY DEF Stored
  <1>2. cmd.addr \in Addr /\ addr \in Addr /\ mem \in [Addr -> Entry]
    BY CallParts DEF RInv, TypeOK, Entry
  <1>3. \A a \in Addr : mem[a].time = 0 \/ a = addr => mem'[a].time = 0
    <2>1. [time |-> 0, copy |-> Absent].time = 0
      OBVIOUS
    <2>2. mem'[addr].time = 0
      BY <1>1, <1>2, <2>1
    <2>3. \A a \in Addr : a # addr => mem'[a] = mem[a]
      BY <1>1, <1>2
    <2> QED  BY <2>2, <2>3
  <1>4. remainder < cmd.len => mem[cmd.addr].time = 0
    BY DEF RInv, FirstDropped
  <1>5. remainder = cmd.len => cmd.addr = addr
    <2>1. remainder = cmd.len => addr = (cmd.addr + 0) % N
      BY CallParts
    <2> QED  BY <1>2, <2>1, ModZero
  <1>6. remainder < cmd.len \/ remainder = cmd.len
    BY CallParts
  <1> QED  BY <1>2, <1>3, <1>4, <1>5, <1>6

LEMMA ReceiveRInv ==
  ASSUME RInv, NEW good \in BOOLEAN, Receive(good)
  PROVE  RInv'
  <1> DEFINE bodyNow == IF good THEN body ELSE [a \in DOMAIN body \ Touched |-> body[a]]
  <1>1. pc = "recv" /\ mem' = Stored(good) /\ UNCHANGED now /\ err \in BOOLEAN
    BY DEF Receive, RInv, TypeOK
  <1>2. mem' \in [Addr -> Entry] /\ DatedPast' /\ CacheHonest'
    BY <1>1, StoredEntries
  <1>3. ~KeptError(good) => good /\ ~err
    BY DEF KeptError
  <1>4. ~KeptError(good) /\ cmd.kind = "write" => mem'[cmd.addr].time = 0
    BY <1>1, <1>3, StoredDrops
  <1>5. CASE ~MoreChunks
    <2>1. Finish(~KeptError(good), bodyNow)
      BY <1>5 DEF Receive
    <2> QED  BY <1>1, <1>2, <1>4, <2>1, Finished
  <1>6. CASE MoreChunks
    <2>1. /\ pc' = "send" /\ remainder' = remainder - ChunkSize
          /\ addr' = (addr + ChunkSize) % N /\ err' = KeptError(good) /\ body' = bodyNow
          /\ UNCHANGED <<now, cmd, start, res, wrote>>
      BY <1>1, <1>6 DEF Receive
    <2>2. Chunk = ChunkSize /\ remainder > ChunkSize
      BY <1>6 DEF MoreChunks, Chunk
    <2>3. remainder' \in 1 .. cmd.len /\ cmd.len - remainder' = (cmd.len - remainder) + ChunkSize
      BY <1>1, <2>1, <2>2, CallParts
    <2>4. addr' = (cmd.addr + (cmd.len - remainder')) % N
      <3>1. /\ addr = (cmd.addr + (cmd.len - remainder)) % N /\ cmd.addr \in Addr
            /\ cmd.len - remainder \in Nat /\ (cmd.len - remainder) + ChunkSize <= N
        BY <1>1, <2>2, CallParts
      <3> QED  BY <2>1, <2>3, <3>1, ModTwice
    <2>5. \A a \in DOMAIN body' : a \in DOMAIN body /\ body'[a] = body[a]
      BY <2>1
    <2>6. TypeOK'
      <3>1. addr' \in Addr
        BY <1>1, <2>1, <2>2, ModSum, CallParts DEF RInv, TypeOK
      <3>2. remainder' \in 0 .. MaxLen /\ err' \in BOOLEAN
        BY <1>1, <2>1, <2>3, CallParts DEF KeptError
      <3>3. DOMAIN body' \subseteq Addr /\ \A a \in DOMAIN body' : body'[a] \in Copy
        BY <2>5 DEF RInv, TypeOK
      <3>4. remainder' > 0
        BY <1>1, <2>3, CallParts
      <3> QED  BY <1>1, <1>2, <2>1, <3>1, <3>2, <3>3, <3>4 DEF RInv, TypeOK, Entry
    <2>7. Progress'
      <3>1. ~Reading => body' = [a \in {} |-> Absent]
        BY <2>1 DEF RInv, Progress
      <3> QED  BY <1>1, <2>1, <2>3, <2>4, <3>1, CallParts DEF Progress, Reading
    <2>8. Collected'
      <3> SUFFICES ASSUME cmd.kind = "read", ~err'
                   PROVE  DOMAIN body' = Span(cmd.addr, Executed')
        BY <2>1 DEF Collected, Reading
      <3>1. good /\ ~err /\ body' = body
        BY <1>3, <2>1
      <3>2. Executed' = Executed
        BY <1>1, <2>1, <2>2, <2>3, CallParts DEF Executed
      <3> QED  BY <1>1, <3>1, <3>2 DEF RInv, Collected, Reading
    <2>9. BodyNew'
      BY <1>1, <2>1, <2>5 DEF RInv, BodyNew, Reading
    <2>10. FirstDropped'
      BY <1>4, <2>1 DEF FirstDropped
    <2> QED  BY <1>2, <2>6, <2>7, <2>8, <2>9, <2>10 DEF RInv
  <1> QED  BY <1>5, <1>6

LEMMA NextRInv == RInv /\ [Next]_vars => RInv'
  <1> SUFFICES ASSUME RInv, [Next]_vars  PROVE RInv'
    OBVIOUS
  <1>1. CASE ReturnEof
    <2>1. UNCHANGED mem => /\ mem' \in [Addr -> Entry]
                           /\ UNCHANGED now => DatedPast' /\ CacheHonest'
      BY DEF RInv, TypeOK, Entry, DatedPast, CacheHonest
    <2> QED  BY <1>1, <2>1, Finished DEF ReturnEof
  <1>2. CASE UNCHANGED vars
    BY <1>2 DEF vars, callVars, RInv, TypeOK, Progress, Collected, BodyNew, DatedPast,
                CacheHonest, FirstDropped, Reading, Executed, Chunk, Touched
  <1> QED
    BY <1>1, <1>2, TickRInv, CallRInv, BoilerRInv, ExecuteRInv, ReceiveRInv
       DEF Next, Call

-----------------------------------------------------------------------------
(* What callers get.                                                         *)

\* The types, and that a call never counts beyond its range.
THEOREM TypeCorrect == Spec => []TypeOK
  <1>1. RInv => TypeOK
    BY DEF RInv
  <1> QED  BY InitRInv, NextRInv, <1>1, PTL DEF Spec

\* No entry of the cache is dated later than the boiler's byte was its copy, however
\* the boiler's changes, our writes and other chunks fall between command and
\* result.
THEOREM CacheHonestHolds == Spec => []CacheHonest
  <1>1. RInv => CacheHonest
    BY DEF RInv
  <1> QED  BY InitRInv, NextRInv, <1>1, PTL DEF Spec

\* A hit returns copies that are young enough, and as many as were asked for.
LEMMA HitResult ==
  ASSUME RInv, NEW c \in Issued, CallHit(c)
  PROVE  res'.fresh /\ res'.whole
  <1> DEFINE copies == [a \in Span(c.addr, c.len) |-> mem[a].copy]
  <1>1. /\ res' = Result(c, TRUE, copies, now) /\ CacheHit(c.addr, c.len)
    BY DEF CallHit
  <1>2. c \in Cmd /\ c.addr \in Addr /\ c.len \in 0 .. N /\ now \in Nat
    BY DEF Cmd, RInv, TypeOK
  <1>3. Cardinality(DOMAIN copies) = c.len
    BY <1>2, SpanSize
  <1>4. ASSUME NEW a \in DOMAIN copies
        PROVE  copies[a].out >= now \/ copies[a].out + CacheDuration > now
    <2>1. a \in Addr /\ copies[a] = mem[a].copy
      BY <1>2, SpanInside
    <2>2. mem[a].time # 0 /\ now - mem[a].time < CacheDuration
      BY <1>1 DEF CacheHit
    <2>3. /\ mem[a].time \in Nat /\ mem[a].copy.out \in Nat
          /\ mem[a].copy.out >= mem[a].time
      BY <2>1, <2>2, CopyTypes DEF RInv, TypeOK, CacheHonest, Copy
    <2> QED  BY <1>2, <2>1, <2>2, <2>3
  <1> HIDE DEF copies
  <1> QED  BY <1>1, <1>3, <1>4 DEF Result

\* So does a call that has asked the boiler, unless it reports an error.
LEMMA FinishResult ==
  ASSUME RInv, NEW good \in BOOLEAN, Receive(good), ~MoreChunks, res'.ok
  PROVE  res'.fresh /\ res'.whole /\ ~res'.over
  <1> DEFINE bodyNow == IF good THEN body ELSE [a \in DOMAIN body \ Touched |-> body[a]]
  <1>1. pc = "recv" /\ Finish(~KeptError(good), bodyNow)
    BY DEF Receive
  <1>2. res' = Result(cmd, ~KeptError(good), bodyNow, start)
    BY <1>1 DEF Finish
  <1>3. good /\ ~err /\ res' = Result(cmd, ~KeptError(good), body, start)
    BY <1>2 DEF Result, KeptError
  <1>4. \A a \in DOMAIN body : body[a].out >= start /\ ~body[a].over
    <2>1. cmd.kind # "read" => DOMAIN body = {}
      BY DEF RInv, Progress, Reading
    <2> QED  BY <1>1, <2>1 DEF RInv, BodyNew, Reading
  <1>5. cmd.kind = "read" => Cardinality(DOMAIN body) = cmd.len
    <2>1. remainder = Chunk /\ cmd.len \in 0 .. N /\ cmd.addr \in Addr /\ remainder \in 1 .. cmd.len
      BY <1>1, CallParts DEF MoreChunks, Chunk
    <2>2. Executed = cmd.len
      BY <1>1, <2>1 DEF Executed
    <2>3. cmd.kind = "read" => DOMAIN body = Span(cmd.addr, cmd.len)
      BY <1>1, <1>3, <2>2 DEF RInv, Collected, Reading
    <2> QED  BY <2>1, <2>3, SpanSize
  <1> QED  BY <1>3, <1>4, <1>5 DEF Result

\* A result is there in the state in which its call has returned, and in no other.
ResultLeaves == pc # "idle" => ~res.ok

GoodResult == RInv /\ ResultLeaves /\ FreshResult /\ WholeResult

\* The only steps that report success.
LEMMA SuccessSteps ==
  ASSUME ResultLeaves, Next, res'.ok
  PROVE  \/ \E c \in Issued : CallHit(c)
         \/ \E good \in BOOLEAN : Receive(good) /\ ~MoreChunks
  <1>1. CASE ReturnEof
    <2>1. ~res'.ok
      BY <1>1 DEF ReturnEof, Finish, Result
    <2> QED  BY <2>1
  <1>2. CASE \E good \in BOOLEAN : Receive(good)
    <2>1. PICK good \in BOOLEAN : Receive(good)
      BY <1>2
    <2>2. MoreChunks => pc = "recv" /\ res' = res
      BY <2>1 DEF Receive
    <2>3. ~MoreChunks
      BY <2>2 DEF ResultLeaves
    <2> QED  BY <2>1, <2>3
  <1>3. CASE Tick \/ (\E a \in Addr : BoilerChanges(a)) \/ \E c \in Issued : CallMiss(c)
    <2>1. res' = NoRes
      BY <1>3 DEF Tick, BoilerChanges, CallMiss
    <2> QED  BY <2>1 DEF NoRes
  <1>4. CASE Execute
    BY <1>4 DEF Execute, ResultLeaves
  <1> QED  BY <1>1, <1>2, <1>3, <1>4 DEF Next, Call

LEMMA InitGoodResult == Init => GoodResult
  BY InitRInv DEF GoodResult, Init, ResultLeaves, FreshResult, WholeResult, NoRes

LEMMA NextGoodResult == GoodResult /\ [Next]_vars => GoodResult'
  <1> SUFFICES ASSUME GoodResult, Next
               PROVE  ResultLeaves' /\ (res'.ok => res'.fresh /\ res'.whole)
    <2>1. UNCHANGED vars => (ResultLeaves /\ FreshResult /\ WholeResult)'
                            \/ ~(ResultLeaves /\ FreshResult /\ WholeResult)
      BY DEF vars, callVars, ResultLeaves, FreshResult, WholeResult
    <2> QED  BY <2>1, NextRInv DEF GoodResult, FreshResult, WholeResult
  <1>1. res'.ok => res'.fresh /\ res'.whole
    BY SuccessSteps, HitResult, FinishResult DEF GoodResult
  <1>2. ASSUME pc' # "idle"  PROVE ~res'.ok
    <2>1. (\E c \in Issued : CallHit(c)) => pc' = "idle"
      BY DEF CallHit, callVars
    <2>2. (\E good \in BOOLEAN : Receive(good) /\ ~MoreChunks) => pc' = "idle"
      BY DEF Receive, Finish
    <2> QED  BY <1>2, <2>1, <2>2, SuccessSteps DEF GoodResult
  <1> QED  BY <1>1, <1>2 DEF ResultLeaves

\* No successful read returns a byte that had changed in the boiler a CacheDuration
\* or longer before the call: not across chunks, not after a write to part of the
\* range, and with a duration of 0 none that had changed at all.
THEOREM FreshResultHolds == Spec => []FreshResult
  <1>1. GoodResult => FreshResult
    BY DEF GoodResult
  <1> QED  BY InitGoodResult, NextGoodResult, <1>1, PTL DEF Spec

\* A successful read has exactly the bytes asked for, for every chunk size and at
\* the end of the address space, too.
THEOREM WholeResultHolds == Spec => []WholeResult
  <1>1. GoodResult => WholeResult
    BY DEF GoodResult
  <1> QED  BY InitGoodResult, NextGoodResult, <1>1, PTL DEF Spec

\* Reading back what has just been written never shows what was there before,
\* although a write drops only the first byte of each chunk from the cache.
THEOREM ReadBackHolds == Spec => ReadBack
  <1> DEFINE Before == /\ res'.ok /\ res'.cmd.kind = "read" /\ wrote.kind = "write"
                       /\ res'.cmd.addr = wrote.addr /\ res'.cmd.len = wrote.len
  <1>1. GoodResult /\ [Next]_vars => [Before => ~res'.over]_vars
    <2> SUFFICES ASSUME GoodResult, Next, Before  PROVE ~res'.over
      OBVIOUS
    <2>1. ASSUME NEW c \in Issued, CallHit(c)  PROVE FALSE
      <3>1. pc = "idle" /\ c.addr = wrote.addr /\ CacheHit(c.addr, c.len)
        BY <2>1 DEF CallHit, Result
      <3>2. c \in Cmd /\ c.addr \in Addr /\ c.len \in 1 .. N
        BY DEF Cmd
      <3>3. c.addr \in Span(c.addr, c.len)
        BY <3>2, SpanInside
      <3>4. mem[c.addr].time = 0
        BY <3>1 DEF GoodResult, RInv, FirstDropped
      <3> QED  BY <3>1, <3>3, <3>4 DEF CacheHit
    <2>2. CASE \E good \in BOOLEAN : Receive(good) /\ ~MoreChunks
      BY <2>2, FinishResult DEF GoodResult
    <2> QED  BY <2>1, <2>2, SuccessSteps DEF GoodResult
  <1> QED  BY InitGoodResult, NextGoodResult, <1>1, PTL DEF Spec, ReadBack

-----------------------------------------------------------------------------
(* Writes that fit in one chunk.                                             *)

OneChunk == pc # "idle" /\ cmd.kind = "write" => remainder = cmd.len

\* What the run chunked_write refutes holds as long as no write is longer than a
\* chunk: it changes the bytes it names and no other.
THEOREM ShortWriteInRange ==
  ASSUME \A c \in Issued : c.kind = "write" => c.len <= ChunkSize
  PROVE  Spec => []WriteInRange
  <1>1. Init => RInv /\ OneChunk
    BY InitRInv DEF Init, OneChunk
  <1>2. RInv /\ OneChunk /\ [Next]_vars => (RInv /\ OneChunk)'
    <2> SUFFICES ASSUME RInv, OneChunk, [Next]_vars, pc' # "idle", cmd'.kind = "write"
                 PROVE  remainder' = cmd'.len
      BY NextRInv DEF OneChunk
    <2>1. CASE \E c \in Issued : CallHit(c) \/ CallMiss(c)
      BY <2>1 DEF CallHit, CallMiss, callVars, RInv, Progress, Reading, OneChunk
    <2>2. ASSUME NEW good \in BOOLEAN, Receive(good)  PROVE FALSE
      <3>1. MoreChunks /\ pc = "recv" /\ cmd' = cmd
        BY <2>2 DEF Receive, Finish
      <3>2. cmd \in Issued /\ remainder = cmd.len /\ cmd.len <= ChunkSize
        BY <3>1, CallParts DEF OneChunk
      <3> QED  BY <3>1, <3>2, CallParts DEF MoreChunks
    <2>3. CASE ReturnEof
      BY <2>3 DEF ReturnEof, Finish
    <2>4. CASE Tick \/ Execute \/ (\E a \in Addr : BoilerChanges(a)) \/ UNCHANGED vars
      BY <2>4 DEF Tick, Execute, BoilerChanges, vars, callVars, OneChunk
    <2> QED  BY <2>1, <2>2, <2>3, <2>4 DEF Next, Call
  <1>3. RInv /\ OneChunk => WriteInRange
    <2> SUFFICES ASSUME RInv, OneChunk, pc = "recv", cmd.kind = "write"
                 PROVE  Touched \subseteq Span(cmd.addr, cmd.len)
      BY DEF WriteInRange
    <2>1. cmd.addr \in Addr /\ addr = (cmd.addr + 0) % N
      BY CallParts DEF OneChunk
    <2>2. addr = cmd.addr
      BY <2>1, ModZero
    <2> QED  BY <2>2 DEF Touched
  <1> QED  BY <1>1, <1>2, <1>3, PTL DEF Spec
=============================================================================
