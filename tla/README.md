# Verification of vogod

vogod is a daemon that talks to a Viessmann boiler over a serial (or TCP) "Optolink" and offers its data
points over HTTP. This directory holds TLA+ modules of its core, TLC configurations that model-check them
on small instances, and theorems about them checked by TLAPS.

    tlc -config fsm.cfg MCFsm             # a run: see the table of runs
    tlapm VitoFsm_proofs.tla              # the proofs of a module

## The system

| Part (source) | State | Operations |
|---|---|---|
| Protocol state machine (`pkg/vogo/fsm.go`) | protocol state, `failCount`, `canP300`, `hasCmd`, `cmd`, times of the last sync and ENQ | one goroutine `vitoFsm`: a loop around a switch over the states; `prepareCmd` frames a command |
| Device (`device.go`) | link, `connected`, `rlock`, `wlock`, channels `cmdChan`, `resChan`, `Done` | `Connect`, `Close`, `Read`, `Write`, `Reconnect`; `ReadByte`, `Peek` (no callers) |
| Reader (`fsm.go` 297-323) | none of its own | one goroutine per machine: reads the link, pushes bytes on `c`, an error on `e` |
| Raw commands (`commands.go` 12-119) | the cache `Device.Mem`, `cmdLock` | `RawCmds`: cache lookup, chunks, rendezvous with the machine, cache update |
| Events (`commands.go` 136-221) | `cmdWLock` | `VRead`, `VWrite`: chunk by chunk through `RawCmd`, decode or encode in between |
| Codecs (`codec.go`) | none | `Decode`, `Encode` of the data formats |
| XML definitions (`xmlinfo.go`) | the event types, built once | `FindDataPointType`, `FindEventTypes` |
| Daemon (`cmd/vogod/main.go`) | `conn` | `main`: identification command, loading, the loop that reconnects; HTTP handlers |
| Service manager (`vogod.service`) | none | starts the process again whenever it ends |

How they interact: HTTP handlers call `VRead`, `VWrite` and `RawCmd` concurrently. `cmdWLock` lets one
`VWrite` in, `cmdLock` one `RawCmds`. `RawCmds` hands a command to the machine on the unbuffered
`cmdChan` (giving up after 10 s) and then waits, without a limit, for the answer on `resChan`. The
machine gets bytes from its reader and writes to the link itself. When the machine ends it sends one
value on `Done`; `main` receives it, pauses 12 s, and calls `Reconnect`, which closes the device, waits
for the machine and starts a new one. `Done` is also polled by the reader, by `Read` and by `Write`, and
is closed by `Close`.

What is hard:

- *ordering and failure in the machine*: seven ways out of an answer telegram, errors and timeouts in
  every state, a command that may be kept across resets. Correct means: each accepted command is answered
  once, with its own ID (`HeldIffWaiting`, `ResultForAsker`, `Implements`), and in the end
  (`FramedCallReturns`; `CallReturns` fails).
- *the life of a connection*: five goroutines, one channel with two uses, readers that outlive their
  machine. Correct means: no send on a closed or replaced channel (`DoneSafe`), no reader on somebody
  else's link (`OwnConnection`), every reconnect completes (`ReconnectCompletes`), and framed calls end
  even when their machine does (`CallEnds`).
- *the cache*: ages, overlapping ranges, chunks of which some fail, writes that change what is cached
  (`CacheHonest`, `FreshResult`, `WholeResult`, `ReadBack`).
- *read, modify, write*: events that share a block, written by concurrent handlers through the cache
  (`KeepsWritten`, `CacheFollowsWrites`, `WLockHeld`).
- *the wire*: bytes that are lost, added or late put the machine out of step with the boiler, and no
  answer names its question. Correct means: no old answer is taken for a new one as long as nothing has
  been disturbed (`AnswerInStep`), and a disturbance passes (`ResetFollows`).
- *definitions*: two XML files, in any order and with any numbers, decide which bytes are read and
  written. Correct means: the narrowest definition is chosen (`NarrowestChosen`), what is left on the
  list can be called (`NoNilCodec`, `PanicsOnlyUnchecked`), what is written is read back (`RoundTrip`)
  and nothing else changes (`NeighboursKept`).
- *numbers*: uint8 loop counters, uint16 addresses, bit masks of the codecs, lengths taken from the wire.

`PROJECT.json` lists every such hazard with its line and the properties that would catch it going wrong.

## The modules

| Module | Models | Composes |
|---|---|---|
| `CmdService` | abstract: what a caller of `RawCmd` is promised | |
| `VitoFsm` | the state machine, `prepareCmd`, the call inside `cmdLock`; the wire is open | implements `CmdService` |
| `Lifecycle` | main, machine (reduced to accepting, answering and ending), readers, service manager, and the fields of `Device` they share | |
| `RawCmds` | `RawCmds` and `getCache` with chunks and time | |
| `DataPoint` | `VRead`, `VWrite`, `getRaw` by concurrent handlers over one boiler and cache; a `RawCmd` is one step | |
| `Optolink` | a wire and a boiler around the P300 half of the machine | extends `VitoFsm` |
| `Codecs` | `Decode` and `Encode` of every codec, as operators on sequences of bytes | |
| `XmlInfo` | `FindDataPointType` and `FindEventTypes`, element by element | extends `Codecs` |
| `Values` | `VRead` and `VWrite` of loaded event types on one block of memory | extends `XmlInfo` |
| `MCFsm`, `MCRawCmds`, `MCDataPoint`, `MCValues` | the instances TLC checks | |
| `VitoFsm_proofs`, `Lifecycle_proofs`, `RawCmds_proofs`, `DataPoint_proofs`, `Values_proofs`, `Optolink_proofs` | theorems and proofs about the module of that name | each extends its module; `Optolink_proofs` also `VitoFsm_proofs` |
| `Codecs_proofs` | lemmas about the operators of `Codecs`: bits, bytes of a number, BCD, and each codec | extends `Codecs` |
| `Memory_proofs` | theorems about what `Values` does to the memory | extends `Values_proofs`, `Codecs_proofs` |

### VitoFsm

`state` is the code's `VitoState`. `pc` is the place in the loop: "top" before the switch (where the
reader's error is taken from `e`), "body" in it, "await" in the second half of state idle in KW mode
(after its poll of `cmdChan`), "gone" after a return. Every case of the switch is one action of the same
name. `call`, `ask`, `res` are the one `RawCmds` call that can be inside `cmdLock`: "offering" on
`cmdChan`, "waiting" for `resChan`. `Take` and `Reply` are the two rendezvous. `rxErr` is a reader
blocked on `e`. `synOld` and `enqOld` say whether the last sync is more than 10 s ago and the last ENQ
more than 1.5 s; they may become true at any time.

What the boiler sends is open: a wait for one byte gets ENQ, ACK, NAK, any other byte or a timeout, and
an answer telegram ends in one of the outcomes the code tells apart (`P300Answer`, `KwAnswer`). `Panic`
is the index out of range that a telegram announcing fewer than 5 bytes causes (fsm.go 630, 648, 654);
nothing recovers it and the service manager starts the process again.

`prevstate` and `resCnt` are left out (they only reach log lines), and so are the states `resetP300` and
`resetP300Ack`, which the code never enters.

### Lifecycle

`sup` is where main is: startup (the identification command), load, loop, done (blocked on
`<-conn.Done`), pause (12 s), close, renew, exited. Readers and connections are numbered: `rd[g]` is
where the reader of connection g is, `src[g]` the connection its pending `Read` uses. A machine in "exit"
is blocked sending on `Done`; whoever polls `Done` then (main, a reader, a reader inside `Read`) receives
that value. `connected` and `done` are the fields of `Device`. A `call` whose command cannot be framed is
"stuck" once the machine has accepted it: it is neither answered nor given up, and only the reconnect
after the end of its machine gets it out (`VitoFsm` asks what happens until then: run `fsm_stuck`). The
identification command of the startup is always framed.

`SupPause` stands for 12 s: when it is over, every reader has reached a place where it blocks. This is an
assumption about scheduling, and `OwnConnection` needs it: the mutant without it breaks that property.

### RawCmds

A tick clock dates the copies in `Device.Mem`. Bytes have no values: a copy carries when the boiler's
byte changed away from it and whether one of our own writes changed it, which is what decides if a read
is stale. `CacheHit` is `getCache` together with the age test, including the uint16 sum that wraps at the
top of the address space. A good result is taken to have the length asked for: the code takes the length
from the telegram. A result is fresh when each of its bytes was the boiler's less than `CacheDuration`
before the call, or later.

### DataPoint

A byte has parts, because events may own bits of one; a cell is one part of one byte. `cached` is the set
of addresses whose entry is younger than `CacheDuration`; an entry may expire at any time. `ReadChunk`
and `WriteChunk` are one pass of the loops of `VRead` and `VWrite`, with `i` counting modulo `Width` (2^8
in the code). `Encode` changes the event's cells in the block read. A write ends in "acked", or in an
error after the boiler has executed it or not; `VWrite` ignores which. The history variable `owed`
remembers, per cell, the value of the last acknowledged write, until another write or the boiler itself
changes the cell.

`StepAssumption` is what the code needs of an event and no code checks: a step that is not 0, a loop
counter that does not wrap, fields inside the block. `ChunkAssumption` is the other half: each step of an
event, and each raw read, goes into one telegram (`ChunkSize`, 32 in the code). With a longer one a
single `RawCmd` sends several telegrams, each of them with all the bytes to be written (run
`chunked_write`), and one of them can fail while the others come into the cache; that is modelled in
`RawCmds`, and `WriteChunk` and `ReadFails` would not be the code. `RawAssumption` keeps raw reads inside
the memory that is modelled.

### Optolink

The wire is a first-in first-out sequence of tokens: single bytes, whole answer telegrams, and what is
left of a telegram whose first bytes were read by somebody who expected something else. The machine's
actions are those of `VitoFsm`; this module says which bytes they can read and how the boiler reacts to
what they write. Each answer on the wire remembers whether it is to the command taken last (`mine`),
which the machine cannot see: it compares the kind of command and the length, never the address.
`disturbed` is set when a byte of noise, a lost ACK, a repeated answer or a boiler that falls back to KW
breaks the correspondence of commands and answers, and cleared by a reset that finds no stray byte on the
wire, or when the machine finds the wire silent. The boiler reacts to a command that is framed and
written; one that `prepareCmd` refuses never gets to it.

What the module shows beyond its properties:

- After one stray byte where an ACK is expected, the machine goes back to `wait` without a reset
  (fsm.go:584). The ACK and the answer are still to come; if the next command is issued before the
  machine looks at the wire, it takes the old answer for its own. This is why `AnswerInStep` can only be
  stated between disturbances.
- A reset drains nothing (fsm.go:667 has a TODO about it), so that it ends a disturbance only if the
  stray bytes are read by then. `ResetFollows` says that one follows, not that the first one suffices.
- In `wait`, Go's select chooses at random between a byte and a command. A stream of commands can hide a
  stray byte for any finite time; that a byte which is there again and again is chosen once is the strong
  fairness of `Unexpected`. If nobody reads it, the sync after 10 s (`synOld`) does it.

### Codecs, XmlInfo, Values

`Codecs` translates codec.go byte by byte: widths, byte orders, signs, nibbles, bit fields counted from
the start of the block, BCD, and each way to fail (an error, a slice or index out of range, a division by
zero, a failed type assertion). Recursion is written out, since the data are small: a byte is the sum of
eight `Worth`s, `FromLE` reads the eight bytes a uint has, `ToLE` writes five (2^40 seconds) and repeats
the sign above them. `Value` is what a JSON can hold for a codec, with dates of four-digit years.

A number of the boiler is whole; the number a client sees is `ConversionFactor` times that, plus
`ConversionOffset`. The model counts the latter in thousandths, so that Div10 has the factor 100.
`Unscaled` is what happens before `Encode` (codec.go:214-226: the borders, the offset, the division, the
conversion to an integer that cuts off the rest), `Shown` what happens behind `Decode` (174). Both go
through float32, which is not exact: 21.3 / 0.1 is 212.99998 there, and the boiler gets 212. The model
has no float32. `Unscaled` and `Shown` are sets that contain the code's result: all results an arithmetic
may have whose error is within `Blur`, one part in 2^21 of the numbers involved, which is more than the
at most four roundings of 2^-24 each way can add up to. Nothing is blurred (`Exactly`) where all numbers
are eighths with up to 24 bits, whose sums and whole quotients a float32 holds. For the 21.3 of a Div10
event, `Unscaled` is {212, 213}. A property that holds for every member of the sets holds of the code.

`XmlInfo` is a state machine that reads any sequence of elements from the first file and then from the
second: the numbers of an element are those `ParseUint` takes for a uint8, or `Bad`; `dp` is the best
match so far, `list` the map of event types with its placeholders; a refused element deletes its name, a
short ID panics the process, and the service manager starts it again. `Values` composes both with the
loops of `VRead` and `VWrite`, whose uint8 counter may pass `BlockLength` by and begin again (`Offset`,
`Endless`, `Wraps`). `open` says which requests are not kept out by a lock that is held for good.

`Sane` collects what the codecs need of a definition and what the loader checks only in part:

| Needed | Checked by the loader |
|---|---|
| `BlockLength` > 0, a multiple of `BlockFactor` | no |
| `BytePosition + ByteLength <= BlockLength` | in uint8, so that a sum above 255 passes (xmlinfo.go:277) |
| a bit field inside one byte of the block | no |
| 1 to 4 bytes, or an unsigned half of one, for a scaled number | lengths refused by the codec at each request |
| 8 bytes for a date with a time (`DateTimeBCD`), which writes 8 whatever `ByteLength` is | no |
| at least 4 bytes for a date (`DateBCD`): fewer cannot be decoded | no |
| 1 to 4 bytes for a duration (longer ones have no lemma, nor numbers in the instance) | no |
| a `BlockFactor` for switching times | no |
| blocks of 9 bytes for error histories | only for `FehlerHisFA` |

`PanicsOnlyUnchecked` says that this list is complete. It needs the exception of a number, object or null
for a date, which panics in a type assertion (codec.go:329, 383) whatever the definition is. All these
panics are the handler's: net/http recovers them and the deferred unlocks run. A loop that does not end
is worse: in `VWrite` it keeps `cmdWLock`.

`RoundTrip` says of a number that it comes back within one step of what was written, plus what float32
may blur, and unchanged if it is a whole number of steps and all numbers are `Exactly` what float32 can
hold. The loss of a step is the code's: a temperature set to 21.3 is read as 21.2. `Fits` asks that the
raw number has a place in the field, whichever of its float32 outcomes it is: 200 does not fit a Div10
event of one byte, as it is raw 2000.

A `DateBCD` event that is shorter than 8 bytes `Spills`: codec.go:398-413 writes weekday and midnight
behind the date as far as the block goes, whatever `ByteLength` is. `RoundTrip` covers these events,
`NeighboursKept` leaves them out: it would be false.

An extension of five or six digits in the first file is compared with four bytes of the boiler, and six
digits cannot exceed these unless the first of them is 0. A bounded wide definition therefore matches
almost no boiler, as in the instance of `definitions`.

`NarrowestChosen` needs `Tellable`: of two intervals with the same upper end the code takes the one that
comes first in the file, and an extension of more than four digits is compared with a wider number of the
boiler's than one of four digits. An unbounded interval counts as one that ends at 0, so that it replaces
a bounded one that does not begin later.

Writing an event whose codec only decodes (switching times, error histories) answers OK, and writes the
block back as it was read.

## The runs

| Run | Instance | Shows |
|---|---|---|
| `fsm` | two IDs, reads, writes and a command that cannot be framed, `canP300` TRUE as in the code and FALSE, fairness | each call is answered once and with its own result, in both protocols; the protocol never changes; the machine implements `CmdService`; framed calls return, a read error ends the machine, resets end |
| `fsm_stuck` | as `fsm`, in P300 only | **violated**: the call never returns |
| `lifecycle` | three connections, fairness | reconnects are safe and complete, framed calls end |
| `stranded` | two connections | **violated**: a reader receives the end of the machine, main waits forever |
| `startup` | two connections, fairness | **violated**: the machine ends during the identification command and nobody reconnects |
| `rawcmds` | 4 addresses, chunks of 2, reads to length 3, overlapping ranges, 3 ticks | ages are honest, results whole and fresh, a write is read back |
| `chunked_write` | as `rawcmds` | **violated**: a write longer than a chunk writes beyond its range |
| `datapoint` | two handlers, two events of one block (one of two chunks), raw reads of whole chunks | no lost update, no stale chunk in the cache, the write lock is held and released |
| `lost_update` | the same with raw reads of one byte | **violated**: a stale block comes back into the cache and an old value is written back |
| `optolink` | one ID, reads and writes, at most 3 tokens on the wire, fairness | old answers are mistaken for new ones only in a disturbance; every disturbance passes or is followed by a reset |
| `definitions` | 10 data point definitions in files of up to 3, 48 event elements in files of up to 2, 10 bytes of memory, 8 values | the narrowest definition is chosen; panics only from what `Sane` names; values are read back, up to a step of the scaling, and neighbours kept |
| `neighbours` | two bit fields | **violated**: a value too large for its field changes the bits above it |

`StaysP300` says that the code never gets to KW by itself: `waitAck` (509-512) looks for three failures,
but the ones `waitfor` counts end the machine and the ones of `resetAck` are cleared on the way to
`waitAck`. `fsm` therefore also starts from a value of `canP300` the code does not start from today, to
check the half of the machine that is there for it. It is the only run that starts from such a state.

### The six disagreements

1. `fsm_stuck`, fsm.go:558. In `sendP300` an error of `prepareCmd` is logged, the command is kept and
   tried again forever. `RawCmd` blocks with `cmdLock` held. `VWrite` of an event that can only be
   written gets there, since it issues its read with `FCRead` 0.
2. `startup`, main.go:356. The identification command runs before anybody receives from `Done`.
3. `stranded`, fsm.go:305. The reader (or `Read`, device.go:71) takes the one value main waits for.
4. `chunked_write`, commands.go:79. Every chunk carries all of `Args`.
5. `lost_update`, commands.go:102. A write's result has one byte, so only the first byte of the block
   loses its place in the cache. A later read of that byte makes the block a hit again, with the stale
   rest, and the next `VWrite` of a neighbour writes the stale rest to the boiler.
6. `neighbours`, codec.go:98. The value of a bit field is shifted and not cut to the field, and no caller
   compares it with the value list, although "Encode only encodes Bytes or Bits affected by the given
   EventType" (codec.go:15). `NeighboursKeptHolds` shows that values that fit their field are safe. A
   second way to break the same sentence has no run of its own: a date in less than 8 bytes of a longer
   block (`Spills`, codec.go:403).

### Bounds

- Two IDs: a call can be pending and another one be the last answered; there is never a third in play.
  `MaxFail` is 100 in the code (fsm.go:103), 4 in `fsm` and `fsm_stuck` and 1 in `optolink`: the machine
  does the same below the bound whatever it is, and what is proved holds for every bound. There is no
  bound on time or on the number of calls.
- Three connections: a reader leaked by the first one meets a closing second and a running third. A
  process that uses up `MaxGen` can only fail to connect. Lifecycle runs switch deadlock checking off
  because of it, and because the daemon does come to a stop (run `stranded`).
- Four addresses with chunks of two: a command of one chunk, one of two, overlaps in the second byte, and
  the last address. Three ticks with a `CacheDuration` of two: entries age and expire.
- `Width` 8 with blocks of at most 4 bytes, two handlers, two values: each handler can be anywhere in its
  request while the other one runs.
- `Optolink`: a wire of three tokens holds a stray byte, an acknowledgement and an answer, or the two
  halves of two answers; what does not fit is lost, which is one of the things a wire does. Telegrams
  that are read out of step have three parts (first, middle, last). One disturbance by noise or by the
  boiler at a time; lost ACKs and repeated answers may add to it. One ID: calls are one at a time, and
  `fsm` has the two.
- `Values`: files of three data point definitions (two matches and a third that is better, worse or
  beside them) and of two event types, on one name (the second replaces or deletes the first) or two
  (neighbours in one byte). The elements of `MCValues` take each branch of the loader and of the codecs
  and each way to fail, among them counters that wrap before they stop (length 193, factor 2) and ones
  that never stop. TLC's integers are too small for numbers of four bytes; they differ from shorter ones
  in nothing but the width, and no element of the instance has them. Deadlock checking is off: a write
  that loops or waits forever keeps its lock, and the daemon may come to a stop.

### Fairness

- `VitoFsm`: the machine's goroutine takes a step it can take (every wait in it has a timeout). Nothing
  is assumed of main, of callers or of the boiler. Main may never come to reconnect (runs `startup` and
  `stranded`), and `FramedCallReturns` says what is left: a framed call returns, or its machine ends with
  the call inside. What becomes of that call is `CallEnds` of `Lifecycle`, where main is modelled.
- `Lifecycle`: goroutines that can run do; a call is given up after 10 s as long as the machine has not
  accepted it; a framed command that has been accepted is answered or its machine ends, which is
  `FramedCallReturns` of `VitoFsm`. Of a command that cannot be framed nothing is assumed (`fsm_stuck`).
  A link is not silent forever (`Link`): an assumption about the boiler, which sends its ENQ in idle, and
  about TCP keepalive. Without it `Close` waits forever for `rlock`, which a reader blocked in `Read`
  holds; no property covers that hazard.
- `Optolink`: the machine runs (weak fairness of `Machine`, whose waits have timeouts); time passes while
  it waits for bytes, so that the last sync gets old (strong fairness of `Ages`, which the reset of
  `lastSyn` disables again and again); a byte that is there again and again in state `wait` is chosen
  once (strong fairness of `Unexpected`: Go's select is random). Nothing is assumed of the boiler, of
  callers, or of the noise.
- `RawCmds`, `DataPoint` and `Values` are checked for safety only.

## The proofs

All theorems hold for every value of the constants that meets the named `ASSUME`s of the module.

`VitoFsm_proofs` (`IdsAssumption`, `IssuedAssumption`, `MaxFailAssumption`, `CanP300Assumption`):
`TypeCorrect`, `HeldIffWaitingHolds` and `ResultForAskerHolds` from one inductive invariant

    IInv == TypeOK /\ FailBound /\ HeldInKw /\ HeldIffWaiting /\ ResultForAsker

`FailBound` is needed because a reset counts one beyond `MaxFail` only on its way out: without it the
count has no bound. `HeldInKw` says that a command is held until `sendKw` has sent it and not any more in
`recvKw`: without it a reply there could answer a call nobody waits for. `StaysP300Holds` has its own
invariant, `NoFailures`: wherever a running machine has got past the reset, the count is 0, so that no
step of the machine takes the fallback. `ImplementsService` shows that `Init` implies `CmdService!Init`
and every step is a step of `CmdService` or a stutter, under `IInv`, with the mapping of `Srv` in
`VitoFsm`.

`Lifecycle_proofs` (`MaxGenAssumption`): `TypeOKHolds`, `DoneSafeHolds` and `OwnConnectionHolds` from
`LInv`, which adds three facts: main reconnects only when there is no machine (`NoMachine`), readers of
past connections have ended or block for good (`PastReaders`), and after the pause no reader is on its
way to `Read` (`Quiet`). The last one is where the 12 s enter.

`RawCmds_proofs` (`SizeAssumption`, `TimeAssumption`, `IssuedAssumption`): `TypeCorrect`,
`CacheHonestHolds`, `FreshResultHolds`, `WholeResultHolds` and `ReadBackHolds` from

    RInv == TypeOK /\ Progress /\ Collected /\ BodyNew /\ DatedPast /\ CacheHonest /\ FirstDropped

A result is only looked at when a call returns, and the invariant has to say what a call has got until
then: that it works through its range from the first address on (`Progress`, modulo the address space),
that it has collected every byte up to there unless a chunk has failed (`Collected`), and that what it
has collected was the boiler's after the call began (`BodyNew`). A hit needs that no entry is dated in
the future (`DatedPast`); a read after a write needs that the first byte of the write is not in the cache
(`FirstDropped`), from the first chunk on: of each chunk the code drops one byte. The three properties of
results follow from `GoodResult`, which adds that a result is there in the one state in which its call
has returned; `ReadBackHolds` is an action property: after a write no step is a hit of its range.
`ShortWriteInRange` delimits the finding of run `chunked_write`: if no write in `Issued` is longer than a
chunk, `WriteInRange` holds.

`DataPoint_proofs` (`NoneAssumption`, `ValueAssumption`, `SizeAssumption`, `StepAssumption`,
`ChunkAssumption`, `RawAssumption`): `TypeCorrect` and `WLockHeldHolds` from `PInv`, for any number of
handlers. It says that the loop counter is at the beginning of a chunk (`OnChunk`), which rests on
`StepAssumption`: the counter would wrap otherwise; and that a writer has all cells of the chunks behind
it (`HasChunks`). `KeepsWrittenHolds` and `CacheFollowsWritesHolds` need `UInv`, which adds `BufCurrent`:
while a writer is at work its buffer differs from what the boiler owes only in the writer's own field.
Their hypothesis is `Aligned`: two requests ask for the same addresses or for none in common. It is what
run `lost_update` does without, so that run and theorem together say which installations are safe: those
whose events share whole chunks, with no raw reads of parts of them, and with no step of an event and no
raw read above 32 bytes (`ChunkAssumption`).

`Values_proofs` (the assumptions of `XmlInfo` and `Values`; above all that the numbers of an element are
uint8): `NarrowestChosenHolds` is inductive with `Chosen`: there is a `dp` as soon as there is a match,
and it is one of the matches. The step needs that what `Better` prefers is the inner interval
(`BetterIsInside`) and that being inside is transitive, where an open interval is the widest.
`NoNilCodecHolds` and `PanicsOnlyUncheckedHolds` come from `VInv`, whose `Entries` says what the loader
lets on the list: uint8 numbers, and a codec unless nothing can be read or written. The heart of the
second is `WholeSteps`: if `BlockFactor` divides `BlockLength`, the uint8 counter ends exactly at
`BlockLength` and no slice wraps, for all 255 lengths and factors. `DecodeSane` and `EncodeSane` then go
through the codecs one by one. They also cover numbers of four bytes, which TLC cannot count.

`Codecs_proofs` has no theorem of a specification; it says what the operators of `Codecs` do for all
bytes, layouts and values, in five layers:

- *bits*: `ByteOf` and `Bits` are inverse (`BitsMakeByte`, `ByteHasBits`), so that `Or` and `Clear` are
  union and difference; shifts move bits (`RightBits`, `LeftBits`, doubling by doubling); remainders cut
  them off (`LowBits`). `SetBitsSets` follows: the new value is in the field, and the other bits of the
  byte are as before, if the value fits the field. `UpperNibble` and `LowerNibble` say it of half a byte.
- *numbers*: `ToLE` gives bytes, and `FromLE` undoes it modulo the width (`NumberBack`), for one to four
  bytes, unsigned, in two's complement and in both orders. `BCDByte` is the same for two digits.
- *what an Encode changes*: one lemma per codec (`ListPatch`, `NumberPatch`, `DateTimePatch`,
  `DatePatch`, `DurationPatch`) describes the bytes put into the block; `EncodeBytes` concludes that
  every Encode returns a block of bytes of the same length, for every definition and every value.
- *Decode undoes Encode*: one lemma per codec (`ListBack`, `NumberReadBack`, `DurationBack`,
  `DateTimeBack`, `DateBack`), about any block that agrees with the encoded one in the bytes of the
  field.
- *scaling*: each raw number in `Unscaled` is less than a step and the blur away from the value
  (`UnscaledSteps`), and is the exact one if the value is a whole number of steps that float32 holds
  (`WholeNear`); `ScaledBack` puts both ways together. These are facts about integers: that the code's
  float32 is within `Blur` is an argument in the text, not a theorem.

`Memory_proofs` (the assumptions of `Values`) carries that to the memory. The loops are defined by the
first round that reaches the end; that there is one is `LeastNat`, from the well-foundedness of < on Nat.

- `TypeCorrect` is inductive with `Defined` (`TInv`): all numbers of a listed event type are uint8 and
  its codec is one there is, or nil. Without it a block of the wrong length, or no bytes at all, could be
  stored.
- `NeighboursKeptHolds` from `KInv == TInv /\ VInv /\ NeighboursKept`. `Kept` says that a block has the
  same bits outside the field; `ListKept` and `NumberKept` show it codec by codec, and `SaneThrough` that
  VWrite stores exactly the encoded block at the start of the memory. A value that fits is, unscaled,
  `Placed`: each raw number it may become has its place in the field. Dates that spill over are left out.
- `RoundTripHolds` from `TInv`, `VInv` and itself. `Carried` says that the block read back has the bytes
  of the field as they were encoded, which needs that the field lies in the block and in the memory
  (`FieldInside`). `RawBack` is the way of the raw number through block and memory and is exact;
  `ScaledBack` adds the scaling on both sides, for every `ConversionFactor` that is not negative.

The two properties ask that the definition is `Sane` and that the value fits. That neither is without
effect is what the runs show: `neighbours` breaks `EncodesOnlyItsBits`, which is `NeighboursKept` without
`Fits`, and the states of `definitions` in which the premises hold are those its mutants are caught in.

`Optolink_proofs` (`MaxWireAssumption`, `UnitsAssumption` and those of `VitoFsm`): `LinkIsMachine` shows
that every step of the composition is a step of `VitoFsm` or a stutter, so that all theorems of
`VitoFsm_proofs` hold of the machine with a boiler. `LinkTypeCorrect` needs `Framed`: the command under
way has been framed, or the boiler's answer would be to nothing. `AnswerInStepHolds` is about a
correspondence, and its invariant says for each state of the machine what can be on the wire while
nothing has disturbed it:

| State | On the wire, first to last |
|---|---|
| `resetAck`, `idle` | ENQs; the boiler is in KW |
| `swP300`, `waitAck` | ENQs, then ACKs of the SYNs sent so far |
| `wait`, `sendP300` | ACKs of repeated SYNs |
| `sendP300Ack` | ACKs, then the reaction to the command: its ACK or NAK, and the answer behind the ACK |
| `recvP300` | the same, with the ACK read or still behind another one |
| `recvP300Ack`, `recvP300Nak` | nothing |

An ACK too many (the machine has repeated a SYN) is on the wire in `wait` although nothing is disturbed.
It is taken for the one of the next command, and the command's own ACK for the start of a telegram, which
is a bad one: the command fails and the machine resets. What is still unread then counts as a disturbance
from the reset on.

Every invariant and every action property that a passing run checks is stated by one of these theorems.
Only model-checked is every liveness property (`FramedCallReturns`, `ErrorEnds`, `ResetsEnd`,
`ReconnectCompletes`, `CallEnds`, `ResetFollows`): the provers do not handle fairness and ENABLED.

## Not modelled

- Routes, JSON, command line flags, avahi, profiling and the web UI: I/O without state that matters here.
  The data race on `EventType.Value` (main.go:134) only reaches the JSON of other requests.
- The framing of a telegram byte by byte and its checksum: an answer is one of its outcomes. The checksum
  is taken to tell a telegram from bytes that look like one.
- In the codecs, `MarshalJSON` and `String`, negative `ConversionFactor`s, and factors, offsets, borders
  and values finer than a thousandth. float32 is a bound on its error (`Blur`), not its arithmetic. A
  number that does not fit its bytes keeps its lower ones, which Go leaves to the platform.
- In the definitions, what nothing but the JSON shows (descriptions, units, prefixes), and the addresses
  that are cut off the names. All event types of `Values` begin at one address.
- `Optolink` leaves out the KW half of the machine, which `StaysP300` shows it never reaches, and reader
  errors, which end the machine like a byte that comes too late.

## Plan

Done, in the order of importance: the machine and its abstract service, the life cycle, raw commands and
cache, events over the cache (`Aligned` for the lost update), the wire and the boiler, definitions and
codecs; each with proofs of its safety properties.

Left:

1. `VRead` and `VWrite` come to their end on an instance of `DataPoint` small enough for liveness.
2. The telegram with its lengths, so that the assumption of `RawCmds` that a good result has the length
   asked for becomes a property of fsm.go 586-659.
