-------------------------------- MODULE Values ---------------------------------
(***************************************************************************)
(* From the XML definition to the boiler's memory: the event types that    *)
(* XmlInfo.tla has loaded, read and written by VRead and VWrite            *)
(* (commands.go) with the codecs of Codecs.tla.                            *)
(*                                                                         *)
(* All events begin at address 0, so that they overlap wherever their      *)
(* fields do.  A request is one step and its commands succeed: what        *)
(* happens when they do not, or when requests run at the same time, is     *)
(* asked in DataPoint.tla.  RawCmds.tla has the chunks of a command; the   *)
(* later ones lie behind the memory that is modelled.                      *)
(***************************************************************************)
EXTENDS XmlInfo

CONSTANTS
  Size,       \* bytes of memory; those behind read as 0 and keep nothing
  Memories,   \* what may be there to begin with
  Inputs      \* values that may be written

ASSUME SizeAssumption == Size \in 1 .. 32
ASSUME MemoriesAssumption == Memories \subseteq [1 .. Size -> Byte]
ASSUME InputsAssumption == Inputs \subseteq Value

VARIABLES
  mem,        \* the boiler's memory
  open,       \* kinds of request that no lock held forever keeps out
  last        \* history: the last request, its outcome, and mem before it

valueVars == <<mem, open, last>>

NoRequest == [op |-> "none"]

-----------------------------------------------------------------------------
(* The loops over a block.                                                  *)

Step(et) == IF et.factor > 0 THEN et.len \div et.factor ELSE et.len

\* The counter is a uint8: it may pass BlockLength by and begin again.
Offset(et, k) == (k * Step(et)) % Width
Endless(et) == \A k \in 0 .. Width : Offset(et, k) < et.len
Rounds(et) == CHOOSE k \in 0 .. Width : /\ Offset(et, k) >= et.len
                                        /\ \A j \in 0 .. k - 1 : Offset(et, j) < et.len

Cell(a) == IF a < Size THEN At(mem, a) ELSE 0

\* Round by round, from Offset on.  Nothing is read for an event with FCRead 0 and
\* without a block.
Block(et) == LET s == Step(et)
             IN [j \in 1 .. Rounds(et) * s |->
                   Cell(((((j - 1) \div s) * s) % Width) + ((j - 1) % s))]

\* Slices of the block can be taken until the upper end of one wraps.
Wraps(et) == {k \in 0 .. Rounds(et) - 1 : Offset(et, k) + Step(et) >= Width}
Written(et) == IF Wraps(et) = {} THEN Rounds(et) ELSE Min(Wraps(et))

Stored(et, b) == [a \in 1 .. Size |-> IF a <= Written(et) * Step(et) THEN b[a] ELSE mem[a]]

-----------------------------------------------------------------------------
(* Requests.                                                                *)

\* A codec that is nil cannot be called.
NilCodec == [out |-> "nil"]

\* What is in the block, and what becomes of it; numbers are raw.
Decoded(et) == IF et.codec = "nil" THEN NilCodec ELSE Decode(et, Block(et))
Encoded(et, u) == IF et.codec = "nil" THEN NilCodec ELSE Encode(et, Block(et), u)

Readings(et) == LET d == Decoded(et)
                IN IF d.out = "ok" THEN {Good(w) : w \in Shown(et, d.val)} ELSE {d}

Asked(n) == phase = "serving" /\ n \in DOMAIN list

Reading(n, result) ==
  /\ last' = [op |-> "read", ev |-> n, result |-> result]
  /\ UNCHANGED mem

VRead(n) ==
  /\ Asked(n) /\ "read" \in open
  /\ \E result \in IF list[n].read = "nop" THEN {Err}
                   ELSE IF Endless(list[n]) THEN {[out |-> "endless"]}
                   ELSE Readings(list[n]) : Reading(n, result)
  /\ UNCHANGED open

Writing(n, v, out) ==
  last' = [op |-> "write", ev |-> n, in |-> v, result |-> [out |-> out], before |-> mem]

\* Without a read there must be nothing to keep.
Unwritable(et) == \/ et.write = "nop"
                  \/ et.read = "nop" /\ (et.pos # 0 \/ et.bitLen > 0)

WriteRefused(n, v) ==
  /\ Unwritable(list[n])
  /\ Writing(n, v, "err") /\ UNCHANGED <<mem, open>>

\* The read an event has no command for is never answered (CallReturns of
\* VitoFsm.tla), and cmdLock is held for good.
NeverRead(et) == et.read = "nop" /\ et.len > 0 /\ Step(et) > 0

WriteStuck(n, v) ==
  /\ ~Unwritable(list[n]) /\ NeverRead(list[n])
  /\ Writing(n, v, "stuck")
  /\ open' = {} /\ UNCHANGED mem

\* cmdWLock is held.
WriteEndless(n, v) ==
  /\ ~Unwritable(list[n]) /\ ~NeverRead(list[n]) /\ Endless(list[n])
  /\ Writing(n, v, "endless")
  /\ open' = open \ {"write"} /\ UNCHANGED mem

\* After a panic net/http goes on with the next request, and the locks are
\* released; what has been written stays.
WriteThrough(n, v) ==
  LET et == list[n]
  IN /\ ~Unwritable(et) /\ ~NeverRead(et) /\ ~Endless(et)
     /\ \E u \in Unscaled(et, v) :
          LET e == Encoded(et, u)
          IN /\ mem' = IF e.out = "ok" THEN Stored(et, e.val) ELSE mem
             /\ Writing(n, v, IF e.out = "ok" /\ Wraps(et) # {} THEN "panic" ELSE e.out)
     /\ UNCHANGED open

VWrite(n, v) ==
  /\ Asked(n) /\ "write" \in open
  /\ \/ WriteRefused(n, v) \/ WriteStuck(n, v) \/ WriteEndless(n, v)
     \/ WriteThrough(n, v)

Init ==
  /\ LoadInit
  /\ mem \in Memories /\ open = {"read", "write"} /\ last = NoRequest

Loading == Load /\ UNCHANGED valueVars

Next == \/ Loading
        \/ /\ \E n \in DOMAIN list : VRead(n) \/ \E v \in Inputs : VWrite(n, v)
           /\ UNCHANGED loadVars

Spec == Init /\ [][Next]_<<loadVars, valueVars>>

-----------------------------------------------------------------------------
(* What a definition must be for the codecs to do what they are for.  The   *)
(* loader checks some of it for most event types.                           *)

\* The bits of the block that are the event's.
Field(et) ==
  IF et.codec = "valueList" /\ et.bitLen > 0
  THEN {<<BitByte(et), BitOff(et) + k>> : k \in 0 .. et.bitLen - 1}
  ELSE IF et.codec = "divMulOffset" /\ Nibble(et)
  THEN {<<et.pos, 4 - et.bitPos + k>> : k \in 0 .. 3}
  ELSE (et.pos .. et.pos + et.blen - 1) \X (0 .. 7)

SaneList(et) == IF et.bitLen > 0
                THEN BitOff(et) + et.bitLen <= 8 /\ BitByte(et) < et.len
                ELSE et.blen \in {1, 2}
SaneNumber(et) ==
  /\ et.blen \in 1 .. 4
  /\ et.bitLen = 0 \/ (Nibble(et) /\ et.blen = 1 /\ et.bitPos \in {0, 4} /\ ~IsSigned(et))

Sane(et) ==
  /\ et.len > 0 /\ et.pos + et.blen <= et.len
  /\ et.factor = 0 \/ et.len % et.factor = 0
  /\ CASE et.codec = "valueList"     -> SaneList(et)
       [] et.codec = "divMulOffset"  -> SaneNumber(et)
       [] et.codec = "dateTimeBCD"   -> et.blen = 8
       [] et.codec = "dateBCD"       -> et.blen >= 4
       [] et.codec = "sec2Duration"  -> et.blen \in 1 .. 4
       [] et.codec = "mappingTime53" -> et.factor > 0
       [] et.codec = "mappingErrors" -> et.len % 9 = 0
       [] OTHER                      -> TRUE

\* A date is written as far as the block goes, up to eight bytes, also where the
\* event's own end before that (codec.go:398-413).
Spills(et) == et.codec = "dateBCD" /\ et.blen < Min({8, et.len - et.pos})

\* The raw numbers an event can hold.
Least(et)    == IF et.codec = "divMulOffset" /\ IsSigned(et)
                THEN -(Width^et.blen \div 2) ELSE 0
Capacity(et) == IF et.codec = "valueList" /\ et.bitLen > 0 THEN 2^et.bitLen
                ELSE IF et.codec = "divMulOffset" /\ Nibble(et) THEN 16
                ELSE Width^et.blen
Holds(et, n) == Least(et) <= n /\ n < Least(et) + Capacity(et)

\* A value within the borders whose raw number has a place.
Fits(et, v) ==
  CASE et.codec \in {"divMulOffset", "valueList"} ->
         v.kind = "num" /\ Within(et, v.n) = v.n /\ \A u \in Unscaled(et, v) : Holds(et, u.n)
    [] et.codec = "sec2Duration" -> v.kind = "dur" /\ Holds(et, v.n)
    [] et.codec \in {"dateTimeBCD", "dateBCD"} -> v.kind = "date"
    [] OTHER -> FALSE

\* A date without a time is midnight, and the weekday is not read.
Expected(et, v) ==
  IF v.kind # "date" THEN v
  ELSE IF et.codec = "dateTimeBCD" THEN [v EXCEPT !.wday = 0]
  ELSE [v EXCEPT !.wday = 0, !.hour = 0, !.min = 0, !.sec = 0]

\* How near a number comes back: less than one step of the raw number is cut off,
\* and float32 may blur it on both ways; not at all if it is a whole number of
\* steps and float32 has room for it.
Near(et, raw, n) ==
  \A w \in Shown(et, raw) :
    /\ Abs(w.n - n) <= Unit(et) + Blur(et, n) + Blur(et, Meant(et, raw.n))
    /\ Exactly(et, n) /\ (n - Zero(et)) % Unit(et) = 0 => w.n = n

-----------------------------------------------------------------------------
(* Properties.                                                              *)

\* Types: what is written to the boiler is bytes, and what the loader accepts is
\* an event type.
TypeOK ==
  /\ phase \in {"devices", "events", "serving", "ended", "crashed"}
  /\ ident \in Idents
  /\ devs \in Seq(Devices) /\ dp \in Devices \cup {Bad}
  /\ \A n \in DOMAIN list :
       /\ list[n].codec \in Codec \cup {"nil"}
       /\ list[n].len \in Byte /\ list[n].pos \in Byte /\ list[n].blen \in Byte
  /\ found \in 0 .. read /\ read \in 0 .. MaxElements
  /\ mem \in [1 .. Size -> Byte]
  /\ open \subseteq {"read", "write"}
  /\ last.op \in {"none", "read", "write"}

Requested == last.op # "none"
Wrote     == last.op = "write"
Subject   == list[last.ev]

\* No request calls the codec of an event type that has none: whatever the loader
\* leaves on the list can be read, written, or is refused.
NoNilCodec == Requested => last.result.out # "nil"

\* A request panics or loops only because of a definition the loader should not
\* have let pass, or because of a number for a date (codec.go:329, 383).
PanicsOnlyUnchecked ==
  Requested /\ last.result.out \in {"panic", "endless"} =>
    \/ ~Sane(Subject)
    \/ Wrote /\ Subject.codec \in {"dateTimeBCD", "dateBCD"}
             /\ last.in.kind \notin {"date", "dur", "text"}

\* What has been written is read back: Decode undoes Encode, through the block and
\* the memory, for every value the event can hold; a number up to what the scaling
\* costs (codec.go:226 cuts, so that 21.3 comes back as 21.2 from a Div10 event).
RoundTrip ==
  Wrote /\ last.result.out = "ok" =>
    (Sane(Subject) /\ Fits(Subject, last.in) /\ (\A f \in Field(Subject) : f[1] < Size)
       => LET d == Decoded(Subject)
          IN /\ d.out = "ok"
             /\ IF last.in.kind = "num" THEN Near(Subject, d.val, last.in.n)
                                        ELSE d.val = Expected(Subject, last.in))

Outside(m, a, et) == {k \in Bits(m[a]) : <<a - 1, k>> \notin Field(et)}

OnlyField == \A a \in 1 .. Size : Outside(mem, a, Subject) = Outside(last.before, a, Subject)

\* Writing a value that fits an event leaves every other bit of the memory alone,
\* those of its own block and byte included, unless it is a date that spills over.
NeighboursKept ==
  Wrote => (Sane(Subject) /\ ~Spills(Subject) /\ Fits(Subject, last.in) => OnlyField)

\* The same for every value, as codec.go:15 says of Encode: "only encodes Bytes or
\* Bits affected by the given EventType".
EncodesOnlyItsBits == Wrote => (Sane(Subject) => OnlyField)
==============================================================================
