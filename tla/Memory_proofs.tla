---------------------------- MODULE Memory_proofs ----------------------------
(* What requests do to the boiler's memory, for memories and blocks of any size *)
(* and any values.                                                              *)
EXTENDS Values_proofs, Codecs_proofs, WellFoundedInduction

-----------------------------------------------------------------------------
(* The loops over a block of any event type.                                 *)

\* A set of natural numbers has a least one: where a loop ends.
LEMMA LeastNat ==
  ASSUME NEW T, T \subseteq Nat, T # {}
  PROVE  \E x \in T : \A y \in T : x <= y
  <1>1. \E x \in T : \A y \in T : ~ (<<y, x>> \in OpToRel(<, Nat))
    BY NatLessThanWellFounded, WFMin, Zenon
  <1>2. PICK x \in T : \A y \in T : ~ (<<y, x>> \in OpToRel(<, Nat))
    BY <1>1
  <1>3. ASSUME NEW y \in T  PROVE x <= y
    <2>1. x \in Nat /\ y \in Nat
      OBVIOUS
    <2>2. ~ (<<y, x>> \in OpToRel(<, Nat))
      BY <1>2
    <2>3. ~(y < x)
      BY <2>1, <2>2 DEF OpToRel
    <2> QED  BY <2>1, <2>3
  <1> QED  BY <1>3

\* The loop counter is a number for any definition, also if it never gets to the end.
LEMMA StepNat ==
  ASSUME NEW et, Numbers(et)
  PROVE  Step(et) \in Nat /\ et.len \in Nat
  <1>1. et.len \in 0 .. 255 /\ et.factor \in 0 .. 255
    BY DEF Numbers, Byte, Width
  <1>2. CASE et.factor > 0
    <2>1. et.len \in Nat /\ et.factor \in Nat /\ et.factor > 0
      BY <1>1, <1>2
    <2> PICK n \in Nat : n = et.len
      BY <2>1
    <2> PICK f \in Nat : f = et.factor
      BY <2>1
    <2>2. f > 0
      BY <2>1
    <2>3. n \div f \in Nat
      BY <2>2
    <2> QED  BY <1>2, <2>3 DEF Step
  <1>3. CASE ~(et.factor > 0)
    BY <1>1, <1>3 DEF Step
  <1> QED  BY <1>1, <1>2, <1>3

LEMMA OffsetNat ==
  ASSUME NEW et, Numbers(et), NEW k \in Nat
  PROVE  Offset(et, k) \in Nat
  <1>1. Step(et) \in Nat
    BY StepNat
  <1>2. k * Step(et) \in Nat
    BY <1>1
  <1> QED  BY <1>2 DEF Offset, Width

\* A loop that ends does so after a number of rounds.
LEMMA RoundsNat ==
  ASSUME NEW et, Numbers(et), ~Endless(et)
  PROVE  Rounds(et) \in Nat /\ Rounds(et) * Step(et) \in Nat
  <1> DEFINE ends == {k \in 0 .. Width : Offset(et, k) >= et.len}
             EndsAt(k) == /\ Offset(et, k) >= et.len
                          /\ \A j \in 0 .. k - 1 : Offset(et, j) < et.len
  <1>1. et.len \in Nat /\ Step(et) \in Nat
    BY StepNat
  <1>2. \A k \in Nat : Offset(et, k) \in Nat
    BY OffsetNat
  <1>3. ends # {}
    <2> PICK k \in 0 .. Width : ~(Offset(et, k) < et.len)
      BY DEF Endless
    <2>1. k \in Nat
      BY DEF Width
    <2>2. Offset(et, k) >= et.len
      BY <1>1, <1>2, <2>1
    <2> QED  BY <2>2
  <1>4. ends \subseteq Nat
    BY DEF Width
  <1> PICK x \in ends : \A y \in ends : x <= y
    BY <1>3, <1>4, LeastNat
  <1>5. EndsAt(x)
    <2> SUFFICES ASSUME NEW j \in 0 .. x - 1  PROVE Offset(et, j) < et.len
      OBVIOUS
    <2>1. j \in Nat /\ j < x /\ j \in 0 .. Width
      BY DEF Width
    <2>2. j \notin ends
      BY <2>1
    <2> QED  BY <1>1, <1>2, <2>1, <2>2
  <1>6. Rounds(et) = CHOOSE k \in 0 .. Width : EndsAt(k)
    BY DEF Rounds
  <1> HIDE DEF EndsAt
  <1>7. Rounds(et) \in 0 .. Width
    BY <1>5, <1>6
  <1>8. Rounds(et) \in Nat
    BY <1>7 DEF Width
  <1> QED  BY <1>1, <1>8

\* The block of a memory.
CellOf(m, a)   == IF a < Size THEN At(m, a) ELSE 0
BlockOf(m, et) == [j \in 1 .. Rounds(et) * Step(et) |->
                     CellOf(m, Offset(et, (j - 1) \div Step(et)) + ((j - 1) % Step(et)))]

\* Block reads the memory, before and after a step.
LEMMA BlockIs ==
  ASSUME NEW et
  PROVE  Block(et) = BlockOf(mem, et) /\ Block(et)' = BlockOf(mem', et)
  BY DEF Block, Cell, BlockOf, CellOf, Offset

LEMMA CellByte ==
  ASSUME NEW m \in [1 .. Size -> Byte], NEW a \in Nat
  PROVE  CellOf(m, a) \in Byte
  <1>1. Size \in Nat /\ 0 \in Byte
    BY SizeAssumption DEF Byte, Width
  <1>2. a < Size => a + 1 \in 1 .. Size
    BY <1>1
  <1> QED  BY <1>1, <1>2 DEF CellOf, At

\* What has been read are bytes, as many as the steps of the loop.
LEMMA BlockBytes ==
  ASSUME NEW m \in [1 .. Size -> Byte], NEW et, Numbers(et), ~Endless(et)
  PROVE  BlockOf(m, et) \in Seq(Byte) /\ Len(BlockOf(m, et)) = Rounds(et) * Step(et)
  <1> PICK all \in Nat : all = Rounds(et) * Step(et)
    BY RoundsNat
  <1> PICK s \in Nat : s = Step(et)
    BY StepNat
  <1>1. ASSUME NEW j \in 1 .. all
        PROVE  CellOf(m, Offset(et, (j - 1) \div s) + ((j - 1) % s)) \in Byte
    <2>1. s > 0
      <3>1. s = 0 => all = 0
        BY RoundsNat
      <3> QED  BY <3>1
    <2>2. (j - 1) \div s \in Nat /\ (j - 1) % s \in Nat
      BY <2>1
    <2>3. Offset(et, (j - 1) \div s) \in Nat
      BY <2>2, OffsetNat
    <2>4. Offset(et, (j - 1) \div s) + ((j - 1) % s) \in Nat
      BY <2>2, <2>3
    <2> QED  BY <2>4, CellByte
  <1>2. BlockOf(m, et)
          = [j \in 1 .. all |-> CellOf(m, Offset(et, (j - 1) \div s) + ((j - 1) % s))]
    BY DEF BlockOf
  <1>3. BlockOf(m, et) \in [1 .. all -> Byte]
    BY <1>1, <1>2
  <1> QED  BY <1>3, FunctionIsSeq

\* No more is written than has been read.
LEMMA WrittenBound ==
  ASSUME NEW et, Numbers(et), ~Endless(et)
  PROVE  /\ Written(et) \in Nat /\ Written(et) * Step(et) \in Nat
         /\ Written(et) * Step(et) <= Rounds(et) * Step(et)
  <1> PICK r \in Nat : r = Rounds(et)
    BY RoundsNat
  <1> PICK s \in Nat : s = Step(et)
    BY StepNat
  <1>1. Written(et) \in 0 .. r
    <2>1. CASE Wraps(et) = {}
      BY <2>1 DEF Written
    <2>2. CASE Wraps(et) # {}
      <3>1. Wraps(et) \subseteq 0 .. r /\ Wraps(et) \subseteq Nat
        BY DEF Wraps
      <3>2. \E x \in Wraps(et) : \A y \in Wraps(et) : x <= y
        BY <2>2, <3>1, LeastNat
      <3>3. Min(Wraps(et)) \in Wraps(et)
        BY <3>2 DEF Min
      <3> QED  BY <2>2, <3>1, <3>3 DEF Written
    <2> QED  BY <2>1, <2>2
  <1> PICK w \in 0 .. r : w = Written(et)
    BY <1>1
  <1>2. w * s \in Nat /\ (r - w) * s \in Nat /\ (r - w) * s = r * s - w * s /\ r * s \in Nat
    OBVIOUS
  <1>3. w * s <= r * s
    BY <1>2
  <1> QED  BY <1>2, <1>3

\* What VWrite leaves in the memory is bytes.
LEMMA StoredBytes ==
  ASSUME mem \in [1 .. Size -> Byte], NEW et, Numbers(et), ~Endless(et),
         NEW b \in Seq(Byte), Len(b) = Rounds(et) * Step(et)
  PROVE  Stored(et, b) \in [1 .. Size -> Byte]
  <1>1. ASSUME NEW a \in 1 .. Size, a <= Written(et) * Step(et)  PROVE b[a] \in Byte
    <2>1. a \in 1 .. Len(b)
      BY <1>1, WrittenBound
    <2> QED  BY <2>1
  <1> QED  BY <1>1 DEF Stored

-----------------------------------------------------------------------------
(* Types.                                                                    *)

\* What the loader lets on the list has numbers where it should.
Defined == \A n \in DOMAIN list : Entry(list[n]) /\ Numbers(list[n])

TInv == TypeOK /\ Defined

LEMMA ScaleNat ==
  ASSUME NEW x, x.scale \in Nat
  PROVE  ScaleOf(x) \in Nat \ {0}
  <1> PICK n \in Nat : n = x.scale
    OBVIOUS
  <1>1. (IF n = 0 THEN One ELSE n) \in Nat \ {0} /\ One = 1000
    BY DEF One
  <1> QED  BY <1>1 DEF ScaleOf

LEMMA ElementNumbers ==
  ASSUME NEW x \in Elements
  PROVE  Numbers(EventType(x))
  <1>1. /\ x.len \in Numeral /\ x.factor \in Numeral /\ x.pos \in Numeral
        /\ x.blen \in Numeral /\ x.bitPos \in Numeral /\ x.bitLen \in Numeral
        /\ x.lower \in Int /\ x.upper \in Int /\ x.scale \in Nat /\ x.offset \in Int
    BY ElementAssumption DEF Element
  <1>2. \A n \in Numeral : Number(n) \in Byte
    BY DEF Numeral, Number, Byte, Width
  <1> PICK scale \in Nat \ {0} : scale = ScaleOf(x)
    BY <1>1, ScaleNat
  <1>3. scale \in Nat /\ scale > 0
    OBVIOUS
  <1> QED  BY <1>1, <1>2, <1>3 DEF Numbers, EventType

\* The loader lets nothing on the list that is not defined.
LEMMA LoadDefined ==
  ASSUME Defined, Load
  PROVE  Defined'
  <1>1. CASE \E x \in Elements : ReadElement(x)
    <2> PICK x \in Elements : ReadElement(x)
      BY <1>1
    <2>1. \/ list' = list
          \/ list' = [n \in DOMAIN list \ {x.name} |-> list[n]]
          \/ list' = [list EXCEPT ![x.name] = EventType(x)] /\ ~Refused(x)
      BY DEF ReadElement
    <2>2. ~Refused(x) => Entry(EventType(x)) /\ Numbers(EventType(x))
      BY ElementEntry, ElementNumbers
    <2> QED  BY <2>1, <2>2 DEF Defined
  <1>2. CASE CloseDevices
    <2>1. list' = list \/ list' = [n \in dp.announces |-> Placeholder]
      BY <1>2 DEF CloseDevices
    <2>2. Numbers(Placeholder)
      BY DEF Numbers, Placeholder, Byte, Width, Scales
    <2> QED  BY <2>1, <2>2, PlaceholderEntry DEF Defined
  <1>3. CASE Restart
    <2>1. DOMAIN list' = {}
      BY <1>3 DEF Restart, NoEvents
    <2> QED  BY <2>1 DEF Defined
  <1>4. CASE UNCHANGED list
    BY <1>4 DEF Defined
  <1> QED
    BY <1>1, <1>2, <1>3, <1>4 DEF Load, ReadDevice, CloseElements

\* The types of the definitions follow from what they are.
Rest ==
  /\ phase \in {"devices", "events", "serving", "ended", "crashed"}
  /\ ident \in Idents
  /\ devs \in Seq(Devices) /\ dp \in Devices \cup {Bad}
  /\ found \in 0 .. read /\ read \in 0 .. MaxElements
  /\ mem \in [1 .. Size -> Byte]
  /\ open \subseteq {"read", "write"}
  /\ last.op \in {"none", "read", "write"}

LEMMA TypesSplit == TInv <=> Rest /\ Defined
  BY DEF TInv, TypeOK, Rest, Defined, Entry

\* Loading keeps the types of everything but the list,
LEMMA LoadRest ==
  ASSUME Rest, Loading
  PROVE  Rest'
  <1>1. Load /\ UNCHANGED <<mem, open, last>>
    BY DEF Loading, valueVars
  <1>2. MaxElements \in Nat
    BY BoundAssumption
  <1>3. CASE \E d \in Devices : ReadDevice(d)
    BY <1>1, <1>3 DEF ReadDevice, Rest
  <1>4. CASE \E x \in Elements : ReadElement(x)
    <2> PICK x \in Elements : ReadElement(x)
      BY <1>4
    <2>1. /\ read < MaxElements /\ read' = read + 1
          /\ found' = found \/ found' = found + 1
          /\ phase' = phase \/ phase' = "crashed"
          /\ UNCHANGED <<ident, devs, dp>>
      BY DEF ReadElement
    <2>2. found' \in 0 .. read' /\ read' \in 0 .. MaxElements
      BY <1>2, <2>1 DEF Rest
    <2> QED  BY <1>1, <2>1, <2>2 DEF Rest
  <1>5. CASE CloseDevices
    BY <1>1, <1>5 DEF CloseDevices, Rest
  <1>6. CASE CloseElements
    BY <1>1, <1>2, <1>6 DEF CloseElements, Rest
  <1>7. CASE Restart
    BY <1>1, <1>2, <1>7 DEF Restart, Rest
  <1> QED  BY <1>1, <1>3, <1>4, <1>5, <1>6, <1>7 DEF Load

\* What a write leaves in the memory, whatever the definition.
LEMMA ThroughBytes ==
  ASSUME mem \in [1 .. Size -> Byte], Defined, NEW n \in DOMAIN list, NEW v \in Inputs,
         WriteThrough(n, v)
  PROVE  mem' \in [1 .. Size -> Byte]
  <1> DEFINE et == list[n]
             b  == Block(et)
  <1> PICK u \in Unscaled(et, v) :
             mem' = IF Encoded(et, u).out = "ok" THEN Stored(et, Encoded(et, u).val) ELSE mem
    BY DEF WriteThrough
  <1> DEFINE e == Encoded(et, u)
  <1>1. Numbers(et) /\ u \in Value
    BY InputsAssumption, UnscaledValue DEF Defined
  <1>2. ~Endless(et) /\ mem' = IF e.out = "ok" THEN Stored(et, e.val) ELSE mem
    BY DEF WriteThrough
  <1>3. CASE e.out = "ok"
    <2>1. e = Encode(et, b, u)
      BY <1>3 DEF Encoded, NilCodec
    <2>2. b \in Seq(Byte) /\ Len(b) = Rounds(et) * Step(et)
      BY <1>1, <1>2, BlockBytes, BlockIs
    <2>3. e.val \in Seq(Byte) /\ Len(e.val) = Len(b)
      BY <1>1, <1>3, <2>1, <2>2, EncodeBytes
    <2>4. Stored(et, e.val) \in [1 .. Size -> Byte]
      BY <1>1, <1>2, <2>2, <2>3, StoredBytes
    <2> QED  BY <1>2, <1>3, <2>4
  <1> QED  BY <1>2, <1>3

\* and so do requests.
LEMMA RequestRest ==
  ASSUME TInv, UNCHANGED loadVars, NEW n \in DOMAIN list,
         VRead(n) \/ \E v \in Inputs : VWrite(n, v)
  PROVE  Rest'
  <1>1. Rest /\ Defined
    BY TypesSplit
  <1>2. /\ UNCHANGED <<phase, ident, devs, dp, found, read>>
    BY DEF loadVars
  <1>3. CASE VRead(n)
    <2>1. mem' = mem /\ open' = open /\ last'.op = "read"
      BY <1>3 DEF VRead, Reading
    <2> QED  BY <1>1, <1>2, <2>1 DEF Rest
  <1>4. CASE \E v \in Inputs : VWrite(n, v)
    <2> PICK v \in Inputs : VWrite(n, v)
      BY <1>4
    <2>1. last'.op = "write"
      BY DEF VWrite, WriteRefused, WriteStuck, WriteEndless, WriteThrough, Writing
    <2>2. mem' = mem \/ WriteThrough(n, v)
      BY DEF VWrite, WriteRefused, WriteStuck, WriteEndless
    <2>3. mem' \in [1 .. Size -> Byte]
      BY <1>1, <2>2, ThroughBytes DEF Rest
    <2>4. open' \subseteq open
      BY DEF VWrite, WriteRefused, WriteStuck, WriteEndless, WriteThrough
    <2> QED  BY <1>1, <1>2, <2>1, <2>3, <2>4 DEF Rest
  <1> QED  BY <1>3, <1>4

LEMMA InitTInv == Init => TInv
  <1> SUFFICES ASSUME Init  PROVE TInv
    OBVIOUS
  <1>1. Defined
    BY DEF Init, LoadInit, NoEvents, Defined
  <1>2. mem \in [1 .. Size -> Byte]
    BY MemoriesAssumption DEF Init
  <1>3. Rest
    BY <1>2, BoundAssumption DEF Init, LoadInit, NoRequest, Rest
  <1> QED  BY <1>1, <1>3, TypesSplit

LEMMA NextTInv == TInv /\ [Next]_<<loadVars, valueVars>> => TInv'
  <1> SUFFICES ASSUME TInv, [Next]_<<loadVars, valueVars>>  PROVE TInv'
    OBVIOUS
  <1>1. Rest /\ Defined
    BY TypesSplit
  <1>2. CASE Loading
    <2>1. Rest' /\ Defined'
      BY <1>1, <1>2, LoadRest, LoadDefined DEF Loading
    <2> QED  BY <2>1 DEF TInv, TypeOK, Rest, Defined, Entry
  <1>3. CASE /\ \E n \in DOMAIN list : VRead(n) \/ \E v \in Inputs : VWrite(n, v)
             /\ UNCHANGED loadVars
    <2>1. Rest'
      BY <1>3, RequestRest
    <2>2. Defined'
      BY <1>1, <1>3 DEF Defined, loadVars
    <2> QED  BY <2>1, <2>2 DEF TInv, TypeOK, Rest, Defined, Entry
  <1>4. CASE UNCHANGED <<loadVars, valueVars>>
    <2>1. Rest' /\ Defined'
      BY <1>1, <1>4 DEF loadVars, valueVars, Rest, Defined
    <2> QED  BY <2>1 DEF TInv, TypeOK, Rest, Defined, Entry
  <1> QED  BY <1>2, <1>3, <1>4 DEF Next

\* What a request writes to the boiler are bytes, for every event type the loader
\* lets on the list, wherever its loops end and whatever its codec does
\* (commands.go:171-221, codec.go), and the loader's own state keeps its types.
THEOREM TypeCorrect == Spec => []TypeOK
  <1>1. TInv => TypeOK
    BY DEF TInv
  <1> QED  BY <1>1, InitTInv, NextTInv, PTL DEF Spec

-----------------------------------------------------------------------------
(* The block of a sane definition is the memory's.                           *)

LEMMA Quotient ==
  ASSUME NEW m \in Nat, NEW s \in Nat, s > 0
  PROVE  /\ m \div s \in Nat /\ m % s \in Nat
         /\ (m \div s) * s + (m % s) = m /\ (m \div s) * s <= m
  <1>1. m \div s \in Nat /\ m % s \in Nat
    OBVIOUS
  <1>2. m = s * (m \div s) + (m % s)
    OBVIOUS
  <1> PICK q \in Nat : q = m \div s
    BY <1>1
  <1>3. s * q = q * s /\ q * s \in Nat
    OBVIOUS
  <1> QED  BY <1>1, <1>2, <1>3

\* The block of a sane definition is the memory from its start, as long as BlockLength says,
LEMMA SaneBlock ==
  ASSUME NEW m \in [1 .. Size -> Byte], NEW et, Entry(et), Numbers(et), Sane(et)
  PROVE  /\ BlockOf(m, et) \in Seq(Byte) /\ Len(BlockOf(m, et)) = et.len
         /\ \A j \in 1 .. et.len : BlockOf(m, et)[j] = IF j <= Size THEN m[j] ELSE 0
  <1>1. et.len \in 1 .. 255 /\ ~Endless(et) /\ Rounds(et) * Step(et) = et.len
    BY SaneInside, WholeSteps
  <1>2. BlockOf(m, et) \in Seq(Byte) /\ Len(BlockOf(m, et)) = et.len
    BY <1>1, BlockBytes
  <1> PICK s \in Nat : s = Step(et)
    BY StepNat
  <1> PICK l \in 1 .. 255 : l = et.len
    BY <1>1
  <1>3. s > 0
    <2>1. s = 0 => Rounds(et) * Step(et) = 0
      BY <1>1, RoundsNat
    <2>2. l # 0
      BY ONLY l \in 1 .. 255
    <2>3. ~(s = 0)
      BY <1>1, <2>1, <2>2
    <2> QED  BY ONLY <2>3, s \in Nat
  <1>4. ASSUME NEW j \in 1 .. et.len
        PROVE  BlockOf(m, et)[j] = IF j <= Size THEN m[j] ELSE 0
    <2>1. BlockOf(m, et)[j] = CellOf(m, Offset(et, (j - 1) \div s) + ((j - 1) % s))
      BY <1>1 DEF BlockOf
    <2>2. j - 1 \in Nat /\ j - 1 < 256
      <3>1. j \in 1 .. l
        OBVIOUS
      <3> QED  BY ONLY <3>1, l \in 1 .. 255
    <2> PICK i \in Nat : i = j - 1
      BY <2>2
    <2> PICK q \in Nat : q = i \div s
      BY <1>3, Quotient
    <2> PICK p \in Nat : p = q * s
      OBVIOUS
    <2>3. p + (i % s) = i /\ p <= i /\ i < 256
      BY <1>3, <2>2, Quotient
    <2>4. Offset(et, q) = p % 256
      BY DEF Offset, Width
    <2>5. p % 256 = p
      <3>1. p < 256
        BY <2>3
      <3> QED  BY ONLY <3>1, p \in Nat
    <2>6. BlockOf(m, et)[j] = CellOf(m, i)
      BY <2>1, <2>3, <2>4, <2>5
    <2>7. CellOf(m, i) = IF j <= Size THEN m[j] ELSE 0
      <3>1. (i < Size <=> j <= Size) /\ i + 1 = j
        BY ONLY SizeAssumption, i = j - 1, j \in 1 .. l, l \in 1 .. 255
      <3> QED  BY ONLY <3>1 DEF CellOf, At
    <2> QED  BY <2>6, <2>7
  <1> QED  BY <1>2, <1>4

\* and is written back whole.
LEMMA SaneStored ==
  ASSUME NEW et, Entry(et), Numbers(et), Sane(et), NEW b
  PROVE  Stored(et, b) = [a \in 1 .. Size |-> IF a <= et.len THEN b[a] ELSE mem[a]]
  <1>1. Wraps(et) = {} /\ Rounds(et) * Step(et) = et.len
    BY SaneInside, WholeSteps
  <1>2. Written(et) * Step(et) = et.len
    BY <1>1 DEF Written
  <1> QED  BY <1>2 DEF Stored

-----------------------------------------------------------------------------
(* What an encoder leaves alone.                                             *)

\* The bits outside the field are those of another block.
Kept(et, b, c) == \A a \in 1 .. Len(b) : Outside(c, a, et) = Outside(b, a, et)

\* Bytes of the field may change,
LEMMA BytesKept ==
  ASSUME NEW et, NEW b \in Seq(Byte), NEW i \in Nat, NEW new \in Seq(Byte),
         i + Len(new) <= Len(b),
         \A a \in i .. i + Len(new) - 1 : \A k \in 0 .. 7 : <<a, k>> \in Field(et)
  PROVE  Kept(et, b, Put(b, i, new))
  <1> PICK n \in Nat : n = Len(new)
    OBVIOUS
  <1> DEFINE c == Put(b, i, new)
  <1>1. \A a \in 1 .. Len(b) : c[a] = IF i < a /\ a <= i + n THEN new[a - i] ELSE b[a]
    <2>1. \A a \in 1 .. Len(b) :
            c[a] = IF i < a /\ a <= i + Len(new) THEN new[a - i] ELSE b[a]
      BY PutBytes, Zenon
    <2> QED  BY <2>1
  <1> HIDE DEF c
  <1>2. ASSUME NEW a \in 1 .. Len(b)  PROVE Outside(c, a, et) = Outside(b, a, et)
    <2>1. CASE i < a /\ a <= i + n
      <3>1. a - 1 \in i .. i + n - 1
        BY <2>1
      <3>2. \A k \in 0 .. 7 : <<a - 1, k>> \in Field(et)
        BY <3>1
      <3> QED  BY <3>2 DEF Outside, Bits
    <2>2. CASE ~(i < a /\ a <= i + n)
      BY <1>1, <2>2 DEF Outside
    <2> QED  BY <2>1, <2>2
  <1> QED  BY <1>2 DEF Kept, c

\* and bits of the field in one byte.
LEMMA ByteKept ==
  ASSUME NEW et, NEW b \in Seq(Byte), NEW i \in Nat, NEW x \in Byte, i < Len(b),
         \A k \in 0 .. 7 : <<i, k>> \in Field(et) \/ (k \in Bits(x) <=> k \in Bits(b[i + 1]))
  PROVE  Kept(et, b, Put(b, i, <<x>>))
  <1> DEFINE c == Put(b, i, <<x>>)
  <1>1. c[i + 1] = x /\ \A a \in 1 .. Len(b) : a # i + 1 => c[a] = b[a]
    BY PutOne
  <1> HIDE DEF c
  <1>2. ASSUME NEW a \in 1 .. Len(b)  PROVE Outside(c, a, et) = Outside(b, a, et)
    <2>1. CASE a = i + 1
      <3>1. a - 1 = i /\ c[a] = x
        BY <1>1, <2>1
      <3>2. \A n : Bits(n) \subseteq 0 .. 7
        BY DEF Bits
      <3>3. Outside(c, a, et) = {k \in Bits(x) : <<i, k>> \notin Field(et)}
        BY <3>1 DEF Outside
      <3>4. Outside(b, a, et) = {k \in Bits(b[i + 1]) : <<i, k>> \notin Field(et)}
        BY <2>1, <3>1 DEF Outside
      <3> QED  BY <3>2, <3>3, <3>4
    <2>2. CASE a # i + 1
      BY <1>1, <2>2 DEF Outside
    <2> QED  BY <2>1, <2>2
  <1> QED  BY <1>2 DEF Kept, c

\* What is encoded has a place in the field.
Placed(et, u) ==
  CASE Numeric(et) -> u.kind = "num" /\ Holds(et, u.n)
    [] et.codec = "sec2Duration" -> u.kind = "dur" /\ Holds(et, u.n)
    [] et.codec \in {"dateTimeBCD", "dateBCD"} -> u.kind = "date"
    [] OTHER -> FALSE

\* A value that fits does, however it is rounded.
LEMMA FitsPlaced ==
  ASSUME NEW et, Numbers(et), NEW v \in Value, Fits(et, v), NEW u \in Unscaled(et, v)
  PROVE  u \in Value /\ Placed(et, u)
  <1>1. u \in Value /\ u.kind = v.kind /\ ((v.kind = "num" /\ Numeric(et)) \/ u = v)
    BY UnscaledValue
  <1>2. CASE Numeric(et)
    <2>1. v.kind = "num" /\ Holds(et, u.n)
      BY <1>2 DEF Fits, Numeric
    <2> QED  BY <1>1, <1>2, <2>1 DEF Placed, Numeric
  <1>3. CASE ~Numeric(et)
    <2>1. et.codec \notin {"valueList", "divMulOffset"} /\ u = v
      BY <1>1, <1>3 DEF Numeric
    <2> QED  BY <1>1, <1>3, <2>1 DEF Placed, Fits
  <1> QED  BY <1>2, <1>3

\* Outside of a byte field there is nothing but other bytes.
LEMMA FieldKept ==
  ASSUME NEW et, Numbers(et), Field(et) = (et.pos .. et.pos + et.blen - 1) \X (0 .. 7),
         NEW b \in Seq(Byte), NEW new \in Seq(Byte), Len(new) = et.blen,
         et.pos + et.blen <= Len(b)
  PROVE  Kept(et, b, Put(b, et.pos, new))
  <1>1. et.pos \in Nat /\ et.pos + Len(new) <= Len(b)
    BY NumbersParts
  <1>2. \A a \in et.pos .. et.pos + Len(new) - 1 : \A k \in 0 .. 7 : <<a, k>> \in Field(et)
    OBVIOUS
  <1> QED  BY <1>1, <1>2, BytesKept

\* Encode of a value list changes nothing else,
LEMMA ListKept ==
  ASSUME NEW et, Numbers(et), et.codec = "valueList", Sane(et),
         NEW b \in Seq(Byte), NEW v \in Value, EncodeList(et, b, v).out = "ok", Placed(et, v)
  PROVE  Kept(et, b, EncodeList(et, b, v).val)
  <1>1. SaneList(et) /\ Holds(et, v.n) /\ Least(et) = 0
    BY DEF Sane, Placed, Numeric, Least
  <1>2. /\ v.n \in Int /\ et.bitLen \in 0 .. 8 /\ et.bitLen \in Nat
        /\ BitByte(et) \in Nat /\ BitOff(et) \in 0 .. 7
    <2>1. v.n \in Int /\ et.bitLen \in 0 .. 8
      BY ListPatch
    <2>2. et.bitLen \in Nat /\ BitByte(et) \in Nat /\ BitOff(et) \in 0 .. 7
      BY NumbersParts
    <2> QED  BY <2>1, <2>2
  <1>3. CASE et.bitLen > 0
    <2> DEFINE old == b[BitByte(et) + 1]
               set == SetBits(et, old, v.n % Width)
    <2>1. /\ BitByte(et) < Len(b) /\ old \in Byte /\ set \in Byte
          /\ EncodeList(et, b, v).val = Put(b, BitByte(et), <<set>>)
      BY <1>3, ListPatch
    <2>2. BitOff(et) + et.bitLen <= 8 /\ 0 <= v.n /\ v.n < 2^et.bitLen
      <3>1. Capacity(et) = 2^et.bitLen
        BY <1>3 DEF Capacity
      <3>2. 2^et.bitLen \in 1 .. 256
        BY <1>2, SmallPower, Zenon
      <3>3. \A m \in 1 .. 256 : m \in Int
        OBVIOUS
      <3>4. 2^et.bitLen \in Int
        BY <3>2, <3>3, Zenon
      <3> QED  BY <1>1, <1>2, <1>3, <3>1, <3>4 DEF SaneList, Holds
    <2>3. v.n \in Nat
      BY <1>2, <2>2
    <2>4. v.n % Width = v.n
      BY <1>2, <2>2, <2>3, SmallBits, ByteMod
    <2>5. \A k \in Int : k \notin BitOff(et) .. BitOff(et) + et.bitLen - 1
                           => (k \in Bits(set) <=> k \in Bits(old))
      BY <1>2, <2>1, <2>2, <2>3, <2>4, SetBitsSets
    <2> HIDE DEF set
    <2>6. ASSUME NEW k \in 0 .. 7, <<BitByte(et), k>> \notin Field(et)
          PROVE  k \in Bits(set) <=> k \in Bits(old)
      <3>1. Field(et) = {<<BitByte(et), BitOff(et) + m>> : m \in 0 .. et.bitLen - 1}
        BY <1>3 DEF Field
      <3>2. k \notin BitOff(et) .. BitOff(et) + et.bitLen - 1
        <4> SUFFICES ASSUME k \in BitOff(et) .. BitOff(et) + et.bitLen - 1  PROVE FALSE
          OBVIOUS
        <4> PICK off \in 0 .. 7, l \in 0 .. 8 : off = BitOff(et) /\ l = et.bitLen
          BY <1>2
        <4>1. k - off \in 0 .. l - 1 /\ off + (k - off) = k
          <5>1. k \in off .. off + l - 1
            OBVIOUS
          <5> QED  BY ONLY <5>1, off \in 0 .. 7, l \in 0 .. 8
        <4> QED  BY <2>6, <3>1, <4>1
      <3> QED  BY <2>5, <3>2
    <2> QED  BY <1>2, <2>1, <2>6, ByteKept
  <1>4. CASE ~(et.bitLen > 0)
    <2>1. et.blen \in {1, 2} /\ (IF et.blen = 1 THEN 1 ELSE 2) = et.blen
      BY <1>1, <1>4 DEF SaneList
    <2>2. /\ et.pos + et.blen <= Len(b)
          /\ EncodeList(et, b, v).val = Put(b, et.pos, ToLE(v.n, et.blen))
      BY <1>4, <2>1, ListPatch
    <2>3. ToLE(v.n, et.blen) \in Seq(Byte) /\ Len(ToLE(v.n, et.blen)) = et.blen
      BY <1>2, <2>1, ToLEBytes
    <2>4. Field(et) = (et.pos .. et.pos + et.blen - 1) \X (0 .. 7)
      BY <1>4 DEF Field
    <2> QED  BY <2>2, <2>3, <2>4, FieldKept
  <1> QED  BY <1>3, <1>4

\* nor does that of a number.
LEMMA NumberKept ==
  ASSUME NEW et, Numbers(et), et.codec = "divMulOffset", Sane(et),
         NEW b \in Seq(Byte), NEW v \in Value, EncodeNumber(et, b, v).out = "ok", Placed(et, v)
  PROVE  Kept(et, b, EncodeNumber(et, b, v).val)
  <1> PICK le : le = ToLE(v.n, et.blen)
    OBVIOUS
  <1>1. SaneNumber(et) /\ Holds(et, v.n)
    BY DEF Sane, Placed, Numeric
  <1>2. /\ v.n \in Int /\ et.blen \in 1 .. 4 /\ et.pos + et.blen <= Len(b)
        /\ le \in Seq(Byte) /\ Len(le) = et.blen
    BY NumberPatch
  <1>3. et.pos \in Nat /\ et.bitLen \in Nat /\ Len(b) \in Nat
    BY NumbersParts
  <1>4. IF Nibble(et) /\ ~IsSigned(et)
        THEN EncodeNumber(et, b, v).val
               = IF et.bitPos = 0
                 THEN Put(b, et.pos, <<Or(b[et.pos + 1] % 16, (le[1] * 16) % Width)>>)
                 ELSE IF et.bitPos = 4
                 THEN Put(b, et.pos, <<Or(16 * (b[et.pos + 1] \div 16), le[1])>>)
                 ELSE b
        ELSE EncodeNumber(et, b, v).val
               = Put(b, et.pos, IF BigEndian(et) THEN Reverse(le) ELSE le)
    BY NumberPatch
  <1>5. CASE Nibble(et)
    <2>1. et.blen = 1 /\ et.bitPos \in {0, 4} /\ ~IsSigned(et)
      BY <1>1, <1>5 DEF SaneNumber, Nibble
    <2>2. 0 <= v.n /\ v.n < 16
      BY <1>1, <1>2, <1>5, <2>1 DEF Holds, Least, Capacity
    <2>3. v.n \in 0 .. 15
      <3> PICK d \in Int : d = v.n
        BY <1>2
      <3>1. 0 <= d /\ d < 16
        BY <2>2
      <3>2. d \in 0 .. 15
        BY ONLY <3>1, d \in Int
      <3> QED  BY <3>2
    <2>4. le[1] = v.n
      <3>1. v.n \in Nat /\ v.n < Width
        BY <1>2, <2>2 DEF Width
      <3> QED  BY <1>1, <2>1, <3>1, OneByteNumber
    <2> PICK old : old = b[et.pos + 1]
      OBVIOUS
    <2>5. et.pos < Len(b) /\ old \in Byte
      BY <1>2, <1>3, <2>1
    <2>6. Field(et) = {<<et.pos, 4 - et.bitPos + k>> : k \in 0 .. 3}
      BY <1>5 DEF Field, Nibble
    <2>7. CASE et.bitPos = 0
      <3> PICK x : x = Or(old % 16, (v.n * 16) % Width)
        OBVIOUS
      <3>1. x \in Byte /\ \A k \in Int : k \notin 4 .. 7 => (k \in Bits(x) <=> k \in Bits(old))
        BY <2>3, <2>5, UpperNibble
      <3>2. EncodeNumber(et, b, v).val = Put(b, et.pos, <<x>>)
        BY <1>4, <1>5, <2>1, <2>4, <2>7
      <3>3. ASSUME NEW k \in 0 .. 7, <<et.pos, k>> \notin Field(et)
            PROVE  k \in Bits(x) <=> k \in Bits(old)
        <4>1. k \in 4 .. 7 => k - 4 \in 0 .. 3 /\ 4 - 0 + (k - 4) = k
          OBVIOUS
        <4>2. k \notin 4 .. 7
          BY <2>6, <2>7, <3>3, <4>1
        <4> QED  BY <3>1, <4>2
      <3> QED  BY <1>3, <2>5, <3>1, <3>2, <3>3, ByteKept
    <2>8. CASE et.bitPos = 4
      <3> PICK x : x = Or(16 * (old \div 16), v.n)
        OBVIOUS
      <3>1. x \in Byte /\ \A k \in Int : k \notin 0 .. 3 => (k \in Bits(x) <=> k \in Bits(old))
        BY <2>3, <2>5, LowerNibble
      <3>2. EncodeNumber(et, b, v).val = Put(b, et.pos, <<x>>)
        BY <1>4, <1>5, <2>1, <2>4, <2>8
      <3>3. ASSUME NEW k \in 0 .. 7, <<et.pos, k>> \notin Field(et)
            PROVE  k \in Bits(x) <=> k \in Bits(old)
        <4>1. 4 - 4 + k = k
          OBVIOUS
        <4>2. k \notin 0 .. 3
          BY <2>6, <2>8, <3>3, <4>1
        <4> QED  BY <3>1, <4>2
      <3> QED  BY <1>3, <2>5, <3>1, <3>2, <3>3, ByteKept
    <2> QED  BY <2>1, <2>7, <2>8
  <1>6. CASE ~Nibble(et)
    <2> DEFINE new == IF BigEndian(et) THEN Reverse(le) ELSE le
    <2>1. new \in Seq(Byte) /\ Len(new) = et.blen
      BY <1>2, OrderedBytes
    <2>2. EncodeNumber(et, b, v).val = Put(b, et.pos, new)
      BY <1>4, <1>6
    <2> HIDE DEF new
    <2>3. Field(et) = (et.pos .. et.pos + et.blen - 1) \X (0 .. 7)
      BY <1>6 DEF Field
    <2> QED  BY <1>2, <2>1, <2>2, <2>3, FieldKept
  <1> QED  BY <1>5, <1>6

\* Encoding a value that fits changes the bits of the field only.
LEMMA EncodeKept ==
  ASSUME NEW et, Entry(et), Numbers(et), Sane(et), ~Spills(et),
         NEW b \in Seq(Byte), Len(b) = et.len,
         NEW v \in Value, Encode(et, b, v).out = "ok", Placed(et, v)
  PROVE  Kept(et, b, Encode(et, b, v).val)
  <1> DEFINE val == Encode(et, b, v).val
  <1>1. CASE et.codec = "valueList"
    BY <1>1, ListKept DEF Encode
  <1>2. CASE et.codec = "divMulOffset"
    BY <1>2, NumberKept DEF Encode
  <1>3. CASE et.codec = "dateTimeBCD"
    <2>1. EncodeDateTime(et, b, v).out = "ok" /\ val = EncodeDateTime(et, b, v).val
      BY <1>3 DEF Encode
    <2>2. /\ v.kind = "date" /\ et.pos + 8 <= Len(b)
          /\ val = Put(b, et.pos, DateBytes(v))
      BY <2>1, DateTimePatch
    <2>3. Calendar(v)
      BY <2>2, ValueParts
    <2>4. DateBytes(v) \in Seq(Byte) /\ Len(DateBytes(v)) = 8
      BY <2>3, DateParts
    <2>5. et.blen = 8
      BY <1>3, SaneInside
    <2>6. Field(et) = (et.pos .. et.pos + et.blen - 1) \X (0 .. 7)
      BY <1>3 DEF Field
    <2>7. Kept(et, b, Put(b, et.pos, DateBytes(v)))
      BY <2>2, <2>4, <2>5, <2>6, FieldKept
    <2> QED  BY <2>2, <2>7
  <1>4. CASE et.codec = "dateBCD"
    <2>1. EncodeDate(et, b, v).out = "ok" /\ val = EncodeDate(et, b, v).val
      BY <1>4 DEF Encode
    <2> HIDE DEF val
    <2>2. DayPut(et, b, v, val)
      BY <2>1, DatePatch
    <2> PICK n \in 4 .. 8, new \in Seq(Byte) :
               /\ n = Min({8, Len(b) - et.pos}) /\ et.pos + n <= Len(b)
               /\ val = Put(b, et.pos, new) /\ Len(new) = n
      BY <2>2 DEF DayPut
    <2>3. et.pos \in Nat /\ et.blen \in Nat /\ ~(et.blen < n)
      BY <1>4, NumbersParts DEF Spills
    <2>4. Field(et) = (et.pos .. et.pos + et.blen - 1) \X (0 .. 7)
      BY <1>4 DEF Field
    <2>5. Kept(et, b, Put(b, et.pos, new))
      <3>1. \A a \in et.pos .. et.pos + n - 1 : a \in et.pos .. et.pos + et.blen - 1
        <4> PICK pos \in Nat, blen \in Nat : pos = et.pos /\ blen = et.blen
          BY <2>3
        <4>1. ~(blen < n)
          BY <2>3
        <4>2. \A a \in pos .. pos + n - 1 : a \in pos .. pos + blen - 1
          BY ONLY <4>1, pos \in Nat, blen \in Nat, n \in 4 .. 8
        <4> QED  BY <4>2
      <3>2. \A a \in et.pos .. et.pos + Len(new) - 1 : \A k \in 0 .. 7 : <<a, k>> \in Field(et)
        BY <2>4, <3>1
      <3>3. et.pos + Len(new) <= Len(b)
        OBVIOUS
      <3> QED  BY <2>3, <3>2, <3>3, BytesKept
    <2> QED  BY <2>5 DEF val
  <1>5. CASE et.codec = "sec2Duration"
    <2>1. EncodeDuration(et, b, v).out = "ok" /\ val = EncodeDuration(et, b, v).val
      BY <1>5 DEF Encode
    <2>2. v.n \in Int /\ et.pos + et.blen <= Len(b) /\ val = Put(b, et.pos, ToLE(v.n, et.blen))
      BY <2>1, DurationPatch
    <2>3. et.blen \in Nat
      BY NumbersParts
    <2>4. ToLE(v.n, et.blen) \in Seq(Byte) /\ Len(ToLE(v.n, et.blen)) = et.blen
      BY <2>2, <2>3, ToLEBytes
    <2>5. Field(et) = (et.pos .. et.pos + et.blen - 1) \X (0 .. 7)
      BY <1>5 DEF Field
    <2>6. Kept(et, b, Put(b, et.pos, ToLE(v.n, et.blen)))
      BY <2>2, <2>4, <2>5, FieldKept
    <2> QED  BY <2>2, <2>6
  <1>6. et.codec \in {"valueList", "divMulOffset", "dateTimeBCD", "dateBCD", "sec2Duration"}
    BY DEF Placed, Numeric
  <1> QED  BY <1>1, <1>2, <1>3, <1>4, <1>5, <1>6

\* The block that is read and what the codec makes of it, which is written.
Patched(et, u, b, val) ==
  /\ b = Block(et) /\ Len(b) = et.len /\ Len(val) = et.len
  /\ \A j \in 1 .. et.len : b[j] = IF j <= Size THEN mem[j] ELSE 0
  /\ Encode(et, b, u).out = "ok" /\ val = Encode(et, b, u).val
  /\ mem' = [a \in 1 .. Size |-> IF a <= et.len THEN val[a] ELSE mem[a]]

\* What a sane write leaves in the memory: the block the codec made of it, as far
\* as both go.
LEMMA SaneThrough ==
  ASSUME TInv, NEW et, Entry(et), Numbers(et), Sane(et), NEW v \in Value,
         Encoded(et, v).out = "ok", mem' = Stored(et, Encoded(et, v).val)
  PROVE  \E b \in Seq(Byte), val \in Seq(Byte) : Patched(et, v, b, val)
  <1> DEFINE b   == Block(et)
             val == Encode(et, b, v).val
  <1>1. mem \in [1 .. Size -> Byte]
    BY DEF TInv, TypeOK
  <1>2. /\ b \in Seq(Byte) /\ Len(b) = et.len
        /\ \A j \in 1 .. et.len : b[j] = IF j <= Size THEN mem[j] ELSE 0
    <2>1. b = BlockOf(mem, et) /\ Sane(et)
      BY BlockIs
    <2> HIDE DEF b
    <2> QED  BY <1>1, <2>1, SaneBlock
  <1>3. Encoded(et, v) = Encode(et, b, v) /\ Encode(et, b, v).out = "ok"
    BY DEF Encoded, NilCodec
  <1>4. val \in Seq(Byte) /\ Len(val) = et.len
    BY <1>1, <1>2, <1>3, EncodeBytes
  <1>5. mem' = Stored(et, val)
    BY <1>3
  <1> HIDE DEF b
  <1>6. b = Block(et)
    BY DEF b
  <1> HIDE DEF val
  <1>7. val = Encode(et, b, v).val
    BY DEF val
  <1>8. Stored(et, val) = [a \in 1 .. Size |-> IF a <= et.len THEN val[a] ELSE mem[a]]
    <2>1. Sane(et)
      OBVIOUS
    <2> QED  BY <1>1, <2>1, SaneStored
  <1>9. mem' = [a \in 1 .. Size |-> IF a <= et.len THEN val[a] ELSE mem[a]]
    BY <1>5, <1>8
  <1>10. Patched(et, v, b, val)
    BY <1>2, <1>3, <1>4, <1>6, <1>7, <1>9 DEF Patched
  <1> QED  BY <1>2, <1>4, <1>10

\* The raw value that a sane write of one that fits has been given.
LEMMA RawWrite ==
  ASSUME TInv, NEW n \in DOMAIN list, NEW v \in Inputs, WriteThrough(n, v), Fits(list[n], v)
  PROVE  \E u \in Unscaled(list[n], v) :
           /\ Entry(list[n]) /\ Numbers(list[n]) /\ v \in Value
           /\ u \in Value /\ Placed(list[n], u)
           /\ mem' = IF Encoded(list[n], u).out = "ok"
                     THEN Stored(list[n], Encoded(list[n], u).val) ELSE mem
           /\ last'.result.out \in {"panic", Encoded(list[n], u).out}
  <1>1. Entry(list[n]) /\ Numbers(list[n]) /\ v \in Value
    BY InputsAssumption DEF TInv, Defined
  <1> PICK u \in Unscaled(list[n], v) :
         /\ mem' = IF Encoded(list[n], u).out = "ok"
                   THEN Stored(list[n], Encoded(list[n], u).val) ELSE mem
         /\ last'.result.out \in {"panic", Encoded(list[n], u).out}
    BY DEF WriteThrough, Writing
  <1> QED  BY <1>1, FitsPlaced

\* A write keeps what is outside the field, in all of the memory.
LEMMA ThroughKept ==
  ASSUME TInv, NEW n \in DOMAIN list, NEW v \in Inputs, WriteThrough(n, v), Sane(list[n]),
         ~Spills(list[n]), Fits(list[n], v)
  PROVE  \A a \in 1 .. Size : Outside(mem', a, list[n]) = Outside(mem, a, list[n])
  <1> PICK et : et = list[n]
    OBVIOUS
  <1> PICK u \in Value :
         /\ Entry(et) /\ Numbers(et) /\ Placed(et, u)
         /\ mem' = IF Encoded(et, u).out = "ok" THEN Stored(et, Encoded(et, u).val) ELSE mem
    BY RawWrite
  <1>1. CASE Encoded(et, u).out = "ok"
    <2>1. Sane(et) /\ ~Spills(et) /\ mem' = Stored(et, Encoded(et, u).val)
      BY <1>1
    <2> PICK b \in Seq(Byte), val \in Seq(Byte) : Patched(et, u, b, val)
      BY <1>1, <2>1, SaneThrough
    <2>2. /\ Len(b) = et.len
          /\ \A j \in 1 .. et.len : b[j] = IF j <= Size THEN mem[j] ELSE 0
          /\ Encode(et, b, u).out = "ok" /\ val = Encode(et, b, u).val
          /\ mem' = [a \in 1 .. Size |-> IF a <= et.len THEN val[a] ELSE mem[a]]
      BY DEF Patched
    <2>3. Kept(et, b, val)
      BY <2>1, <2>2, EncodeKept
    <2>4. Size \in Nat /\ et.len \in Nat
      BY SizeAssumption, NumbersParts
    <2>5. ASSUME NEW a \in 1 .. Size  PROVE Outside(mem', a, et) = Outside(mem, a, et)
      <3>1. CASE a <= et.len
        <4>1. a \in 1 .. Len(b) /\ a \in 1 .. et.len /\ a <= Size
          BY <2>4, <2>2, <3>1
        <4>2. mem'[a] = val[a] /\ b[a] = mem[a]
          BY <2>2, <3>1, <4>1
        <4>3. Outside(val, a, et) = Outside(b, a, et)
          BY <2>3, <4>1 DEF Kept
        <4> QED  BY <4>2, <4>3 DEF Outside
      <3>2. CASE ~(a <= et.len)
        <4>1. mem'[a] = mem[a]
          BY <2>2, <3>2
        <4> QED  BY <4>1 DEF Outside
      <3> QED  BY <3>1, <3>2
    <2> QED  BY <2>5
  <1>2. CASE Encoded(et, u).out # "ok"
    <2>1. mem' = mem
      BY <1>2
    <2> QED  BY <2>1
  <1> QED  BY <1>1, <1>2

\* A write that has just been answered is the only one whose traces are asked for.
KInv == TInv /\ VInv /\ NeighboursKept

LEMMA NextNeighbours ==
  ASSUME TInv, VInv, NeighboursKept, [Next]_<<loadVars, valueVars>>
  PROVE  NeighboursKept'
  <1>1. CASE Loading
    <2>1. Load /\ last' = last
      BY <1>1 DEF Loading, valueVars
    <2>2. phase # "serving"
      BY <2>1 DEF Load, ReadDevice, ReadElement, CloseDevices, CloseElements, Restart
    <2>3. ~Requested
      BY <2>2 DEF VInv, Served
    <2>4. last'.op = "none"
      BY <2>1, <2>3 DEF Requested
    <2> QED  BY <2>4 DEF NeighboursKept, Wrote
  <1>2. ASSUME NEW n \in DOMAIN list, VRead(n)  PROVE NeighboursKept'
    <2>1. last'.op = "read"
      BY <1>2 DEF VRead, Reading
    <2> QED  BY <2>1 DEF NeighboursKept, Wrote
  <1>3. ASSUME NEW n \in DOMAIN list, NEW v \in Inputs, VWrite(n, v), UNCHANGED loadVars
        PROVE  NeighboursKept'
    <2>1. /\ Wrote' /\ Subject' = list[n] /\ last'.in = v /\ last'.before = mem
      <3>1. last'.op = "write" /\ last'.ev = n /\ last'.in = v /\ last'.before = mem
        BY <1>3 DEF VWrite, WriteRefused, WriteStuck, WriteEndless, WriteThrough, Writing
      <3>2. list' = list
        BY <1>3 DEF loadVars
      <3> QED  BY <3>1, <3>2 DEF Wrote, Subject
    <2>2. mem' = mem \/ WriteThrough(n, v)
      BY <1>3 DEF VWrite, WriteRefused, WriteStuck, WriteEndless
    <2>3. Sane(list[n]) /\ ~Spills(list[n]) /\ Fits(list[n], v) =>
            \A a \in 1 .. Size : Outside(mem', a, list[n]) = Outside(mem, a, list[n])
      BY <2>2, ThroughKept
    <2>4. ASSUME Sane(Subject'), ~Spills(Subject'), Fits(Subject', last'.in)
          PROVE  \A a \in 1 .. Size :
                   Outside(mem', a, Subject') = Outside(last'.before, a, Subject')
      BY <2>1, <2>3, <2>4
    <2> QED  BY <2>4 DEF NeighboursKept, OnlyField
  <1>4. CASE UNCHANGED <<loadVars, valueVars>>
    BY <1>4 DEF loadVars, valueVars, NeighboursKept, OnlyField, Wrote, Subject
  <1> QED  BY <1>1, <1>2, <1>3, <1>4 DEF Next

\* Writing a value that fits an event leaves every other bit of the memory alone
\* (codec.go:15), in blocks and memories of any size, for fields of any place and
\* width in them and for every number and date; a date of which the event has only
\* the beginning, with more of its block behind it, is the exception.
THEOREM NeighboursKeptHolds == Spec => []NeighboursKept
  <1>1. Init => KInv
    <2>1. Init => NeighboursKept
      BY DEF Init, NoRequest, NeighboursKept, Wrote
    <2> QED  BY <2>1, InitTInv, InitVInv DEF KInv
  <1>2. KInv /\ [Next]_<<loadVars, valueVars>> => KInv'
    BY NextTInv, NextVInv, NextNeighbours DEF KInv
  <1>3. KInv => NeighboursKept
    BY DEF KInv
  <1> QED  BY <1>1, <1>2, <1>3, PTL DEF Spec

-----------------------------------------------------------------------------
(* What has been written is read back.                                       *)

\* A block has the bytes of the field from another one.
Carried(et, val, c) == \A f \in Field(et) : c[f[1] + 1] = val[f[1] + 1]

\* The bytes of a field that is whole bytes.
LEMMA BytesCarried ==
  ASSUME NEW et, Numbers(et), Field(et) = (et.pos .. et.pos + et.blen - 1) \X (0 .. 7),
         NEW val, NEW c, Carried(et, val, c)
  PROVE  \A k \in 1 .. et.blen : c[et.pos + k] = val[et.pos + k]
  <1> PICK pos \in Nat, blen \in Nat : pos = et.pos /\ blen = et.blen
    BY NumbersParts
  <1> TAKE k \in 1 .. et.blen
  <1>1. pos + k - 1 \in pos .. pos + blen - 1 /\ pos + k - 1 + 1 = pos + k
    <2>1. k \in 1 .. blen
      OBVIOUS
    <2> QED  BY ONLY <2>1, pos \in Nat, blen \in Nat
  <1> DEFINE f == <<pos + k - 1, 0>>
  <1>2. f \in Field(et) /\ f[1] = pos + k - 1
    BY <1>1
  <1> HIDE DEF f
  <1>3. c[f[1] + 1] = val[f[1] + 1]
    BY <1>2 DEF Carried
  <1> QED  BY <1>1, <1>2, <1>3

\* Decode undoes Encode.
LEMMA CodecBack ==
  ASSUME NEW et, Entry(et), Numbers(et), Sane(et), NEW b \in Seq(Byte), Len(b) = et.len,
         NEW v \in Value, Encode(et, b, v).out = "ok", Placed(et, v),
         NEW val, val = Encode(et, b, v).val, NEW c, Len(c) = et.len, Carried(et, val, c)
  PROVE  Decode(et, c) = Good(Expected(et, v))
  <1>1. /\ et.pos + et.blen <= et.len /\ et.len \in Nat
        /\ et.pos \in Nat /\ et.blen \in Nat /\ et.bitLen \in Nat
    <2>1. et.pos + et.blen <= et.len
      BY SaneInside
    <2>2. et.len \in Nat /\ et.pos \in Nat /\ et.blen \in Nat /\ et.bitLen \in Nat
      BY NumbersParts
    <2> QED  BY <2>1, <2>2
  <1>2. CASE et.codec = "valueList"
    <2>1. EncodeList(et, b, v).out = "ok" /\ val = EncodeList(et, b, v).val
      BY <1>2 DEF Encode
    <2>2. /\ SaneList(et) /\ v.kind = "num" /\ Least(et) = 0
          /\ 0 <= v.n /\ v.n < 0 + Capacity(et)
      BY <1>2 DEF Sane, Placed, Numeric, Least, Holds
    <2>3. CASE et.bitLen > 0
      <3>1. /\ BitOff(et) + et.bitLen <= 8 /\ Capacity(et) = 2^et.bitLen
        BY <1>2, <2>2, <2>3 DEF SaneList, Capacity
      <3>2. et.bitLen \in 0 .. 8 /\ v.n \in Int
        BY <2>1, ListPatch
      <3>3. v.n < 2^et.bitLen
        <4>1. 2^et.bitLen \in 1 .. 256
          BY <3>2, SmallPower, Zenon
        <4> PICK p \in 1 .. 256 : p = 2^et.bitLen
          BY <4>1
        <4>2. v.n < 0 + p
          BY <2>2, <3>1
        <4>3. v.n < p
          BY <4>2
        <4> QED  BY <4>3
      <3>4. c[BitByte(et) + 1] = val[BitByte(et) + 1]
        <4> DEFINE f == <<BitByte(et), BitOff(et) + 0>>
        <4>1. Field(et) = {<<BitByte(et), BitOff(et) + k>> : k \in 0 .. et.bitLen - 1}
          BY <1>2, <2>3 DEF Field
        <4>2. 0 \in 0 .. et.bitLen - 1
          BY <1>1, <2>3
        <4>3. f \in Field(et) /\ f[1] = BitByte(et)
          BY <4>1, <4>2
        <4> HIDE DEF f
        <4> QED  BY <4>3 DEF Carried
      <3>5. DecodeList(et, c) = Good(v)
        BY <2>1, <2>2, <2>3, <3>1, <3>3, <3>4, ListBack
      <3> QED  BY <1>2, <2>2, <3>5 DEF Decode, Expected
    <2>4. CASE ~(et.bitLen > 0)
      <3>1. et.blen \in {1, 2} /\ Capacity(et) = Width^et.blen
        BY <1>2, <2>2, <2>4 DEF SaneList, Capacity
      <3>2. v.n < Width^et.blen
        BY <2>2, <3>1 DEF Width
      <3>3. Field(et) = (et.pos .. et.pos + et.blen - 1) \X (0 .. 7)
        BY <1>2, <2>4 DEF Field
      <3>4. \A k \in 1 .. et.blen : c[et.pos + k] = val[et.pos + k]
        BY <3>3, BytesCarried
      <3>5. DecodeList(et, c) = Good(v)
        BY <2>1, <2>2, <2>4, <3>1, <3>2, <3>4, ListBack
      <3> QED  BY <1>2, <2>2, <3>5 DEF Decode, Expected
    <2> QED  BY <2>3, <2>4
  <1>3. CASE et.codec = "divMulOffset"
    <2>1. EncodeNumber(et, b, v).out = "ok" /\ val = EncodeNumber(et, b, v).val
      BY <1>3 DEF Encode
    <2>2. SaneNumber(et) /\ v.kind = "num" /\ Holds(et, v.n)
      BY <1>3 DEF Sane, Placed, Numeric
    <2>3. et.blen \in 1 .. 4 /\ v.n \in Int
      BY <2>1, NumberPatch
    <2>4. \A k \in 1 .. et.blen : c[et.pos + k] = val[et.pos + k]
      <3>1. CASE Nibble(et)
        <4>1. et.blen = 1
          BY <2>2, <3>1 DEF SaneNumber, Nibble
        <4> DEFINE f == <<et.pos, 4 - et.bitPos + 0>>
        <4>2. Field(et) = {<<et.pos, 4 - et.bitPos + k>> : k \in 0 .. 3}
          BY <1>3, <3>1 DEF Field
        <4>3. f \in Field(et) /\ f[1] = et.pos
          BY <4>2
        <4> HIDE DEF f
        <4>4. c[et.pos + 1] = val[et.pos + 1]
          BY <4>3 DEF Carried
        <4> QED  BY <4>1, <4>4
      <3>2. CASE ~Nibble(et)
        <4>1. Field(et) = (et.pos .. et.pos + et.blen - 1) \X (0 .. 7)
          BY <1>3, <3>2 DEF Field
        <4> QED  BY <4>1, BytesCarried
      <3> QED  BY <3>1, <3>2
    <2>5. \/ Nibble(et) /\ ~IsSigned(et) /\ et.bitPos \in {0, 4} /\ 0 <= v.n /\ v.n < 16
          \/ /\ et.bitLen = 0 /\ IsSigned(et) /\ -(Width^et.blen \div 2) <= v.n
             /\ v.n < -(Width^et.blen \div 2) + Width^et.blen
          \/ et.bitLen = 0 /\ ~IsSigned(et) /\ 0 <= v.n /\ v.n < Width^et.blen
      <3>1. CASE et.bitLen = 0 /\ IsSigned(et)
        BY <1>3, <2>2, <3>1 DEF Holds, Least, Capacity, Nibble
      <3>2. CASE et.bitLen = 0 /\ ~IsSigned(et)
        <4>1. 0 <= v.n /\ v.n < 0 + Width^et.blen
          BY <1>3, <2>2, <3>2 DEF Holds, Least, Capacity, Nibble
        <4>2. 0 + Width^et.blen = Width^et.blen
          BY <2>3 DEF Width
        <4> QED  BY <3>2, <4>1, <4>2
      <3>3. CASE et.bitLen # 0
        <4>1. Nibble(et) /\ et.bitPos \in {0, 4} /\ ~IsSigned(et)
          BY <2>2, <3>3 DEF SaneNumber
        <4>2. 0 <= v.n /\ v.n < 16
          BY <1>3, <2>2, <2>3, <4>1 DEF Holds, Least, Capacity
        <4> QED  BY <4>1, <4>2
      <3> QED  BY <3>1, <3>2, <3>3
    <2>6. DecodeNumber(et, c) = Good(v)
      BY <2>1, <2>2, <2>4, <2>5, NumberReadBack
    <2> QED  BY <1>3, <2>2, <2>6 DEF Decode, Expected
  <1>4. CASE et.codec \in {"dateTimeBCD", "dateBCD"}
    <2>1. Field(et) = (et.pos .. et.pos + et.blen - 1) \X (0 .. 7)
      BY <1>4 DEF Field
    <2>2. SameBytes(et, val, c)
      BY <2>1, BytesCarried DEF SameBytes
    <2>3. v.kind = "date"
      BY <1>4 DEF Placed, Numeric
    <2>6. Len(c) = Len(b) /\ Fitting(et, b)
      BY <1>1 DEF Fitting
    <2>4. CASE et.codec = "dateTimeBCD"
      <3>1. EncodeDateTime(et, b, v).out = "ok" /\ val = EncodeDateTime(et, b, v).val
        BY <2>4 DEF Encode
      <3>2. et.blen = 8
        BY <2>4, SaneInside
      <3>3. et.blen = 8 => DecodeDate(et, c) = Good(DateOf(v, v.hour, v.min, v.sec))
        BY <2>2, <2>6, <3>1, DateTimeBack
      <3>4. Expected(et, v) = DateOf(v, v.hour, v.min, v.sec)
        BY <2>3, <2>4, ValueIs DEF DateOf, Expected
      <3> QED  BY <2>4, <3>2, <3>3, <3>4 DEF Decode
    <2>5. CASE et.codec = "dateBCD"
      <3>1. EncodeDate(et, b, v).out = "ok" /\ val = EncodeDate(et, b, v).val
        BY <2>5 DEF Encode
      <3>2. et.blen >= 4
        BY <2>5 DEF Sane
      <3>3. DecodeDate(et, c) = Good(DateOf(v, 0, 0, 0))
        BY <2>2, <2>6, <3>1, <3>2, DateBack
      <3>4. Expected(et, v) = DateOf(v, 0, 0, 0)
        BY <2>3, <2>5, ValueIs DEF DateOf, Expected
      <3> QED  BY <2>5, <3>3, <3>4 DEF Decode
    <2> QED  BY <1>4, <2>4, <2>5
  <1>5. CASE et.codec = "sec2Duration"
    <2>1. EncodeDuration(et, b, v).out = "ok" /\ val = EncodeDuration(et, b, v).val
      BY <1>5 DEF Encode
    <2>2. et.blen \in 1 .. 4 /\ v.kind = "dur" /\ Holds(et, v.n)
      BY <1>5 DEF Sane, Placed, Numeric
    <2>3. 0 <= v.n /\ v.n < Width^et.blen
      <3>1. 0 <= v.n /\ v.n < 0 + Width^et.blen
        BY <1>5, <2>2 DEF Holds, Least, Capacity
      <3>2. 0 + Width^et.blen = Width^et.blen
        BY <2>2 DEF Width
      <3> QED  BY <3>1, <3>2
    <2>4. Field(et) = (et.pos .. et.pos + et.blen - 1) \X (0 .. 7)
      BY <1>5 DEF Field
    <2>5. \A k \in 1 .. et.blen : c[et.pos + k] = val[et.pos + k]
      BY <2>4, BytesCarried
    <2>6. DecodeDuration(et, c) = Good(v)
      BY <2>1, <2>2, <2>3, <2>5, DurationBack
    <2> QED  BY <1>5, <2>2, <2>6 DEF Decode, Expected
  <1>6. et.codec \in {"valueList", "divMulOffset", "dateTimeBCD", "dateBCD", "sec2Duration"}
    BY DEF Placed, Numeric
  <1> QED  BY <1>2, <1>3, <1>4, <1>5, <1>6

\* The field of a sane definition lies inside its block.
LEMMA FieldInside ==
  ASSUME NEW et, Entry(et), Numbers(et), Sane(et), NEW v, Fits(et, v)
  PROVE  \A f \in Field(et) : f[1] \in Nat /\ f[1] < et.len
  <1> PICK pos \in Nat : pos = et.pos
    BY NumbersParts
  <1> PICK blen \in Nat : blen = et.blen
    BY NumbersParts
  <1>1. pos + blen <= et.len /\ et.len \in Nat /\ BitByte(et) \in Nat
    <2>1. pos + blen <= et.len
      BY SaneInside
    <2>2. et.len \in Nat /\ BitByte(et) \in Nat
      BY NumbersParts
    <2> QED  BY <2>1, <2>2
  <1> TAKE f \in Field(et)
  <1>2. CASE et.codec = "valueList" /\ et.bitLen > 0
    <2>1. f[1] = BitByte(et)
      BY <1>2 DEF Field
    <2>2. BitByte(et) < et.len
      BY <1>2 DEF Sane, SaneList
    <2> QED  BY <1>1, <2>1, <2>2
  <1>3. CASE et.codec = "divMulOffset" /\ Nibble(et)
    <2>1. f[1] = pos
      BY <1>3 DEF Field
    <2>2. blen = 1
      BY <1>3 DEF Sane, SaneNumber, Nibble
    <2>3. pos < et.len
      BY <1>1, <2>2
    <2> QED  BY <2>1, <2>3
  <1>4. CASE f \in (et.pos .. et.pos + et.blen - 1) \X (0 .. 7)
    <2>1. f[1] \in pos .. pos + blen - 1
      BY <1>4
    <2>2. \A a \in pos .. pos + blen - 1 : a \in Nat /\ a < pos + blen
      BY ONLY pos \in Nat, blen \in Nat
    <2> PICK a \in pos .. pos + blen - 1 : a = f[1]
      BY <2>1
    <2>3. a < et.len
      BY <1>1, <2>2
    <2> QED  BY <2>2, <2>3
  <1> QED  BY <1>2, <1>3, <1>4 DEF Field

\* A write is read back from the memory.
LEMMA ThroughBack ==
  ASSUME TInv, NEW n \in DOMAIN list, NEW v \in Inputs, WriteThrough(n, v), Sane(list[n]),
         Fits(list[n], v), last'.result.out = "ok",
         \A f \in Field(list[n]) : f[1] < Size
  PROVE  \E u \in Unscaled(list[n], v) :
           Decode(list[n], BlockOf(mem', list[n])) = Good(Expected(list[n], u))
  <1> PICK et : et = list[n]
    OBVIOUS
  <1> PICK u \in Unscaled(et, v) :
         /\ Entry(et) /\ Numbers(et) /\ u \in Value /\ Placed(et, u)
         /\ mem' = IF Encoded(et, u).out = "ok" THEN Stored(et, Encoded(et, u).val) ELSE mem
         /\ last'.result.out \in {"panic", Encoded(et, u).out}
    BY RawWrite
  <1>1. Sane(et) /\ Encoded(et, u).out = "ok" /\ mem' = Stored(et, Encoded(et, u).val)
    OBVIOUS
  <1> PICK b \in Seq(Byte), val \in Seq(Byte) : Patched(et, u, b, val)
    BY <1>1, SaneThrough
  <1>2. /\ Len(b) = et.len /\ Len(val) = et.len
        /\ Encode(et, b, u).out = "ok" /\ val = Encode(et, b, u).val
        /\ mem' = [a \in 1 .. Size |-> IF a <= et.len THEN val[a] ELSE mem[a]]
    BY DEF Patched
  <1> PICK c : c = BlockOf(mem', et)
    OBVIOUS
  <1>3. mem' \in [1 .. Size -> Byte]
    BY ThroughBytes DEF TInv, TypeOK
  <1>4. /\ Len(c) = et.len
        /\ \A j \in 1 .. et.len : c[j] = IF j <= Size THEN mem'[j] ELSE 0
    BY <1>3, SaneBlock
  <1>5. Size \in Nat /\ et.len \in Nat
    BY SizeAssumption, NumbersParts
  <1>6. \A j \in 1 .. et.len : j <= Size => c[j] = val[j]
    <2> TAKE j \in 1 .. et.len
    <2> HAVE j <= Size
    <2>1. j \in 1 .. Size /\ j <= et.len
      BY <1>5
    <2>2. mem'[j] = val[j]
      BY <1>2, <2>1
    <2> QED  BY <1>4, <2>2
  <1>7. \A f \in Field(et) : f[1] \in Nat /\ f[1] < et.len
    BY FieldInside
  <1>8. Carried(et, val, c)
    <2> SUFFICES ASSUME NEW f \in Field(et)  PROVE c[f[1] + 1] = val[f[1] + 1]
      BY DEF Carried
    <2> PICK a : a = f[1]
      OBVIOUS
    <2>1. a \in Nat /\ a < et.len /\ a < Size
      BY <1>7
    <2>2. a + 1 \in 1 .. et.len /\ a + 1 <= Size
      BY <1>5, <2>1
    <2> QED  BY <1>6, <2>2
  <1>9. Decode(et, c) = Good(Expected(et, u))
    BY <1>4, <1>8, <1>1, <1>2, CodecBack
  <1> QED  BY <1>9

\* What may be read of a value that has been written.
Back(et, d, v) ==
  /\ d.out = "ok"
  /\ IF v.kind = "num" THEN Near(et, d.val, v.n) ELSE d.val = Expected(et, v)

LEMMA RawBack ==
  ASSUME NEW et, Numbers(et), NEW v \in Value, Fits(et, v), NEW u \in Unscaled(et, v)
  PROVE  Back(et, Good(Expected(et, u)), v)
  <1>1. u.kind = v.kind /\ ((v.kind = "num" /\ Numeric(et)) \/ u = v)
    BY UnscaledValue
  <1>2. CASE v.kind = "num"
    <2>1. Numeric(et) /\ Within(et, v.n) = v.n
      BY <1>2 DEF Fits, Numeric
    <2>2. Expected(et, u) = u
      BY <1>1, <1>2 DEF Expected
    <2>3. Near(et, u, v.n)
      BY <1>2, <2>1, ScaledBack DEF Near
    <2> QED  BY <1>2, <2>2, <2>3 DEF Back, Good
  <1>3. CASE v.kind # "num"
    BY <1>1, <1>3 DEF Back, Good
  <1> QED  BY <1>2, <1>3

LEMMA NextRoundTrip ==
  ASSUME TInv, VInv, RoundTrip, [Next]_<<loadVars, valueVars>>
  PROVE  RoundTrip'
  <1>1. CASE Loading
    <2>1. Load /\ last' = last
      BY <1>1 DEF Loading, valueVars
    <2>2. phase # "serving"
      BY <2>1 DEF Load, ReadDevice, ReadElement, CloseDevices, CloseElements, Restart
    <2>3. ~Requested
      BY <2>2 DEF VInv, Served
    <2>4. last'.op = "none"
      BY <2>1, <2>3 DEF Requested
    <2> QED  BY <2>4 DEF RoundTrip, Wrote
  <1>2. ASSUME NEW n \in DOMAIN list, VRead(n)  PROVE RoundTrip'
    <2>1. last'.op = "read"
      BY <1>2 DEF VRead, Reading
    <2> QED  BY <2>1 DEF RoundTrip, Wrote
  <1>3. ASSUME NEW n \in DOMAIN list, NEW v \in Inputs, VWrite(n, v), UNCHANGED loadVars
        PROVE  RoundTrip'
    <2>1. Subject' = list[n] /\ last'.in = v
      <3>1. last'.ev = n /\ last'.in = v
        BY <1>3 DEF VWrite, WriteRefused, WriteStuck, WriteEndless, WriteThrough, Writing
      <3>2. list' = list
        BY <1>3 DEF loadVars
      <3> QED  BY <3>1, <3>2 DEF Subject
    <2> SUFFICES ASSUME last'.result.out = "ok", Sane(Subject'), Fits(Subject', last'.in),
                        \A f \in Field(Subject') : f[1] < Size
                 PROVE  Back(Subject', Decoded(Subject)', last'.in)
      BY DEF RoundTrip, Back
    <2>2. WriteThrough(n, v)
      BY <1>3 DEF VWrite, WriteRefused, WriteStuck, WriteEndless, Writing
    <2>3. Numbers(list[n]) /\ v \in Value
      BY InputsAssumption DEF TInv, Defined
    <2>4. list[n].codec # "nil"
      BY <2>1 DEF Fits
    <2> PICK u \in Unscaled(list[n], v) :
           Decode(list[n], BlockOf(mem', list[n])) = Good(Expected(list[n], u))
      BY <2>1, <2>2, ThroughBack
    <2>5. Back(list[n], Good(Expected(list[n], u)), v)
      BY <2>1, <2>3, RawBack
    <2>6. Decoded(Subject)' = Decode(list[n], BlockOf(mem', list[n]))
      <3>1. Block(Subject)' = BlockOf(mem', list[n])
        BY <2>1, BlockIs
      <3> QED  BY <2>1, <2>4, <3>1 DEF Decoded
    <2> QED  BY <2>1, <2>5, <2>6
  <1>4. CASE UNCHANGED <<loadVars, valueVars>>
    <2>1. list' = list /\ mem' = mem /\ last' = last
      BY <1>4 DEF loadVars, valueVars
    <2>2. Subject' = Subject
      BY <2>1 DEF Subject
    <2>3. Decoded(Subject)' = Decoded(Subject)
      BY <2>1, <2>2 DEF Decoded, Block, Cell
    <2>4. Wrote' = Wrote
      BY <2>1 DEF Wrote
    <2> SUFFICES ASSUME Wrote', last'.result.out = "ok", Sane(Subject'),
                        Fits(Subject', last'.in), \A f \in Field(Subject') : f[1] < Size
                 PROVE  Back(Subject', Decoded(Subject)', last'.in)
      BY DEF RoundTrip, Back
    <2>5. Back(Subject, Decoded(Subject), last.in)
      BY <2>1, <2>2, <2>4 DEF RoundTrip, Back
    <2> QED  BY <2>1, <2>2, <2>3, <2>5
  <1> QED  BY <1>1, <1>2, <1>3, <1>4 DEF Next

\* What has been written is read back, for every definition the loader lets on the
\* list and every value it can hold: Decode undoes Encode (codec.go) through the
\* slices VWrite sends and VRead collects (commands.go:136-221), and the scaling of a
\* number costs it less than one raw step, beside the rounding of float32.
THEOREM RoundTripHolds == Spec => []RoundTrip
  <1> DEFINE RInv == TInv /\ VInv /\ RoundTrip
  <1>1. Init => RInv
    <2>1. Init => RoundTrip
      BY DEF Init, NoRequest, RoundTrip, Wrote
    <2> QED  BY <2>1, InitTInv, InitVInv
  <1>2. RInv /\ [Next]_<<loadVars, valueVars>> => RInv'
    BY NextTInv, NextVInv, NextRoundTrip
  <1>3. RInv => RoundTrip
    OBVIOUS
  <1> QED  BY <1>1, <1>2, <1>3, PTL DEF Spec
=============================================================================
