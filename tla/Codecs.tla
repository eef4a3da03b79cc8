-------------------------------- MODULE Codecs --------------------------------
(***************************************************************************)
(* The conversions of codec.go between the bytes of a block and a value.   *)
(*                                                                         *)
(* Numbers outside the boiler (in JSON, and the borders and conversions of *)
(* an event type) are counted in thousandths, its own are whole; float32,  *)
(* which they pass through, is the set of results it may have (Unscaled,   *)
(* Shown).  A date is the numbers time.Date is given, in local time.  A    *)
(* slice that ends behind the block is taken to panic (with spare capacity *)
(* it would read what lies there), and a number that does not fit its      *)
(* bytes to lose the upper ones, as on amd64.  Left out: writing the zero  *)
(* date, which stands for now, and the JSON and String methods.            *)
(***************************************************************************)
EXTENDS Integers, Sequences, FiniteSetsExt, SequencesExt

Width == 256              \* 2^8, a byte; lengths and positions are uint8, too
Byte  == 0 .. Width - 1

One == 1000               \* thousandths

\* What an event type (event.go) says of its data; scale is ConversionFactor.
Layout == [codec : STRING, len : Byte, factor : Byte, pos : Byte, blen : Byte,
           bitPos : Byte, bitLen : Byte, param : STRING, lower : Int, upper : Int,
           scale : Nat, offset : Int]

\* Results: a value (or block), an error, or a panic of the handler.
Good(x) == [out |-> "ok", val |-> x]
Err     == [out |-> "err"]
Panics  == [out |-> "panic"]

\* Values: numbers (in thousandths, or raw), durations in seconds, dates, and
\* other JSON.
Num(n)  == [kind |-> "num", n |-> n]
Dur(n)  == [kind |-> "dur", n |-> n]
Raw(b)  == [kind |-> "raw", bytes |-> b]

\* What can be written; the weekday begins with Monday.
Years  == 0 .. 9999
Moment == [kind : {"date"}, year : Years, month : 1 .. 12, day : 1 .. 31,
           wday : 1 .. 7, hour : 0 .. 23, min : 0 .. 59, sec : 0 .. 59]
Value  == [kind : {"num", "dur"}, n : Int] \cup [kind : {"text"}] \cup Moment

At(b, i)       == b[i + 1]                        \* Go counts from 0
Has(b, i)      == i < Len(b)
Put(b, i, new) == SubSeq(b, 1, i) \o new \o SubSeq(b, i + 1 + Len(new), Len(b))
Slice(b, i, n) == SubSeq(b, i + 1, i + n)

Digit(c, k) == IF k <= Len(c) THEN c[k] ELSE 0

\* Little-endian numbers; a uint has eight bytes, and those behind are lost or 0.
FromLE(c) ==
  Digit(c, 1) + Width * (Digit(c, 2) + Width * (Digit(c, 3) + Width * (Digit(c, 4)
    + Width * (Digit(c, 5) + Width * (Digit(c, 6) + Width * (Digit(c, 7)
    + Width * Digit(c, 8)))))))
\* Mutant: the bytes are not cut out.
ToLEWide(v, n) == [k \in 1 .. n |-> v \div Width^(k - 1)]

\* No duration needs more than five bytes; the next three repeat the sign.
ToLE(v, n) == [k \in 1 .. n |-> IF k <= 5 THEN (v \div Width^(k - 1)) % Width
                               ELSE IF v < 0 /\ k <= 8 THEN Width - 1 ELSE 0]

Signed(v, n) == IF 2 * v >= Width^n THEN v - Width^n ELSE v

Bits(n)   == {k \in 0 .. 7 : (n \div 2^k) % 2 = 1}
Worth(k, bits) == IF k \in bits THEN 2^k ELSE 0

\* The byte that has these bits.
ByteOf(bits) == Worth(0, bits) + Worth(1, bits) + Worth(2, bits) + Worth(3, bits)
              + Worth(4, bits) + Worth(5, bits) + Worth(6, bits) + Worth(7, bits)

Or(m, n)       == ByteOf(Bits(m) \cup Bits(n))
Clear(m, bits) == ByteOf(Bits(m) \ bits)

-----------------------------------------------------------------------------
(* valueListCodec: a bit field counted from the start of the block, or one  *)
(* or two bytes.                                                            *)

BitByte(et) == et.bitPos \div 8
BitOff(et)  == et.bitPos % 8

DecodeList(et, b) ==
  IF et.bitLen > 8 THEN Err
  ELSE IF et.bitLen > 0
  THEN IF ~Has(b, BitByte(et)) THEN Panics
       ELSE Good(Num((At(b, BitByte(et)) \div 2^BitOff(et)) % 2^et.bitLen))
  ELSE LET n == IF et.blen = 1 THEN 1 ELSE 2
       IN IF ~Has(b, et.pos + n - 1) THEN Panics
          ELSE Good(Num(FromLE(Slice(b, et.pos, n))))

\* Mutant: clears the bits below the field, too.
SetBitsBelow(et, byte, d) ==
  Or(Clear(byte, 0 .. BitOff(et) + et.bitLen - 1), (d * 2^BitOff(et)) % Width)

\* The shifted value is not masked: it may reach into the bits above the field.
SetBits(et, byte, d) ==
  Or(Clear(byte, BitOff(et) .. BitOff(et) + et.bitLen - 1),
     (d * 2^BitOff(et)) % Width)

EncodeList(et, b, v) ==
  IF et.bitLen > 8 \/ v.kind # "num" THEN Err
  ELSE IF et.bitLen > 0
  THEN IF ~Has(b, BitByte(et)) THEN Panics
       ELSE Good(Put(b, BitByte(et),
                     <<SetBits(et, At(b, BitByte(et)), v.n % Width)>>))
  ELSE LET n == IF et.blen = 1 THEN 1 ELSE 2
       IN IF ~Has(b, et.pos + n - 1) THEN Panics
          ELSE Good(Put(b, et.pos, ToLE(v.n, n)))

-----------------------------------------------------------------------------
(* divMulOffsetCodec: one to four bytes, or a nibble.                       *)

Nibble(et)   == et.bitLen = 4
BigEndian(et) == et.blen = 2 /\ et.param \in {"SIntHighByteFirst", "IntHighByteFirst"}
IsSigned(et) == CASE et.blen = 1 -> et.param \in {"SByte", "SInt"}
                  [] et.blen = 2 -> et.param \in {"SInt", "SIntHighByteFirst"}
                  [] et.blen = 4 -> et.param \in {"SInt", "SInt4"}
                  [] OTHER       -> FALSE

NumberRefused(et, b) ==
  \/ Len(b) < et.pos + et.blen
  \/ et.bitLen > 0 /\ ~(et.blen = 1 /\ Nibble(et))
  \/ et.blen \notin 1 .. 4

DecodeNumber(et, b) ==
  LET c == Slice(b, et.pos, et.blen)
      n == FromLE(IF BigEndian(et) THEN Reverse(c) ELSE c)
  IN IF NumberRefused(et, b) THEN Err
     ELSE Good(Num(IF IsSigned(et) THEN Signed(n, et.blen)
                   ELSE IF Nibble(et) /\ et.bitPos = 0 THEN n \div 16
                   ELSE IF Nibble(et) /\ et.bitPos = 4 THEN n % 16
                   ELSE n))

\* A signed byte is written whole even if the event is a nibble; a nibble at
\* another position than 0 (the upper) and 4 is not written at all.
EncodeNumber(et, b, v) ==
  LET c   == ToLE(v.n, et.blen)
      old == At(b, et.pos)
  IN IF NumberRefused(et, b) \/ v.kind # "num" THEN Err
     ELSE IF Nibble(et) /\ ~IsSigned(et)
     THEN Good(IF et.bitPos = 0 THEN Put(b, et.pos, <<Or(old % 16, (c[1] * 16) % Width)>>)
               ELSE IF et.bitPos = 4 THEN Put(b, et.pos, <<Or(16 * (old \div 16), c[1])>>)
               ELSE b)
     ELSE Good(Put(b, et.pos, IF BigEndian(et) THEN Reverse(c) ELSE c))

-----------------------------------------------------------------------------
(* Scaling, before Encode and behind Decode of divMulOffsetCodec; a value   *)
(* list has whole numbers.                                                  *)

Scales(et) == et.codec = "divMulOffset"
Unit(et)   == IF Scales(et) THEN et.scale ELSE One
Zero(et)   == IF Scales(et) THEN et.offset ELSE 0
Abs(n)     == IF n < 0 THEN -n ELSE n

\* Two different borders bound what is written.
Within(et, n) == IF ~Scales(et) \/ et.lower = et.upper THEN n
                 ELSE Min({et.upper, Max({et.lower, n})})

\* Each way has at most four roundings, of one part in 2^24 each; they add up to
\* hardly more than half of this part.
Precision == 2^21

\* Eighths of up to 24 bits are not rounded, and neither is a whole quotient of
\* them; value lists do not use float32.
Eighth == One \div 8
Exactly(et, n) ==
  Scales(et) => /\ \A x \in {n, Unit(et), Zero(et)} : x % Eighth = 0
                /\ (Abs(n) + Abs(Zero(et)) + Unit(et)) \div Eighth <= 2^24

\* How far from n, in thousandths, its float32 arithmetic may end.
Blur(et, n) == IF Exactly(et, n) THEN 0
               ELSE (Abs(n) + 2 * Abs(Zero(et))) \div Precision

\* The whole steps in a number that is one of these: Go cuts towards zero.
Cut(numbers, step) == {IF y < 0 THEN -((-y) \div step) ELSE y \div step : y \in numbers}

\* Mutant: the offset is not taken off again.
UnscaledNoOffset(et, v) ==
  IF v.kind # "num" \/ et.codec \notin {"valueList", "divMulOffset"} THEN {v}
  ELSE {Num(u) : u \in Cut({Within(et, v.n)}, Unit(et))}

\* What Encode may make of a value: (f - ConversionOffset) / ConversionFactor, cut
\* to a whole number.  21.3 for Div10 is 212 or 213 (the code's float32: 212).
Unscaled(et, v) ==
  IF v.kind # "num" \/ et.codec \notin {"valueList", "divMulOffset"} THEN {v}
  ELSE LET n == Within(et, v.n)
           a == n - Zero(et)
           e == IF Exactly(et, n) THEN 0 ELSE Blur(et, n) + 1
       IN {Num(u) : u \in Cut(a - e .. a + e, Unit(et))}

\* The value a raw number stands for, and what Decode may make of it, to the
\* nearest thousandth.
Meant(et, n) == n * Unit(et) + Zero(et)

Shown(et, w) ==
  IF w.kind # "num" THEN {w}
  ELSE LET n == Meant(et, w.n) IN {Num(x) : x \in n - Blur(et, n) .. n + Blur(et, n)}

-----------------------------------------------------------------------------
(* dateTimeBCDCodec, dateBCDCodec.                                          *)

FromBCD(n) == (n \div 16) * 10 + (n % 16)
ToBCD(n)   == ((n \div 10) * 16 + (n % 10)) % Width

\* Byte 4 is the weekday, which is written and not read.
DateBytes(v) == <<ToBCD(v.year \div 100), ToBCD(v.year % 100), ToBCD(v.month),
                  ToBCD(v.day), ToBCD(v.wday), ToBCD(v.hour), ToBCD(v.min),
                  ToBCD(v.sec)>>

\* Bytes that are missing behind the date count as zero.
DecodeBCDDate(c) ==
  LET d == [k \in 1 .. 8 |-> IF k <= Len(c) THEN FromBCD(c[k]) ELSE 0]
  IN IF Len(c) < 4 THEN Err
     ELSE Good([kind |-> "date", year |-> d[1] * 100 + d[2], month |-> d[3],
                day |-> d[4], wday |-> 0, hour |-> d[6], min |-> d[7], sec |-> d[8]])

DecodeDate(et, b) ==
  IF Len(b) < et.len THEN Err
  ELSE IF Len(b) < et.pos + et.blen \/ et.pos + et.blen >= Width THEN Panics
  ELSE DecodeBCDDate(Slice(b, et.pos, et.blen))

\* A value that is neither a date nor a string fails a type assertion.
Dated(v, good) == CASE v.kind = "date" -> good
                    [] v.kind \in {"dur", "text"} -> Err
                    [] OTHER -> Panics

EncodeDateTime(et, b, v) ==
  IF Len(b) < et.pos + 8 THEN Err
  ELSE Dated(v, Good(Put(b, et.pos, DateBytes(v))))

\* The date is written with weekday and midnight as far as the block goes,
\* whatever the event's ByteLength.
EncodeDate(et, b, v) ==
  IF Len(b) < et.pos + 4 THEN Err
  ELSE Dated(v, LET n == Min({8, Len(b) - et.pos})
                    midnight == [v EXCEPT !.hour = 0, !.min = 0, !.sec = 0]
                IN Good(Put(b, et.pos, SubSeq(DateBytes(midnight), 1, n))))

-----------------------------------------------------------------------------
(* sec2DurationCodec.                                                       *)

DecodeDuration(et, b) ==
  IF Len(b) < et.pos + et.blen THEN Err
  ELSE Good(Dur(FromLE(Slice(b, et.pos, et.blen))))

EncodeDuration(et, b, v) ==
  IF Len(b) < et.pos + et.blen \/ v.kind # "dur" THEN Err
  ELSE Good(Put(b, et.pos, ToLE(v.n, et.blen)))

-----------------------------------------------------------------------------
(* The codecs that only decode: switching times and error histories.        *)

Time53(n) == (n \div 8) * 60 + (n % 8) * 10       \* in minutes

\* The on and off times of one day, up to the first that is not set.
Day(c) ==
  LET pairs == {j \in 0 .. (Len(c) \div 2) - 1 :
                  \A k \in 0 .. 2 * j + 1 : At(c, k) # 255}
  IN [j \in 1 .. Cardinality(pairs) |->
        <<Time53(At(c, 2 * j - 2)), Time53(At(c, 2 * j - 1))>>]

\* BlockFactor 0, or one above BlockLength, is a division by zero.
DecodeTimes(et, b) ==
  IF et.factor = 0 \/ et.factor > et.len THEN Panics
  ELSE LET chunk == et.len \div et.factor
       IN IF Len(b) % chunk # 0 THEN Err
          ELSE Good([kind |-> "times",
                     days |-> [i \in 1 .. Len(b) \div chunk |->
                                 Day(Slice(b, (i - 1) * chunk, chunk))]])

\* Mutant: cuts all eight bytes and one more.
DecodeErrorsLong(et, b) ==
  IF \E j \in 0 .. Len(b) - 1 : j % 9 = 0 /\ j + 10 > Len(b) THEN Panics
  ELSE Good([kind |-> "errors", list |-> <<>>])

\* An entry is a number and seven of the eight bytes of a date; a last entry
\* that is cut short cannot be sliced.
DecodeErrors(et, b) ==
  LET n == (Len(b) + 8) \div 9
  IN IF n > 0 /\ Len(b) < 9 * (n - 1) + 8 THEN Panics
     ELSE Good([kind |-> "errors",
                list |-> [i \in 1 .. n |->
                  <<At(b, 9 * (i - 1)), DecodeBCDDate(Slice(b, 9 * (i - 1) + 1, 7)).val>>]])

-----------------------------------------------------------------------------
Codec == {"nop", "valueList", "divMulOffset", "dateTimeBCD", "dateBCD",
          "sec2Duration", "mappingTime53", "mappingRaster152", "mappingErrors"}

Decode(et, b) ==
  CASE et.codec = "valueList"     -> DecodeList(et, b)
    [] et.codec = "divMulOffset"  -> DecodeNumber(et, b)
    [] et.codec \in {"dateTimeBCD", "dateBCD"} -> DecodeDate(et, b)
    [] et.codec = "sec2Duration"  -> DecodeDuration(et, b)
    [] et.codec = "mappingTime53" -> DecodeTimes(et, b)
    [] et.codec = "mappingErrors" -> DecodeErrors(et, b)
    [] et.codec \in {"nop", "mappingRaster152"} -> Good(Raw(b))

\* The codecs that cannot encode leave the block alone and report no error.
Encode(et, b, v) ==
  CASE et.codec = "valueList"    -> EncodeList(et, b, v)
    [] et.codec = "divMulOffset" -> EncodeNumber(et, b, v)
    [] et.codec = "dateTimeBCD"  -> EncodeDateTime(et, b, v)
    [] et.codec = "dateBCD"      -> EncodeDate(et, b, v)
    [] et.codec = "sec2Duration" -> EncodeDuration(et, b, v)
    [] OTHER                     -> Good(b)
===============================================================================
