---------------------------- MODULE Values_proofs ----------------------------
(* What holds of Values for files of any length with any elements.            *)
EXTENDS Values, TLAPS

-----------------------------------------------------------------------------
(* The choice of the data point definition.                                  *)

Matching == {devs[j] : j \in {k \in DOMAIN devs : Matches(devs[k])}}

\* The best match so far is one of the matches, and there is one as soon as one
\* has been read.
Chosen == /\ devs \in Seq(Devices)
          /\ dp \in Matching \cup {Bad}
          /\ Matching # {} => dp # Bad

DInv == Chosen /\ NarrowestChosen

\* The intervals of the definitions are ordered by Inside as far as the code can
\* tell them apart: what Better prefers is the inner one, and what it does not
\* prefer is the outer one.
LEMMA BetterIsInside ==
  ASSUME NEW d \in Devices, NEW p \in Devices, Tellable(d, p)
  PROVE  IF Better(d, p) THEN Inside(d, p) ELSE Inside(p, d)
  <1>1. d.lo \in Nat /\ d.hi \in Nat /\ p.lo \in Nat /\ p.hi \in Nat
    BY DeviceAssumption DEF Device
  <1> QED  BY <1>1 DEF Tellable, Inside, Better

LEMMA InsideTransitive ==
  ASSUME NEW d \in Devices, NEW p \in Devices, NEW q \in Devices,
         Inside(d, p), Inside(p, q)
  PROVE  Inside(d, q)
  <1>1. /\ d.lo \in Nat /\ d.hi \in Nat /\ p.lo \in Nat /\ p.hi \in Nat
        /\ q.lo \in Nat /\ q.hi \in Nat
    BY DeviceAssumption DEF Device
  <1> QED  BY <1>1 DEF Inside

LEMMA InsideReflexive ==
  ASSUME NEW d \in Devices
  PROVE  Inside(d, d)
  <1>1. d.lo \in Nat /\ d.hi \in Nat
    BY DeviceAssumption DEF Device
  <1> QED  BY <1>1 DEF Inside

\* One more element adds itself to the matches or nothing.
LEMMA MatchingGrows ==
  ASSUME devs \in Seq(Devices), NEW d \in Devices,
         devs' = Append(devs, d), ident' = ident
  PROVE  Matching' = IF Matches(d) THEN Matching \cup {d} ELSE Matching
  <1>1. /\ Len(devs) \in Nat /\ DOMAIN devs = 1 .. Len(devs)
        /\ DOMAIN devs' = 1 .. Len(devs) + 1
        /\ devs'[Len(devs) + 1] = d
        /\ \A k \in 1 .. Len(devs) : devs'[k] = devs[k]
    OBVIOUS
  <1>2. \A e : Matches(e)' <=> Matches(e)
    BY DEF Matches, IdExt
  <1>3. Matching' = {devs'[j] : j \in {k \in DOMAIN devs' : Matches(devs'[k])}}
    BY <1>2 DEF Matching
  <1>4. ASSUME NEW e  PROVE e \in Matching <=> \E k \in 1 .. Len(devs) : Matches(devs[k]) /\ e = devs[k]
    BY <1>1 DEF Matching
  <1>5. ASSUME NEW e
        PROVE  e \in Matching' <=> \E k \in 1 .. Len(devs) + 1 : Matches(devs'[k]) /\ e = devs'[k]
    BY <1>1, <1>3
  <1>6. 1 .. Len(devs) + 1 = (1 .. Len(devs)) \cup {Len(devs) + 1}
    BY <1>1
  <1>7. ASSUME NEW e  PROVE e \in Matching' <=> e \in Matching \/ (Matches(d) /\ e = d)
    BY <1>1, <1>4, <1>5, <1>6
  <1> QED  BY <1>7

LEMMA MatchingDevices ==
  ASSUME devs \in Seq(Devices)
  PROVE  Matching \subseteq Devices
  BY DEF Matching

LEMMA InitDInv == LoadInit => DInv
  <1> SUFFICES ASSUME LoadInit  PROVE DInv
    OBVIOUS
  <1>1. devs = <<>> /\ dp = Bad
    BY DEF LoadInit
  <1>2. Matching = {}
    BY <1>1 DEF Matching
  <1> QED  BY <1>1, <1>2 DEF DInv, Chosen, NarrowestChosen, Matching

LEMMA ReadDeviceDInv ==
  ASSUME DInv, NEW d \in Devices, ReadDevice(d)
  PROVE  DInv'
  <1>1. devs \in Seq(Devices) /\ devs' = Append(devs, d) /\ ident' = ident
    BY DEF DInv, Chosen, ReadDevice
  <1>2. devs' \in Seq(Devices)
    BY <1>1
  <1>3. Matching' = IF Matches(d) THEN Matching \cup {d} ELSE Matching
    BY <1>1, MatchingGrows
  <1>4. Matching \subseteq Devices /\ Bad \notin Devices
    BY <1>1, MatchingDevices, DeviceAssumption
  <1>5. dp \in Matching \cup {Bad} /\ (Matching # {} => dp # Bad)
    BY DEF DInv, Chosen
  <1>6. dp' = IF Matches(d) /\ (IF dp = Bad THEN TRUE ELSE Better(d, dp)) THEN d ELSE dp
    BY DEF ReadDevice
  <1>7. /\ dp' \in Matching' \cup {Bad}
        /\ Matching' # {} => dp' # Bad
    BY <1>3, <1>4, <1>5, <1>6
  <1>8. NarrowestChosen'
    <2> SUFFICES ASSUME Matching' # {}, \A p, q \in Matching' : Tellable(p, q)
                 PROVE  dp' \in Matching' /\ \A p \in Matching' : Inside(dp', p)
      BY DEF NarrowestChosen, Matching
    <2>1. Matching # {} => dp \in Matching /\ \A p \in Matching : Inside(dp, p)
      BY <1>3 DEF DInv, NarrowestChosen, Matching
    <2>2. CASE ~Matches(d)
      BY <2>1, <2>2, <1>3, <1>6
    <2>3. CASE Matches(d) /\ Matching = {}
      <3>1. dp' = d /\ Matching' = {d}
        BY <2>3, <1>3, <1>5, <1>6
      <3> QED  BY <3>1, InsideReflexive
    <2>4. CASE Matches(d) /\ Matching # {}
      <3>1. /\ dp \in Matching /\ dp \in Devices /\ dp # Bad
            /\ \A p \in Matching : Inside(dp, p) /\ p \in Devices
        BY <2>1, <2>4, <1>4
      <3>2. Matching' = Matching \cup {d} /\ Tellable(d, dp)
        BY <2>4, <3>1, <1>3
      <3>3. CASE Better(d, dp)
        <4>1. dp' = d /\ Inside(d, dp)
          BY <3>1, <3>2, <3>3, <2>4, <1>6, BetterIsInside
        <4>2. \A p \in Matching : Inside(d, p)
          BY <3>1, <4>1, InsideTransitive
        <4> QED  BY <4>1, <4>2, <3>2, InsideReflexive
      <3>4. CASE ~Better(d, dp)
        <4>1. dp' = dp /\ Inside(dp, d)
          BY <3>1, <3>2, <3>4, <1>6, BetterIsInside
        <4> QED  BY <4>1, <3>1, <3>2
      <3> QED  BY <3>3, <3>4
    <2> QED  BY <2>2, <2>3, <2>4
  <1> QED  BY <1>2, <1>7, <1>8 DEF DInv, Chosen

LEMMA NextDInv == DInv /\ [Next]_<<loadVars, valueVars>> => DInv'
  <1> SUFFICES ASSUME DInv, [Next]_<<loadVars, valueVars>>  PROVE DInv'
    OBVIOUS
  <1>1. CASE \E d \in Devices : ReadDevice(d)
    BY <1>1, ReadDeviceDInv
  <1>2. CASE devs' = <<>> /\ dp' = Bad
    <2>1. Matching' = {}
      BY <1>2 DEF Matching
    <2> QED  BY <1>2, <2>1 DEF DInv, Chosen, NarrowestChosen, Matching
  <1>3. CASE UNCHANGED <<devs, dp, ident>>
    <2>1. \A e : Matches(e)' <=> Matches(e)
      BY <1>3 DEF Matches, IdExt
    <2>2. Matching' = Matching
      BY <1>3, <2>1 DEF Matching
    <2> QED  BY <1>3, <2>2 DEF DInv, Chosen, NarrowestChosen, Matching
  <1> QED
    BY <1>1, <1>2, <1>3 DEF Next, Loading, Load, ReadElement, CloseDevices,
       CloseElements, Restart, loadVars

\* Whatever the definitions are, in whatever order and however many: among matches
\* the code can tell apart the narrowest one is chosen (xmlinfo.go:123-135).
THEOREM NarrowestChosenHolds == Spec => []NarrowestChosen
  <1>1. Init => DInv
    BY InitDInv DEF Init
  <1>2. DInv => NarrowestChosen
    BY DEF DInv
  <1> QED  BY <1>1, <1>2, NextDInv, PTL DEF Spec

-----------------------------------------------------------------------------
(* The loops over a block.                                                   *)

\* What the loader lets on the list.
Entry(et) ==
  /\ et.codec \in Codec \cup {"nil"}
  /\ et.codec = "nil" => et.read = "nop" /\ et.write = "nop"
  /\ et.len \in Byte /\ et.factor \in Byte /\ et.pos \in Byte
  /\ et.blen \in Byte /\ et.bitPos \in Byte /\ et.bitLen \in Byte

LEMMA ByteNumber ==
  ASSUME NEW x \in Byte
  PROVE  x \in Nat /\ x < Width /\ (x > 0 => x \in 1 .. 255) /\ (x = 0 \/ x > 0)
  BY DEF Byte, Width

\* A block of n bytes is made of f equal parts.
Parts(n, f) == n \div f \in 1 .. 255 /\ f * (n \div f) = n /\ f <= n

LEMMA DivExact ==
  ASSUME NEW n \in 1 .. 255, NEW f \in 1 .. 255, n % f = 0
  PROVE  Parts(n, f)
  <1>1. n = f * (n \div f) + (n % f) /\ n \div f \in Int
    OBVIOUS
  <1>2. f * (n \div f) = n
    BY <1>1
  <1> HIDE DEF Width
  <1> DEFINE q == n \div f
  <1>3. q \in Int /\ f * q = n
    BY <1>1, <1>2
  <1> HIDE DEF q
  <1>4. q >= 1 /\ q <= 255
    BY <1>3
  <1>5. f * q = f + f * (q - 1) /\ f * (q - 1) >= 0
    BY <1>3, <1>4
  <1>6. f <= n
    BY <1>3, <1>5
  <1> QED  BY <1>2, <1>4, <1>6 DEF q, Parts

LEMMA Ninths ==
  ASSUME NEW n \in 1 .. 255, n % 9 = 0
  PROVE  9 * (((n + 8) \div 9) - 1) + 8 <= n
  OBVIOUS

\* j of r steps of s bytes lie in a block whose length is a byte.
InSteps(j, r, s) ==
  /\ j * s \in 0 .. r * s
  /\ (j * s) % 256 = j * s
  /\ j < r => j * s < r * s /\ j * s + s <= r * s

LEMMA Multiples ==
  ASSUME NEW r \in 1 .. 255, NEW s \in 1 .. 255, r * s <= 255,
         NEW j \in 0 .. r
  PROVE  InSteps(j, r, s)
  <1>1. j * s \in Nat /\ r * s \in Nat
    OBVIOUS
  <1>2. (r - j) * s = r * s - j * s /\ (r - j) * s >= 0
    OBVIOUS
  <1>3. j < r => (r - j) * s >= s
    OBVIOUS
  <1> DEFINE a == j * s
             b == r * s
  <1>4. /\ a \in Nat /\ b \in Nat /\ a <= b /\ b <= 255
        /\ j < r => a + s <= b
    BY <1>1, <1>2, <1>3
  <1> HIDE DEF a, b
  <1>5. a \in 0 .. b /\ a % 256 = a /\ (j < r => a < b /\ a + s <= b)
    BY <1>4
  <1> QED  BY <1>5 DEF a, b, InSteps

\* If r steps make the block, the counter ends at BlockLength after r rounds, and
\* no slice wraps.
LEMMA Stepwise ==
  ASSUME NEW et, NEW r \in 1 .. 255, NEW s \in 1 .. 255,
         Step(et) = s, r * s = et.len, et.len \in 1 .. 255
  PROVE  ~Endless(et) /\ Rounds(et) = r /\ Wraps(et) = {}
  <1>1. ASSUME NEW j \in 0 .. r
        PROVE  /\ Offset(et, j) = j * s
               /\ j < r => Offset(et, j) < et.len /\ Offset(et, j) + s <= et.len
    <2>1. r * s <= 255
      OBVIOUS
    <2>2. /\ (j * s) % 256 = j * s
          /\ j < r => j * s < r * s /\ j * s + s <= r * s
      <3>1. InSteps(j, r, s)
        BY ONLY <2>1, Multiples, r \in 1 .. 255, s \in 1 .. 255, j \in 0 .. r
      <3> QED  BY ONLY <3>1 DEF InSteps
    <2>3. Offset(et, j) = (j * s) % 256
      BY DEF Offset, Width
    <2> QED  BY <2>2, <2>3
  <1>2. Offset(et, r) = et.len
    BY <1>1
  <1>3. r \in 0 .. Width /\ ~Endless(et)
    BY <1>2 DEF Endless, Width
  <1> DEFINE EndsAt(k) == /\ Offset(et, k) >= et.len
                          /\ \A j \in 0 .. k - 1 : Offset(et, j) < et.len
  <1>4. EndsAt(r)
    BY <1>1, <1>2
  <1>5. ASSUME NEW k \in 0 .. Width, EndsAt(k)  PROVE k = r
    <2>1. CASE k < r
      BY <2>1, <1>1, <1>5 DEF Width
    <2>2. CASE r < k
      <3>1. r \in 0 .. k - 1
        BY <2>2 DEF Width
      <3> QED  BY <3>1, <1>2, <1>5
    <2> QED  BY <2>1, <2>2 DEF Width
  <1>6. Rounds(et) = r
    <2> HIDE DEF EndsAt
    <2>1. (CHOOSE k \in 0 .. Width : EndsAt(k)) = r
      BY <1>3, <1>4, <1>5
    <2> QED  BY <2>1 DEF Rounds, EndsAt
  <1>7. Wraps(et) = {}
    <2> SUFFICES ASSUME NEW k \in 0 .. r - 1, Offset(et, k) + s >= Width  PROVE FALSE
      BY <1>6 DEF Wraps
    <2>1. k \in 0 .. r /\ k < r
      OBVIOUS
    <2>2. Offset(et, k) + s <= et.len
      BY <2>1, <1>1
    <2>3. Offset(et, k) = k * s /\ k * s \in Int
      BY <2>1, <1>1
    <2> QED  BY <2>2, <2>3 DEF Width
  <1> QED  BY <1>3, <1>6, <1>7

\* A sane block is read and written in whole steps.
LEMMA WholeSteps ==
  ASSUME NEW et, Entry(et), et.len > 0, et.factor = 0 \/ et.len % et.factor = 0
  PROVE  ~Endless(et) /\ Rounds(et) * Step(et) = et.len /\ Wraps(et) = {}
  <1>1. et.len \in 1 .. 255 /\ (et.factor = 0 \/ et.factor > 0)
    BY ByteNumber DEF Entry
  <1>2. CASE et.factor = 0
    <2>1. Step(et) = et.len /\ 1 * et.len = et.len /\ 1 \in 1 .. 255
      BY <1>1, <1>2 DEF Step
    <2>2. Step(et) \in 1 .. 255 /\ 1 * Step(et) = et.len
      BY <1>1, <2>1
    <2>3. ~Endless(et) /\ Rounds(et) = 1 /\ Wraps(et) = {}
      BY ONLY <1>1, <2>1, <2>2, Stepwise
    <2> QED  BY <2>2, <2>3
  <1>3. CASE et.factor > 0
    <2>1. et.factor \in 1 .. 255 /\ et.len % et.factor = 0
      <3>1. et.factor \in Byte
        BY DEF Entry
      <3>2. et.factor \in 1 .. 255
        BY ONLY <1>3, <3>1, ByteNumber
      <3> QED  BY ONLY <1>3, <3>2, et.factor = 0 \/ et.len % et.factor = 0
    <2> PICK n \in 1 .. 255, f \in 1 .. 255 : n = et.len /\ f = et.factor
      BY <1>1, <2>1
    <2>2. n % f = 0
      BY <2>1
    <2>3. n \div f \in 1 .. 255 /\ f * (n \div f) = n
      <3>1. Parts(n, f)
        BY ONLY <2>2, DivExact, n \in 1 .. 255, f \in 1 .. 255
      <3> QED  BY ONLY <3>1 DEF Parts
    <2>4. Step(et) = n \div f
      BY <1>3 DEF Step
    <2> PICK s \in 1 .. 255 : s = n \div f /\ f * s = n
      BY <2>3
    <2>5. Step(et) = s /\ f * s = et.len /\ et.len \in 1 .. 255
      BY <2>4
    <2>6. ~Endless(et) /\ Rounds(et) = f /\ Wraps(et) = {}
      BY ONLY <2>5, Stepwise, s \in 1 .. 255, f \in 1 .. 255
    <2> QED  BY ONLY <2>5, <2>6
  <1> QED  BY <1>1, <1>2, <1>3

LEMMA BlockLen ==
  ASSUME NEW et, Rounds(et) * Step(et) \in Nat
  PROVE  Len(Block(et)) = Rounds(et) * Step(et)
  BY DEF Block

-----------------------------------------------------------------------------
(* What the codecs can end in.                                               *)

LEMMA DecodeOutcome ==
  ASSUME NEW et, et.codec \in Codec, NEW b
  PROVE  Decode(et, b).out \in {"ok", "err", "panic"}
  <1>1. DecodeList(et, b).out \in {"ok", "err", "panic"}
    BY DEF DecodeList, Good, Err, Panics
  <1>2. DecodeNumber(et, b).out \in {"ok", "err", "panic"}
    BY DEF DecodeNumber, Good, Err
  <1>3. DecodeDate(et, b).out \in {"ok", "err", "panic"}
    BY DEF DecodeDate, DecodeBCDDate, Good, Err, Panics
  <1>4. DecodeDuration(et, b).out \in {"ok", "err", "panic"}
    BY DEF DecodeDuration, Good, Err
  <1>5. DecodeTimes(et, b).out \in {"ok", "err", "panic"}
    BY DEF DecodeTimes, Good, Err, Panics
  <1>6. DecodeErrors(et, b).out \in {"ok", "err", "panic"}
    BY DEF DecodeErrors, Good, Panics
  <1>7. Good(Raw(b)).out = "ok"
    BY DEF Good
  <1> QED  BY <1>1, <1>2, <1>3, <1>4, <1>5, <1>6, <1>7 DEF Decode, Codec

LEMMA EncodeOutcome ==
  ASSUME NEW et, NEW b, NEW v
  PROVE  Encode(et, b, v).out \in {"ok", "err", "panic"}
  <1>1. EncodeList(et, b, v).out \in {"ok", "err", "panic"}
    BY DEF EncodeList, Good, Err, Panics
  <1>2. EncodeNumber(et, b, v).out \in {"ok", "err", "panic"}
    BY DEF EncodeNumber, Good, Err
  <1>3. EncodeDateTime(et, b, v).out \in {"ok", "err", "panic"}
    BY DEF EncodeDateTime, Dated, Good, Err, Panics
  <1>4. EncodeDate(et, b, v).out \in {"ok", "err", "panic"}
    BY DEF EncodeDate, Dated, Good, Err, Panics
  <1>5. EncodeDuration(et, b, v).out \in {"ok", "err", "panic"}
    BY DEF EncodeDuration, Good, Err
  <1>6. Good(b).out = "ok"
    BY DEF Good
  <1> QED  BY <1>1, <1>2, <1>3, <1>4, <1>5, <1>6 DEF Encode

\* A sane definition lies inside its block.
LEMMA SaneInside ==
  ASSUME NEW et, Entry(et), Sane(et)
  PROVE  /\ et.len \in 1 .. 255 /\ et.pos \in Byte /\ et.blen \in Byte
         /\ et.pos + et.blen <= et.len
         /\ et.factor = 0 \/ et.len % et.factor = 0
         /\ et.len \in Nat /\ et.pos \in Nat /\ et.blen \in Nat /\ et.factor \in Nat
         /\ et.len > 0 /\ et.len < Width
         /\ et.codec = "valueList" => SaneList(et)
         /\ et.codec = "dateTimeBCD" => et.blen = 8
         /\ et.codec = "mappingTime53" => et.factor > 0
         /\ et.codec = "mappingErrors" => et.len % 9 = 0
  <1>1. et.len \in Byte /\ et.pos \in Byte /\ et.blen \in Byte /\ et.factor \in Byte
    BY DEF Entry
  <1>2. /\ et.len > 0 /\ et.pos + et.blen <= et.len
        /\ et.factor = 0 \/ et.len % et.factor = 0
    BY DEF Sane
  <1>3. /\ et.codec = "valueList" => SaneList(et)
        /\ et.codec = "dateTimeBCD" => et.blen = 8
        /\ et.codec = "mappingTime53" => et.factor > 0
        /\ et.codec = "mappingErrors" => et.len % 9 = 0
    BY DEF Sane
  <1> QED  BY <1>1, <1>2, <1>3, ByteNumber

LEMMA SaneShort ==
  ASSUME NEW et, et.len \in Nat, et.pos \in Nat, et.blen \in Nat,
         et.pos + et.blen <= et.len, SaneList(et), ~(et.bitLen > 0),
         NEW b, Len(b) = et.len
  PROVE  Has(b, et.pos + (IF et.blen = 1 THEN 1 ELSE 2) - 1)
  <1>1. et.blen \in {1, 2}
    BY DEF SaneList
  <1>2. (IF et.blen = 1 THEN 1 ELSE 2) = et.blen
    BY <1>1
  <1>3. et.pos + et.blen - 1 < et.len
    OBVIOUS
  <1> QED  BY <1>2, <1>3 DEF Has

LEMMA DecodeSane ==
  ASSUME NEW et, Entry(et), Sane(et), et.codec # "nil", NEW b, Len(b) = et.len
  PROVE  Decode(et, b).out # "panic"
  <1>1. /\ et.len \in Nat /\ et.pos \in Nat /\ et.blen \in Nat /\ et.factor \in Nat
        /\ et.pos + et.blen <= et.len /\ et.len < Width /\ et.len \in 1 .. 255
    BY SaneInside
  <1>2. CASE et.codec = "valueList"
    <2>1. SaneList(et) /\ et.bitLen \in 0 .. 255
      BY <1>2, SaneInside DEF Entry, Byte, Width
    <2>2. et.bitLen > 0 => Has(b, BitByte(et))
      BY <2>1 DEF SaneList, Has
    <2>3. ~(et.bitLen > 0) => Has(b, et.pos + (IF et.blen = 1 THEN 1 ELSE 2) - 1)
      BY <1>1, <2>1, SaneShort
    <2>4. Err.out # "panic" /\ \A x : Good(x).out # "panic"
      BY DEF Err, Good
    <2>5. DecodeList(et, b).out # "panic"
      BY <2>2, <2>3, <2>4 DEF DecodeList
    <2> QED  BY <1>2, <2>5 DEF Decode
  <1>3. CASE et.codec = "divMulOffset"
    <2>1. DecodeNumber(et, b).out # "panic"
      BY DEF DecodeNumber, Good, Err
    <2> QED  BY <1>3, <2>1 DEF Decode
  <1>4. CASE et.codec \in {"dateTimeBCD", "dateBCD"}
    <2>1. ~(et.len < et.pos + et.blen \/ et.pos + et.blen >= Width)
      BY <1>1 DEF Width
    <2>2. Err.out # "panic" /\ \A x : Good(x).out # "panic"
      BY DEF Err, Good
    <2>3. \A c : DecodeBCDDate(c).out # "panic"
      BY <2>2 DEF DecodeBCDDate
    <2>4. DecodeDate(et, b).out # "panic"
      BY <2>1, <2>2, <2>3 DEF DecodeDate
    <2> QED  BY <1>4, <2>4 DEF Decode
  <1>5. CASE et.codec = "sec2Duration"
    <2>1. DecodeDuration(et, b).out # "panic"
      BY DEF DecodeDuration, Good, Err
    <2> QED  BY <1>5, <2>1 DEF Decode
  <1>6. CASE et.codec = "mappingTime53"
    <2>1. et.factor > 0 /\ et.len % et.factor = 0
      BY <1>6, SaneInside
    <2>2. et.factor \in 1 .. 255
      BY <2>1, ByteNumber DEF Entry
    <2> PICK n \in 1 .. 255, f \in 1 .. 255 : n = et.len /\ f = et.factor
      BY <1>1, <2>2
    <2>3. n % f = 0
      BY <2>1
    <2>4. f <= n
      <3>1. Parts(n, f)
        BY ONLY <2>3, DivExact, n \in 1 .. 255, f \in 1 .. 255
      <3> QED  BY ONLY <3>1 DEF Parts
    <2>5. ~(f = 0 \/ f > n)
      BY ONLY <2>4, n \in 1 .. 255, f \in 1 .. 255
    <2>6. Err.out # "panic" /\ \A x : Good(x).out # "panic"
      BY DEF Err, Good
    <2> HIDE DEF Good, Err
    <2>7. DecodeTimes(et, b).out # "panic"
      BY <2>5, <2>6 DEF DecodeTimes
    <2> QED  BY <1>6, <2>7 DEF Decode
  <1>7. CASE et.codec = "mappingErrors"
    <2>1. et.len % 9 = 0
      BY <1>7, SaneInside
    <2>2. 9 * (((et.len + 8) \div 9) - 1) + 8 <= et.len
      BY ONLY <1>1, <2>1, Ninths
    <2>3. ~(Len(b) < 9 * (((Len(b) + 8) \div 9) - 1) + 8)
      BY <1>1, <2>2
    <2>4. DecodeErrors(et, b).out # "panic"
      BY <2>3 DEF DecodeErrors, Good
    <2> QED  BY <1>7, <2>4 DEF Decode
  <1>8. CASE et.codec \in {"nop", "mappingRaster152"}
    BY <1>8 DEF Decode, Good
  <1> QED
    BY <1>2, <1>3, <1>4, <1>5, <1>6, <1>7, <1>8 DEF Entry, Codec

\* A date is the only thing a sane definition does not protect.
LEMMA EncodeSane ==
  ASSUME NEW et, Entry(et), Sane(et), NEW b, Len(b) = et.len, NEW v,
         Encode(et, b, v).out = "panic"
  PROVE  et.codec \in {"dateTimeBCD", "dateBCD"} /\ v.kind \notin {"date", "dur", "text"}
  <1>1. /\ et.len \in Nat /\ et.pos \in Nat /\ et.blen \in Nat /\ et.factor \in Nat
        /\ et.pos + et.blen <= et.len /\ et.len < Width /\ et.len \in 1 .. 255
    BY SaneInside
  <1>2. CASE et.codec = "valueList"
    <2>1. SaneList(et) /\ et.bitLen \in 0 .. 255
      BY <1>2, SaneInside DEF Entry, Byte, Width
    <2>2. et.bitLen > 0 => Has(b, BitByte(et))
      BY <2>1 DEF SaneList, Has
    <2>3. ~(et.bitLen > 0) => Has(b, et.pos + (IF et.blen = 1 THEN 1 ELSE 2) - 1)
      BY <1>1, <2>1, SaneShort
    <2>4. Err.out # "panic" /\ \A x : Good(x).out # "panic"
      BY DEF Err, Good
    <2>5. EncodeList(et, b, v).out # "panic"
      BY <2>2, <2>3, <2>4 DEF EncodeList
    <2> QED  BY <1>2, <2>5 DEF Encode
  <1>3. EncodeNumber(et, b, v).out # "panic" /\ EncodeDuration(et, b, v).out # "panic"
    BY DEF EncodeNumber, EncodeDuration, Good, Err
  <1>4. \A good : good.out = "ok" /\ Dated(v, good).out = "panic"
                    => v.kind \notin {"date", "dur", "text"}
    BY DEF Dated, Err, Panics
  <1>5. EncodeDateTime(et, b, v).out = "panic" => v.kind \notin {"date", "dur", "text"}
    BY <1>4 DEF EncodeDateTime, Good, Err
  <1>6. EncodeDate(et, b, v).out = "panic" => v.kind \notin {"date", "dur", "text"}
    BY <1>4 DEF EncodeDate, Good, Err
  <1>7. Good(b).out # "panic"
    BY DEF Good
  <1> QED  BY <1>2, <1>3, <1>5, <1>6, <1>7 DEF Encode

-----------------------------------------------------------------------------
(* The loader and the requests.                                              *)

\* Once a request has been answered the list does not change any more.
Entries == \A n \in DOMAIN list : Entry(list[n])
Served  == Requested => phase = "serving" /\ last.ev \in DOMAIN list

VInv == Entries /\ Served /\ NoNilCodec /\ PanicsOnlyUnchecked

LEMMA HandledCodec ==
  ASSUME NEW x, x.conversion \in Handled
  PROVE  CodecOf(x) \in Codec
  <1>1. CASE x.conversion \in {"DateTimeBCD", "DateBCD"}
    BY <1>1 DEF CodecOf, Codec
  <1>2. CASE x.conversion \in Spans
    BY <1>2 DEF CodecOf, Codec, Spans
  <1>3. CASE x.conversion \in Scaled
    BY <1>3 DEF CodecOf, Codec, Spans, Scaled
  <1>4. CASE x.conversion = "NoConversion"
    <2>1. x.mapping \in 1 .. 3 => ByMapping[x.mapping] \in Codec
      BY DEF ByMapping, Codec
    <2>2. CodecOf(x) = IF x.listed THEN "valueList"
            ELSE IF Number(x.mapping) > 0
            THEN IF x.mapping \in 1 .. 3 THEN ByMapping[x.mapping] ELSE "nop"
            ELSE IF Number(x.blen) < 5 /\ Number(x.bitLen) = 0 THEN "divMulOffset"
            ELSE IF Number(x.len) = 9 /\ x.kind = "FehlerHisFA" THEN "mappingErrors"
            ELSE "nop"
      BY <1>4 DEF CodecOf, Spans, Scaled
    <2>3. {"valueList", "nop", "divMulOffset", "mappingErrors"} \subseteq Codec
      BY DEF Codec
    <2> QED  BY <2>1, <2>2, <2>3
  <1> QED  BY <1>1, <1>2, <1>3, <1>4 DEF Handled

LEMMA ElementEntry ==
  ASSUME NEW x \in Elements, ~Refused(x)
  PROVE  Entry(EventType(x))
  <1>1. CodecOf(x) \in Codec /\ "nil" \notin Codec
    BY HandledCodec DEF Refused, Codec
  <1>2. /\ x.len \in Numeral /\ x.factor \in Numeral /\ x.pos \in Numeral
        /\ x.blen \in Numeral /\ x.bitPos \in Numeral /\ x.bitLen \in Numeral
    BY ElementAssumption DEF Element
  <1>3. \A n \in Numeral : Number(n) \in Byte
    BY DEF Numeral, Number, Byte, Width
  <1> QED  BY <1>1, <1>2, <1>3 DEF Entry, EventType

LEMMA PlaceholderEntry == Entry(Placeholder)
  BY DEF Entry, Placeholder, Byte, Width

LEMMA LoadEntries ==
  ASSUME Entries, Load
  PROVE  Entries'
  <1>1. CASE \E x \in Elements : ReadElement(x)
    <2> PICK x \in Elements : ReadElement(x)
      BY <1>1
    <2>1. \/ list' = list
          \/ list' = [n \in DOMAIN list \ {x.name} |-> list[n]]
          \/ list' = [list EXCEPT ![x.name] = EventType(x)] /\ ~Refused(x)
      BY DEF ReadElement
    <2> QED  BY <2>1, ElementEntry DEF Entries
  <1>2. CASE CloseDevices
    <2>1. list' = list \/ list' = [n \in dp.announces |-> Placeholder]
      BY <1>2 DEF CloseDevices
    <2> QED  BY <2>1, PlaceholderEntry DEF Entries
  <1>3. CASE Restart
    <2>1. DOMAIN list' = {}
      BY <1>3 DEF Restart, NoEvents
    <2> QED  BY <2>1 DEF Entries
  <1>4. CASE UNCHANGED list
    BY <1>4 DEF Entries
  <1> QED
    BY <1>1, <1>2, <1>3, <1>4 DEF Load, ReadDevice, CloseElements

LEMMA LoadVInv ==
  ASSUME VInv, Loading
  PROVE  VInv'
  <1>1. Load /\ last' = last
    BY DEF Loading, valueVars
  <1>2. Entries'
    BY <1>1, LoadEntries DEF VInv
  <1>3. phase # "serving"
    BY <1>1 DEF Load, ReadDevice, ReadElement, CloseDevices, CloseElements, Restart
  <1>4. ~Requested /\ ~Requested'
    BY <1>1, <1>3 DEF VInv, Served, Requested
  <1> QED  BY <1>2, <1>4 DEF VInv, Served, NoNilCodec, PanicsOnlyUnchecked

\* A sane definition that is read does not panic.
LEMMA ReadOutcome ==
  ASSUME NEW et, Entry(et), et.codec # "nil", ~Endless(et)
  PROVE  /\ Decoded(et).out \in {"ok", "err", "panic"}
         /\ Sane(et) => Decoded(et).out # "panic"
  <1>1. Decoded(et) = Decode(et, Block(et)) /\ et.codec \in Codec
    BY DEF Decoded, Entry
  <1>2. ASSUME Sane(et)  PROVE Decoded(et).out # "panic"
    <2>1. Rounds(et) * Step(et) = et.len /\ et.len \in Nat
      BY <1>2, SaneInside, WholeSteps
    <2>2. Len(Block(et)) = et.len
      BY <2>1, BlockLen
    <2> QED  BY <1>1, <1>2, <2>2, DecodeSane
  <1> QED  BY <1>1, <1>2, DecodeOutcome

LEMMA ReadVInv ==
  ASSUME VInv, NEW n \in DOMAIN list, VRead(n), UNCHANGED loadVars
  PROVE  VInv'
  <1>1. list' = list /\ phase' = phase /\ phase = "serving" /\ Entry(list[n])
    BY DEF VInv, Entries, VRead, Asked, loadVars
  <1> PICK result : /\ result \in IF list[n].read = "nop" THEN {Err}
                                 ELSE IF Endless(list[n]) THEN {[out |-> "endless"]}
                                 ELSE Readings(list[n])
                    /\ last' = [op |-> "read", ev |-> n, result |-> result]
    BY DEF VRead, Reading
  <1>2. last' = [op |-> "read", ev |-> n, result |-> result]
    OBVIOUS
  <1>3. Requested' /\ last'.ev = n /\ last'.result = result /\ last'.op = "read"
    BY <1>2 DEF Requested
  <1>4. CASE list[n].read = "nop"
    <2>1. result.out = "err"
      BY <1>4 DEF Err
    <2> QED  BY <1>1, <1>3, <2>1 DEF VInv, Entries, Served, NoNilCodec, PanicsOnlyUnchecked
  <1>5. CASE list[n].read # "nop" /\ Endless(list[n])
    <2>1. result.out = "endless"
      BY <1>5
    <2>2. ~Sane(list[n])
      BY <1>1, <1>5, SaneInside, WholeSteps
    <2> QED
      BY <1>1, <1>3, <2>1, <2>2
      DEF VInv, Entries, Served, NoNilCodec, PanicsOnlyUnchecked, Subject
  <1>6. CASE list[n].read # "nop" /\ ~Endless(list[n])
    <2>1. list[n].codec # "nil"
      BY <1>1, <1>6 DEF Entry
    <2>2. result.out = Decoded(list[n]).out
      <3>1. result \in Readings(list[n])
        BY <1>6
      <3> QED  BY <3>1 DEF Readings, Good
    <2>3. /\ result.out \in {"ok", "err", "panic"}
          /\ Sane(list[n]) => result.out # "panic"
      BY <1>1, <1>6, <2>1, <2>2, ReadOutcome
    <2> QED
      BY <1>1, <1>3, <2>3
      DEF VInv, Entries, Served, NoNilCodec, PanicsOnlyUnchecked, Subject
  <1> QED  BY <1>4, <1>5, <1>6

LEMMA WriteOutcome ==
  ASSUME NEW et, Entry(et), et.codec # "nil", NEW v
  PROVE  /\ Encoded(et, v).out \in {"ok", "err", "panic"}
         /\ Sane(et) /\ Encoded(et, v).out = "panic"
              => /\ et.codec \in {"dateTimeBCD", "dateBCD"}
                 /\ v.kind \notin {"date", "dur", "text"}
  <1>1. Encoded(et, v) = Encode(et, Block(et), v)
    BY DEF Encoded
  <1>2. ASSUME Sane(et), Encoded(et, v).out = "panic"
        PROVE  et.codec \in {"dateTimeBCD", "dateBCD"} /\ v.kind \notin {"date", "dur", "text"}
    <2>1. Rounds(et) * Step(et) = et.len /\ et.len \in Nat
      BY <1>2, SaneInside, WholeSteps
    <2>2. Len(Block(et)) = et.len
      BY <2>1, BlockLen
    <2> QED  BY <1>1, <1>2, <2>2, EncodeSane
  <1> QED  BY <1>1, <1>2, EncodeOutcome

LEMMA WriteVInv ==
  ASSUME VInv, NEW n \in DOMAIN list, NEW v \in Inputs, VWrite(n, v), UNCHANGED loadVars
  PROVE  VInv'
  <1>1. list' = list /\ phase' = phase /\ phase = "serving" /\ Entry(list[n])
    BY DEF VInv, Entries, VWrite, Asked, loadVars
  <1>2. ASSUME NEW out, Writing(n, v, out), out # "nil",
               Sane(list[n]) => \/ out \notin {"panic", "endless"}
                                \/ /\ list[n].codec \in {"dateTimeBCD", "dateBCD"}
                                   /\ v.kind \notin {"date", "dur", "text"}
        PROVE  VInv'
    <2>1. /\ Requested' /\ Wrote' /\ last'.ev = n /\ last'.in = v
          /\ last'.result.out = out
      BY <1>2 DEF Writing, Requested, Wrote
    <2> QED
      BY <1>1, <1>2, <2>1
      DEF VInv, Entries, Served, NoNilCodec, PanicsOnlyUnchecked, Subject
  <1>3. CASE WriteRefused(n, v)
    BY <1>2, <1>3 DEF WriteRefused
  <1>4. CASE WriteStuck(n, v)
    BY <1>2, <1>4 DEF WriteStuck
  <1>5. CASE WriteEndless(n, v)
    <2>1. ~Sane(list[n])
      BY <1>1, <1>5, SaneInside, WholeSteps DEF WriteEndless
    <2> QED  BY <1>2, <1>5, <2>1 DEF WriteEndless
  <1>6. CASE WriteThrough(n, v)
    <2> PICK u \in Unscaled(list[n], v) :
           LET e == Encoded(list[n], u)
           IN Writing(n, v, IF e.out = "ok" /\ Wraps(list[n]) # {} THEN "panic" ELSE e.out)
      BY <1>6 DEF WriteThrough
    <2> DEFINE e == Encoded(list[n], u)
               out == IF e.out = "ok" /\ Wraps(list[n]) # {} THEN "panic" ELSE e.out
    <2>1. Writing(n, v, out) /\ list[n].write # "nop"
      BY <1>6 DEF WriteThrough, Unwritable
    <2>2. list[n].codec # "nil"
      BY <1>1, <2>1 DEF Entry
    <2>3. /\ e.out \in {"ok", "err", "panic"}
          /\ Sane(list[n]) /\ e.out = "panic"
               => /\ list[n].codec \in {"dateTimeBCD", "dateBCD"}
                  /\ v.kind \notin {"date", "dur", "text"}
      <3>1. list[n].codec \in {"dateTimeBCD", "dateBCD"} => u = v
        BY DEF Unscaled
      <3> QED  BY <1>1, <2>2, <3>1, WriteOutcome
    <2>4. Sane(list[n]) => Wraps(list[n]) = {}
      BY <1>1, SaneInside, WholeSteps
    <2> HIDE DEF e
    <2>5. out \in {"ok", "err", "panic"} /\ (Sane(list[n]) => out = e.out)
      BY <2>3, <2>4
    <2> HIDE DEF out
    <2> QED  BY <1>2, <2>1, <2>3, <2>5
  <1> QED  BY <1>3, <1>4, <1>5, <1>6 DEF VWrite

LEMMA InitVInv == Init => VInv
  BY DEF Init, LoadInit, NoEvents, NoRequest, VInv, Entries, Served, NoNilCodec,
         PanicsOnlyUnchecked, Requested

LEMMA NextVInv == VInv /\ [Next]_<<loadVars, valueVars>> => VInv'
  <1> SUFFICES ASSUME VInv, [Next]_<<loadVars, valueVars>>  PROVE VInv'
    OBVIOUS
  <1>1. CASE Loading
    BY <1>1, LoadVInv
  <1>2. CASE (\E n \in DOMAIN list : VRead(n)) /\ UNCHANGED loadVars
    BY <1>2, ReadVInv
  <1>3. CASE (\E n \in DOMAIN list : \E v \in Inputs : VWrite(n, v)) /\ UNCHANGED loadVars
    BY <1>3, WriteVInv
  <1>4. CASE UNCHANGED <<loadVars, valueVars>>
    BY <1>4 DEF loadVars, valueVars, VInv, Entries, Served, NoNilCodec,
                PanicsOnlyUnchecked, Requested, Wrote, Subject
  <1> QED  BY <1>1, <1>2, <1>3, <1>4 DEF Next

\* No request calls the codec of an event type that has none (xmlinfo.go:171-191,
\* 273-366; commands.go:136-221).
THEOREM NoNilCodecHolds == Spec => []NoNilCodec
  <1>1. VInv => NoNilCodec
    BY DEF VInv
  <1> QED  BY <1>1, InitVInv, NextVInv, PTL DEF Spec

\* Sane lists all that can make a request panic or loop, but for a number written
\* as a date: for every definition of the other kind, with every number the file
\* can hold, the loops end with the block and no slice leaves it.
THEOREM PanicsOnlyUncheckedHolds == Spec => []PanicsOnlyUnchecked
  <1>1. VInv => PanicsOnlyUnchecked
    BY DEF VInv
  <1> QED  BY <1>1, InitVInv, NextVInv, PTL DEF Spec
==============================================================================
