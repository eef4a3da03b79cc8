------------------------------ MODULE MCValues -------------------------------
(* Instances of Values for TLC: the kinds of data point and event definitions   *)
(* that the loader and the codecs tell apart.                                   *)
EXTENDS Values

\* A boiler with the extension 5, or 0x050102 in four bytes.
Ident == <<32, 203, 0, 5, 1, 2>>
MCIdents == {Ident}

Narrow(lo, hi) == [usable |-> TRUE, lo |-> lo, hi |-> hi, wide |-> FALSE,
                   announces |-> {"a", "b"}]

Wide(lo, hi) == [Narrow(lo, hi) EXCEPT !.wide = TRUE]

\* Open, nested, touching, overlapping and foreign intervals, and two wide ones.
MCDevices ==
  {Narrow(0, 0), Narrow(2, 0), Narrow(2, 512), Narrow(2, 5), Narrow(4, 6),
   Narrow(5, 9), Narrow(9, 512),
   [Narrow(0, 0) EXCEPT !.usable = FALSE],
   Wide(327680, 0), Wide(327936, 327952)}

Plain ==
  [name |-> "a", kind |-> "plain", addressed |-> TRUE, fcRead |-> "Virtual_READ",
   fcWrite |-> "Virtual_WRITE", conversion |-> "NoConversion", listed |-> FALSE,
   mapping |-> 0, len |-> 2, factor |-> 0, pos |-> 0, blen |-> 1, bitPos |-> 0,
   bitLen |-> 0, param |-> "", lower |-> 0, upper |-> 0, scale |-> 0, offset |-> 0]

Laid(x, len, pos, blen) == [x EXCEPT !.len = len, !.pos = pos, !.blen = blen]
Bit(x, bitPos, bitLen)  == [x EXCEPT !.bitPos = bitPos, !.bitLen = bitLen]

List == [Plain EXCEPT !.listed = TRUE]

Lists == {List, Laid(List, 3, 1, 2), Bit(List, 6, 2), Bit(Laid(List, 2, 1, 1), 10, 3),
          Bit(List, 6, 4), Bit(List, 0, 9), Bit(List, 40, 2), Laid(List, 2, 255, 2)}

Div == [Plain EXCEPT !.conversion = "Div10"]

Numbers ==
  {Plain, [Laid(Div, 4, 1, 3) EXCEPT !.conversion = "Div1000"], Bit(Div, 0, 4),
   Bit(Laid(Div, 2, 1, 1), 4, 4), Bit(Div, 2, 4), Bit(Div, 0, 3),
   [Div EXCEPT !.lower = 2 * One, !.upper = 100 * One],
   [Plain EXCEPT !.conversion = "MultOffset", !.scale = 500, !.offset = -40 * One],
   [Div EXCEPT !.param = "SInt"], [Bit(Div, 4, 4) EXCEPT !.param = "SByte"],
   [Laid(Div, 4, 2, 2) EXCEPT !.param = "SIntHighByteFirst", !.factor = 2],
   [Laid(Div, 2, 0, 2) EXCEPT !.param = "IntHighByteFirst"]}

Date(conversion, pos, blen) == [Laid(Plain, 8, pos, blen) EXCEPT !.conversion = conversion]

Dates == {Date("DateTimeBCD", 0, 8), Date("DateTimeBCD", 0, 3), Date("DateBCD", 0, 8),
          Date("DateBCD", 4, 4), Date("DateBCD", 0, 4)}

Spells == {[Laid(Plain, 3, 1, 2) EXCEPT !.conversion = "Sec2Minute"]}

Mapped(n, len, factor) == [Laid(Plain, len, 0, len) EXCEPT !.mapping = n, !.factor = factor]

Mappings == {Mapped(1, 4, 2), Mapped(1, 4, 0), Mapped(2, 4, 2), Mapped(3, 9, 0),
             Mapped(3, 10, 0), Mapped(7, 4, 0)}

Errors == {[Mapped(0, 9, 0) EXCEPT !.kind = k] : k \in {"FehlerHisFA", "short", "plain"}}

\* Loops that never end, and one that wraps before it does.
Loops == {[Laid(Div, 2, 0, 1) EXCEPT !.factor = 5],
          [Laid(Div, 255, 0, 1) EXCEPT !.factor = 6],
          [Laid(List, 193, 0, 1) EXCEPT !.factor = 2]}

Access == {[Div EXCEPT !.fcRead = "undefined"], [Div EXCEPT !.fcWrite = "undefined"],
           [Bit(List, 6, 2) EXCEPT !.fcRead = "Physical_READ"],
           [Laid(Div, 0, 0, 0) EXCEPT !.fcRead = "undefined"]}

Faulty == {[Plain EXCEPT !.bitLen = Bad], [Plain EXCEPT !.addressed = FALSE],
           [Plain EXCEPT !.len = Bad], [Plain EXCEPT !.conversion = "MultOffsetBCD"]}

\* A neighbour of most of the others, and an event type nobody announces.
MCElements ==
  Lists \cup Numbers \cup Dates \cup Spells \cup Mappings \cup Errors \cup Loops
    \cup Access \cup Faulty \cup {[Bit(List, 4, 2) EXCEPT !.name = "b"],
                                  [Plain EXCEPT !.name = "c"]}

ListElements == {Bit(List, 6, 2), Bit(List, 2, 3)}

MCMemories == {<<32, 36, 2, 49, 4, 18, 48, 21, 255, 7>>}

MCInputs ==
  {Num(0), Num(1500), Num(21300), Num(300 * One), Num(-2 * One), Dur(90), [kind |-> "text"],
   [kind |-> "date", year |-> 2019, month |-> 12, day |-> 24, wday |-> 2, hour |-> 17,
    min |-> 30, sec |-> 45]}
==============================================================================
