------------------------------- MODULE XmlInfo --------------------------------
(***************************************************************************)
(* What main loads at startup (xmlinfo.go): the definition of the data     *)
(* point that matches the boiler, from one file, and the event types it    *)
(* announces, from another.  Both files are read element by element; any   *)
(* sequence of elements may be in them.                                    *)
(*                                                                         *)
(* Not represented: descriptions, units, prefixes and ALZ, which nothing   *)
(* but the JSON shows, and the addresses in the names, which are cut off   *)
(* (151, 178), so that elements of one name are the same event type.       *)
(***************************************************************************)
EXTENDS Codecs

CONSTANTS
  Idents,       \* identifications a boiler may send (six bytes)
  Devices,      \* DataPointType elements the first file may hold
  Elements,     \* EventType elements the second file may hold
  MaxDevices, MaxElements,     \* bounds on the length of the files
  Bad           \* a number that is missing or does not parse; no data point

\* usable: a well-formed element for a boiler of this group and index.  The
\* extensions have four digits, or five or six ("wide"); one that is missing or
\* does not parse is 0.
Device  == [usable : BOOLEAN, lo : 0 .. Width^3 - 1, hi : 0 .. Width^3 - 1,
            wide : BOOLEAN, announces : SUBSET STRING]

\* The text of a number: more than eight bits are an error.
Numeral == Byte \cup {Bad}

\* kind: what the ID is like, which one of the checks looks at.  scale and offset
\* are ConversionFactor (no negative one) and ConversionOffset, in thousandths.
Element == [name : STRING, kind : {"FehlerHisFA", "short", "plain"},
            addressed : BOOLEAN, fcRead : STRING, fcWrite : STRING,
            conversion : STRING, listed : BOOLEAN, mapping : Numeral,
            len : Numeral, factor : Numeral, pos : Numeral, blen : Numeral,
            bitPos : Numeral, bitLen : Numeral,
            param : STRING, lower : Int, upper : Int, scale : Nat, offset : Int]

ASSUME BoundAssumption == MaxDevices \in Nat /\ MaxElements \in Nat
ASSUME DeviceAssumption ==
  /\ Devices \subseteq Device /\ Bad \notin Devices
  /\ \A d \in Devices : ~d.wide => d.lo < Width^2 /\ d.hi < Width^2
ASSUME ElementAssumption == Elements \subseteq Element /\ Bad \notin Byte
ASSUME IdentAssumption == Idents \subseteq [1 .. 6 -> Byte]

VARIABLES
  phase,      \* devices, events, serving; ended (main has returned); crashed
  ident,
  devs,       \* history: the elements of the first file that have been read
  dp,         \* the best match so far
  list,       \* DataPoint.EventTypes
  found, read \* accepted elements, elements read of the second file

loadVars == <<phase, ident, devs, dp, list, found, read>>

-----------------------------------------------------------------------------
(* FindDataPointType.                                                       *)

\* The boiler's extension, from two bytes or, if the element is wide, from four:
\* more than an upper end of six digits can exceed, unless the first byte is 0.
IdExt(d) ==
  LET two == ident[3] * Width + ident[4]
  IN IF d.wide THEN two * Width^2 + ident[5] * Width + ident[6] ELSE two

Matches(d) == d.usable /\ d.lo <= IdExt(d) /\ (IdExt(d) < d.hi \/ d.hi = 0)

\* Mutant: only the upper ends are compared.
BetterTill(d, p) == d.hi < p.hi \/ p.hi = 0

Better(d, p) == d.lo >= p.lo /\ (d.hi < p.hi \/ p.hi = 0)

ReadDevice(d) ==
  /\ phase = "devices" /\ Len(devs) < MaxDevices
  /\ devs' = Append(devs, d)
  /\ dp' = IF Matches(d) /\ (IF dp = Bad THEN TRUE ELSE Better(d, dp)) THEN d ELSE dp
  /\ UNCHANGED <<phase, ident, list, found, read>>

-----------------------------------------------------------------------------
(* FindEventTypes.                                                          *)

\* Of the names of function codes two mean anything.
CmdType(fc) == CASE fc = "Virtual_READ"  -> "p300ReadData"
                 [] fc = "Virtual_WRITE" -> "p300WriteData"
                 [] OTHER                -> "nop"

Number(n) == IF n = Bad THEN 0 ELSE n

Scaled == {"Div10", "Div100", "Div1000", "Div2", "Mult10", "Mult100", "Mult2",
           "Mult5", "MultOffset"}
Spans  == {"Sec2Hour", "Sec2Minute", "HourDiffSec2Hour"}
Handled == Scaled \cup Spans \cup {"DateTimeBCD", "DateBCD", "NoConversion"}

ByMapping == <<"mappingTime53", "mappingRaster152", "mappingErrors">>

CodecOf(x) ==
  CASE x.conversion = "DateTimeBCD" -> "dateTimeBCD"
    [] x.conversion = "DateBCD"     -> "dateBCD"
    [] x.conversion \in Spans       -> "sec2Duration"
    [] x.conversion \in Scaled      -> "divMulOffset"
    [] x.conversion = "NoConversion" ->
         IF x.listed THEN "valueList"
         ELSE IF Number(x.mapping) > 0
         THEN IF x.mapping \in 1 .. 3 THEN ByMapping[x.mapping] ELSE "nop"
         ELSE IF Number(x.blen) < 5 /\ Number(x.bitLen) = 0 THEN "divMulOffset"
         ELSE IF Number(x.len) = 9 /\ x.kind = "FehlerHisFA" THEN "mappingErrors"
         ELSE "nop"
    [] OTHER -> "nil"

\* The ConversionFactor that a conversion stands for, or the element's own; only
\* divMulOffsetCodec looks at it.
ScaleOf(x) ==
  CASE x.conversion = "Div10"   -> 100
    [] x.conversion = "Div100"  -> 10
    [] x.conversion = "Div1000" -> 1
    [] x.conversion = "Div2"    -> 500
    [] x.conversion = "Mult10"  -> 10 * One
    [] x.conversion = "Mult100" -> 100 * One
    [] x.conversion = "Mult2"   -> 2 * One
    [] x.conversion = "Mult5"   -> 5 * One
    [] OTHER -> IF x.scale = 0 THEN One ELSE x.scale

\* The first eleven characters of an ID are looked at without a look at its length.
Crashes(x) ==
  /\ x.addressed /\ x.conversion = "NoConversion" /\ ~x.listed
  /\ Number(x.mapping) = 0 /\ (Number(x.blen) >= 5 \/ Number(x.bitLen) > 0)
  /\ Number(x.len) = 9 /\ x.kind = "short"

\* A missing BitLength is an error like the others, because it is parsed last;
\* the sum of the two lengths is one of uint8.
Refused(x) ==
  \/ ~x.addressed
  \/ x.bitLen = Bad
  \/ Number(x.len) < (Number(x.pos) + Number(x.blen)) % Width
  \/ x.conversion \notin Handled

EventType(x) ==
  [read |-> CmdType(x.fcRead), write |-> CmdType(x.fcWrite), codec |-> CodecOf(x),
   len |-> Number(x.len), factor |-> Number(x.factor), pos |-> Number(x.pos),
   blen |-> Number(x.blen), bitPos |-> Number(x.bitPos),
   bitLen |-> Number(x.bitLen), param |-> x.param, lower |-> x.lower, upper |-> x.upper,
   scale |-> ScaleOf(x), offset |-> x.offset]

\* An announced event type nothing is known of.
Placeholder ==
  [read |-> "nop", write |-> "nop", codec |-> "nil", len |-> 0, factor |-> 0,
   pos |-> 0, blen |-> 0, bitPos |-> 0, bitLen |-> 0, param |-> "", lower |-> 0,
   upper |-> 0, scale |-> 0, offset |-> 0]

NoEvents == [n \in {} |-> Placeholder]

\* The file is closed; without a match main returns.
CloseDevices ==
  /\ phase = "devices"
  /\ phase' = IF dp = Bad THEN "ended" ELSE "events"
  /\ list' = IF dp = Bad THEN list ELSE [n \in dp.announces |-> Placeholder]
  /\ devs' = <<>> /\ dp' = Bad      \* what is kept of it only the JSON shows
  /\ UNCHANGED <<ident, found, read>>

\* Mutant: the error is logged and the event type kept.
ReadElementKeeps(x) ==
  /\ phase = "events" /\ read < MaxElements
  /\ read' = read + 1
  /\ IF x.name \in DOMAIN list /\ ~Crashes(x)
     THEN list' = [list EXCEPT ![x.name] = EventType(x)] /\ found' = found + 1
     ELSE UNCHANGED <<list, found>>
  /\ UNCHANGED <<phase, ident, devs, dp>>

\* An element that is refused takes its name off the list, whatever was found
\* under it before and will be later; otherwise the last one counts.
ReadElement(x) ==
  /\ phase = "events" /\ read < MaxElements
  /\ read' = read + 1
  /\ \/ /\ x.name \notin DOMAIN list
        /\ UNCHANGED <<phase, list, found>>
     \/ /\ x.name \in DOMAIN list /\ Crashes(x)
        /\ phase' = "crashed"
        /\ UNCHANGED <<list, found>>
     \/ /\ x.name \in DOMAIN list /\ ~Crashes(x) /\ Refused(x)
        /\ list' = [n \in DOMAIN list \ {x.name} |-> list[n]]
        /\ UNCHANGED <<phase, found>>
     \/ /\ x.name \in DOMAIN list /\ ~Crashes(x) /\ ~Refused(x)
        /\ list' = [list EXCEPT ![x.name] = EventType(x)]
        /\ found' = found + 1
        /\ UNCHANGED phase
  /\ UNCHANGED <<ident, devs, dp>>

\* main returns if it has found nothing, and serves otherwise, even if what it
\* found has been deleted again.
CloseElements ==
  /\ phase = "events"
  /\ phase' = IF found = 0 THEN "ended" ELSE "serving"
  /\ found' = 0 /\ read' = 0        \* not looked at any more
  /\ UNCHANGED <<ident, devs, dp, list>>

\* The service manager starts the process again.
Restart ==
  /\ phase \in {"ended", "crashed"}
  /\ ident' \in Idents
  /\ phase' = "devices" /\ devs' = <<>> /\ dp' = Bad
  /\ list' = NoEvents /\ found' = 0 /\ read' = 0

LoadInit ==
  /\ ident \in Idents
  /\ phase = "devices" /\ devs = <<>> /\ dp = Bad
  /\ list = NoEvents /\ found = 0 /\ read = 0

Load == \/ \E d \in Devices : ReadDevice(d)
        \/ \E x \in Elements : ReadElement(x)
        \/ CloseDevices \/ CloseElements \/ Restart

-----------------------------------------------------------------------------
(* Properties.                                                              *)

\* p covers no boiler that q does not cover; 0 is no upper end.
Inside(p, q) == q.lo <= p.lo /\ (q.hi = 0 \/ (p.hi # 0 /\ p.hi <= q.hi))

\* Pairs of matches the code can tell apart: of one width, one inside the other,
\* and neither ending at the same number nor beginning at the same number with
\* only one of them bounded.
Tellable(p, q) ==
  /\ p.wide = q.wide
  /\ Inside(p, q) \/ Inside(q, p)
  /\ p # q => /\ p.hi = q.hi => p.hi = 0 /\ p.lo # q.lo
              /\ p.lo = q.lo => p.hi # 0 /\ q.hi # 0

\* Whatever the order of the file, the narrowest definition that covers the
\* boiler is chosen, if the matches can be told apart.
NarrowestChosen ==
  LET matches == {devs[i] : i \in {j \in DOMAIN devs : Matches(devs[j])}}
  IN matches # {} /\ (\A p, q \in matches : Tellable(p, q))
       => dp \in matches /\ \A p \in matches : Inside(dp, p)
==============================================================================
