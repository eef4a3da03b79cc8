------------------------------- MODULE Optolink -------------------------------
(***************************************************************************)
(* The P300 half of the machine of VitoFsm.tla with the boiler at the      *)
(* other end of the wire.  The boiler is external: it is modelled from     *)
(* what fsm.go sends it and expects of it.  It answers in order, but what  *)
(* it sends may be lost, damaged, repeated after a NAK, joined by a byte   *)
(* of noise, or be later than the machine's timeouts.                      *)
(*                                                                         *)
(* Assumed: the checksum tells an answer from bytes that merely look like  *)
(* the start of one, and no telegram is too short for its fields (Panic of *)
(* VitoFsm).  The KW actions are left out: the machine never reaches them  *)
(* (StaysP300), and EnqAges, which only they look at; ReaderFails, because *)
(* a byte that comes too late ends the machine wherever it reads.          *)
(***************************************************************************)
EXTENDS VitoFsm, Sequences

CONSTANTS
  MaxWire,    \* what does not fit on the wire is lost
  Units       \* bytes of an answer that are told apart when read one by one

ASSUME MaxWireAssumption == MaxWire \in Nat \ {0}
ASSUME UnitsAssumption == Units \in Nat \ {0, 1}

VARIABLES
  mode,       \* the boiler's protocol: kw or p300
  wire,       \* what it has sent and the machine has not read
  disturbed   \* a byte or telegram was lost or added and the machine has not
              \* since met a wire without stray ones

linkVars == <<mode, wire, disturbed>>
allVars  == <<vars, linkVars>>

Ops == {"p300ReadData", "p300WriteData"}

\* Single bytes; whole answer telegrams, mine if to the command taken last; and
\* what is left of one when its first bytes are read.
Token == [kind : {"ENQ", "ACK", "NAK", "noise", "damaged"}]
           \cup [kind : {"answer"}, op : Ops, mine : BOOLEAN]
           \cup [kind : {"rest"}, left : 1 .. Units - 1]

Sig(k) == [kind |-> k]
Answer == [kind |-> "answer", op |-> Prepared(cmd, "sendP300").command, mine |-> TRUE]

\* Nothing unread, and no ENQ to come.
Calm == wire = <<>> /\ mode = "p300"

Whole(t) == t.kind \in {"answer", "damaged"}

-----------------------------------------------------------------------------
(* Reading.                                                                 *)

\* What one byte of a token can look like.  A telegram begins with 0x41; its
\* other bytes, the length among them, may have any value.
ByteOf(t) == IF Whole(t) THEN {"other"}
             ELSE IF t.kind \in Byte THEN {t.kind} ELSE Byte

\* Mutant: reads on behind the end of a telegram.
DropOn(w) ==
  IF Whole(w[1])
  THEN [w EXCEPT ![1] = [kind |-> "rest", left |-> Units - 1]]
  ELSE IF w[1].kind = "rest" THEN [w EXCEPT ![1].left = @ - 1] ELSE Tail(w)

\* The wire after one byte, and all that can be left of it after several.
Drop(w) ==
  IF Whole(w[1])
  THEN [w EXCEPT ![1] = [kind |-> "rest", left |-> Units - 1]]
  ELSE IF w[1].kind = "rest" /\ w[1].left > 1
  THEN [w EXCEPT ![1].left = @ - 1]
  ELSE Tail(w)

AfterSome(w) == {SubSeq(w, i, Len(w)) : i \in 2 .. Len(w) + 1}

\* One byte, or none in time: it may be on its way and come too late.
Read(b) ==
  \/ b = "timeout" /\ UNCHANGED wire
  \/ wire # <<>> /\ b \in ByteOf(wire[1]) /\ wire' = Drop(wire)

\* The answer at the head of the wire is read as a whole; one that breaks off or
\* is of another kind or for another command is refused.
ReadWhole(a) ==
  /\ wire # <<>> /\ Whole(wire[1])
  /\ wire' = Tail(wire)
  /\ IF wire[1].kind = "damaged" THEN a \in {"partial", "badType", "badCrc"}
     ELSE IF wire[1].op # cmd.command THEN a = "badCommand"
     ELSE a \in {"good"} \cup (IF wire[1].mine THEN {} ELSE {"badLength"})

\* Out of step, two bytes are read as start and length; if the first is 0x41,
\* as many as the second says.
ReadAskew(a) ==
  /\ wire # <<>> /\ ~Whole(wire[1])
  /\ \/ /\ a = "badStart" /\ Drop(wire) # <<>>
        /\ wire' = Drop(Drop(wire))
     \/ /\ a = "partial" /\ Drop(wire) = <<>>
        /\ wire' = <<>>
     \/ /\ a \in {"badType", "badCommand", "badCrc", "partial"}
        /\ "other" \in ByteOf(wire[1])
        /\ wire' \in AfterSome(wire)

ReadAnswer(a) ==
  (a = "timeout" /\ UNCHANGED wire) \/ ReadWhole(a) \/ ReadAskew(a)

Receive ==
  /\ \/ \E b \in Rx : Read(b) /\ (ResetAck(b) \/ IdleP300(b) \/ WaitAck(b)
                                    \/ SendP300Ack(b))
     \/ \E a \in RxP300 : ReadAnswer(a) /\ RecvP300(a)
  /\ UNCHANGED <<mode, disturbed>>

\* In state wait Go chooses at random between a byte and a command.
Unexpected ==
  /\ \E b \in Byte : Read(b) /\ WaitIdle(b)
  /\ UNCHANGED <<mode, disturbed>>

\* After ten seconds nothing is on its way any more.
Silence ==
  /\ wire = <<>> /\ WaitIdle("timeout")
  /\ disturbed' = (disturbed /\ ~Calm)
  /\ UNCHANGED <<mode, wire>>

-----------------------------------------------------------------------------
(* Writing, with the boiler's reaction.                                     *)

\* Some of it arrives, or nothing.
Reacts(reactions) ==
  \E r \in reactions : wire' = IF Len(wire \o r) <= MaxWire THEN wire \o r ELSE wire

Stray(w) == \E i \in DOMAIN w : w[i].kind # "ENQ"

\* EOT.  What is unread stays unread: a reset drains nothing.
WriteReset == \E ok \in BOOLEAN :
  /\ Reset(ok)
  /\ mode' = IF ok THEN "kw" ELSE mode
  /\ disturbed' = IF ok THEN Stray(wire) ELSE disturbed
  /\ UNCHANGED wire

\* SYN.  (One the boiler misses is the same as falling back after it.)
WriteSync == \E ok \in BOOLEAN :
  /\ SwP300(ok)
  /\ IF ok THEN mode' = "p300" /\ Reacts({<<Sig("ACK")>>, <<>>})
           ELSE UNCHANGED <<mode, wire>>
  /\ UNCHANGED disturbed

\* A command, if it is framed and written: in P300 it is acknowledged and
\* answered, or refused.  The answer without its ACK counts as a disturbance.
WriteCmd == \E ok \in BOOLEAN :
  /\ SendP300(ok)
  /\ \/ /\ state' = "sendP300Ack" /\ mode = "p300"
        /\ Reacts({<<Sig("ACK"), Answer>>, <<Sig("ACK"), Sig("damaged")>>,
                   <<Sig("ACK")>>, <<Sig("NAK")>>})
        /\ UNCHANGED disturbed
     \/ /\ state' = "sendP300Ack" /\ mode = "p300"
        /\ Reacts({<<Answer>>})
        /\ disturbed' = TRUE
     \/ UNCHANGED <<wire, disturbed>>
  /\ UNCHANGED mode

WriteAck == (\E ok \in BOOLEAN : RecvP300Ack(ok)) /\ UNCHANGED linkVars

\* The boiler may repeat an answer it got a NAK for.
WriteNak == \E ok \in BOOLEAN :
  /\ RecvP300Nak(ok)
  /\ \/ ok /\ mode = "p300" /\ Reacts({<<Answer>>}) /\ disturbed' = TRUE
     \/ UNCHANGED <<wire, disturbed>>
  /\ UNCHANGED mode

-----------------------------------------------------------------------------
\* A new command makes every answer on the wire an old one.
TakeCmd ==
  /\ WaitCmd
  /\ wire' = [i \in DOMAIN wire |-> IF wire[i].kind = "answer"
                                    THEN [wire[i] EXCEPT !.mine = FALSE]
                                    ELSE wire[i]]
  /\ disturbed' = (disturbed /\ ~Calm)
  /\ UNCHANGED mode

\* What was on its way is still read from the new connection, or lost.
Renew ==
  /\ \E connected \in BOOLEAN : Reconnect(connected)
  /\ wire' \in {wire, <<>>}
  /\ UNCHANGED <<mode, disturbed>>

\* In KW the boiler sends ENQ every two seconds.
BoilerEnq ==
  /\ mode = "kw" /\ Len(wire) < MaxWire
  /\ \A i \in DOMAIN wire : wire[i].kind # "ENQ"
  /\ wire' = Append(wire, Sig("ENQ"))
  /\ UNCHANGED <<vars, mode, disturbed>>

\* The boiler leaves P300 on its own, too, and will send an ENQ nobody expects.
BoilerFallsBack ==
  /\ mode = "p300" /\ mode' = "kw"
  /\ ~disturbed /\ disturbed' = TRUE
  /\ UNCHANGED <<vars, wire>>

Noise ==
  /\ ~disturbed /\ disturbed' = TRUE
  /\ Len(wire) < MaxWire
  /\ wire' = Append(wire, Sig("noise"))
  /\ UNCHANGED <<vars, mode>>

Steps == LoopTop \/ WaitSync

Machine == \/ Receive \/ Unexpected \/ Silence \/ TakeCmd
           \/ WriteReset \/ WriteSync \/ WriteCmd \/ WriteAck \/ WriteNak
           \/ Steps /\ UNCHANGED linkVars

\* Only waiting for a byte takes the machine seconds (in state wait: Silence).
Blocked == pc = "body" /\ state \in {"resetAck", "idle", "waitAck", "sendP300Ack",
                                     "recvP300"}

Ages == Blocked /\ SynAges /\ UNCHANGED linkVars

Around == Ages \/ (Caller /\ UNCHANGED linkVars)

LinkInit == Init /\ mode \in {"kw", "p300"} /\ wire = <<>> /\ disturbed = FALSE

LinkNext == Machine \/ Around \/ Renew \/ BoilerEnq \/ BoilerFallsBack \/ Noise

LinkSpec == LinkInit /\ [][LinkNext]_allVars

\* The machine runs, time passes while it waits for bytes, and a byte that is
\* there again and again in state wait is chosen over the commands once.
LinkFairSpec == /\ LinkSpec
                /\ WF_allVars(Machine) /\ SF_allVars(Ages) /\ SF_allVars(Unexpected)

-----------------------------------------------------------------------------
(* Properties.                                                              *)

LinkTypeOK ==
  /\ mode \in {"kw", "p300"}
  /\ wire \in Seq(Token) /\ Len(wire) <= MaxWire
  /\ disturbed \in BOOLEAN

\* An answer the machine takes for the one to its command is the one to its
\* command, although no address is compared: an old answer can be taken for it
\* only between a disturbance and the reset that follows.
AnswerInStep ==
  /\ ~disturbed
  /\ AtState("recvP300")
  /\ wire # <<>> /\ wire[1].kind = "answer" /\ wire[1].op = cmd.command
  => wire[1].mine

\* The machine does not stay out of step: a disturbance is followed by a reset
\* (or a new machine, which begins with one), or by a wire without stray bytes.
ResetFollows == disturbed ~> (~disturbed \/ state \in {"reset", "unknown"} \/ ~Running)

==============================================================================
