--------------------------- MODULE Optolink_proofs ---------------------------
(* What holds of Optolink for a wire of any length, telegrams of any number of *)
(* parts, and all the constants of VitoFsm.                                    *)
EXTENDS Optolink, VitoFsm_proofs, Integers

USE MaxWireAssumption, UnitsAssumption

-----------------------------------------------------------------------------
(* The machine on the wire is the machine of VitoFsm.                        *)

NoReaderError == rxErr = FALSE

LEMMA LinkStepIsStep ==
  ASSUME NoReaderError, [LinkNext]_allVars
  PROVE  [Next]_vars /\ NoReaderError'
  <1> USE DEF NoReaderError
  <1>1. Rx = Byte \cup {"timeout"} /\ RxP300 = P300Answer \cup {"timeout"}
    BY DEF Rx, RxP300
  <1>2. ASSUME Reading \/ Writing \/ Answering \/ WaitCmd \/ WaitSync
        PROVE  Next /\ rxErr' = rxErr
    <2>1. Next
      BY <1>2 DEF Next, Fsm
    <2>2. rxErr' = rxErr
      BY <1>2 DEF Reading, ResetAck, IdleP300, IdleWait, WaitAck, WaitIdle, SendP300Ack,
         Writing, Reset, SendKwStart, SendKw, SwP300, SendP300, RecvP300Ack, RecvP300Nak,
         Answering, RecvP300, RecvKw, WaitCmd, WaitSync
    <2> QED  BY <2>1, <2>2
  <1>3. CASE Machine
    <2>1. CASE Receive
      <3>1. Reading \/ Answering
        BY <2>1 DEF Receive, Reading, Answering
      <3> QED  BY <3>1, <1>2
    <2>2. CASE Unexpected
      <3>1. Reading
        BY <2>2, <1>1 DEF Unexpected, Reading
      <3> QED  BY <3>1, <1>2
    <2>3. CASE Silence
      <3>1. Reading
        BY <2>3, <1>1 DEF Silence, Reading
      <3> QED  BY <3>1, <1>2
    <2>4. CASE WriteReset \/ WriteSync \/ WriteCmd \/ WriteAck \/ WriteNak
      <3>1. Writing
        BY <2>4 DEF WriteReset, WriteSync, WriteCmd, WriteAck, WriteNak, Writing
      <3> QED  BY <3>1, <1>2
    <2>5. CASE TakeCmd
      BY <2>5, <1>2 DEF TakeCmd
    <2>6. CASE Steps
      BY <2>6, <1>2 DEF Steps, LoopTop, Next, Fsm
    <2> QED
      BY <1>3, <2>1, <2>2, <2>3, <2>4, <2>5, <2>6 DEF Machine
  <1>4. CASE Around
    <2>1. CASE Ages
      BY <2>1 DEF Ages, SynAges, Next, Environment
    <2>2. CASE Caller
      BY <2>2 DEF Caller, GiveUp, Issue, Next
    <2> QED  BY <1>4, <2>1, <2>2 DEF Around
  <1>5. CASE Renew
    BY <1>5 DEF Renew, Reconnect, Connect, Next, Environment
  <1>6. CASE BoilerEnq \/ BoilerFallsBack \/ Noise
    BY <1>6 DEF BoilerEnq, BoilerFallsBack, Noise, vars
  <1>7. CASE UNCHANGED allVars
    BY <1>7 DEF allVars, vars
  <1> QED  BY <1>3, <1>4, <1>5, <1>6, <1>7 DEF LinkNext

\* With a boiler at the other end of the wire the machine does what it does on an
\* open wire: the theorems about VitoFsm hold of the composition, too.
THEOREM LinkIsMachine == LinkSpec => Spec
  <1>1. LinkInit => Init /\ NoReaderError
    BY DEF LinkInit, Init, NoReaderError
  <1>2. NoReaderError /\ [LinkNext]_allVars => [Next]_vars /\ NoReaderError'
    BY LinkStepIsStep
  <1> QED  BY <1>1, <1>2, PTL DEF LinkSpec, Spec

-----------------------------------------------------------------------------
(* The wire holds tokens, as many as it may.                                 *)

LEMMA TokenKinds ==
  /\ \A k \in {"ENQ", "ACK", "NAK", "noise", "damaged"} :
       Sig(k) \in Token /\ Sig(k).kind = k
  /\ \A n \in 1 .. Units - 1 : [kind |-> "rest", left |-> n] \in Token
  /\ \A t \in Token : t.kind = "rest" =>
       t.left \in 1 .. Units - 1 /\ \A n \in 1 .. Units - 1 : [t EXCEPT !.left = n] \in Token
  /\ \A t \in Token : t.kind = "answer" =>
       \A m \in BOOLEAN : [t EXCEPT !.mine = m] \in Token
  <1>1. \A k \in {"ENQ", "ACK", "NAK", "noise", "damaged"} :
          Sig(k) \in Token /\ Sig(k).kind = k
    BY DEF Sig, Token
  <1>2. \A n \in 1 .. Units - 1 : [kind |-> "rest", left |-> n] \in Token
    BY DEF Token
  <1>3. ASSUME NEW t \in Token, t.kind = "rest"
        PROVE  /\ t.left \in 1 .. Units - 1
               /\ \A n \in 1 .. Units - 1 : [t EXCEPT !.left = n] \in Token
    <2>1. t \in [kind : {"rest"}, left : 1 .. Units - 1]
      BY <1>3 DEF Token
    <2> QED  BY <2>1 DEF Token
  <1>4. ASSUME NEW t \in Token, t.kind = "answer"
        PROVE  \A m \in BOOLEAN : [t EXCEPT !.mine = m] \in Token
    <2>1. t \in [kind : {"answer"}, op : Ops, mine : BOOLEAN]
      BY <1>4 DEF Token
    <2> QED  BY <2>1 DEF Token
  <1> QED  BY <1>1, <1>2, <1>3, <1>4

LEMMA TailTokens ==
  ASSUME NEW w \in Seq(Token), w # <<>>
  PROVE  /\ Tail(w) \in Seq(Token) /\ Len(Tail(w)) = Len(w) - 1
         /\ \A j \in 1 .. Len(w) - 1 : Tail(w)[j] = w[j + 1]
         /\ Len(w) \in Nat \ {0} /\ DOMAIN w = 1 .. Len(w)
         /\ DOMAIN Tail(w) = 1 .. Len(w) - 1 /\ w[1] \in Token
  OBVIOUS

LEMMA DropTokens ==
  ASSUME NEW w \in Seq(Token), w # <<>>
  PROVE  Drop(w) \in Seq(Token) /\ Len(Drop(w)) <= Len(w)
  <1>1. Len(w) \in Nat \ {0} /\ w[1] \in Token
    BY TailTokens
  <1>2. CASE Whole(w[1])
    <2>1. Drop(w) = [w EXCEPT ![1] = [kind |-> "rest", left |-> Units - 1]]
      BY <1>2 DEF Drop
    <2>2. [kind |-> "rest", left |-> Units - 1] \in Token
      BY TokenKinds
    <2> QED  BY <1>1, <2>1, <2>2
  <1>3. CASE ~Whole(w[1]) /\ w[1].kind = "rest" /\ w[1].left > 1
    <2>1. Drop(w) = [w EXCEPT ![1] = [w[1] EXCEPT !.left = w[1].left - 1]]
      BY <1>3 DEF Drop
    <2>2. w[1].left \in 1 .. Units - 1
      BY <1>1, <1>3, TokenKinds
    <2>3. w[1].left - 1 \in 1 .. Units - 1
      BY <1>3, <2>2
    <2>4. [w[1] EXCEPT !.left = w[1].left - 1] \in Token
      BY <1>1, <1>3, <2>3, TokenKinds
    <2> QED  BY <1>1, <2>1, <2>4
  <1>4. CASE ~Whole(w[1]) /\ ~(w[1].kind = "rest" /\ w[1].left > 1)
    <2>1. Drop(w) = Tail(w)
      BY <1>4 DEF Drop
    <2> QED  BY <2>1, TailTokens
  <1> QED  BY <1>2, <1>3, <1>4

LEMMA AfterSomeTokens ==
  ASSUME NEW w \in Seq(Token), NEW u \in AfterSome(w)
  PROVE  u \in Seq(Token) /\ Len(u) <= Len(w)
  <1>1. PICK k \in 2 .. Len(w) + 1 : u = SubSeq(w, k, Len(w))
    BY DEF AfterSome
  <1>2. Len(w) \in Nat
    OBVIOUS
  <1> QED  BY <1>1, <1>2

LEMMA JoinTokens ==
  ASSUME NEW w \in Seq(Token), NEW u \in Seq(Token)
  PROVE  /\ w \o u \in Seq(Token) /\ Len(w \o u) = Len(w) + Len(u)
         /\ \A j \in 1 .. Len(w) : (w \o u)[j] = w[j]
         /\ \A j \in 1 .. Len(u) : (w \o u)[Len(w) + j] = u[j]
  OBVIOUS

WireOK == wire \in Seq(Token) /\ Len(wire) <= MaxWire

LEMMA ReactsWire ==
  ASSUME WireOK, NEW reactions \in SUBSET Seq(Token), Reacts(reactions)
  PROVE  WireOK'
  BY DEF WireOK, Reacts

LEMMA ReadWire ==
  ASSUME WireOK, NEW b, Read(b)
  PROVE  WireOK'
  <1>1. CASE UNCHANGED wire
    BY <1>1 DEF WireOK
  <1>2. CASE wire # <<>> /\ wire' = Drop(wire)
    <2>1. Drop(wire) \in Seq(Token) /\ Len(Drop(wire)) <= Len(wire)
      BY <1>2, DropTokens DEF WireOK
    <2>2. Len(wire) \in Nat /\ Len(Drop(wire)) \in Nat
      BY <2>1 DEF WireOK
    <2> QED  BY <1>2, <2>1, <2>2 DEF WireOK
  <1> QED  BY <1>1, <1>2 DEF Read

LEMMA ReadAnswerWire ==
  ASSUME WireOK, NEW a, ReadAnswer(a)
  PROVE  WireOK'
  <1>1. Len(wire) \in Nat
    BY DEF WireOK
  <1>2. ASSUME NEW u \in Seq(Token), Len(u) <= Len(wire), wire' = u  PROVE WireOK'
    <2>1. Len(u) \in Nat
      OBVIOUS
    <2> QED  BY <1>1, <1>2, <2>1 DEF WireOK
  <1>3. CASE UNCHANGED wire
    BY <1>3 DEF WireOK
  <1>4. CASE ReadWhole(a)
    <2>1. wire # <<>> /\ wire' = Tail(wire)
      BY <1>4 DEF ReadWhole
    <2>2. Tail(wire) \in Seq(Token) /\ Len(Tail(wire)) <= Len(wire)
      BY <1>1, <2>1, TailTokens DEF WireOK
    <2> QED  BY <1>2, <2>1, <2>2
  <1>5. CASE ReadAskew(a)
    <2>1. wire # <<>> /\ wire \in Seq(Token)
      BY <1>5 DEF ReadAskew, WireOK
    <2>2. Drop(wire) \in Seq(Token) /\ Len(Drop(wire)) <= Len(wire)
      BY <2>1, DropTokens
    <2>3. CASE Drop(wire) # <<>> /\ wire' = Drop(Drop(wire))
      <3>1. Drop(Drop(wire)) \in Seq(Token) /\ Len(Drop(Drop(wire))) <= Len(Drop(wire))
        BY <2>2, <2>3, DropTokens
      <3>2. Len(Drop(wire)) \in Nat /\ Len(Drop(Drop(wire))) \in Nat
        BY <2>2, <3>1
      <3>3. Len(Drop(Drop(wire))) <= Len(wire)
        BY <1>1, <2>2, <3>1, <3>2
      <3> QED  BY <1>2, <2>3, <3>1, <3>3
    <2>4. CASE wire' = <<>>
      <3>1. <<>> \in Seq(Token) /\ Len(<<>>) <= Len(wire)
        BY <1>1
      <3> QED  BY <1>2, <2>4, <3>1
    <2>5. CASE wire' \in AfterSome(wire)
      BY <1>2, <2>1, <2>5, AfterSomeTokens
    <2> QED  BY <1>5, <2>3, <2>4, <2>5 DEF ReadAskew
  <1> QED  BY <1>3, <1>4, <1>5 DEF ReadAnswer

\* While a command is on its way it is one that has been framed.
Underway == {"sendP300Ack", "recvP300", "recvP300Ack", "recvP300Nak"}
Framed == Running /\ state \in Underway => cmd.command \in Ops

WInv == LinkTypeOK /\ Framed

LEMMA FramedCommand ==
  ASSUME NEW c
  PROVE  /\ CanPrepare(c, "sendP300") => Prepared(c, "sendP300").command \in Ops
         /\ c.command \in Ops => Prepared(c, "sendP300") = c
  <1>1. CanPrepare(c, "sendP300") => Prepared(c, "sendP300").command \in Ops
    BY DEF CanPrepare, Ops
  <1>2. c.command \in Ops => Prepared(c, "sendP300") = c
    BY DEF Prepared, Ops
  <1> QED  BY <1>1, <1>2

LEMMA AnswerToken ==
  ASSUME Prepared(cmd, "sendP300").command \in Ops
  PROVE  Answer \in Token /\ Answer.kind = "answer" /\ Answer.mine
  BY DEF Answer, Token

\* The actions of the machine keep to commands that have been framed.
LEMMA StepFramed ==
  ASSUME Framed, [LinkNext]_allVars
  PROVE  Framed'
  <1> USE DEF Framed, Underway, Running, AtState, Goto, Exit
  <1>1. ASSUME NEW ok \in BOOLEAN, SendP300(ok)  PROVE Framed'
    <2>1. CASE CanPrepare(cmd, "sendP300")
      BY <1>1, <2>1, FramedCommand DEF SendP300
    <2>2. CASE ~CanPrepare(cmd, "sendP300")
      BY <1>1, <2>2 DEF SendP300
    <2> QED  BY <2>1, <2>2
  <1>2. ASSUME NEW ok \in BOOLEAN,
               Reset(ok) \/ SwP300(ok) \/ RecvP300Ack(ok) \/ RecvP300Nak(ok)
        PROVE  Framed'
    BY <1>2 DEF Reset, SwP300, RecvP300Ack, RecvP300Nak, Write
  <1>3. ASSUME NEW b, ResetAck(b) \/ IdleP300(b) \/ WaitAck(b) \/ WaitIdle(b)
        PROVE  Framed'
    BY <1>3 DEF ResetAck, IdleP300, WaitAck, WaitIdle, WaitFor
  <1>4. ASSUME NEW b, SendP300Ack(b)  PROVE Framed'
    BY <1>4 DEF SendP300Ack
  <1>5. ASSUME NEW a \in RxP300, RecvP300(a)  PROVE Framed'
    BY <1>5 DEF RecvP300, RxP300, P300Answer, AfterAnswer
  <1>6. CASE WaitCmd
    BY <1>6 DEF WaitCmd
  <1>7. CASE WaitSync
    BY <1>7 DEF WaitSync
  <1>8. CASE LoopTop
    BY <1>8 DEF LoopTop
  <1>9. CASE Around
    BY <1>9 DEF Around, Ages, SynAges, Caller, GiveUp, Issue, fsmVars
  <1>10. CASE Renew
    BY <1>10 DEF Renew, Reconnect, Connect
  <1>11. CASE UNCHANGED vars
    BY <1>11 DEF vars, fsmVars
  <1> QED
    BY <1>1, <1>2, <1>3, <1>4, <1>5, <1>6, <1>7, <1>8, <1>9, <1>10, <1>11
    DEF LinkNext, Machine, Receive, Unexpected, Silence, TakeCmd, WriteReset, WriteSync,
        WriteCmd, WriteAck, WriteNak, Steps, BoilerEnq, BoilerFallsBack, Noise, allVars

LEMMA StepWire ==
  ASSUME WInv, [LinkNext]_allVars
  PROVE  LinkTypeOK'
  <1>1. /\ WireOK /\ disturbed \in BOOLEAN /\ mode \in {"kw", "p300"}
        /\ wire \in Seq(Token) /\ Len(wire) \in Nat /\ Len(wire) <= MaxWire
    BY DEF WInv, LinkTypeOK, WireOK
  <1>2. mode' \in {"kw", "p300"} /\ disturbed' \in BOOLEAN
    <2> USE DEF LinkNext, Machine, Receive, Unexpected, Silence, TakeCmd, WriteReset,
          WriteSync, WriteCmd, WriteAck, WriteNak, Steps, Around, Ages, Renew, BoilerEnq,
          BoilerFallsBack, Noise, allVars, linkVars
    <2>1. mode' \in {"kw", "p300"}
      BY <1>1
    <2>2. \/ disturbed' = disturbed \/ disturbed' = TRUE
          \/ disturbed' = Stray(wire) \/ disturbed' = (disturbed /\ ~Calm)
      OBVIOUS
    <2>3. Stray(wire) \in BOOLEAN
      BY DEF Stray
    <2>4. (disturbed /\ ~Calm) \in BOOLEAN
      OBVIOUS
    <2> QED  BY <1>1, <2>1, <2>2, <2>3, <2>4
  <1>3. CASE UNCHANGED wire
    BY <1>1, <1>2, <1>3 DEF LinkTypeOK
  <1>4. CASE WireOK'
    BY <1>2, <1>4 DEF LinkTypeOK, WireOK
  <1>5. CASE Receive
    BY <1>1, <1>4, <1>5, ReadWire, ReadAnswerWire DEF Receive
  <1>6. CASE Unexpected
    BY <1>1, <1>4, <1>6, ReadWire DEF Unexpected
  <1>7. CASE WriteSync
    <2>1. <<Sig("ACK")>> \in Seq(Token) /\ <<>> \in Seq(Token)
      BY TokenKinds
    <2>2. UNCHANGED wire \/ Reacts({<<Sig("ACK")>>, <<>>})
      BY <1>7 DEF WriteSync
    <2> QED  BY <1>1, <1>3, <1>4, <2>1, <2>2, ReactsWire
  <1>8. CASE WriteCmd
    <2>1. PICK ok \in BOOLEAN :
            /\ SendP300(ok)
            /\ \/ /\ state' = "sendP300Ack"
                  /\ \/ Reacts({<<Sig("ACK"), Answer>>, <<Sig("ACK"), Sig("damaged")>>,
                                <<Sig("ACK")>>, <<Sig("NAK")>>})
                     \/ Reacts({<<Answer>>})
               \/ UNCHANGED wire
      BY <1>8 DEF WriteCmd
    <2>2. CASE state' = "sendP300Ack"
      <3>1. CanPrepare(cmd, "sendP300")
        BY <2>1, <2>2 DEF SendP300, Goto, AtState
      <3>2. Answer \in Token
        BY <3>1, FramedCommand, AnswerToken
      <3>3. /\ <<Sig("ACK"), Answer>> \in Seq(Token)
            /\ <<Sig("ACK"), Sig("damaged")>> \in Seq(Token)
            /\ <<Sig("ACK")>> \in Seq(Token) /\ <<Sig("NAK")>> \in Seq(Token)
            /\ <<Answer>> \in Seq(Token)
        BY <3>2, TokenKinds
      <3> QED  BY <1>1, <1>3, <1>4, <2>1, <3>3, ReactsWire
    <2> QED  BY <1>3, <2>1, <2>2
  <1>9. CASE WriteNak
    <2>1. UNCHANGED wire \/ (Reacts({<<Answer>>}) /\ AtState("recvP300Nak"))
      BY <1>9 DEF WriteNak, RecvP300Nak
    <2>2. CASE Reacts({<<Answer>>}) /\ AtState("recvP300Nak")
      <3>1. cmd.command \in Ops
        BY <2>2 DEF WInv, Framed, Running, Underway, AtState
      <3>2. <<Answer>> \in Seq(Token)
        BY <3>1, FramedCommand, AnswerToken
      <3> QED  BY <1>1, <1>4, <2>2, <3>2, ReactsWire
    <2> QED  BY <1>3, <2>1, <2>2
  <1>10. CASE TakeCmd
    <2>1. wire' = [j \in DOMAIN wire |-> IF wire[j].kind = "answer"
                                         THEN [wire[j] EXCEPT !.mine = FALSE]
                                         ELSE wire[j]]
      BY <1>10 DEF TakeCmd
    <2>2. wire \in [1 .. Len(wire) -> Token]
      BY <1>1
    <2>3. ASSUME NEW j \in 1 .. Len(wire)
          PROVE  (IF wire[j].kind = "answer" THEN [wire[j] EXCEPT !.mine = FALSE]
                                             ELSE wire[j]) \in Token
      <3>1. wire[j] \in Token /\ FALSE \in BOOLEAN
        BY <2>2
      <3> QED  BY <3>1, TokenKinds
    <2>4. wire' \in [1 .. Len(wire) -> Token]
      BY <2>1, <2>2, <2>3
    <2>5. wire' \in Seq(Token) /\ Len(wire') = Len(wire)
      BY <1>1, <2>4
    <2> QED  BY <1>1, <1>4, <2>5 DEF WireOK
  <1>11. CASE Renew
    <2>1. <<>> \in Seq(Token) /\ Len(<<>>) <= MaxWire
      OBVIOUS
    <2> QED  BY <1>3, <1>4, <1>11, <2>1 DEF Renew, WireOK
  <1>12. CASE BoilerEnq \/ Noise
    <2>1. PICK t \in Token : wire' = Append(wire, t) /\ Len(wire) < MaxWire
      BY <1>12, TokenKinds DEF BoilerEnq, Noise
    <2>2. wire' \in Seq(Token) /\ Len(wire') = Len(wire) + 1
      BY <1>1, <2>1
    <2> QED  BY <1>1, <1>4, <2>1, <2>2 DEF WireOK
  <1> QED
    BY <1>3, <1>5, <1>6, <1>7, <1>8, <1>9, <1>10, <1>11, <1>12
    DEF LinkNext, Machine, Silence, WriteReset, WriteAck, Around, Ages, BoilerFallsBack,
        allVars, linkVars

LEMMA InitWInv == LinkInit => WInv
  <1> SUFFICES ASSUME LinkInit  PROVE WInv
    OBVIOUS
  <1>1. <<>> \in Seq(Token) /\ Len(<<>>) <= MaxWire
    OBVIOUS
  <1>2. LinkTypeOK
    BY <1>1 DEF LinkInit, LinkTypeOK
  <1>3. Framed
    BY DEF LinkInit, Init, Framed, Underway
  <1> QED  BY <1>2, <1>3 DEF WInv

\* Type correctness of the wire and the boiler.
THEOREM LinkTypeCorrect == LinkSpec => []LinkTypeOK
  <1>1. WInv /\ [LinkNext]_allVars => WInv'
    BY StepFramed, StepWire DEF WInv
  <1>2. WInv => LinkTypeOK
    BY DEF WInv
  <1> QED  BY <1>1, <1>2, InitWInv, PTL DEF LinkSpec

-----------------------------------------------------------------------------
(* What can be on the wire while nothing has disturbed it.                   *)

Only(w, kinds) == \A j \in DOMAIN w : w[j].kind \in kinds

\* After a reset the boiler sends ENQ until the first SYN, and then an ACK for each.
EnqsThenAcks(w) ==
  /\ Only(w, {"ENQ", "ACK"})
  /\ \A j, k \in DOMAIN w : j < k /\ w[j].kind = "ACK" => w[k].kind = "ACK"

\* The reaction to a command, behind acknowledgements of syncs.
Pending(w) == \A j \in DOMAIN w :
  /\ j < Len(w) => w[j].kind = "ACK"
  /\ w[j].kind \in {"ACK", "NAK", "answer", "damaged"}
  /\ w[j].kind = "answer" => w[j].mine

\* The same before its first byte has been read.
Reaction(w) == Pending(w) /\ (Len(w) = 1 => w[1].kind \in {"ACK", "NAK"})

Matched(st, w, m) ==
  /\ st \in {"resetAck", "idle"} => m = "kw"
  /\ st \in {"waitAck", "wait", "sendP300"} \cup Underway => m = "p300"
  /\ st \in {"resetAck", "idle", "swP300", "waitAck"} =>
       EnqsThenAcks(w) /\ (m = "kw" => Only(w, {"ENQ"}))
  /\ st \in {"wait", "sendP300"} => Only(w, {"ACK"})
  /\ st = "sendP300Ack" => Reaction(w)
  /\ st = "recvP300" => Pending(w)
  /\ st \in {"recvP300Ack", "recvP300Nak"} => w = <<>>

InStep == ~disturbed /\ Running => Matched(state, wire, mode)

LEMMA EmptyWire ==
  /\ \A kinds : Only(<<>>, kinds)
  /\ EnqsThenAcks(<<>>)
  BY DEF Only, EnqsThenAcks

LEMMA ReadSingle ==
  ASSUME NEW w \in Seq(Token), w # <<>>, w[1].kind \in {"ENQ", "ACK", "NAK"}
  PROVE  Drop(w) = Tail(w) /\ ByteOf(w[1]) = {w[1].kind} /\ ~Whole(w[1])
  BY DEF Drop, ByteOf, Whole, Byte

LEMMA OnlyTail ==
  ASSUME NEW w \in Seq(Token), w # <<>>, NEW kinds, Only(w, kinds)
  PROVE  Only(Tail(w), kinds) /\ w[1].kind \in kinds
  <1>1. 1 \in DOMAIN w /\ \A j \in DOMAIN Tail(w) : j + 1 \in DOMAIN w /\ Tail(w)[j] = w[j + 1]
    BY TailTokens
  <1> QED  BY <1>1 DEF Only

LEMMA EnqsThenAcksTail ==
  ASSUME NEW w \in Seq(Token), w # <<>>, EnqsThenAcks(w)
  PROVE  /\ EnqsThenAcks(Tail(w)) /\ w[1].kind \in {"ENQ", "ACK"}
         /\ w[1].kind = "ACK" => Only(Tail(w), {"ACK"})
  <1>1. /\ 1 \in DOMAIN w
        /\ \A j \in DOMAIN Tail(w) : j \in Nat \ {0} /\ j + 1 \in DOMAIN w /\ Tail(w)[j] = w[j + 1]
    BY TailTokens
  <1>2. Only(Tail(w), {"ENQ", "ACK"}) /\ w[1].kind \in {"ENQ", "ACK"}
    BY OnlyTail DEF EnqsThenAcks
  <1>3. ASSUME NEW j \in DOMAIN Tail(w), NEW k \in DOMAIN Tail(w), j < k,
               Tail(w)[j].kind = "ACK"
        PROVE  Tail(w)[k].kind = "ACK"
    <2>1. j + 1 < k + 1
      BY <1>1, <1>3
    <2> QED  BY <1>1, <1>3, <2>1 DEF EnqsThenAcks
  <1>4. ASSUME w[1].kind = "ACK", NEW j \in DOMAIN Tail(w)
        PROVE  Tail(w)[j].kind = "ACK"
    <2>1. 1 < j + 1
      BY <1>1
    <2> QED  BY <1>1, <1>4, <2>1 DEF EnqsThenAcks
  <1> QED  BY <1>2, <1>3, <1>4 DEF EnqsThenAcks, Only

LEMMA PendingTail ==
  ASSUME NEW w \in Seq(Token), w # <<>>, Pending(w)
  PROVE  /\ Pending(Tail(w)) /\ w[1].kind \in {"ACK", "NAK", "answer", "damaged"}
         /\ w[1].kind # "ACK" => Len(w) = 1 /\ Tail(w) = <<>>
  <1>1. /\ 1 \in DOMAIN w /\ Len(w) \in Nat \ {0} /\ Len(Tail(w)) = Len(w) - 1
        /\ Tail(w) \in Seq(Token)
        /\ \A j \in DOMAIN Tail(w) : j \in Nat \ {0} /\ j + 1 \in DOMAIN w /\ Tail(w)[j] = w[j + 1]
    BY TailTokens
  <1>2. ASSUME NEW j \in DOMAIN Tail(w)
        PROVE  /\ j < Len(Tail(w)) => Tail(w)[j].kind = "ACK"
               /\ Tail(w)[j].kind \in {"ACK", "NAK", "answer", "damaged"}
               /\ Tail(w)[j].kind = "answer" => Tail(w)[j].mine
    <2>1. j < Len(Tail(w)) => j + 1 < Len(w)
      BY <1>1
    <2> QED  BY <1>1, <2>1 DEF Pending
  <1>3. w[1].kind # "ACK" => ~(1 < Len(w))
    BY <1>1 DEF Pending
  <1>4. ~(1 < Len(w)) => Len(w) = 1 /\ Tail(w) = <<>>
    BY <1>1
  <1> QED  BY <1>1, <1>2, <1>3, <1>4 DEF Pending

LEMMA ReactionFirst ==
  ASSUME NEW w \in Seq(Token), w # <<>>, Reaction(w)
  PROVE  w[1].kind \in {"ACK", "NAK"}
  <1>1. 1 \in DOMAIN w /\ Len(w) \in Nat /\ Len(w) # 0
    BY TailTokens
  <1>2. CASE Len(w) = 1
    BY <1>2 DEF Reaction
  <1>3. CASE Len(w) # 1
    <2>1. PICK n \in Nat : n = Len(w)
      BY <1>1
    <2>2. n # 0 /\ n # 1
      BY <1>1, <1>3, <2>1
    <2>3. 1 < n
      BY ONLY <2>2, n \in Nat
    <2>4. 1 < Len(w)
      BY <2>1, <2>3
    <2> QED  BY <1>1, <2>4 DEF Reaction, Pending
  <1> QED  BY <1>2, <1>3

LEMMA AcksReaction ==
  ASSUME NEW w \in Seq(Token), Only(w, {"ACK"})
  PROVE  Reaction(w) /\ EnqsThenAcks(w)
  <1>1. \A j \in DOMAIN w : w[j].kind = "ACK"
    BY DEF Only
  <1>2. Len(w) = 1 => 1 \in DOMAIN w
    OBVIOUS
  <1> QED  BY <1>1, <1>2 DEF Reaction, Pending, EnqsThenAcks, Only

\* One more acknowledgement of a sync.
LEMMA AddAck ==
  ASSUME NEW w \in Seq(Token), EnqsThenAcks(w)
  PROVE  EnqsThenAcks(w \o <<Sig("ACK")>>)
  <1> DEFINE v == w \o <<Sig("ACK")>>
             n == Len(w)
  <1>1. <<Sig("ACK")>> \in Seq(Token) /\ Sig("ACK").kind = "ACK"
    BY TokenKinds
  <1>2. /\ n \in Nat /\ DOMAIN w = 1 .. n /\ DOMAIN v = 1 .. n + 1
        /\ \A j \in 1 .. n : v[j] = w[j]
        /\ v[n + 1].kind = "ACK"
    BY <1>1
  <1> HIDE DEF v, n
  <1>3. Only(v, {"ENQ", "ACK"})
    BY <1>2 DEF Only, EnqsThenAcks
  <1>4. ASSUME NEW j \in 1 .. n + 1, NEW k \in 1 .. n + 1, j < k, v[j].kind = "ACK"
        PROVE  v[k].kind = "ACK"
    <2>1. j \in 1 .. n /\ (k = n + 1 \/ k \in 1 .. n)
      BY <1>2, <1>4
    <2> QED  BY <1>2, <1>4, <2>1 DEF EnqsThenAcks
  <1>5. EnqsThenAcks(v)
    BY <1>2, <1>3, <1>4 DEF EnqsThenAcks
  <1> QED  BY <1>5 DEF v

\* The boiler's reaction behind what is left of the syncs.
LEMMA AddOne ==
  ASSUME NEW w \in Seq(Token), Only(w, {"ACK"}), NEW t \in {Sig("ACK"), Sig("NAK")}
  PROVE  Reaction(w \o <<t>>)
  <1> DEFINE v == w \o <<t>>
             n == Len(w)
  <1>1. <<t>> \in Seq(Token) /\ t.kind \in {"ACK", "NAK"}
    BY TokenKinds
  <1>2. /\ n \in Nat /\ DOMAIN w = 1 .. n /\ DOMAIN v = 1 .. n + 1 /\ Len(v) = n + 1
        /\ \A j \in 1 .. n : v[j] = w[j]
        /\ v[n + 1] = t
    BY <1>1
  <1> HIDE DEF v, n
  <1>3. \A j \in 1 .. n + 1 : j \in 1 .. n \/ j = n + 1
    BY <1>2
  <1>4. Pending(v)
    BY <1>1, <1>2, <1>3 DEF Only, Pending
  <1>5. Len(v) = 1 => v[1] = t
    BY <1>2
  <1>6. Reaction(v)
    BY <1>1, <1>4, <1>5 DEF Reaction
  <1> QED  BY <1>6 DEF v

LEMMA AddTwo ==
  ASSUME NEW w \in Seq(Token), Only(w, {"ACK"}), NEW t \in Token,
         t.kind \in {"answer", "damaged"}, t.kind = "answer" => t.mine
  PROVE  Reaction(w \o <<Sig("ACK"), t>>)
  <1> DEFINE v == w \o <<Sig("ACK"), t>>
             n == Len(w)
  <1>1. <<Sig("ACK"), t>> \in Seq(Token) /\ Sig("ACK").kind = "ACK"
    BY TokenKinds
  <1>2. /\ n \in Nat /\ DOMAIN w = 1 .. n /\ DOMAIN v = 1 .. n + 2 /\ Len(v) = n + 2
        /\ \A j \in 1 .. n : v[j] = w[j]
        /\ v[n + 1].kind = "ACK" /\ v[n + 2] = t
    BY <1>1
  <1> HIDE DEF v, n
  <1>3. \A j \in 1 .. n + 2 : j \in 1 .. n \/ j = n + 1 \/ j = n + 2
    BY <1>2
  <1>4. Pending(v)
    BY <1>2, <1>3 DEF Only, Pending
  <1>5. Len(v) # 1
    BY <1>2
  <1>6. Reaction(v)
    BY <1>4, <1>5 DEF Reaction
  <1> QED  BY <1>6 DEF v

-----------------------------------------------------------------------------
(* Every step keeps machine and wire in step.                                *)

SInv == WInv /\ InStep

LEMMA ReceiveInStep ==
  ASSUME SInv, Receive
  PROVE  InStep'
  <1> SUFFICES ASSUME ~disturbed', Running'  PROVE Matched(state, wire, mode)'
    BY DEF InStep
  <1>1. /\ disturbed' = disturbed /\ mode' = mode /\ Running /\ Matched(state, wire, mode)
        /\ wire \in Seq(Token)
    BY DEF SInv, WInv, LinkTypeOK, InStep, Receive, Running, ResetAck, IdleP300, WaitAck,
           SendP300Ack, RecvP300, AtState
  <1>2. ASSUME NEW b, Read(b), ResetAck(b)  PROVE Matched(state, wire, mode)'
    <2>1. /\ b # "timeout" /\ state = "resetAck" /\ state' \in {"idle", "reset"}
      BY <1>2 DEF ResetAck, Exit, Running, Goto, AtState
    <2>2. /\ wire # <<>> /\ wire' = Drop(wire) /\ mode = "kw" /\ Only(wire, {"ENQ"})
          /\ EnqsThenAcks(wire)
      BY <1>1, <1>2, <2>1 DEF Read, Matched
    <2>3. wire' = Tail(wire)
      BY <1>1, <2>2, OnlyTail, ReadSingle
    <2>4. Only(wire', {"ENQ"}) /\ EnqsThenAcks(wire')
      BY <1>1, <2>2, <2>3, OnlyTail, EnqsThenAcksTail
    <2> QED  BY <1>1, <2>1, <2>2, <2>4 DEF Matched, Underway
  <1>3. ASSUME NEW b, Read(b), IdleP300(b)  PROVE Matched(state, wire, mode)'
    <2>1. /\ b # "timeout" /\ state = "idle" /\ state' \in {"swP300", "reset"}
      BY <1>3 DEF IdleP300, WaitFor, Running, Goto, AtState
    <2>2. /\ wire # <<>> /\ wire' = Drop(wire) /\ mode = "kw" /\ Only(wire, {"ENQ"})
          /\ EnqsThenAcks(wire)
      BY <1>1, <1>3, <2>1 DEF Read, Matched
    <2>3. wire' = Tail(wire)
      BY <1>1, <2>2, OnlyTail, ReadSingle
    <2>4. Only(wire', {"ENQ"}) /\ EnqsThenAcks(wire')
      BY <1>1, <2>2, <2>3, OnlyTail, EnqsThenAcksTail
    <2> QED  BY <1>1, <2>1, <2>2, <2>4 DEF Matched, Underway
  <1>4. ASSUME NEW b, Read(b), WaitAck(b)  PROVE Matched(state, wire, mode)'
    <2>1. /\ b # "timeout" /\ state = "waitAck"
          /\ IF b = "ACK" THEN state' = "wait" ELSE state' \in {"swP300", "reset"}
      BY <1>4 DEF WaitAck, WaitFor, Running, Goto, AtState
    <2>2. /\ wire # <<>> /\ wire' = Drop(wire) /\ b \in ByteOf(wire[1])
          /\ mode = "p300" /\ EnqsThenAcks(wire)
      BY <1>1, <1>4, <2>1 DEF Read, Matched
    <2>3. wire' = Tail(wire) /\ b = wire[1].kind
      BY <1>1, <2>2, EnqsThenAcksTail, ReadSingle
    <2>4. EnqsThenAcks(wire') /\ (b = "ACK" => Only(wire', {"ACK"}))
      BY <1>1, <2>2, <2>3, EnqsThenAcksTail
    <2> QED  BY <1>1, <2>1, <2>2, <2>4 DEF Matched, Underway
  <1>5. ASSUME NEW b, Read(b), SendP300Ack(b)  PROVE Matched(state, wire, mode)'
    <2>1. /\ b # "timeout" /\ state = "sendP300Ack"
          /\ state' = IF b = "ACK" THEN "recvP300" ELSE "wait"
      BY <1>5 DEF SendP300Ack, Exit, Running, Goto, AtState
    <2>2. /\ wire # <<>> /\ wire' = Drop(wire) /\ b \in ByteOf(wire[1])
          /\ mode = "p300" /\ Reaction(wire)
      BY <1>1, <1>5, <2>1 DEF Read, Matched, Underway
    <2>3. wire' = Tail(wire) /\ b = wire[1].kind
      BY <1>1, <2>2, ReactionFirst, ReadSingle
    <2>4. Pending(wire') /\ (b # "ACK" => wire' = <<>>)
      BY <1>1, <2>2, <2>3, PendingTail DEF Reaction
    <2> QED  BY <1>1, <2>1, <2>2, <2>4, EmptyWire DEF Matched, Underway
  <1>6. ASSUME NEW a \in RxP300, ReadAnswer(a), RecvP300(a)
        PROVE  Matched(state, wire, mode)'
    <2>1. a # "timeout" /\ state = "recvP300" /\ state' = AfterAnswer(a)
      BY <1>6 DEF RecvP300, Running, Goto, AtState
    <2>2. mode = "p300" /\ Pending(wire)
      BY <1>1, <2>1 DEF Matched, Underway
    <2>3. CASE ReadWhole(a)
      <3>1. wire # <<>> /\ Whole(wire[1]) /\ wire' = Tail(wire)
        BY <2>3 DEF ReadWhole
      <3>2. wire' = <<>>
        BY <1>1, <2>2, <3>1, PendingTail DEF Whole
      <3>3. state' \in {"reset", "recvP300Ack", "recvP300Nak"}
        BY <2>1 DEF RxP300, P300Answer, AfterAnswer
      <3> QED  BY <1>1, <2>2, <3>2, <3>3, EmptyWire DEF Matched, Underway
    <2>4. CASE ReadAskew(a)
      <3>1. wire # <<>> /\ ~Whole(wire[1])
        BY <2>4 DEF ReadAskew
      <3>2. wire[1].kind \in {"ACK", "NAK"}
        BY <1>1, <2>2, <3>1, PendingTail DEF Whole
      <3>3. "other" \notin ByteOf(wire[1])
        BY <1>1, <3>1, <3>2, ReadSingle
      <3>4. a \in {"badStart", "partial"}
        BY <2>4, <3>3 DEF ReadAskew
      <3>5. state' = "reset"
        BY <2>1, <3>4 DEF AfterAnswer
      <3> QED  BY <3>5 DEF Matched, Underway
    <2> QED  BY <1>6, <2>1, <2>3, <2>4 DEF ReadAnswer
  <1> QED  BY <1>2, <1>3, <1>4, <1>5, <1>6 DEF Receive

LEMMA WriteInStep ==
  ASSUME SInv, WriteReset \/ WriteSync \/ WriteCmd \/ WriteAck \/ WriteNak
  PROVE  InStep'
  <1> SUFFICES ASSUME ~disturbed', Running'  PROVE Matched(state, wire, mode)'
    BY DEF InStep
  <1>1. wire \in Seq(Token) /\ (~disturbed /\ Running => Matched(state, wire, mode))
    BY DEF SInv, WInv, LinkTypeOK, InStep
  <1>2. CASE WriteReset
    <2>1. /\ state' = "resetAck" /\ mode' = "kw" /\ wire' = wire /\ ~Stray(wire)
      BY <1>2 DEF WriteReset, Reset, Running, Goto
    <2>2. Only(wire, {"ENQ"}) /\ EnqsThenAcks(wire)
      BY <2>1 DEF Stray, Only, EnqsThenAcks
    <2> QED  BY <2>1, <2>2 DEF Matched, Underway
  <1>3. CASE WriteSync
    <2>1. /\ state = "swP300" /\ state' = "waitAck" /\ mode' = "p300" /\ Running
          /\ disturbed' = disturbed /\ Reacts({<<Sig("ACK")>>, <<>>})
      BY <1>3 DEF WriteSync, SwP300, Write, Running, Goto, Exit, AtState
    <2>2. EnqsThenAcks(wire)
      BY <1>1, <2>1 DEF Matched
    <2>3. wire' \in {wire, wire \o <<Sig("ACK")>>, wire \o <<>>}
      BY <2>1 DEF Reacts
    <2>4. wire \o <<>> = wire
      BY <1>1
    <2>5. EnqsThenAcks(wire')
      BY <1>1, <2>2, <2>3, <2>4, AddAck
    <2> QED  BY <2>1, <2>5 DEF Matched, Underway
  <1>4. CASE WriteCmd
    <2>1. PICK ok \in BOOLEAN :
            /\ SendP300(ok)
            /\ \/ /\ state' = "sendP300Ack"
                  /\ Reacts({<<Sig("ACK"), Answer>>, <<Sig("ACK"), Sig("damaged")>>,
                             <<Sig("ACK")>>, <<Sig("NAK")>>})
                  /\ disturbed' = disturbed
               \/ wire' = wire /\ disturbed' = disturbed
            /\ mode' = mode
      BY <1>4 DEF WriteCmd
    <2>2. state = "sendP300" /\ Running /\ ~disturbed
      BY <2>1 DEF SendP300, Running, AtState
    <2>3. Only(wire, {"ACK"}) /\ mode = "p300"
      BY <1>1, <2>2 DEF Matched
    <2>4. state' \in {"sendP300Ack", "wait"}
      BY <2>1 DEF SendP300, Write, Running, Goto, Exit
    <2>5. CASE wire' = wire
      BY <1>1, <2>1, <2>3, <2>4, <2>5, AcksReaction DEF Matched, Underway
    <2>6. CASE /\ state' = "sendP300Ack"
               /\ Reacts({<<Sig("ACK"), Answer>>, <<Sig("ACK"), Sig("damaged")>>,
                          <<Sig("ACK")>>, <<Sig("NAK")>>})
      <3>1. CanPrepare(cmd, "sendP300")
        BY <2>1, <2>6 DEF SendP300, Goto, AtState
      <3>2. Answer \in Token /\ Answer.kind = "answer" /\ Answer.mine
        BY <3>1, FramedCommand, AnswerToken
      <3>3. Sig("damaged") \in Token /\ Sig("damaged").kind = "damaged"
        BY TokenKinds
      <3>4. wire' \in {wire, wire \o <<Sig("ACK"), Answer>>,
                       wire \o <<Sig("ACK"), Sig("damaged")>>,
                       wire \o <<Sig("ACK")>>, wire \o <<Sig("NAK")>>}
        BY <2>6 DEF Reacts
      <3>5. Reaction(wire')
        BY <1>1, <2>3, <3>2, <3>3, <3>4, AcksReaction, AddOne, AddTwo
      <3> QED  BY <2>1, <2>3, <2>6, <3>5 DEF Matched, Underway
    <2> QED  BY <2>1, <2>5, <2>6
  <1>5. CASE WriteAck \/ WriteNak
    <2>1. /\ state \in {"recvP300Ack", "recvP300Nak"} /\ state' = "wait"
          /\ mode' = mode /\ wire' = wire /\ disturbed' = disturbed /\ Running
      BY <1>5 DEF WriteAck, WriteNak, RecvP300Ack, RecvP300Nak, Write, Running, Goto, Exit,
         AtState, linkVars
    <2>2. wire = <<>> /\ mode = "p300"
      BY <1>1, <2>1 DEF Matched, Underway
    <2> QED  BY <2>1, <2>2, EmptyWire DEF Matched, Underway
  <1> QED  BY <1>2, <1>3, <1>4, <1>5

LEMMA OtherInStep ==
  ASSUME SInv, [LinkNext]_allVars, ~Receive,
         ~(WriteReset \/ WriteSync \/ WriteCmd \/ WriteAck \/ WriteNak)
  PROVE  InStep'
  <1> SUFFICES ASSUME ~disturbed', Running'  PROVE Matched(state, wire, mode)'
    BY DEF InStep
  <1>1. /\ wire \in Seq(Token) /\ (~disturbed /\ Running => Matched(state, wire, mode))
        /\ DOMAIN <<>> = {}
    BY DEF SInv, WInv, LinkTypeOK, InStep
  <1>2. CASE Unexpected
    <2>1. state' = "reset"
      BY <1>2 DEF Unexpected, WaitIdle, Byte, Goto
    <2> QED  BY <2>1 DEF Matched, Underway
  <1>3. CASE Silence
    <2>1. /\ state = "wait" /\ state' = "swP300" /\ wire = <<>> /\ wire' = <<>>
          /\ mode' = mode /\ Running /\ (~disturbed \/ Calm)
      BY <1>3 DEF Silence, WaitIdle, Goto, Running, AtState
    <2>2. mode = "p300"
      BY <1>1, <2>1 DEF Matched, Calm
    <2> QED  BY <2>1, <2>2, EmptyWire DEF Matched, Underway
  <1>4. CASE TakeCmd
    <2>1. /\ state = "wait" /\ state' = "sendP300" /\ mode' = mode /\ Running
          /\ ~disturbed \/ Calm
          /\ wire' = [j \in DOMAIN wire |-> IF wire[j].kind = "answer"
                                            THEN [wire[j] EXCEPT !.mine = FALSE]
                                            ELSE wire[j]]
      BY <1>4 DEF TakeCmd, WaitCmd, Goto, Running, AtState
    <2>2. mode = "p300" /\ Only(wire, {"ACK"})
      BY <1>1, <2>1, EmptyWire DEF Matched, Calm
    <2>3. Only(wire', {"ACK"})
      BY <2>1, <2>2 DEF Only
    <2> QED  BY <2>1, <2>2, <2>3 DEF Matched, Underway
  <1>5. CASE Steps /\ UNCHANGED linkVars
    <2>1. /\ wire' = wire /\ mode' = mode /\ ~disturbed /\ Running
          /\ state' = state \/ (state = "wait" /\ state' = "swP300")
      BY <1>5 DEF Steps, LoopTop, WaitSync, Goto, Running, AtState, linkVars
    <2>2. Matched(state, wire, mode)
      BY <1>1, <2>1
    <2> QED  BY <1>1, <2>1, <2>2, AcksReaction DEF Matched, Underway
  <1>6. CASE Around
    <2>1. UNCHANGED <<state, pc, linkVars>>
      BY <1>6 DEF Around, Ages, SynAges, Caller, GiveUp, Issue, fsmVars
    <2> QED  BY <1>1, <2>1 DEF Matched, Running, linkVars
  <1>7. CASE Renew
    <2>1. state' = "unknown"
      BY <1>7 DEF Renew, Reconnect, Connect
    <2> QED  BY <2>1 DEF Matched, Underway
  <1>8. CASE BoilerEnq
    <2>1. /\ mode = "kw" /\ mode' = mode /\ state' = state /\ ~disturbed /\ Running
          /\ wire' = Append(wire, Sig("ENQ"))
      BY <1>8 DEF BoilerEnq, vars, fsmVars, Running
    <2>2. Matched(state, wire, mode)
      BY <1>1, <2>1
    <2>3. state \in {"resetAck", "idle", "swP300"} => Only(wire, {"ENQ"})
      BY <2>1, <2>2 DEF Matched
    <2>4. Only(wire, {"ENQ"}) => Only(wire', {"ENQ"})
      <3>1. Sig("ENQ").kind = "ENQ"
        BY TokenKinds
      <3>2. /\ Len(wire) \in Nat /\ DOMAIN wire = 1 .. Len(wire)
            /\ DOMAIN wire' = 1 .. Len(wire) + 1
            /\ \A j \in 1 .. Len(wire) : wire'[j] = wire[j]
            /\ wire'[Len(wire) + 1] = Sig("ENQ")
        BY <1>1, <2>1
      <3>3. \A j \in 1 .. Len(wire) + 1 : j \in 1 .. Len(wire) \/ j = Len(wire) + 1
        BY <3>2
      <3> QED  BY <3>1, <3>2, <3>3 DEF Only
    <2>5. Only(wire', {"ENQ"}) => EnqsThenAcks(wire')
      BY DEF Only, EnqsThenAcks
    <2> QED  BY <2>1, <2>2, <2>3, <2>4, <2>5 DEF Matched, Underway
  <1>9. CASE BoilerFallsBack \/ Noise
    BY <1>9 DEF BoilerFallsBack, Noise
  <1>10. CASE UNCHANGED allVars
    BY <1>1, <1>10 DEF allVars, vars, fsmVars, linkVars, Matched, Running
  <1> QED
    BY <1>2, <1>3, <1>4, <1>5, <1>6, <1>7, <1>8, <1>9, <1>10 DEF LinkNext, Machine

LEMMA InitSInv == LinkInit => SInv
  BY InitWInv DEF LinkInit, Init, SInv, InStep, Matched, Underway

LEMMA NextSInv == SInv /\ [LinkNext]_allVars => SInv'
  BY StepFramed, StepWire, ReceiveInStep, WriteInStep, OtherInStep DEF SInv, WInv

\* On a wire of any length: between disturbances no old answer is taken for the
\* answer to the command sent, although no address is compared (fsm.go:592-665).
THEOREM AnswerInStepHolds == LinkSpec => []AnswerInStep
  <1>1. SInv => AnswerInStep
    <2> SUFFICES ASSUME SInv, ~disturbed, AtState("recvP300"), wire # <<>>,
                        wire[1].kind = "answer"
                 PROVE  wire[1].mine
      BY DEF AnswerInStep
    <2>1. Pending(wire) /\ wire \in Seq(Token)
      BY DEF SInv, WInv, LinkTypeOK, InStep, Matched, Running, AtState
    <2>2. 1 \in DOMAIN wire
      BY <2>1, TailTokens
    <2> QED  BY <2>1, <2>2 DEF Pending
  <1> QED  BY <1>1, InitSInv, NextSInv, PTL DEF LinkSpec
==============================================================================
