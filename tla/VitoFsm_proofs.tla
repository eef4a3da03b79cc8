--------------------------- MODULE VitoFsm_proofs ----------------------------
(* What holds of VitoFsm for all IDs, command types and values of maxFail.    *)
EXTENDS VitoFsm, TLAPS

USE IdsAssumption, IssuedAssumption, MaxFailAssumption, CanP300Assumption

\* prepareCmd may rename the command it is given, never its ID.
LEMMA PreparedKeepsId ==
  ASSUME NEW c \in FsmCmd, NEW st
  PROVE  Prepared(c, st) \in FsmCmd /\ Prepared(c, st).id = c.id
  <1>1. CASE st = "sendP300" /\ c.command = "kwRead"
    <2>1. Prepared(c, st) = [c EXCEPT !.command = "p300ReadData"]
      BY <1>1 DEF Prepared
    <2> QED  BY <2>1 DEF FsmCmd, CommandType
  <1>2. CASE st = "sendP300" /\ c.command = "kwWrite"
    <2>1. Prepared(c, st) = [c EXCEPT !.command = "p300WriteData"]
      BY <1>2 DEF Prepared
    <2> QED  BY <2>1 DEF FsmCmd, CommandType
  <1>3. CASE st # "sendP300" /\ c.command = "p300ReadData"
    <2>1. Prepared(c, st) = [c EXCEPT !.command = "kwRead"]
      BY <1>3 DEF Prepared
    <2> QED  BY <2>1 DEF FsmCmd, CommandType
  <1>4. CASE st # "sendP300" /\ c.command = "p300WriteData"
    <2>1. Prepared(c, st) = [c EXCEPT !.command = "kwWrite"]
      BY <1>4 DEF Prepared
    <2> QED  BY <2>1 DEF FsmCmd, CommandType
  <1>5. CASE IF st = "sendP300" THEN c.command \notin {"kwRead", "kwWrite"}
             ELSE c.command \notin {"p300ReadData", "p300WriteData"}
    <2>1. Prepared(c, st) = c
      BY <1>5 DEF Prepared
    <2> QED  BY <2>1
  <1> QED  BY <1>1, <1>2, <1>3, <1>4, <1>5

-----------------------------------------------------------------------------
\* The machine can still count one failure while it runs.
FailBound == Running => failCount <= MaxFail

\* The KW states run with the command counted as held until it is sent, and
\* recvKw stands for it afterwards.
HeldInKw == Running => /\ state \in {"sendKwStart", "sendKw"} => hasCmd
                       /\ state = "recvKw" => ~hasCmd

IInv == TypeOK /\ FailBound /\ HeldInKw /\ HeldIffWaiting /\ ResultForAsker

LEMMA InitIInv == Init => IInv
  <1> SUFFICES ASSUME Init  PROVE IInv
    OBVIOUS
  <1>1. ZeroCmd \in FsmCmd /\ EofResult \in FsmResult
    BY DEF ZeroCmd, EofResult, FsmCmd, FsmResult, CommandType
  <1>2. TypeOK
    <2>1. failCount \in 0 .. MaxFail + 1
      BY DEF Init
    <2>2. state \in VitoState /\ pc \in {"top", "body", "await", "gone"}
      BY DEF Init, VitoState
    <2> QED  BY <1>1, <2>1, <2>2 DEF Init, TypeOK
  <1>3. FailBound /\ HeldInKw /\ HeldIffWaiting
    BY DEF Init, FailBound, HeldInKw, HeldIffWaiting, Running, Holding
  <1>4. ResultForAsker
    BY DEF Init, ResultForAsker, ZeroCmd, EofResult
  <1> QED  BY <1>2, <1>3, <1>4 DEF IInv

\* waitfor counts at most one failure, and only when it ends the machine.
LEMMA WaitForBound ==
  ASSUME TypeOK, FailBound, Running, NEW b, NEW w, NEW next, NEW fail,
         WaitFor(b, w, next, fail)
  PROVE  /\ pc' \in {"top", "gone"} /\ state' \in {next, fail}
         /\ failCount' \in 0 .. MaxFail + 1
         /\ pc' # "gone" => failCount' <= MaxFail
  BY DEF TypeOK, FailBound, Running, WaitFor, Goto

\* A result carries the ID of the command held and ends the call.
LEMMA ReplyResult ==
  ASSUME TypeOK, NEW ok \in BOOLEAN, Reply(ok)
  PROVE  /\ res' \in FsmResult /\ res'.id = cmd.id
         /\ call = "waiting" /\ call' = "none" /\ ask' = ask
  BY DEF TypeOK, Reply, FsmResult, FsmCmd

LEMMA NextIInv == IInv /\ [Next]_vars => IInv'
  <1> SUFFICES ASSUME IInv, [Next]_vars  PROVE IInv'
    OBVIOUS
  <1> USE DEF IInv, TypeOK, FailBound, HeldInKw, HeldIffWaiting, ResultForAsker,
              Running, Holding, VitoState, AtState, Goto, Exit,
              timeVars, callVars, fsmVars
  <1>1. CASE LoopTop
    BY <1>1, ZenonT(30) DEF LoopTop
  <1>2. ASSUME NEW b \in Rx, ResetAck(b)  PROVE IInv'
    <2>1. pc' \in {"top", "gone"} /\ state' \in VitoState
          /\ (pc' # "gone" => failCount' <= MaxFail)
      BY <1>2 DEF ResetAck, GivesUp
    <2>2. failCount' \in 0 .. MaxFail + 1
      <3>1. failCount' \in {failCount, 0, failCount + 1}
        BY <1>2 DEF ResetAck
      <3> QED  BY <3>1, <1>2 DEF ResetAck
    <2>3. (Holding' <=> Holding) \/ pc' = "gone"
      BY <1>2 DEF ResetAck
    <2>4. enqOld' \in BOOLEAN
      BY <1>2 DEF ResetAck
    <2> QED  BY <1>2, <2>1, <2>2, <2>3, <2>4 DEF ResetAck
  <1>3. ASSUME NEW b \in Rx, IdleP300(b)  PROVE IInv'
    <2>1. WaitFor(b, "ENQ", "swP300", "reset")
      BY <1>3 DEF IdleP300
    <2>2. /\ pc' \in {"top", "gone"} /\ state' \in {"swP300", "reset"}
          /\ failCount' \in 0 .. MaxFail + 1
          /\ pc' # "gone" => failCount' <= MaxFail
      BY <1>3, <2>1, WaitForBound DEF IdleP300
    <2> QED  BY <1>3, <2>2 DEF IdleP300
  <1>4. ASSUME NEW b \in Rx, IdleWait(b)  PROVE IInv'
    <2>1. CASE hasCmd /\ ~enqOld
      BY <1>4, <2>1 DEF IdleWait
    <2>2. CASE ~(hasCmd /\ ~enqOld)
      <3>1. PICK next \in {"sendKwStart", "idle"} :
              /\ WaitFor(b, "ENQ", next, "reset")
              /\ next = "sendKwStart" => hasCmd
        BY <1>4, <2>2 DEF IdleWait
      <3>2. /\ pc' \in {"top", "gone"} /\ state' \in {next, "reset"}
            /\ failCount' \in 0 .. MaxFail + 1
            /\ pc' # "gone" => failCount' <= MaxFail
        BY <1>4, <3>1, WaitForBound DEF IdleWait
      <3>3. enqOld' \in BOOLEAN
        BY <1>4 DEF IdleWait
      <3>4. /\ Running /\ state = "idle"
            /\ UNCHANGED <<canP300, hasCmd, cmd, synOld, rxErr, callVars>>
        BY <1>4 DEF IdleWait
      <3> QED  BY <3>1, <3>2, <3>3, <3>4
    <2> QED  BY <2>1, <2>2
  <1>5. ASSUME NEW b \in Rx, WaitAck(b)  PROVE IInv'
    <2>1. PICK fail \in {"swP300", "reset"} : WaitFor(b, "ACK", "wait", fail)
      BY <1>5 DEF WaitAck
    <2>2. /\ pc' \in {"top", "gone"} /\ state' \in {"wait", fail}
          /\ failCount' \in 0 .. MaxFail + 1
          /\ pc' # "gone" => failCount' <= MaxFail
      BY <1>5, <2>1, WaitForBound DEF WaitAck
    <2>3. synOld' \in BOOLEAN /\ canP300' \in BOOLEAN
      BY <1>5 DEF WaitAck
    <2> QED  BY <1>5, <2>2, <2>3 DEF WaitAck
  <1>6. ASSUME NEW b \in Rx, WaitIdle(b)  PROVE IInv'
    BY <1>6 DEF WaitIdle, Rx, Byte
  <1>7. ASSUME NEW b \in Rx, SendP300Ack(b)  PROVE IInv'
    <2>1. CASE Reply(FALSE) /\ hasCmd' = FALSE /\ Goto("wait")
      <3>1. /\ res' \in FsmResult /\ res'.id = cmd.id
            /\ call = "waiting" /\ call' = "none" /\ ask' = ask
        BY <2>1, ReplyResult
      <3> QED BY <1>7, <2>1, <3>1 DEF SendP300Ack
    <2>2. CASE UNCHANGED <<hasCmd, callVars>> /\ (Exit \/ Goto("recvP300"))
      BY <1>7, <2>2 DEF SendP300Ack
    <2> QED  BY <1>7, <2>1, <2>2 DEF SendP300Ack
  <1>8. ASSUME NEW ok \in BOOLEAN, Reset(ok)  PROVE IInv'
    BY <1>8 DEF Reset
  <1>9. ASSUME NEW ok \in BOOLEAN, SendKwStart(ok)  PROVE IInv'
    BY <1>9 DEF SendKwStart, Write
  <1>10. ASSUME NEW ok \in BOOLEAN, SendKw(ok)  PROVE IInv'
    <2>1. cmd' \in FsmCmd /\ cmd'.id = cmd.id /\ hasCmd' = FALSE
      BY <1>10, PreparedKeepsId DEF SendKw
    <2>2. CASE Write(ok, "recvKw") /\ UNCHANGED callVars
      <3>1. pc' \in {"top", "gone"} /\ (pc' # "gone" => state' = "recvKw")
        BY <2>2 DEF Write
      <3>2. state' \in {"recvKw", "sendKw"}
        BY <1>10, <2>2 DEF SendKw, Write
      <3> QED  BY <1>10, <2>1, <2>2, <3>1, <3>2 DEF SendKw
    <2>3. CASE Reply(FALSE) /\ Goto("idle")
      <3>1. /\ res' \in FsmResult /\ res'.id = cmd.id
            /\ call = "waiting" /\ call' = "none" /\ ask' = ask
        BY <2>3, ReplyResult
      <3> QED  BY <1>10, <2>1, <2>3, <3>1 DEF SendKw
    <2> QED  BY <1>10, <2>2, <2>3 DEF SendKw
  <1>11. ASSUME NEW ok \in BOOLEAN, SwP300(ok)  PROVE IInv'
    BY <1>11 DEF SwP300, Write
  <1>12. ASSUME NEW ok \in BOOLEAN, SendP300(ok)  PROVE IInv'
    BY <1>12, PreparedKeepsId DEF SendP300, Write
  <1>13. ASSUME NEW ok \in BOOLEAN, RecvP300Ack(ok)  PROVE IInv'
    BY <1>13 DEF RecvP300Ack, Write
  <1>14. ASSUME NEW ok \in BOOLEAN, RecvP300Nak(ok)  PROVE IInv'
    BY <1>14 DEF RecvP300Nak, Write
  <1>15. ASSUME NEW a \in RxP300, RecvP300(a)  PROVE IInv'
    BY <1>15, ReplyResult DEF RecvP300, RxP300, P300Answer, AfterAnswer
  <1>16. ASSUME NEW a \in RxKw, RecvKw(a)  PROVE IInv'
    <2>1. CASE a = "timeout"
      BY <1>16, <2>1 DEF RecvKw
    <2>2. CASE Reply(FALSE) /\ Goto("idle") /\ UNCHANGED <<hasCmd, cmd, enqOld>>
      <3>1. /\ res' \in FsmResult /\ res'.id = cmd.id
            /\ call = "waiting" /\ call' = "none" /\ ask' = ask
        BY <2>2, ReplyResult
      <3>2. UNCHANGED <<failCount, canP300, synOld, rxErr>> /\ Running
        BY <1>16 DEF RecvKw
      <3>3. ~Holding' /\ pc' = "top" /\ state' = "idle"
        BY <1>16, <2>2 DEF RecvKw
      <3> QED  BY <2>2, <3>1, <3>2, <3>3
    <2>3. CASE a = "good"
      <3>1. call = "waiting" /\ cmd.id = ask.id
        BY <1>16 DEF RecvKw
      <3>2. res' = [id |-> cmd.id, ok |-> TRUE]
        BY <1>16, <2>3 DEF RecvKw
      <3>3. res' \in FsmResult /\ res'.id = cmd.id
        BY <3>2 DEF FsmResult, FsmCmd
      <3> QED  BY <1>16, <2>3, <3>1, <3>3 DEF RecvKw
    <2> QED  BY <1>16, <2>1, <2>2, <2>3 DEF RecvKw
  <1>17. CASE IdlePoll
    <2>1. CASE ~hasCmd /\ Take
      BY <1>17, <2>1 DEF IdlePoll, Take, Accept
    <2>2. CASE UNCHANGED <<hasCmd, cmd, callVars>>
      BY <1>17, <2>2 DEF IdlePoll
    <2> QED  BY <1>17, <2>1, <2>2 DEF IdlePoll
  <1>18. CASE WaitCmd
    <2>1. CASE ~hasCmd /\ Take
      BY <1>18, <2>1 DEF WaitCmd, Take, Accept
    <2>2. CASE UNCHANGED <<hasCmd, cmd, callVars>>
      BY <1>18, <2>2 DEF WaitCmd
    <2> QED  BY <1>18, <2>1, <2>2 DEF WaitCmd
  <1>19. CASE WaitSync
    BY <1>19 DEF WaitSync
  <1>20. CASE GiveUp
    BY <1>20 DEF GiveUp, EofResult, FsmResult
  <1>21. ASSUME NEW id \in Ids, NEW c \in Issued, Issue(id, c)  PROVE IInv'
    BY <1>21 DEF Issue, FsmCmd
  <1>22. CASE ReaderFails
    BY <1>22 DEF ReaderFails
  <1>23. CASE SynAges
    BY <1>23 DEF SynAges
  <1>24. CASE EnqAges
    BY <1>24 DEF EnqAges
  <1>25. ASSUME NEW connected \in BOOLEAN, Reconnect(connected)  PROVE IInv'
    <2>1. ZeroCmd \in FsmCmd /\ EofResult \in FsmResult /\ EofResult.id = NoId
      BY DEF ZeroCmd, EofResult, FsmCmd, FsmResult, CommandType
    <2>2. failCount' \in 0 .. MaxFail + 1 /\ failCount' <= MaxFail
      BY <1>25 DEF Reconnect, Connect
    <2>3. res' \in FsmResult /\ res'.id \in {NoId, ask.id}
      BY <1>25, <2>1 DEF Reconnect
    <2> QED  BY <1>25, <2>1, <2>2, <2>3 DEF Reconnect, Connect
  <1>26. ASSUME NEW connected \in BOOLEAN, Panic(connected)  PROVE IInv'
    <2>1. ZeroCmd \in FsmCmd /\ EofResult \in FsmResult /\ EofResult.id = NoId
      BY DEF ZeroCmd, EofResult, FsmCmd, FsmResult, CommandType
    <2>2. failCount' \in 0 .. MaxFail + 1 /\ failCount' <= MaxFail
      BY <1>26 DEF Panic, Connect
    <2> QED  BY <1>26, <2>1, <2>2 DEF Panic, Connect
  <1>27. CASE UNCHANGED vars
    BY <1>27 DEF vars
  <1> QED
    BY <1>1, <1>2, <1>3, <1>4, <1>5, <1>6, <1>7, <1>8, <1>9, <1>10, <1>11,
       <1>12, <1>13, <1>14, <1>15, <1>16, <1>17, <1>18, <1>19, <1>20, <1>21,
       <1>22, <1>23, <1>24, <1>25, <1>26, <1>27
       DEF Next, Fsm, Reading, Writing, Answering, Caller, Environment

\* Type correctness, for every set of IDs and every maxFail.
THEOREM TypeCorrect == Spec => []TypeOK
  <1>1. IInv => TypeOK
    BY DEF IInv
  <1> QED  BY InitIInv, NextIInv, <1>1, PTL DEF Spec

\* The machine never blocks on a result nobody waits for, nor forgets an accepted
\* command while it runs.
THEOREM HeldIffWaitingHolds == Spec => []HeldIffWaiting
  <1>1. IInv => HeldIffWaiting
    BY DEF IInv
  <1> QED  BY InitIInv, NextIInv, <1>1, PTL DEF Spec

\* RawCmds may take the next value on resChan for its own result.
THEOREM ResultForAskerHolds == Spec => []ResultForAsker
  <1>1. IInv => ResultForAsker
    BY DEF IInv
  <1> QED  BY InitIInv, NextIInv, <1>1, PTL DEF Spec

-----------------------------------------------------------------------------
\* What keeps waitAck below three failures: past the reset the count is zero
\* as long as the machine runs.
NoFailures ==
  canP300 /\ Running /\ state \notin {"unknown", "reset", "resetAck"}
    => failCount = 0

LEMMA NextNoFailures == TypeOK /\ NoFailures /\ [Next]_vars => NoFailures'
  <1> SUFFICES ASSUME TypeOK, NoFailures, [Next]_vars  PROVE NoFailures'
    OBVIOUS
  <1> USE DEF NoFailures, Running, AtState, Goto, Exit
  <1>1. ASSUME NEW b \in Rx, ResetAck(b)  PROVE NoFailures'
    BY <1>1 DEF ResetAck
  <1>2. ASSUME NEW b \in Rx, IdleP300(b)  PROVE NoFailures'
    BY <1>2 DEF IdleP300, WaitFor
  <1>3. ASSUME NEW b \in Rx, WaitAck(b)  PROVE NoFailures'
    <2>1. CASE canP300
      <3>1. failCount = 0 /\ failCount < 3
        BY <1>3, <2>1 DEF WaitAck
      <3>2. WaitFor(b, "ACK", "wait", "swP300")
        BY <1>3, <3>1 DEF WaitAck
      <3> QED  BY <3>1, <3>2 DEF WaitFor
    <2>2. CASE ~canP300
      <3>1. ~canP300'
        BY <1>3, <2>2, Zenon DEF WaitAck
      <3> QED  BY <3>1
    <2> QED  BY <2>1, <2>2
  <1>4. ASSUME NEW b \in Rx, IdleWait(b)  PROVE NoFailures'
    <2>1. CASE \E next : WaitFor(b, "ENQ", next, "reset") /\ UNCHANGED canP300
      BY <1>4, <2>1 DEF IdleWait, WaitFor, TypeOK
    <2>2. CASE Goto("sendKwStart") /\ UNCHANGED <<failCount, canP300>>
      BY <1>4, <2>2 DEF IdleWait, TypeOK
    <2> QED  BY <1>4, <2>1, <2>2 DEF IdleWait
  <1>5. CASE \E b \in Rx : WaitIdle(b) \/ SendP300Ack(b)
    BY <1>5 DEF WaitIdle, SendP300Ack
  <1>6. CASE Writing
    BY <1>6 DEF Writing, Reset, SendKwStart, SendKw, SwP300, SendP300, RecvP300Ack,
                RecvP300Nak, Write
  <1>7. ASSUME NEW a \in RxP300, RecvP300(a)  PROVE NoFailures'
    BY <1>7 DEF RecvP300
  <1>8. ASSUME NEW a \in RxKw, RecvKw(a)  PROVE NoFailures'
    BY <1>8 DEF RecvKw
  <1>9. CASE LoopTop \/ IdlePoll \/ WaitCmd \/ WaitSync
    BY <1>9 DEF LoopTop, IdlePoll, WaitCmd, WaitSync, TypeOK
  <1>10. CASE Caller
    BY <1>10 DEF Caller, GiveUp, Issue, fsmVars
  <1>11. CASE Environment
    BY <1>11 DEF Environment, ReaderFails, SynAges, EnqAges, Reconnect,
                Panic, Connect, fsmVars
  <1>12. CASE UNCHANGED vars
    BY <1>12 DEF vars, fsmVars
  <1> QED
    BY <1>1, <1>2, <1>3, <1>4, <1>5, <1>6, <1>7, <1>8, <1>9, <1>10, <1>11, <1>12
       DEF Next, Fsm, Reading, Answering

\* Only waitAck could change canP300, and it never finds three failures.
LEMMA KeepsP300 ==
  ASSUME TypeOK, NoFailures, Fsm  PROVE UNCHANGED canP300
  <1>1. ASSUME NEW b \in Rx, WaitAck(b)  PROVE UNCHANGED canP300
    <2>1. CASE canP300
      <3>1. failCount < 3
        BY <1>1, <2>1 DEF WaitAck, NoFailures, Running, AtState
      <3> QED  BY <1>1, <2>1, <3>1, Zenon DEF WaitAck
    <2>2. CASE ~canP300
      <3>1. canP300' = FALSE
        BY <1>1, <2>2, Zenon DEF WaitAck
      <3> QED  BY <2>2, <3>1 DEF TypeOK
    <2> QED  BY <2>1, <2>2
  <1>2. CASE Writing
    BY <1>2 DEF Writing, Reset, SendKwStart, SendKw, SwP300, SendP300, RecvP300Ack,
                RecvP300Nak
  <1>3. CASE \E b \in Rx : \/ ResetAck(b) \/ IdleP300(b) \/ IdleWait(b)
                          \/ WaitIdle(b) \/ SendP300Ack(b)
    BY <1>3 DEF ResetAck, IdleP300, IdleWait, WaitIdle, SendP300Ack
  <1>4. CASE Answering
    BY <1>4 DEF Answering, RecvP300, RecvKw
  <1>5. CASE LoopTop \/ IdlePoll \/ WaitCmd \/ WaitSync
    BY <1>5 DEF LoopTop, IdlePoll, WaitCmd, WaitSync
  <1> QED  BY <1>1, <1>2, <1>3, <1>4, <1>5 DEF Fsm, Reading

\* The fallback to KW is out of reach, whatever the boiler sends.
THEOREM StaysP300Holds == Spec => StaysP300
  <1>1. Init => NoFailures
    BY DEF Init, NoFailures
  <1>2. TypeOK /\ NoFailures => [Fsm => UNCHANGED canP300]_vars
    BY KeepsP300
  <1> QED  BY TypeCorrect, NextNoFailures, <1>1, <1>2, PTL DEF Spec, StaysP300

-----------------------------------------------------------------------------
\* What a step of the machine can be to the caller.
Unseen == /\ UNCHANGED <<call, ask, res>>
          /\ Running
          /\ Running' => (Holding' <=> Holding)

Accepting == /\ Accept /\ ~Holding /\ Running
             /\ Holding' /\ Running'

Replying == /\ call = "waiting" /\ call' = "none"
            /\ res'.id = cmd.id /\ ask' = ask
            /\ Running /\ Running' /\ ~Holding'

LEMMA SeenByCaller ==
  ASSUME IInv, Fsm  PROVE Unseen \/ Accepting \/ Replying
  <1> USE DEF Unseen, Accepting, Replying, Running, Holding, AtState, Goto, Exit, callVars
  <1>1. CASE LoopTop
    BY <1>1 DEF LoopTop
  <1>2. ASSUME NEW b \in Rx,
               ResetAck(b) \/ IdleP300(b) \/ IdleWait(b) \/ WaitAck(b) \/ WaitIdle(b)
        PROVE  Unseen
    <2>1. CASE ResetAck(b)
      BY <2>1 DEF ResetAck
    <2>2. CASE IdleP300(b)
      BY <2>2 DEF IdleP300, WaitFor
    <2>3. CASE IdleWait(b)
      <3>1. pc = "await" /\ state = "idle" /\ UNCHANGED <<hasCmd, callVars>>
        BY <2>3 DEF IdleWait, IInv, TypeOK
      <3>2. state' \in {"sendKwStart", "idle", "reset"}
        BY <2>3 DEF IdleWait, WaitFor
      <3> QED  BY <3>1, <3>2
    <2>4. CASE WaitAck(b)
      <3>1. PICK fail \in {"swP300", "reset"} : WaitFor(b, "ACK", "wait", fail)
        BY <2>4 DEF WaitAck
      <3> QED  BY <2>4, <3>1 DEF WaitAck, WaitFor
    <2>5. CASE WaitIdle(b)
      BY <2>5 DEF WaitIdle
    <2> QED  BY <1>2, <2>1, <2>2, <2>3, <2>4, <2>5
  <1>3. ASSUME NEW b \in Rx, SendP300Ack(b)  PROVE Unseen \/ Replying
    BY <1>3 DEF SendP300Ack, Reply
  <1>4. ASSUME NEW ok \in BOOLEAN,
               Reset(ok) \/ SendKwStart(ok) \/ SwP300(ok) \/ SendP300(ok)
                 \/ RecvP300Ack(ok) \/ RecvP300Nak(ok)
        PROVE  Unseen
    BY <1>4 DEF Reset, SendKwStart, SwP300, SendP300, RecvP300Ack, RecvP300Nak, Write
  <1>5. ASSUME NEW ok \in BOOLEAN, SendKw(ok)  PROVE Unseen \/ Replying
    BY <1>5 DEF SendKw, Write, Reply, IInv, HeldInKw
  <1>6. ASSUME NEW a \in RxP300, RecvP300(a)  PROVE Unseen \/ Replying
    <2>1. AfterAnswer(a) # "recvKw" \/ a = "timeout"
      BY DEF RxP300, P300Answer, AfterAnswer
    <2> QED  BY <1>6, <2>1 DEF RecvP300, Reply
  <1>7. ASSUME NEW a \in RxKw, RecvKw(a)  PROVE Unseen \/ Replying
    <2>1. call = "waiting" /\ ~hasCmd /\ pc = "body" /\ state = "recvKw"
      BY <1>7 DEF RecvKw, IInv, HeldInKw, HeldIffWaiting
    <2>2. CASE a = "timeout"
      BY <1>7, <2>1, <2>2 DEF RecvKw
    <2>3. CASE a = "good"
      <3>1. res'.id = cmd.id
        BY <1>7, <2>3 DEF RecvKw
      <3> QED  BY <1>7, <2>1, <2>3, <3>1 DEF RecvKw
    <2>4. CASE a \in {"partial", "refused"}
      <3>1. Reply(FALSE) /\ Goto("idle") /\ hasCmd' = hasCmd
        BY <1>7, <2>4 DEF RecvKw
      <3> QED  BY <2>1, <3>1 DEF Reply
    <2> QED  BY <2>2, <2>3, <2>4 DEF RxKw, KwAnswer
  <1>8. CASE IdlePoll
    BY <1>8 DEF IdlePoll, Take, Accept, IInv
  <1>9. CASE WaitCmd
    BY <1>9 DEF WaitCmd, Take, Accept, IInv
  <1>10. CASE WaitSync
    BY <1>10 DEF WaitSync
  <1> QED
    BY <1>1, <1>2, <1>3, <1>4, <1>5, <1>6, <1>7, <1>8, <1>9, <1>10
       DEF Fsm, Reading, Writing, Answering

LEMMA NextImplements ==
  ASSUME IInv, [Next]_vars  PROVE [Service!Next]_(Service!vars)
  <1> USE DEF Service!Next, Service!vars, Srv
  <1>1. CASE Fsm
    <2>1. CASE Unseen
      BY <2>1 DEF Unseen, Service!Fail
    <2>2. CASE Accepting
      BY <2>2 DEF Accepting, Accept, Service!Accept
    <2>3. CASE Replying
      <3>1. Holding /\ cmd.id = ask.id
        BY <2>3 DEF Replying, IInv, HeldIffWaiting
      <3> QED  BY <2>3, <3>1 DEF Replying, Service!Answer
    <2> QED  BY <1>1, <2>1, <2>2, <2>3, SeenByCaller
  <1>2. CASE GiveUp
    BY <1>2 DEF GiveUp, EofResult, fsmVars, Running, Holding, Service!GiveUp
  <1>3. ASSUME NEW id \in Ids, NEW c \in Issued, Issue(id, c)
        PROVE  Service!Next
    BY <1>3 DEF Issue, fsmVars, Running, Holding, Service!Issue
  <1>4. CASE ReaderFails \/ SynAges \/ EnqAges \/ UNCHANGED vars
    BY <1>4 DEF ReaderFails, SynAges, EnqAges, vars, fsmVars, callVars, Running, Holding
  <1>5. ASSUME NEW connected \in BOOLEAN, Reconnect(connected)
        PROVE  Service!Next
    <2>1. Service!Restart(connected)
      BY <1>5 DEF Reconnect, Connect, EofResult, Running, Holding, Service!Restart
    <2> QED  BY <2>1
  <1>6. ASSUME NEW connected \in BOOLEAN, Panic(connected)
        PROVE  Service!Next
    <2>1. Service!Crash(connected)
      BY <1>6 DEF Panic, Connect, EofResult, ZeroCmd, Running, Holding, Service!Crash
    <2> QED  BY <2>1
  <1> QED
    BY <1>1, <1>2, <1>3, <1>4, <1>5, <1>6 DEF Next, Caller, Environment

\* The machine implements the service CmdService promises.
THEOREM ImplementsService == Spec => Implements
  <1>1. Init => Service!Init
    BY DEF Init, Service!Init, ZeroCmd, EofResult, Srv, Running, Holding
  <1> QED  BY InitIInv, NextIInv, NextImplements, <1>1, PTL
              DEF Spec, Implements, Service!Spec
=============================================================================
