------------------------------- MODULE VitoFsm -------------------------------
(***************************************************************************)
(* The protocol state machine of pkg/vogo/fsm.go (vitoFsm), the RawCmds    *)
(* call it serves (commands.go) and the reader goroutine feeding it.       *)
(*                                                                         *)
(* The wire is open here: every wait for a byte may deliver any of the     *)
(* byte classes the code distinguishes, or time out.  Only one RawCmds     *)
(* call is ever inside cmdLock (commands.go:49), so one "call" stands for  *)
(* all callers.                                                            *)
(*                                                                         *)
(* Not represented: resCnt and prevstate (they only reach log lines: 340    *)
(* sets prevstate to state before the switch, so 436 always writes), the   *)
(* unused reset with P300 (386-394), and the closed-channel branches       *)
(* (Lifecycle.tla).                                                        *)
(***************************************************************************)
EXTENDS Naturals

CONSTANTS
  Ids,        \* the command IDs callers draw (NewUUID)
  NoId,       \* the zero ID of an FsmResult made by RawCmds itself
  Issued,     \* the command types callers issue
  MaxFail,    \* maxFail, 100: failed resets before the machine gives up
  CanP300     \* initial values of canP300: TRUE in the code; FALSE runs the
              \* KW half of the machine as well

CommandType == {"nop", "p300ReadData", "p300WriteData", "p300FunctionCall",
                "kwRead", "kwWrite", "gwg"}

ASSUME IdsAssumption == NoId \notin Ids
ASSUME IssuedAssumption == Issued \subseteq CommandType
ASSUME MaxFailAssumption == MaxFail \in Nat
ASSUME CanP300Assumption == CanP300 \subseteq BOOLEAN

VARIABLES
  state, pc,                    \* vitoFsm: protocol state; place in its loop
  failCount, canP300,
  hasCmd, cmd,
  synOld, enqOld,               \* lastSyn > 10 s ago, lastEnq > 1.5 s ago
  rxErr,                        \* the reader is blocked sending on e
  call, ask, res                \* the RawCmds call holding cmdLock

timeVars == <<synOld, enqOld>>
callVars == <<call, ask, res>>
fsmVars  == <<state, pc, failCount, canP300, hasCmd, cmd>>
vars     == <<fsmVars, timeVars, rxErr, callVars>>

VitoState == {"unknown", "reset", "resetAck", "idle", "sendKwStart", "sendKw",
              "recvKw", "swP300", "waitAck", "wait", "sendP300",
              "sendP300Ack", "recvP300", "recvP300Ack", "recvP300Nak"}

FsmCmd    == [id : Ids \cup {NoId}, command : CommandType]
FsmResult == [id : Ids \cup {NoId}, ok : BOOLEAN]
ZeroCmd   == [id |-> NoId, command |-> "nop"]
EofResult == [id |-> NoId, ok |-> FALSE]

\* What a wait for one byte can return: a byte of one of these classes, or the
\* error of waitforbytes after its timeouts.
Byte == {"ENQ", "ACK", "NAK", "other"}
Rx   == IF rxErr THEN {"timeout"} ELSE Byte \cup {"timeout"}

\* What reading the answer to a command can end in.  A telegram may break off
\* after at least one byte ("partial") or not start at all ("timeout").
P300Answer == {"partial", "badStart", "badType", "badCommand", "badCrc",
               "badLength", "good"}
KwAnswer   == {"partial", "refused", "good"}
RxP300     == IF rxErr THEN {"timeout"} ELSE P300Answer \cup {"timeout"}
RxKw       == IF rxErr THEN {"timeout"} ELSE KwAnswer \cup {"timeout"}

-----------------------------------------------------------------------------
(* prepareCmd: the command it leaves in cmd, and whether it can frame it.   *)

Prepared(c, st) ==
  LET names == IF st = "sendP300"
               THEN [kwRead |-> "p300ReadData", kwWrite |-> "p300WriteData"]
               ELSE [p300ReadData |-> "kwRead", p300WriteData |-> "kwWrite"]
  IN IF c.command \in DOMAIN names
     THEN [c EXCEPT !.command = names[c.command]] ELSE c

CanPrepare(c, st) ==
  Prepared(c, st).command \in
    IF st = "sendP300" THEN {"p300ReadData", "p300WriteData"}
                       ELSE {"kwRead", "kwWrite"}

-----------------------------------------------------------------------------
(* The caller's side: commands.go:78-95 for one chunk.                      *)

Issue(id, c) ==
  /\ call = "none"
  /\ call' = "offering"
  /\ ask' = [id |-> id, command |-> c]
  /\ UNCHANGED <<fsmVars, timeVars, rxErr, res>>

\* Mutant: the wait for the result is given up, too.
GiveUpWaiting ==
  /\ call # "none"
  /\ call' = "none"
  /\ res' = EofResult
  /\ UNCHANGED <<fsmVars, timeVars, rxErr, ask>>

\* The send on cmdChan is given up after 10 s.
GiveUp ==
  /\ call = "offering"
  /\ call' = "none"
  /\ res' = EofResult
  /\ UNCHANGED <<fsmVars, timeVars, rxErr, ask>>

\* The two rendezvous, as seen from vitoFsm.  The caller receives from resChan
\* as soon as it has sent, so a send on resChan can complete only while it waits.
Accept == call = "offering" /\ call' = "waiting" /\ UNCHANGED <<ask, res>>

Take == Accept /\ hasCmd' = TRUE /\ cmd' = ask

\* Mutant: a result that is logged but not sent.
ReplyLost(ok) == call = "waiting" /\ UNCHANGED callVars

Reply(ok) ==
  /\ call = "waiting"
  /\ call' = "none"
  /\ res' = [id |-> cmd.id, ok |-> ok]
  /\ UNCHANGED ask

-----------------------------------------------------------------------------
(* vitoFsm.  Every action below the loop top is one pass of the switch.     *)

AtState(st) == pc = "body" /\ state = st

Goto(st) == pc' = "top" /\ state' = st
Exit     == pc' = "gone" /\ UNCHANGED state

\* Mutant: the error is taken from e and only logged.
LoopTopSwallows ==
  /\ pc = "top"
  /\ pc' = "body"
  /\ rxErr' = FALSE
  /\ UNCHANGED <<state, failCount, canP300, hasCmd, cmd, timeVars, callVars>>

LoopTop ==
  /\ pc = "top"
  /\ pc' = IF rxErr THEN "gone" ELSE "body"
  /\ rxErr' = FALSE
  /\ UNCHANGED <<state, failCount, canP300, hasCmd, cmd, timeVars, callVars>>

\* Mutant: unexpected bytes are counted as failures, too.
WaitForCounting(b, w, next, fail) ==
  /\ failCount' = IF b = w THEN 0 ELSE failCount + 1
  /\ pc' = IF b = "timeout" THEN "gone" ELSE "top"
  /\ state' = IF b = w THEN next ELSE fail

\* A byte w leads to next and clears the fail count, another one leads to fail
\* and leaves the count alone; only the error of the read itself is counted,
\* and every caller of waitfor then returns.
WaitFor(b, w, next, fail) ==
  \/ /\ b = "timeout"
     /\ failCount' = failCount + 1
     /\ pc' = "gone" /\ state' = fail
  \/ /\ b = w
     /\ failCount' = 0
     /\ Goto(next)
  \/ /\ b \notin {w, "timeout"}
     /\ UNCHANGED failCount
     /\ Goto(fail)

\* States that only write and move on; the write may fail.
Write(ok, next) == IF ok THEN Goto(next) ELSE Exit

\* Mutant: every reset starts counting anew.
ResetForgets(ok) ==
  /\ AtState("unknown") \/ AtState("reset")
  /\ IF ok THEN Goto("resetAck") ELSE pc' = "gone" /\ state' = "reset"
  /\ failCount' = 0
  /\ UNCHANGED <<canP300, hasCmd, cmd, timeVars, rxErr, callVars>>

Reset(ok) ==
  /\ AtState("unknown") \/ AtState("reset")
  /\ IF ok THEN Goto("resetAck") ELSE pc' = "gone" /\ state' = "reset"
  /\ UNCHANGED <<failCount, canP300, hasCmd, cmd, timeVars, rxErr, callVars>>

\* Mutant: one failed reset too many.
GivesUpLate(fails) == fails > MaxFail + 1

GivesUp(fails) == fails > MaxFail

ResetAck(b) ==
  /\ AtState("resetAck")
  /\ \/ /\ b = "timeout"
        /\ Exit
        /\ UNCHANGED <<failCount, enqOld>>
     \/ /\ b \in {"ENQ", "ACK"}
        /\ failCount' = 0
        /\ enqOld' = FALSE
        /\ Goto("idle")
     \/ /\ b \in {"NAK", "other"}
        /\ failCount' = failCount + 1
        /\ IF GivesUp(failCount') THEN Exit ELSE Goto("reset")
        /\ UNCHANGED enqOld
  /\ UNCHANGED <<canP300, hasCmd, cmd, synOld, rxErr, callVars>>

IdleP300(b) ==
  /\ AtState("idle") /\ canP300
  /\ WaitFor(b, "ENQ", "swP300", "reset")
  /\ enqOld' = IF b = "timeout" THEN enqOld ELSE FALSE
  /\ UNCHANGED <<canP300, hasCmd, cmd, synOld, rxErr, callVars>>

\* idle in KW mode first polls cmdChan, then may wait for the boiler's ENQ.
IdlePoll ==
  /\ AtState("idle") /\ ~canP300
  /\ \/ /\ ~hasCmd
        /\ Take
     \/ /\ hasCmd \/ call # "offering"
        /\ UNCHANGED <<hasCmd, cmd, callVars>>
  /\ pc' = "await"
  /\ UNCHANGED <<state, failCount, canP300, timeVars, rxErr>>

IdleWait(b) ==
  /\ pc = "await"
  /\ \/ /\ hasCmd /\ enqOld
        /\ WaitFor(b, "ENQ", "sendKwStart", "reset")
        /\ UNCHANGED enqOld
     \/ /\ hasCmd /\ ~enqOld
        /\ Goto("sendKwStart")
        /\ UNCHANGED <<failCount, enqOld>>
     \/ /\ ~hasCmd
        /\ WaitFor(b, "ENQ", "idle", "reset")
        /\ enqOld' = IF b = "timeout" THEN enqOld ELSE FALSE
  /\ UNCHANGED <<canP300, hasCmd, cmd, synOld, rxErr, callVars>>

SendKwStart(ok) ==
  /\ AtState("sendKwStart")
  /\ Write(ok, "sendKw")
  /\ UNCHANGED <<failCount, canP300, hasCmd, cmd, timeVars, rxErr, callVars>>

\* Mutant: the command sent is still counted as held.
SendKwKeeps(ok) ==
  /\ AtState("sendKw")
  /\ cmd' = Prepared(cmd, "sendKw")
  /\ \/ CanPrepare(cmd, "sendKw") /\ Write(ok, "recvKw") /\ UNCHANGED callVars
     \/ ~CanPrepare(cmd, "sendKw") /\ Reply(FALSE) /\ Goto("idle")
  /\ UNCHANGED <<failCount, canP300, hasCmd, timeVars, rxErr>>

SendKw(ok) ==
  /\ AtState("sendKw")
  /\ hasCmd' = FALSE
  /\ cmd' = Prepared(cmd, "sendKw")
  /\ \/ /\ CanPrepare(cmd, "sendKw")
        /\ Write(ok, "recvKw")
        /\ UNCHANGED callVars
     \/ /\ ~CanPrepare(cmd, "sendKw")
        /\ Reply(FALSE)
        /\ Goto("idle")
  /\ UNCHANGED <<failCount, canP300, timeVars, rxErr>>

\* After a complete answer the code polls cmdChan before it replies: a command
\* found there would take the place of the one being answered.
RecvKw(a) ==
  /\ AtState("recvKw")
  /\ \/ /\ a = "timeout"
        /\ Exit
        /\ UNCHANGED <<hasCmd, cmd, enqOld, callVars>>
     \/ /\ a \in {"partial", "refused"}
        /\ a = "refused" => cmd.command = "kwWrite"
        /\ Reply(FALSE)
        /\ Goto("idle")
        /\ UNCHANGED <<hasCmd, cmd, enqOld>>
     \/ /\ a = "good"
        /\ call # "none"
        /\ hasCmd' = (call = "offering")
        /\ cmd' = IF call = "offering" THEN ask ELSE cmd
        /\ Goto(IF call = "offering" THEN "sendKwStart" ELSE "idle")
        /\ call' = "none"
        /\ res' = [id |-> cmd.id, ok |-> TRUE]
        /\ UNCHANGED ask
        /\ enqOld' = FALSE
  /\ UNCHANGED <<failCount, canP300, synOld, rxErr>>

SwP300(ok) ==
  /\ AtState("swP300")
  /\ Write(ok, "waitAck")
  /\ UNCHANGED <<failCount, canP300, hasCmd, cmd, timeVars, rxErr, callVars>>

WaitAck(b) ==
  /\ AtState("waitAck")
  /\ WaitFor(b, "ACK", "wait", IF failCount < 3 THEN "swP300" ELSE "reset")
  /\ canP300' = (canP300 /\ failCount < 3)
  /\ synOld' = IF b = "timeout" THEN synOld ELSE FALSE
  /\ UNCHANGED <<hasCmd, cmd, enqOld, rxErr, callVars>>

\* Mutant: a byte nobody asked for is dropped instead of resetting.
WaitIdleIgnores(b) ==
  /\ AtState("wait") /\ ~synOld /\ ~hasCmd
  /\ Goto(IF b = "timeout" THEN "swP300" ELSE "wait")
  /\ UNCHANGED <<failCount, canP300, hasCmd, cmd, timeVars, rxErr, callVars>>

\* The select of state wait: a command, an unexpected byte, or 10 s of silence.
WaitIdle(b) ==
  /\ AtState("wait") /\ ~synOld /\ ~hasCmd
  /\ \/ /\ b = "timeout"
        /\ Goto("swP300")
     \/ /\ b # "timeout"
        /\ Goto("reset")
  /\ UNCHANGED <<failCount, canP300, hasCmd, cmd, timeVars, rxErr, callVars>>

WaitCmd ==
  /\ AtState("wait") /\ ~synOld
  /\ \/ /\ ~hasCmd
        /\ Take
     \/ /\ hasCmd
        /\ UNCHANGED <<hasCmd, cmd, callVars>>
  /\ Goto("sendP300")
  /\ UNCHANGED <<failCount, canP300, timeVars, rxErr>>

WaitSync ==
  /\ AtState("wait") /\ synOld
  /\ Goto("swP300")
  /\ UNCHANGED <<failCount, canP300, hasCmd, cmd, timeVars, rxErr, callVars>>

\* Mutant: a command that cannot be framed is dropped.
SendP300Drops(ok) ==
  /\ AtState("sendP300")
  /\ cmd' = Prepared(cmd, "sendP300")
  /\ IF CanPrepare(cmd, "sendP300")
     THEN Write(ok, "sendP300Ack") /\ UNCHANGED hasCmd
     ELSE Goto("wait") /\ hasCmd' = FALSE
  /\ UNCHANGED <<failCount, canP300, timeVars, rxErr, callVars>>

\* A command prepareCmd refuses is logged and kept; the caller is not told.
SendP300(ok) ==
  /\ AtState("sendP300")
  /\ cmd' = Prepared(cmd, "sendP300")
  /\ IF CanPrepare(cmd, "sendP300") THEN Write(ok, "sendP300Ack")
                                    ELSE Goto("wait")
  /\ UNCHANGED <<failCount, canP300, hasCmd, timeVars, rxErr, callVars>>

SendP300Ack(b) ==
  /\ AtState("sendP300Ack")
  /\ \/ /\ b = "timeout"
        /\ Exit
        /\ UNCHANGED <<hasCmd, callVars>>
     \/ /\ b = "ACK"
        /\ Goto("recvP300")
        /\ UNCHANGED <<hasCmd, callVars>>
     \/ /\ b \notin {"ACK", "timeout"}
        /\ Reply(FALSE)
        /\ hasCmd' = FALSE
        /\ Goto("wait")
  /\ UNCHANGED <<failCount, canP300, cmd, timeVars, rxErr>>

\* Mutant: a bad start byte is treated like a bad checksum.
AfterAnswerNoReset(a) ==
  IF a = "partial" THEN "reset"
  ELSE IF a \in {"badLength", "good"} THEN "recvP300Ack" ELSE "recvP300Nak"

\* Where each outcome of the answer telegram leaves the machine.
AfterAnswer(a) ==
  CASE a \in {"partial", "badStart"}               -> "reset"
    [] a \in {"badType", "badCommand", "badCrc"}   -> "recvP300Nak"
    [] a \in {"badLength", "good"}                 -> "recvP300Ack"

RecvP300(a) ==
  /\ AtState("recvP300")
  /\ hasCmd' = FALSE
  /\ \/ /\ a = "timeout"
        /\ pc' = "gone" /\ state' = "recvP300Nak"
        /\ UNCHANGED callVars
     \/ /\ a # "timeout"
        /\ Reply(a = "good")
        /\ Goto(AfterAnswer(a))
  /\ UNCHANGED <<failCount, canP300, cmd, timeVars, rxErr>>

RecvP300Ack(ok) ==
  /\ AtState("recvP300Ack")
  /\ Write(ok, "wait")
  /\ UNCHANGED <<failCount, canP300, hasCmd, cmd, timeVars, rxErr, callVars>>

RecvP300Nak(ok) ==
  /\ AtState("recvP300Nak")
  /\ Write(ok, "wait")
  /\ UNCHANGED <<failCount, canP300, hasCmd, cmd, timeVars, rxErr, callVars>>

-----------------------------------------------------------------------------
(* What happens around the machine.                                         *)

\* device.Read fails: the reader will hand the error over at a loop top.
ReaderFails ==
  /\ ~rxErr /\ pc # "gone"
  /\ rxErr' = TRUE
  /\ UNCHANGED <<fsmVars, timeVars, callVars>>

SynAges == ~synOld /\ synOld' = TRUE
           /\ UNCHANGED <<fsmVars, enqOld, rxErr, callVars>>

EnqAges == ~enqOld /\ enqOld' = TRUE
           /\ UNCHANGED <<fsmVars, synOld, rxErr, callVars>>

\* Connect starts a fresh machine, or fails and leaves none.
Connect(connected) ==
  /\ pc' = IF connected THEN "top" ELSE "gone"
  /\ state' = "unknown"
  /\ failCount' = 0
  /\ canP300' \in CanP300
  /\ hasCmd' = FALSE
  /\ cmd' = ZeroCmd
  /\ synOld' = FALSE /\ enqOld' = FALSE
  /\ rxErr' = FALSE

\* The supervisor's Reconnect after the machine is gone: closing cmdChan and
\* resChan ends a pending call with an error.
Reconnect(connected) ==
  /\ pc = "gone"
  /\ call' = "none"
  /\ res' = IF call = "none" THEN res ELSE EofResult
  /\ Connect(connected)
  /\ UNCHANGED ask

\* A telegram whose length is too small for its fields: indexing it panics (630,
\* 648, 654), nothing recovers, and the service manager starts the process anew.
Panic(connected) ==
  /\ AtState("recvP300") /\ ~rxErr
  /\ call' = "none" /\ ask' = ZeroCmd /\ res' = EofResult
  /\ Connect(connected)

-----------------------------------------------------------------------------
Init ==
  /\ state = "unknown" /\ pc = "top"
  /\ failCount = 0 /\ canP300 \in CanP300
  /\ hasCmd = FALSE /\ cmd = ZeroCmd
  /\ synOld = FALSE /\ enqOld = FALSE
  /\ rxErr = FALSE
  /\ call = "none" /\ ask = ZeroCmd /\ res = EofResult

Reading == \E b \in Rx : \/ ResetAck(b) \/ IdleP300(b) \/ IdleWait(b)
                         \/ WaitAck(b) \/ WaitIdle(b) \/ SendP300Ack(b)

Writing == \E ok \in BOOLEAN : \/ Reset(ok) \/ SendKwStart(ok) \/ SendKw(ok)
                               \/ SwP300(ok) \/ SendP300(ok)
                               \/ RecvP300Ack(ok) \/ RecvP300Nak(ok)

Answering == \/ \E a \in RxP300 : RecvP300(a)
             \/ \E a \in RxKw : RecvKw(a)

Fsm == LoopTop \/ Reading \/ Writing \/ Answering
       \/ IdlePoll \/ WaitCmd \/ WaitSync

Caller == GiveUp \/ \E id \in Ids, c \in Issued : Issue(id, c)

Environment == \/ ReaderFails \/ SynAges \/ EnqAges
               \/ \E connected \in BOOLEAN : Reconnect(connected) \/ Panic(connected)

Next == Fsm \/ Caller \/ Environment

Spec == Init /\ [][Next]_vars

\* The machine's goroutine runs.  Nothing is assumed of main, which need not come
\* to reconnect (runs startup and stranded of Lifecycle), nor of callers.
Fairness == WF_vars(Fsm)

FairSpec == Spec /\ Fairness

-----------------------------------------------------------------------------
(* Properties.                                                              *)

Running == pc # "gone"
Holding == hasCmd \/ state = "recvKw"

TypeOK ==
  /\ state \in VitoState
  /\ pc \in {"top", "body", "await", "gone"}
  /\ pc = "await" => state = "idle"
  /\ failCount \in 0 .. MaxFail + 1
  /\ canP300 \in BOOLEAN
  /\ hasCmd \in BOOLEAN
  /\ cmd \in FsmCmd
  /\ synOld \in BOOLEAN /\ enqOld \in BOOLEAN
  /\ rxErr \in BOOLEAN
  /\ call \in {"none", "offering", "waiting"}
  /\ ask \in FsmCmd
  /\ res \in FsmResult

\* While the machine runs, a call waits for a result exactly when the machine
\* holds a command, and the command is that call's.  So no send on resChan can
\* block the machine, no accepted command is forgotten, and none is answered
\* twice (hasCmd and cmd against the rendezvous on cmdChan and resChan).
HeldIffWaiting ==
  Running => /\ (call = "waiting") <=> Holding
             /\ Holding => cmd.id = ask.id

\* A call ends with the result of its own command, or with an error RawCmds made
\* itself; RawCmds never compares result.ID (commands.go:92), it relies on this.
ResultForAsker == call = "none" => res.id \in {NoId, ask.id}

\* The machine never leaves P300: waitAck looks for three failures, but the
\* failures waitfor counts end the machine and those of resetAck are cleared
\* before waitAck, so the KW fallback of 509-512 is not taken.
StaysP300 == [][Fsm => UNCHANGED canP300]_vars

\* Seen by a caller, the machine is the plain service of CmdService: accepting is
\* its only way to become busy, and answering, once and with the ID asked for,
\* or dying its only ways out.
Srv == IF ~Running THEN "down" ELSE IF Holding THEN "busy" ELSE "free"
Service == INSTANCE CmdService WITH ask <- ask.id, res <- res.id, srv <- Srv
Implements == Service!Spec

\* The machine answers every call it has accepted, or ends.
CallReturns == (call = "waiting") ~> (call # "waiting" \/ pc = "gone")

\* In P300, the machine answers an accepted call or ends when prepareCmd can frame
\* the command at all.  (In KW a boiler may alternate ENQ and garbage and keep a
\* call waiting.)  What becomes of the call of a machine that has ended is main's
\* to decide: CallEnds and StartupEnds of Lifecycle.
FramedCallReturns ==
  (call = "waiting" /\ canP300 /\ CanPrepare(ask, "sendP300"))
    ~> (call # "waiting" \/ pc = "gone")

\* A read error ends the machine, in whatever state it is met, so that there is an
\* end that main can be told of.
ErrorEnds == rxErr ~> (pc = "gone")

\* The machine does not reset a boiler that answers nothing but garbage forever:
\* again and again it gets past the reset or is gone (maxFail).
ResetsEnd == []<>(state \notin {"unknown", "reset", "resetAck"} \/ ~Running)

=============================================================================
