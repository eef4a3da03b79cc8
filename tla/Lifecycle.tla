------------------------------ MODULE Lifecycle ------------------------------
(***************************************************************************)
(* How a connection lives and dies: the goroutines of one vogod process    *)
(* and what they share in Device (device.go).                              *)
(*                                                                         *)
(*   main        startup command, then the loop that reconnects            *)
(*               (main.go:349-458), "sup" here                             *)
(*   vitoFsm     reduced to accepting, answering and ending, which it      *)
(*               announces on device.Done (fsm.go:227-230); VitoFsm.tla    *)
(*               has what it does in between                               *)
(*   reader      one per machine, fsm.go:297-323; it outlives its machine  *)
(*   callers     one RawCmds call at a time (cmdLock)                      *)
(*                                                                         *)
(* device.Done is unbuffered and is used in two ways: the machine sends    *)
(* its end on it, Close closes it.  Connections are numbered by gen.       *)
(***************************************************************************)
EXTENDS Naturals

CONSTANT MaxGen      \* bound on the connections of one process
ASSUME MaxGenAssumption == MaxGen \in Nat \ {0}

VARIABLES
  sup,        \* main: startup, load, loop, done, pause, close, renew, exited
  fsm,        \* none, run, busy with a command, exit: blocked sending on Done
  rd,         \* rd[g]: the reader of connection g
  src,        \* src[g]: the connection that reader g's Read call uses
  gen, connected, done,
  call,       \* the RawCmds call inside cmdLock: none, offering, waiting, or
              \* stuck: accepted, but the machine cannot frame its command
  stolen      \* history: a reader received the machine's end from Done

vars == <<sup, fsm, rd, src, gen, connected, done, call, stolen>>

Gens == 1 .. MaxGen
Running == fsm \in {"run", "busy"}
LockHeld == \E g \in Gens : rd[g] = "read"       \* rlock, Close never keeps it

\* The state after NewDevice and the first Connect, whose error main ignores.
Fresh(up) ==
  [sup |-> "startup", fsm |-> IF up THEN "run" ELSE "none",
   rd |-> [g \in Gens |-> IF up /\ g = 1 THEN "poll" ELSE "none"],
   gen |-> IF up THEN 1 ELSE 0, done |-> IF up THEN "open" ELSE "nil"]

Init ==
  \E up \in BOOLEAN :
    /\ sup = Fresh(up).sup /\ fsm = Fresh(up).fsm /\ rd = Fresh(up).rd
    /\ src = [g \in Gens |-> 0]
    /\ gen = Fresh(up).gen /\ connected = up /\ done = Fresh(up).done
    /\ call = "none" /\ stolen = FALSE

-----------------------------------------------------------------------------
(* Callers.  main makes the only call before the HTTP server runs, and      *)
(* returns when it fails (main.go:356-359).                                 *)

MayCall == sup \notin {"load", "exited"}

\* The call ends, with an error or not; at startup main goes on or returns.
EndCall(ok) ==
  /\ call' = "none"
  /\ sup' = IF sup # "startup" THEN sup ELSE IF ok THEN "load" ELSE "exited"

Issue ==
  /\ MayCall /\ call = "none"
  /\ call' = "offering"
  /\ UNCHANGED <<sup, fsm, rd, src, gen, connected, done, stolen>>

GiveUp ==
  /\ sup # "exited" /\ call = "offering"
  /\ EndCall(FALSE)
  /\ UNCHANGED <<fsm, rd, src, gen, connected, done, stolen>>

\* The identification command is a read of the form the machine can frame; one
\* that prepareCmd refuses is neither answered nor dropped (fsm.go:558).
Accept(framed) ==
  /\ sup # "exited" /\ call = "offering" /\ fsm = "run"
  /\ sup = "startup" => framed
  /\ call' = IF framed THEN "waiting" ELSE "stuck"
  /\ fsm' = "busy"
  /\ UNCHANGED <<sup, rd, src, gen, connected, done, stolen>>

Answer(ok) ==
  /\ sup # "exited" /\ call = "waiting" /\ fsm = "busy"
  /\ EndCall(ok) /\ fsm' = "run"
  /\ UNCHANGED <<rd, src, gen, connected, done, stolen>>

-----------------------------------------------------------------------------
(* The machine ends: after a timeout, a failed Write or too many resets, or *)
(* because the reader handed over an error.  The send on Done is taken at   *)
(* once when main already waits for it.                                     *)

End == IF sup = "done" THEN fsm' = "none" /\ sup' = "pause"
                       ELSE fsm' = "exit" /\ UNCHANGED sup

FsmEnds ==
  /\ sup # "exited" /\ Running
  /\ End
  /\ UNCHANGED <<rd, src, gen, connected, done, call, stolen>>

-----------------------------------------------------------------------------
(* The reader goroutine, and Read of device.go.                             *)

\* select on device.Done, the Done of the current connection.
ReaderPoll(g) ==
  /\ sup # "exited" /\ rd[g] = "poll"
  /\ rd' = [rd EXCEPT ![g] = IF done = "closed" \/ fsm = "exit" THEN "ended"
                                                                ELSE "lock"]
  /\ fsm' = IF fsm = "exit" THEN "none" ELSE fsm
  /\ stolen' = (stolen \/ fsm = "exit")
  /\ UNCHANGED <<sup, src, gen, connected, done, call>>

\* Read up to the blocking read of the connection.
ReaderLock(g) ==
  /\ sup # "exited" /\ rd[g] = "lock" /\ ~LockHeld
  /\ LET takes == connected /\ fsm = "exit"
         eof   == ~connected \/ done = "closed" \/ fsm = "exit"
     IN /\ rd' = [rd EXCEPT ![g] = IF eof THEN "err" ELSE "read"]
        /\ src' = [src EXCEPT ![g] = IF eof THEN @ ELSE gen]
        /\ fsm' = IF takes THEN "none" ELSE fsm
        /\ stolen' = (stolen \/ takes)
        /\ connected' = (connected /\ ~eof)
  /\ UNCHANGED <<sup, gen, done, call>>

LinkByte(g) ==
  /\ sup # "exited" /\ rd[g] = "read"
  /\ rd' = [rd EXCEPT ![g] = "push"]
  /\ UNCHANGED <<sup, fsm, src, gen, connected, done, call, stolen>>

LinkError(g) ==
  /\ sup # "exited" /\ rd[g] = "read"
  /\ rd' = [rd EXCEPT ![g] = "err"]
  /\ UNCHANGED <<sup, fsm, src, gen, connected, done, call, stolen>>

\* c and e belong to the machine the reader was started by: when that one has
\* ended, nobody receives from them any more.
ReaderPush(g) ==
  /\ sup # "exited" /\ rd[g] = "push" /\ g = gen /\ Running
  /\ rd' = [rd EXCEPT ![g] = "poll"]
  /\ UNCHANGED <<sup, fsm, src, gen, connected, done, call, stolen>>

ReaderErr(g) ==
  /\ sup # "exited" /\ rd[g] = "err" /\ g = gen /\ Running
  /\ rd' = [rd EXCEPT ![g] = "ended"]
  /\ End
  /\ UNCHANGED <<src, gen, connected, done, call, stolen>>

-----------------------------------------------------------------------------
(* main: loading the definitions, then the loop around Reconnect.           *)

\* The definitions are loaded, or main returns (a file or an entry is missing).
Loaded(ok) ==
  /\ sup = "load"
  /\ sup' = IF ok THEN "loop" ELSE "exited"
  /\ UNCHANGED <<fsm, rd, src, gen, connected, done, call, stolen>>

\* <-conn.Done: closed, sent on, or neither yet.
SupDone ==
  /\ sup = "loop"
  /\ sup' = IF done = "closed" \/ fsm = "exit" THEN "pause" ELSE "done"
  /\ fsm' = IF fsm = "exit" THEN "none" ELSE fsm
  /\ UNCHANGED <<rd, src, gen, connected, done, call, stolen>>

\* Mutant: reconnect at once.
SupNoPause ==
  /\ sup = "pause"
  /\ sup' = "close"
  /\ UNCHANGED <<fsm, rd, src, gen, connected, done, call, stolen>>

\* 12 s: every reader has had the time to get to where it blocks.
SupPause ==
  /\ sup = "pause"
  /\ \A g \in Gens : rd[g] # "poll" /\ (rd[g] = "lock" => LockHeld)
  /\ sup' = "close"
  /\ UNCHANGED <<fsm, rd, src, gen, connected, done, call, stolen>>

\* Close waits for rlock, that is for a reader blocked in Read.
SupClose ==
  /\ sup = "close" /\ ~LockHeld
  /\ done' = "closed" /\ connected' = FALSE
  /\ sup' = "renew"
  /\ UNCHANGED <<fsm, rd, src, gen, call, stolen>>

\* Mutant: Connect keeps the Done channel of the last connection.
ConnectKeepsDone(up) ==
  /\ up => gen < MaxGen
  /\ gen' = IF up THEN gen + 1 ELSE gen
  /\ fsm' = IF up THEN "run" ELSE "none"
  /\ rd' = IF up THEN [rd EXCEPT ![gen + 1] = "poll"] ELSE rd
  /\ connected' = up
  /\ UNCHANGED done

\* Mutant: the machine is started without its reader.
ConnectNoReader(up) ==
  /\ up => gen < MaxGen
  /\ gen' = IF up THEN gen + 1 ELSE gen
  /\ fsm' = IF up THEN "run" ELSE "none"
  /\ done' = IF up THEN "open" ELSE done
  /\ connected' = up
  /\ UNCHANGED rd

\* A new link, Done channel, machine and reader; or an error that leaves the
\* device as Close left it.
Connect(up) ==
  /\ up => gen < MaxGen
  /\ gen' = IF up THEN gen + 1 ELSE gen
  /\ fsm' = IF up THEN "run" ELSE "none"
  /\ rd' = IF up THEN [rd EXCEPT ![gen + 1] = "poll"] ELSE rd
  /\ done' = IF up THEN "open" ELSE done
  /\ connected' = up

\* Mutant: Reconnect also waits for the readers to end.
SupRenewJoins(up) ==
  /\ sup = "renew" /\ fsm = "none" /\ \A g \in Gens : rd[g] \in {"none", "ended"}
  /\ call' = "none"
  /\ Connect(up)
  /\ sup' = "loop"
  /\ UNCHANGED <<src, stolen>>

\* Mutant: the command and result channels are not closed.
SupRenewKeepsCall(up) ==
  /\ sup = "renew" /\ fsm = "none" /\ ~LockHeld
  /\ Connect(up)
  /\ sup' = "loop"
  /\ UNCHANGED <<call, src, stolen>>

\* The rest of Reconnect: wg.Wait, new channels (closing the old ones ends a
\* pending call with an error), and Connect.
SupRenew(up) ==
  /\ sup = "renew" /\ fsm = "none" /\ ~LockHeld
  /\ call' = "none"
  /\ Connect(up)
  /\ sup' = "loop"
  /\ UNCHANGED <<src, stolen>>

\* vogod.service: Restart=always.
ServiceRestart(up) ==
  /\ sup = "exited"
  /\ sup' = Fresh(up).sup /\ fsm' = Fresh(up).fsm /\ rd' = Fresh(up).rd
  /\ src' = [g \in Gens |-> 0]
  /\ gen' = Fresh(up).gen /\ connected' = up /\ done' = Fresh(up).done
  /\ call' = "none" /\ stolen' = FALSE

-----------------------------------------------------------------------------
Serves == FsmEnds \/ \E ok \in BOOLEAN : Answer(ok)

Machine == Serves \/ \E framed \in BOOLEAN : Accept(framed)

Link(g) == LinkByte(g) \/ LinkError(g)

Reader(g) == ReaderPoll(g) \/ ReaderLock(g) \/ ReaderPush(g) \/ ReaderErr(g)

Main == \/ SupDone \/ SupPause \/ SupClose
        \/ \E ok \in BOOLEAN : Loaded(ok) \/ SupRenew(ok)

Restart == \E up \in BOOLEAN : ServiceRestart(up)

Next == \/ Issue \/ GiveUp \/ Machine \/ Main \/ Restart
        \/ \E g \in Gens : Link(g) \/ Reader(g)

Spec == Init /\ [][Next]_vars

\* Goroutines that can run do; a call is given up after 10 s; a machine that has
\* accepted a command it can frame answers it or ends (FramedCallReturns of
\* VitoFsm), any other one need do neither; a link is not silent forever.
Fairness ==
  /\ WF_vars(Main) /\ WF_vars(Restart) /\ WF_vars(GiveUp)
  /\ WF_vars(sup = "startup" /\ Issue)
  /\ WF_vars(call = "waiting" /\ fsm = "busy" /\ Serves)
  /\ \A g \in Gens : WF_vars(Link(g)) /\ WF_vars(Reader(g))

FairSpec == Spec /\ Fairness

-----------------------------------------------------------------------------
TypeOK ==
  /\ sup \in {"startup", "load", "loop", "done", "pause", "close", "renew",
              "exited"}
  /\ fsm \in {"none", "run", "busy", "exit"}
  /\ rd \in [Gens -> {"none", "poll", "lock", "read", "push", "err", "ended"}]
  /\ src \in [Gens -> 0 .. MaxGen]
  /\ gen \in 0 .. MaxGen
  /\ \A g \in Gens : rd[g] = "none" <=> g > gen
  /\ connected \in BOOLEAN
  /\ done \in {"nil", "open", "closed"}
  /\ call \in {"none", "offering", "waiting", "stuck"}
  /\ stolen \in BOOLEAN

\* While a machine runs or announces its end, Done is an open channel: its send
\* neither panics on a closed channel nor blocks forever on a nil one, and the
\* checks of Done in vitoFsm, Write and Read never see a close meant for another
\* connection.
DoneSafe == fsm # "none" => done = "open"

\* No reader reads from a connection other than its own.
OwnConnection == \A g \in Gens : rd[g] = "read" => src[g] = g

\* Once started, a reconnect comes to its end: Close gets rlock, wg.Wait returns.
ReconnectCompletes == sup = "pause" ~> sup = "loop"

\* Outside startup an accepted call ends, by an answer or by the reconnect after
\* its machine has ended, unless its command could not be framed (run fsm_stuck)
\* or a reader has received the end of the machine that main was to receive.
CallEnds == call = "waiting" /\ sup # "startup" ~> call # "waiting" \/ stolen

\* A reader leaves through Done only when the device is closed, so main is never
\* left waiting for the end of a machine that has ended.
NotStranded == sup = "done" => fsm # "none"

\* The startup command returns, and main goes on or exits.
StartupEnds == sup = "startup" ~> sup # "startup"
=============================================================================
