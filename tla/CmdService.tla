----------------------------- MODULE CmdService ------------------------------
(***************************************************************************)
(* What the machine promises a caller of RawCmd, without any protocol: at  *)
(* most one command is being served; an accepted command is answered once, *)
(* with its own ID, or the service goes down and the call is ended with an *)
(* error when it is restarted, or everything starts anew.  VitoFsm.tla is  *)
(* shown to implement it.                                                  *)
(***************************************************************************)
CONSTANTS Ids, NoId

VARIABLES
  call,      \* the one call inside cmdLock: none, offering, waiting
  ask,       \* the ID it asked for
  res,       \* the ID in the last result, NoId for an error of the call itself
  srv        \* free, busy or down

vars == <<call, ask, res, srv>>

Init == call = "none" /\ ask = NoId /\ res = NoId /\ srv = "free"

Issue(id) ==
  /\ call = "none"
  /\ call' = "offering"
  /\ ask' = id
  /\ UNCHANGED <<res, srv>>

GiveUp ==
  /\ call = "offering"
  /\ call' = "none"
  /\ res' = NoId
  /\ UNCHANGED <<ask, srv>>

Accept ==
  /\ call = "offering" /\ srv = "free"
  /\ call' = "waiting" /\ srv' = "busy"
  /\ UNCHANGED <<ask, res>>

Answer ==
  /\ call = "waiting" /\ srv = "busy"
  /\ call' = "none" /\ srv' = "free"
  /\ res' = ask
  /\ UNCHANGED ask

Fail ==
  /\ srv # "down"
  /\ srv' = "down"
  /\ UNCHANGED <<call, ask, res>>

Restart(up) ==
  /\ srv = "down"
  /\ srv' = IF up THEN "free" ELSE "down"
  /\ call' = "none"
  /\ res' = IF call = "none" THEN res ELSE NoId
  /\ UNCHANGED ask

\* The process is started anew, callers included.
Crash(up) ==
  /\ srv' = IF up THEN "free" ELSE "down"
  /\ call' = "none" /\ ask' = NoId /\ res' = NoId

Next == \/ \E id \in Ids : Issue(id)
        \/ GiveUp \/ Accept \/ Answer \/ Fail
        \/ \E up \in BOOLEAN : Restart(up) \/ Crash(up)

Spec == Init /\ [][Next]_vars
=============================================================================
