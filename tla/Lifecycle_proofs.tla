-------------------------- MODULE Lifecycle_proofs --------------------------
(* What holds of Lifecycle for any number of connections of one process.      *)
EXTENDS Lifecycle, TLAPS

USE MaxGenAssumption

\* main reconnects only when there is no machine.
NoMachine == sup \in {"pause", "close", "renew"} => fsm = "none"

\* The readers of earlier connections have left Read for good: they have ended or
\* are blocked on a channel nobody receives from.
PastReaders == \A g \in Gens : g < gen => rd[g] \in {"push", "err", "ended"}

\* Where the pause and Close leave the current reader.
Quiet == /\ sup \in {"close", "renew"} => \A g \in Gens : rd[g] \notin {"poll", "lock"}
         /\ sup = "renew" => \A g \in Gens : rd[g] # "read"

LInv == TypeOK /\ DoneSafe /\ OwnConnection /\ NoMachine /\ PastReaders /\ Quiet

\* Only the current reader is on its way to the link.
LEMMA CurrentReader ==
  ASSUME LInv, NEW g \in Gens, rd[g] \in {"poll", "lock", "read"}
  PROVE  g = gen
  <1>1. g <= gen /\ ~(g < gen)
    BY DEF LInv, TypeOK, PastReaders, Gens
  <1> QED  BY <1>1 DEF LInv, TypeOK, Gens

LEMMA FreshLInv ==
  ASSUME NEW up \in BOOLEAN,
         sup' = Fresh(up).sup /\ fsm' = Fresh(up).fsm /\ rd' = Fresh(up).rd,
         src' = [g \in Gens |-> 0],
         gen' = Fresh(up).gen /\ connected' = up /\ done' = Fresh(up).done,
         call' = "none" /\ stolen' = FALSE
  PROVE  LInv'
  <1>1. /\ sup' = "startup" /\ fsm' = IF up THEN "run" ELSE "none"
        /\ gen' = IF up THEN 1 ELSE 0
        /\ done' = IF up THEN "open" ELSE "nil"
        /\ rd' = [g \in Gens |-> IF up /\ g = 1 THEN "poll" ELSE "none"]
    BY DEF Fresh
  <1>2. TypeOK'
    <2>1. /\ rd' \in [Gens -> {"none", "poll", "lock", "read", "push", "err", "ended"}]
          /\ \A g \in Gens : rd'[g] = "none" <=> g > gen'
      BY <1>1 DEF Gens
    <2>2. src' \in [Gens -> 0 .. MaxGen] /\ gen' \in 0 .. MaxGen
      BY <1>1
    <2> QED  BY <1>1, <2>1, <2>2 DEF TypeOK
  <1>3. DoneSafe' /\ NoMachine' /\ Quiet'
    BY <1>1 DEF DoneSafe, NoMachine, Quiet
  <1>4. OwnConnection' /\ PastReaders'
    BY <1>1 DEF OwnConnection, PastReaders, Gens
  <1> QED  BY <1>2, <1>3, <1>4 DEF LInv

LEMMA InitLInv == Init => LInv
  <1> SUFFICES ASSUME Init  PROVE LInv
    OBVIOUS
  <1>1. PICK up \in BOOLEAN :
          /\ sup = "startup" /\ fsm = IF up THEN "run" ELSE "none"
          /\ gen = IF up THEN 1 ELSE 0
          /\ done = IF up THEN "open" ELSE "nil"
          /\ rd = [g \in Gens |-> IF up /\ g = 1 THEN "poll" ELSE "none"]
          /\ src = [g \in Gens |-> 0]
          /\ connected = up /\ call = "none" /\ stolen = FALSE
    BY DEF Init, Fresh
  <1>2. TypeOK
    <2>1. /\ rd \in [Gens -> {"none", "poll", "lock", "read", "push", "err", "ended"}]
          /\ \A g \in Gens : rd[g] = "none" <=> g > gen
      BY <1>1 DEF Gens
    <2>2. src \in [Gens -> 0 .. MaxGen] /\ gen \in 0 .. MaxGen
      BY <1>1
    <2> QED  BY <1>1, <2>1, <2>2 DEF TypeOK
  <1>3. DoneSafe /\ NoMachine /\ Quiet
    BY <1>1 DEF DoneSafe, NoMachine, Quiet
  <1>4. OwnConnection /\ PastReaders
    BY <1>1 DEF OwnConnection, PastReaders, Gens
  <1> QED  BY <1>2, <1>3, <1>4 DEF LInv

\* What a step of one reader may do to the others, and to what they share.
LEMMA ReaderStep ==
  ASSUME LInv, NEW g \in Gens, NEW new \in {"lock", "read", "push", "err", "ended", "poll"},
         rd' = [rd EXCEPT ![g] = new], rd[g] # "none",
         UNCHANGED gen,
         new \in {"poll", "lock", "read"} => g = gen,
         sup' \in {"close", "renew"} => sup' = sup /\ new \notin {"poll", "lock"},
         sup' = "renew" => new # "read",
         new = "read" => src' = [src EXCEPT ![g] = gen],
         new # "read" => UNCHANGED src
  PROVE  /\ rd' \in [Gens -> {"none", "poll", "lock", "read", "push", "err", "ended"}]
         /\ src' \in [Gens -> 0 .. MaxGen]
         /\ \A h \in Gens : rd'[h] = "none" <=> h > gen'
         /\ OwnConnection' /\ PastReaders' /\ Quiet'
  <1> USE DEF LInv, TypeOK
  <1>1. /\ rd' \in [Gens -> {"none", "poll", "lock", "read", "push", "err", "ended"}]
        /\ src' \in [Gens -> 0 .. MaxGen]
        /\ \A h \in Gens : rd'[h] = "none" <=> h > gen'
    BY DEF Gens
  <1>2. OwnConnection'
    BY DEF OwnConnection
  <1>3. PastReaders'
    BY DEF PastReaders, Gens
  <1>4. Quiet'
    BY DEF Quiet
  <1> QED  BY <1>1, <1>2, <1>3, <1>4

LEMMA NextLInv == LInv /\ [Next]_vars => LInv'
  <1> SUFFICES ASSUME LInv, [Next]_vars  PROVE LInv'
    OBVIOUS
  <1> USE DEF LInv
  <1>1. CASE Issue
    BY <1>1 DEF Issue, TypeOK, DoneSafe, OwnConnection, NoMachine, PastReaders, Quiet
  <1>2. CASE GiveUp \/ \E ok \in BOOLEAN : Answer(ok)
    BY <1>2 DEF GiveUp, Answer, EndCall, TypeOK, DoneSafe, OwnConnection, NoMachine,
                PastReaders, Quiet
  <1>3. CASE FsmEnds
    BY <1>3 DEF FsmEnds, End, Running, TypeOK, DoneSafe, OwnConnection, NoMachine,
                PastReaders, Quiet
  <1>4. CASE \E framed \in BOOLEAN : Accept(framed)
    BY <1>4 DEF Accept, TypeOK, DoneSafe, OwnConnection, NoMachine, PastReaders, Quiet
  <1>5. ASSUME NEW g \in Gens, ReaderPoll(g)  PROVE LInv'
    <2>1. g = gen /\ sup \notin {"close", "renew"}
      BY <1>5, CurrentReader DEF ReaderPoll, Quiet
    <2>2. PICK new \in {"ended", "lock"} : rd' = [rd EXCEPT ![g] = new]
      BY <1>5 DEF ReaderPoll
    <2> QED
      BY <1>5, <2>1, <2>2, ReaderStep DEF ReaderPoll, TypeOK, DoneSafe, NoMachine
  <1>6. ASSUME NEW g \in Gens, ReaderLock(g)  PROVE LInv'
    <2>1. g = gen /\ sup \notin {"close", "renew"}
      BY <1>6, CurrentReader DEF ReaderLock, Quiet
    <2>2. \/ rd' = [rd EXCEPT ![g] = "err"] /\ src' = [src EXCEPT ![g] = src[g]]
          \/ rd' = [rd EXCEPT ![g] = "read"] /\ src' = [src EXCEPT ![g] = gen]
      BY <1>6 DEF ReaderLock
    <2>3. [src EXCEPT ![g] = src[g]] = src
      BY DEF TypeOK
    <2>4. fsm' \in {fsm, "none"} /\ connected' \in BOOLEAN /\ stolen' \in BOOLEAN
          /\ UNCHANGED <<sup, gen, done, call>>
      BY <1>6 DEF ReaderLock, TypeOK
    <2> QED
      BY <1>6, <2>1, <2>2, <2>3, <2>4, ReaderStep, ZenonT(30)
         DEF ReaderLock, TypeOK, DoneSafe, NoMachine
  <1>7. ASSUME NEW g \in Gens, LinkByte(g) \/ LinkError(g)  PROVE LInv'
    <2>1. PICK new \in {"push", "err"} : rd' = [rd EXCEPT ![g] = new]
      BY <1>7 DEF LinkByte, LinkError
    <2>2. /\ rd[g] # "none"
          /\ UNCHANGED <<sup, fsm, src, gen, connected, done, call, stolen>>
      BY <1>7 DEF LinkByte, LinkError
    <2>3. /\ rd' \in [Gens -> {"none", "poll", "lock", "read", "push", "err", "ended"}]
          /\ \A h \in Gens : rd'[h] = "none" <=> h > gen'
          /\ OwnConnection' /\ PastReaders' /\ Quiet'
      BY <2>1, <2>2, ReaderStep
    <2> QED
      BY <2>2, <2>3 DEF TypeOK, DoneSafe, NoMachine
  <1>8. ASSUME NEW g \in Gens, ReaderPush(g)  PROVE LInv'
    <2>1. sup \notin {"close", "renew"}
      BY <1>8 DEF ReaderPush, Running, NoMachine
    <2> QED
      BY <1>8, <2>1, ReaderStep, ZenonT(30) DEF ReaderPush, TypeOK, DoneSafe, NoMachine
  <1>9. ASSUME NEW g \in Gens, ReaderErr(g)  PROVE LInv'
    <2>1. sup \notin {"close", "renew"} /\ sup' \in {sup, "pause"} /\ fsm' \in {"none", "exit"}
      BY <1>9 DEF ReaderErr, Running, NoMachine, End
    <2> QED
      BY <1>9, <2>1, ReaderStep
         DEF ReaderErr, Running, End, TypeOK, DoneSafe, NoMachine
  <1>10. CASE \E ok \in BOOLEAN : Loaded(ok)
    BY <1>10 DEF Loaded, TypeOK, DoneSafe, OwnConnection, NoMachine, PastReaders, Quiet
  <1>11. CASE SupDone
    BY <1>11 DEF SupDone, TypeOK, DoneSafe, OwnConnection, NoMachine, PastReaders, Quiet
  <1>12. CASE SupPause
    <2>1. \A g \in Gens : rd[g] \notin {"poll", "lock"}
      BY <1>12, CurrentReader DEF SupPause, LockHeld
    <2> QED
      BY <1>12, <2>1 DEF SupPause, TypeOK, DoneSafe, OwnConnection, NoMachine,
                         PastReaders, Quiet
  <1>13. CASE SupClose
    BY <1>13 DEF SupClose, LockHeld, TypeOK, DoneSafe, OwnConnection, NoMachine,
                 PastReaders, Quiet
  <1>14. ASSUME NEW up \in BOOLEAN, SupRenew(up)  PROVE LInv'
    <2>1. \A g \in Gens : g <= gen => rd[g] \in {"push", "err", "ended"}
      BY <1>14 DEF SupRenew, Quiet, TypeOK, Gens
    <2>2. CASE up
      <3>1. /\ gen < MaxGen /\ gen' = gen + 1 /\ gen + 1 \in Gens
            /\ rd' = [rd EXCEPT ![gen + 1] = "poll"]
            /\ fsm' = "run" /\ done' = "open" /\ connected' = TRUE
            /\ sup' = "loop" /\ call' = "none" /\ UNCHANGED <<src, stolen>>
        BY <1>14, <2>2 DEF SupRenew, Connect, TypeOK, Gens
      <3>2. TypeOK'
        BY <3>1 DEF TypeOK, Gens
      <3>3. DoneSafe' /\ NoMachine' /\ Quiet'
        BY <3>1 DEF DoneSafe, NoMachine, Quiet
      <3>4. OwnConnection' /\ PastReaders'
        BY <2>1, <3>1 DEF OwnConnection, PastReaders, TypeOK, Gens
      <3> QED  BY <3>2, <3>3, <3>4
    <2>3. CASE ~up
      BY <1>14, <2>1, <2>3
         DEF SupRenew, Connect, TypeOK, DoneSafe, OwnConnection, NoMachine,
             PastReaders, Quiet
    <2> QED  BY <2>2, <2>3
  <1>15. ASSUME NEW up \in BOOLEAN, ServiceRestart(up)  PROVE LInv'
    BY <1>15, FreshLInv DEF ServiceRestart
  <1>16. CASE UNCHANGED vars
    BY <1>16 DEF vars, TypeOK, DoneSafe, OwnConnection, NoMachine, PastReaders, Quiet
  <1> QED
    BY <1>1, <1>2, <1>3, <1>4, <1>5, <1>6, <1>7, <1>8, <1>9, <1>10, <1>11, <1>12,
       <1>13, <1>14, <1>15, <1>16
       DEF Next, Machine, Serves, Main, Restart, Link, Reader

\* The types, and that a reader was started for each connection so far and for no
\* other, however often the process reconnects.
THEOREM TypeOKHolds == Spec => []TypeOK
  <1>1. LInv => TypeOK
    BY DEF LInv
  <1> QED  BY InitLInv, NextLInv, <1>1, PTL DEF Spec

\* The machine's announcement never meets a closed or missing Done channel,
\* however often the process reconnects.
THEOREM DoneSafeHolds == Spec => []DoneSafe
  <1>1. LInv => DoneSafe
    BY DEF LInv
  <1> QED  BY InitLInv, NextLInv, <1>1, PTL DEF Spec

\* A leaked reader never takes bytes from a later connection.
THEOREM OwnConnectionHolds == Spec => []OwnConnection
  <1>1. LInv => OwnConnection
    BY DEF LInv
  <1> QED  BY InitLInv, NextLInv, <1>1, PTL DEF Spec
=============================================================================
