------------------------------ MODULE MCRawCmds ------------------------------
(* An instance of RawCmds for TLC: an event of one chunk, one that overlaps    *)
(* its second byte, one of two chunks, and the last address.                   *)
EXTENDS RawCmds

R(a, n) == [kind |-> "read", addr |-> a, len |-> n]
W(a, n) == [kind |-> "write", addr |-> a, len |-> n]

Events == {R(0, 2), R(1, 1), R(0, 3), W(0, 2), W(1, 1), R(3, 1)}
LongEvents == Events \cup {W(0, 3)}
==============================================================================
