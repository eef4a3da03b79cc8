----------------------------- MODULE MCDataPoint -----------------------------
(* Instances of DataPoint for TLC: two events in one chunk of two bytes, where  *)
(* the block of one of them goes on for another chunk.                          *)
EXTENDS DataPoint

SharedEvents ==
  {[addr |-> 0, len |-> 2, factor |-> 0, field |-> {<<0, "b">>}],
   [addr |-> 0, len |-> 4, factor |-> 2, field |-> {<<1, "b">>, <<2, "b">>}]}

Changing == {<<0, "b">>}

\* Raw reads of a whole chunk, and of the first byte of one.
ChunkReads == {[addr |-> 0, len |-> 2]}
ByteReads  == {[addr |-> 0, len |-> 1]}

\* Which instance is Aligned, and which one is not.
ASSUME Aligned <=> Raws = ChunkReads
==============================================================================
