--------------------------- MODULE MCSha1Transform ---------------------------
(* 8-bit words (2-bit bytes); nine blocks of different byte patterns,  *)
(* two chained calls.                                                      *)
EXTENDS Sha1Transform

MCBlocks ==
    {[j \in 0..63 |-> (p * j + q) % 4] : p \in 0..3, q \in {1, 2}}
      \cup {[j \in 0..63 |-> (j * j + j \div 8) % 4]}
=============================================================================
