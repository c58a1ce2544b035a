---------------------------- MODULE MCVirtualDisk ----------------------------
(* Instantiates VirtualDisk for TLC with two file names (names may repeat, *)
(* as on the command line) and a few blocks of the code's sixteen.         *)
EXTENDS VirtualDisk

CONSTANTS n1, n2
MCNames == {n1, n2}
\* Empty files (no data), a file inside one block, one of exactly two blocks.
MCSizes == {0, 100, 1024}
\* Empty files and a file of exactly one block.
MCSizesBlock == {0, 512}
=============================================================================
