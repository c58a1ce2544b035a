-------------------------- MODULE MCVirtualDiskProc --------------------------
(* Two invocations of the program on one image and two file names.  The   *)
(* source files are empty: copy_to writes no data, so the Directory is     *)
(* never overwritten and what is checked is the order of the reads and    *)
(* writes, apart from the layout and over-mark of VirtualDisk.            *)
EXTENDS VirtualDiskProc

CONSTANTS p1, p2, n1, n2
MCProcs == {p1, p2}
MCNames == {n1, n2}
MCSizes == {0}
=============================================================================
