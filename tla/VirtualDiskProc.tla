--------------------------- MODULE VirtualDiskProc ---------------------------
(***************************************************************************)
(* The commands of virtual_disk.c as processes.  copy_to and delete each   *)
(* read the Directory and the BlockMap into locals, compute, and write     *)
(* them back whole at separate fseek/fwrite calls; copy_to then writes the *)
(* data.  Every read and every write of the image is a step of its own, so *)
(* two invocations on one image may interleave (Overlap) and an invocation *)
(* may be killed between two writes (SpecWithCrash).  The computations on *)
(* the image's contents are those of VirtualDisk, taken through the        *)
(* instance D.  The search, marking and freeing act on the local copies    *)
(* only, so they are applied at the step that writes the local copy back. *)
(***************************************************************************)
EXTENDS Integers, Sequences, SequencesExt, FiniteSetsExt

CONSTANTS Procs, Names, Sizes, NBlocks, MaxFiles, NameBytes, Junk,
    Overlap    \* a command may start while another is in progress

VARIABLES
    present, dir, map, ub, logical, out,   \* as in VirtualDisk
    pc,     \* per process: the next step, "idle" between commands
    cmd,    \* per process: the command line [name, size]
    lroot,  \* per process: the local Directory root as read
    lmap,   \* per process: the local BlockMap map as read
    arg     \* per process: start_block (copy_to) or file_index (delete)

vars == <<present, dir, map, ub, logical, out, pc, cmd, lroot, lmap, arg>>

D == INSTANCE VirtualDisk

NoCmd == [name |-> Junk, size |-> 0]
AllIdle == \A q \in Procs : pc[q] = "idle"
CanStart == Overlap \/ AllIdle

\* The process leaves its command: its locals are dead.
Return(p) ==
    /\ pc' = [pc EXCEPT ![p] = "idle"]
    /\ cmd' = [cmd EXCEPT ![p] = NoCmd]
    /\ lroot' = [lroot EXCEPT ![p] = <<>>]
    /\ lmap' = [lmap EXCEPT ![p] = [b \in D!Blocks |-> TRUE]]
    /\ arg' = [arg EXCEPT ![p] = 0]

Goto(p, l) == pc' = [pc EXCEPT ![p] = l]

NewEntry(p) == [name |-> cmd[p].name, size |-> cmd[p].size, start |-> arg[p], hit |-> {}]

Init ==
    /\ D!Init
    /\ pc = [p \in Procs |-> "idle"]
    /\ cmd = [p \in Procs |-> NoCmd]
    /\ lroot = [p \in Procs |-> <<>>]
    /\ lmap = [p \in Procs |-> [b \in D!Blocks |-> TRUE]]
    /\ arg = [p \in Procs |-> 0]

-----------------------------------------------------------------------------
(* copy_to_virtual_disk                                                    *)

\* fread of the Directory; a full directory returns without a write.
CtReadDir(p, n, s) ==
    /\ pc[p] = "idle" /\ present /\ CanStart
    /\ Len(dir) < MaxFiles
    /\ Goto(p, "ct_rmap")
    /\ cmd' = [cmd EXCEPT ![p] = [name |-> n, size |-> s]]
    /\ lroot' = [lroot EXCEPT ![p] = dir]
    /\ UNCHANGED <<present, dir, map, ub, logical, out, lmap, arg>>

\* A slip: the start_block == -1 return is dropped.
CtReadMapNoSpaceCheck(p) ==
    /\ pc[p] = "ct_rmap"
    /\ Goto(p, "ct_wdir")
    /\ lmap' = [lmap EXCEPT ![p] = map]
    /\ arg' = [arg EXCEPT ![p] = D!Scan(map, cmd[p].size)]
    /\ UNCHANGED <<present, dir, map, ub, logical, out, cmd, lroot>>

\* fread of the BlockMap and the free-run search; no run returns.
CtReadMap(p) ==
    /\ pc[p] = "ct_rmap"
    /\ LET st == D!Scan(map, cmd[p].size)
       IN IF st = -1
          THEN /\ Return(p)
               /\ UNCHANGED <<present, dir, map, ub, logical, out>>
          ELSE /\ Goto(p, "ct_wdir")
               /\ lmap' = [lmap EXCEPT ![p] = map]
               /\ arg' = [arg EXCEPT ![p] = st]
               /\ UNCHANGED <<present, dir, map, ub, logical, out, cmd, lroot>>

\* fwrite of root with the new entry at files[file_count].
CtWriteDir(p) ==
    /\ pc[p] = "ct_wdir"
    /\ dir' = Append(lroot[p], NewEntry(p))
    /\ Goto(p, "ct_wmap")
    /\ UNCHANGED <<present, map, ub, logical, out, cmd, lroot, lmap, arg>>

\* fwrite of the local map with the file's blocks marked.
CtWriteMap(p) ==
    /\ pc[p] = "ct_wmap"
    /\ map' = D!SetBlocks(lmap[p], D!Marked(arg[p], cmd[p].size), FALSE)
    /\ Goto(p, "ct_wdata")
    /\ UNCHANGED <<present, dir, ub, logical, out, cmd, lroot, lmap, arg>>

\* The data at start_block * BLOCK_SIZE, over what the image holds now;
\* the command returns.
CtWriteData(p) ==
    /\ pc[p] = "ct_wdata"
    /\ dir' \in D!Clobber(dir, arg[p] * D!BlockSize, arg[p] * D!BlockSize + cmd[p].size)
    /\ ub' = (ub \/ ~(D!Marked(arg[p], cmd[p].size) \subseteq D!Blocks))
    /\ logical' = Append(logical, NewEntry(p))
    /\ Return(p)
    /\ UNCHANGED <<present, map, out>>

-----------------------------------------------------------------------------
(* delete_from_virtual_disk                                                *)

\* fread of the Directory and the lookup; a missing name returns.
DlReadDir(p, n) ==
    /\ pc[p] = "idle" /\ present /\ CanStart
    /\ D!FindFile(dir, n) # 0
    /\ Goto(p, "dl_rmap")
    /\ cmd' = [cmd EXCEPT ![p] = [name |-> n, size |-> 0]]
    /\ lroot' = [lroot EXCEPT ![p] = dir]
    /\ arg' = [arg EXCEPT ![p] = D!FindFile(dir, n)]
    /\ UNCHANGED <<present, dir, map, ub, logical, out, lmap>>

\* fread of the BlockMap.
DlReadMap(p) ==
    /\ pc[p] = "dl_rmap"
    /\ lmap' = [lmap EXCEPT ![p] = map]
    /\ Goto(p, "dl_wdir")
    /\ UNCHANGED <<present, dir, map, ub, logical, out, cmd, lroot, arg>>

\* fwrite of root after the shift loop.
DlWriteDir(p) ==
    /\ pc[p] = "dl_wdir"
    /\ dir' = D!Shift(lroot[p], arg[p])
    /\ Goto(p, "dl_wmap")
    /\ UNCHANGED <<present, map, ub, logical, out, cmd, lroot, lmap, arg>>

\* fwrite of the local map with the entry's blocks freed; the command
\* returns.  As in VirtualDisk, the blocks the stored entry names are freed.
DlWriteMap(p) ==
    /\ pc[p] = "dl_wmap"
    /\ LET e == lroot[p][arg[p]]
       IN /\ map' = D!SetBlocks(lmap[p], D!Freed(e), TRUE)
          /\ ub' = (ub \/ ~(D!Freed(e) \subseteq D!Blocks))
    /\ logical' = IF arg[p] <= Len(logical) THEN RemoveAt(logical, arg[p]) ELSE logical
    /\ Return(p)
    /\ UNCHANGED <<present, dir, out>>

-----------------------------------------------------------------------------
(* The commands that read or write the image once, and the kill.           *)

\* create_virtual_disk and delete_virtual_disk, while no command runs.
Create == AllIdle /\ D!Create /\ UNCHANGED <<pc, cmd, lroot, lmap, arg>>
DeleteDisk == AllIdle /\ D!DeleteDisk /\ UNCHANGED <<pc, cmd, lroot, lmap, arg>>

\* copy_from_virtual_disk reads the Directory once.
CopyFrom(n) == CanStart /\ D!CopyFrom(n) /\ UNCHANGED <<pc, cmd, lroot, lmap, arg>>

\* The process is killed: what it wrote stays on the image.
Crash(p) ==
    /\ pc[p] # "idle"
    /\ Return(p)
    /\ UNCHANGED <<present, dir, map, ub, logical, out>>

Step(p) ==
    \/ \E n \in Names, s \in Sizes : CtReadDir(p, n, s)
    \/ CtReadMap(p) \/ CtWriteDir(p) \/ CtWriteMap(p) \/ CtWriteData(p)
    \/ \E n \in Names : DlReadDir(p, n)
    \/ DlReadMap(p) \/ DlWriteDir(p) \/ DlWriteMap(p)

Next ==
    \/ \E p \in Procs : Step(p)
    \/ Create \/ DeleteDisk
    \/ \E n \in Names : CopyFrom(n)

Spec == Init /\ [][Next]_vars

\* The same, with any command killable at any point between two steps.
NextWithCrash == Next \/ \E p \in Procs : Crash(p)
SpecWithCrash == Init /\ [][NextWithCrash]_vars

-----------------------------------------------------------------------------
(* Properties.                                                             *)

Labels == {"idle", "ct_rmap", "ct_wdir", "ct_wmap", "ct_wdata",
           "dl_rmap", "dl_wdir", "dl_wmap"}

TypeOK ==
    /\ D!TypeOK
    /\ pc \in [Procs -> Labels]
    /\ \A p \in Procs :
          /\ pc[p] \in {"ct_wdir", "ct_wmap", "ct_wdata"} => arg[p] \in D!Blocks
          /\ pc[p] \in {"dl_rmap", "dl_wdir", "dl_wmap"} => arg[p] \in DOMAIN lroot[p]

\* Two entries the image holds, whose block numbers and sizes file data
\* never overwrote, never claim a common block: copy_to's search, the
\* marking it writes back and delete's freeing keep the BlockMap in step
\* with the Directory across any sequence of commands.
Intact(e) == e.hit = {}
NoSharedBlocks ==
    \A j, k \in DOMAIN dir :
        j < k /\ Intact(dir[j]) /\ Intact(dir[k])
            => D!DataBlocks(dir[j]) \cap D!DataBlocks(dir[k]) = {}

\* Whenever no command is in progress, every block the BlockMap marks
\* occupied is one that a delete of some entry of the Directory would free:
\* no copy_to or delete leaves a block reserved that nothing can release.
NoOrphanBlocks ==
    AllIdle => \A b \in D!Blocks :
                  ~map[b] => \E k \in DOMAIN dir : b \in D!Freed(dir[k])

=============================================================================
