----------------------------- MODULE VirtualDisk -----------------------------
(***************************************************************************)
(* virtual_disk.c: a disk image holding a Directory (file_count and        *)
(* MAX_FILES FileEntry records), then a BlockMap (one is_free flag per     *)
(* 512-byte block), and file data written at offset start_block * 512.     *)
(* Each command of main() is one action, covering the whole handler: it    *)
(* reads the Directory and BlockMap, computes, and writes them back.       *)
(*                                                                         *)
(* Layout.  On an LP64 build a FileEntry is 272 bytes (char[255], one pad  *)
(* byte, size_t size at 256, size_t start_block at 264), so the Directory *)
(* spans 27208 bytes, more than the DISK_SIZE of 8192 that the blocks      *)
(* cover: block b's data lands on the bytes of directory entries.  A field *)
(* whose bytes file data overwrites holds that data afterwards.  A name    *)
(* becomes Junk (no command line matches it).  A size or block number      *)
(* becomes whatever the data decodes to: a nondeterministic choice between *)
(* the values that stay inside the map (zeros decode to block 0) and Far,  *)
(* a value past it.  The ghost field hit records which of an entry's size *)
(* and start fields data overwrote.  A name occupies its first NameBytes  *)
(* bytes (with the NUL); bytes after the NUL do not affect strcmp.        *)
(***************************************************************************)
EXTENDS Integers, Sequences, SequencesExt, FiniteSetsExt

CONSTANTS
    Names,      \* file names given on the command line
    Sizes,      \* sizes of the source files
    NBlocks,    \* DISK_SIZE / BLOCK_SIZE
    MaxFiles,   \* MAX_FILES
    NameBytes,  \* bytes of a name including its NUL
    Junk        \* a name overwritten by file data

ASSUME /\ Sizes \subseteq Nat /\ NBlocks \in Nat \ {0} /\ MaxFiles \in Nat
       /\ NameBytes \in 1..255 /\ Junk \notin Names

BlockSize == 512
EntrySize == 272
SizeOff   == 256
StartOff  == 264

VARIABLES
    present,  \* the disk image file exists
    dir,      \* root.files[0 .. file_count-1] as stored in the image
    map,      \* map.blocks[i].is_free as stored in the image
    ub,       \* a loop has written map.blocks[i] for i >= NBlocks
    logical,  \* ghost: the entries copy_to stored, as it stored them
    out       \* ghost: the last copy_from, [name, found], or <<>>

vars == <<present, dir, map, ub, logical, out>>

Blocks == 0..(NBlocks - 1)
\* A size_t that file data left in a field, larger than the disk.
Far == -1
GarbageSize == Sizes \cup {Far}
GarbageStart == Blocks \cup {Far}
Entry == [name : Names \cup {Junk}, size : GarbageSize, start : GarbageStart,
          hit : SUBSET {"size", "start"}]

-----------------------------------------------------------------------------
(* The code.                                                               *)

\* A slip in the search loop: the run is not reset at an occupied block.
RECURSIVE ScanFromNoReset(_, _, _, _)
ScanFromNoReset(m, size, i, run) ==
    IF i >= NBlocks THEN -1
    ELSE IF m[i]
         THEN IF (run + 1) * BlockSize >= size
              THEN i - (run + 1) + 1
              ELSE ScanFromNoReset(m, size, i + 1, run + 1)
         ELSE ScanFromNoReset(m, size, i + 1, run)

\* The search loop of copy_to_virtual_disk: the first block at which
\* contiguous_free_blocks * BLOCK_SIZE >= file_size, minus the run; -1 if
\* none.
RECURSIVE ScanFrom(_, _, _, _)
ScanFrom(m, size, i, run) ==
    IF i >= NBlocks THEN -1
    ELSE IF m[i]
         THEN IF (run + 1) * BlockSize >= size
              THEN i - (run + 1) + 1
              ELSE ScanFrom(m, size, i + 1, run + 1)
         ELSE ScanFrom(m, size, i + 1, 0)

Scan(m, size) == ScanFrom(m, size, 0, 0)

\* A slip in the loop bound: i < start_block + file_size / BLOCK_SIZE.
MarkedExclusive(start, size) == start .. (start + size \div BlockSize - 1)

\* The blocks the marking and freeing loops touch:
\* start_block .. start_block + size / BLOCK_SIZE.
Marked(start, size) == start .. (start + size \div BlockSize)

\* A slip: the flags are stored for every index of the range, the map
\* grows past its NBlocks entries.
SetBlocksUnchecked(m, range, v) == [b \in Blocks \cup range |-> IF b \in range THEN v ELSE m[b]]

\* The loop body map.blocks[i].is_free = v over the blocks of a range
\* that lie inside the map.
SetBlocks(m, range, v) == [b \in Blocks |-> IF b \in range THEN v ELSE m[b]]

\* Bytes [lo, hi) of the image are overwritten by file data: the fields of
\* entry k whose bytes lie there change.  Clobber is the set of
\* directories the data can leave.
Hits(a, b, lo, hi) == a < hi /\ lo < b
FieldHit(k, off, len, lo, hi) ==
    Hits((k - 1) * EntrySize + off, (k - 1) * EntrySize + off + len, lo, hi)
Clobber(d, lo, hi) ==
    LET S == {k \in DOMAIN d : FieldHit(k, SizeOff, 8, lo, hi)}
        T == {k \in DOMAIN d : FieldHit(k, StartOff, 8, lo, hi)}
    IN {[k \in DOMAIN d |->
           [name  |-> IF FieldHit(k, 0, NameBytes, lo, hi) THEN Junk ELSE d[k].name,
            size  |-> IF k \in S THEN sz[k] ELSE d[k].size,
            start |-> IF k \in T THEN st[k] ELSE d[k].start,
            hit   |-> d[k].hit \cup (IF k \in S THEN {"size"} ELSE {})
                              \cup (IF k \in T THEN {"start"} ELSE {})]] :
          sz \in [S -> GarbageSize], st \in [T -> GarbageStart]}

\* The indices the freeing loop of delete_from_virtual_disk writes for an
\* entry as stored: a Far size runs the loop off the end of the map, a Far
\* block number starts it outside.
Freed(e) ==
    IF e.start = Far THEN {Far}
    ELSE IF e.size = Far THEN e.start .. NBlocks
    ELSE Marked(e.start, e.size)

\* The lookup loop of copy_from / delete: the first entry whose name
\* strcmp-matches; 0 if none.
FindFile(d, n) ==
    IF \E k \in DOMAIN d : d[k].name = n
    THEN Min({k \in DOMAIN d : d[k].name = n})
    ELSE 0

\* A slip in the shift loop: it starts one entry late.
ShiftOffByOne(d, k) == [j \in 1..(Len(d) - 1) |-> IF j <= k THEN d[j] ELSE d[j + 1]]

\* The shift loop of delete_from_virtual_disk and file_count--.
Shift(d, k) == [j \in 1..(Len(d) - 1) |-> IF j < k THEN d[j] ELSE d[j + 1]]

-----------------------------------------------------------------------------

Init ==
    /\ present = FALSE
    /\ dir = <<>>
    /\ map = [b \in Blocks |-> TRUE]
    /\ ub = FALSE
    /\ logical = <<>>
    /\ out = <<>>

\* create_virtual_disk: truncate, empty Directory, all blocks free.
Create ==
    /\ present' = TRUE
    /\ dir' = <<>>
    /\ map' = [b \in Blocks |-> TRUE]
    /\ logical' = <<>>
    /\ UNCHANGED <<ub, out>>

\* copy_to_virtual_disk(disk, n) of a source file of the given size.
CopyTo(n, size) ==
    /\ present
    /\ LET start == Scan(map, size)
           e     == [name |-> n, size |-> size, start |-> start, hit |-> {}]
       IN IF Len(dir) >= MaxFiles \/ start = -1
          THEN UNCHANGED vars
          ELSE /\ map' = SetBlocks(map, Marked(start, size), FALSE)
               /\ ub' = (ub \/ ~(Marked(start, size) \subseteq Blocks))
               /\ dir' \in Clobber(Append(dir, e), start * BlockSize,
                                    start * BlockSize + size)
               /\ logical' = Append(logical, e)
               /\ UNCHANGED <<present, out>>

\* copy_from_virtual_disk(disk, n, dest): whether the file is found.
CopyFrom(n) ==
    /\ present
    /\ out' = [name |-> n, found |-> FindFile(dir, n) # 0]
    /\ UNCHANGED <<present, dir, map, ub, logical>>

\* delete_from_virtual_disk(disk, n): the blocks the stored entry names
\* are freed, whoever's they are, and indices past the map are written.
Delete(n) ==
    /\ present
    /\ LET k == FindFile(dir, n)
       IN IF k = 0
          THEN UNCHANGED vars
          ELSE LET e == dir[k]
               IN /\ map' = SetBlocks(map, Freed(e), TRUE)
                  /\ ub' = (ub \/ ~(Freed(e) \subseteq Blocks))
                  /\ dir' = Shift(dir, k)
                  /\ logical' = RemoveAt(logical, k)
                  /\ UNCHANGED <<present, out>>

\* delete_virtual_disk: remove() of the image.
DeleteDisk ==
    /\ present
    /\ present' = FALSE
    /\ UNCHANGED <<dir, map, ub, logical, out>>

Next ==
    \/ Create
    \/ \E n \in Names, s \in Sizes : CopyTo(n, s)
    \/ \E n \in Names : CopyFrom(n)
    \/ \E n \in Names : Delete(n)
    \/ DeleteDisk

Spec == Init /\ [][Next]_vars

-----------------------------------------------------------------------------
(* Properties.                                                             *)

\* The blocks a file's data occupies: at least one, ceil(size / 512).
Need(size) == IF size = 0 THEN 1 ELSE (size + BlockSize - 1) \div BlockSize
DataBlocks(e) == e.start .. (e.start + Need(e.size) - 1)

\* The reference first-fit: the lowest block that starts Need(size) free
\* blocks, -1 if there is none.
FirstFit(m, size) ==
    LET ok == {b \in Blocks : /\ b + Need(size) <= NBlocks
                              /\ \A j \in b .. (b + Need(size) - 1) : m[j]}
    IN IF ok = {} THEN -1 ELSE Min(ok)

TypeOK ==
    /\ present \in BOOLEAN
    /\ \A k \in DOMAIN dir : dir[k] \in Entry
    /\ map \in [Blocks -> BOOLEAN]
    /\ ub \in BOOLEAN

\* Apart from fields that file data overwrote, the stored directory is the
\* list of files copy_to added and delete did not remove, in order: the
\* append at root.files[file_count] and delete's shift loop keep entries
\* and their positions over any sequence of commands.
Agrees(e, l) ==
    /\ e.name \in {l.name, Junk}
    /\ "size" \notin e.hit => e.size = l.size
    /\ "start" \notin e.hit => e.start = l.start
DirectoryTracksFiles ==
    /\ Len(dir) = Len(logical)
    /\ \A k \in DOMAIN dir : Agrees(dir[k], logical[k])

\* Every file copy_to stores starts at the first-fit position for its size,
\* whatever holes earlier deletes left in the map.
AllocIsFirstFit ==
    [][Len(logical') = Len(logical) + 1 /\ present = present' =>
          Last(logical').start = FirstFit(map, Last(logical').size)]_vars

\* A file that was copied to the disk and not deleted is found by
\* copy_from_virtual_disk.
StoredFileFound ==
    out # <<>> /\ out.name \in {logical[k].name : k \in DOMAIN logical} => out.found

\* A delete of a file whose entry file data never overwrote frees, of the
\* blocks that hold data of files still on the disk, only its own: the
\* freeing loop of delete_from_virtual_disk frees what copy_to's marking
\* loop reserved for that file, whatever was copied and deleted before
\* (and before any loop wrote past the map).
LiveBlocksReserved ==
    [][\A n \in Names :
         LET k == FindFile(dir, n)
         IN Delete(n) /\ ~ub /\ k # 0 /\ dir[k].hit = {} =>
              \A j \in DOMAIN logical' :
                 \A b \in (DataBlocks(logical'[j]) \ DataBlocks(dir[k])) \cap Blocks :
                    ~map[b] => ~map'[b]]_vars

=============================================================================
