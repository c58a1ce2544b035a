# TLA+ models of PHOENIX_RTOS_SOI

This directory holds TLA+ specifications of the parts of this repository that
have behaviour worth model checking. It also holds the TLC configurations that
check them, and `PROJECT.json`, which records the components, runs, mutants,
findings and hazards, and maps every definition to the source lines it models.

## 1. Inventory of the source

| Source | What it is | Model |
|---|---|---|
| `src/phoenix-rtos-lwip/ipsec/sha1_imp.c` | Streaming SHA-1: `sha1_init`, `sha1_transform` (80 unrolled rounds, in-place 16-word schedule), `sha1_write` (buffer plus direct blocks), `sha1_final` (bit length, padding, serialisation), `sha1_hash` | `Sha1Stream`, `Sha1Word`, `Sha1Transform`, `Sha1Fips` |
| `src/virtual_disk.c` | A CLI managing a disk image: Directory of 100 `FileEntry`, BlockMap of 16 flags, data blocks of 512 bytes; commands `create`, `copy_to`, `copy_from`, `list`, `delete`, `delete_disk`, `show_usage` | `VirtualDisk`, `VirtualDiskProc` |
| `src/plo/hal/riscv64/sbi.c` | RISC-V SBI shim: `ecall` wrappers; `sbi_init` picks the v0.2 TIME extension or the legacy timer call | `Sbi` |
| `src/phoenix-rtos-devices/storage/gr716-flash/tests/flashsrv_mfs_tests.c` | Test client of the meterfs flash server: IPC wrappers `mfs_*` and three test sequences | `FlashTests` |
| `src/_user/*/main.c` (5 files) | Parse one argument and call a slot or path system call | not modelled: no state of their own |
| `src/plo/devices/flash-imx6ull/nor/nor.h` | Declarations only | not modelled: no code |

How the parts interact: they do not. Each part is self-contained. The SHA-1
engine is a library whose callers are not in this repository, apart from
`sha1_hash`. The virtual disk is a stand-alone program; its only shared
state is the image file, which every command reads and writes whole. Two
invocations on one image are two processes sharing that file with no lock,
and `VirtualDiskProc` models exactly that. The SBI shim talks only to the
firmware below it, which `Sbi` models as its environment. The flash test
client talks to the meterfs flash server over `msgSend`. The server is not
in this repository, so `FlashTests` models it as the environment.

## 2. The SHA-1 engine

### Sha1Stream: the context and its operations

- **State.** `hd` is the `sha1_context_t`, a record `[h, nblocks, count, buf]`.
- **The chaining value `h`.** h0..h4 are a deterministic function of the
  blocks compressed since `sha1_init`. The model therefore keeps that
  sequence of 64-byte blocks, and `Transform` appends to it.
- **Bytes.** Message bytes are symbolic: `MsgByte(k)` is the k-th byte of
  the caller's message. A lost, repeated or reordered byte therefore changes
  the block sequence.
- **Operators.** Each one mirrors the code:
  - `Flush` is the head of `sha1_write` (lines 183-187).
  - `Write` is the whole of `sha1_write`, in the code's order: the head flush,
    the fill loop, the recursive flush, the early return, the direct-block
    loop and the tail copy.
  - `Final` is the whole of `sha1_final`. `Pad` is its two branches at
    line 244, and `LengthField` is the 64-bit bit count.
  - `Hash` is `sha1_hash`.
- **Actions.** `Sha1Init`, `Sha1Write(n)`, `Sha1Final` and `Sha1Hash(n)` are
  the caller's steps. A chunk length `n` comes from `Chunks` and a one-shot
  length from `HashLens`. The ghosts `msg`, `phase` and `digest` record the
  message written so far and the blocks the last `sha1_final` compressed.
- **The reference.** `Sha1Ref(m)` is the FIPS 180-1 padding and blocking of
  `m`, written from the standard and not from the code.

The 64-bit bit length that `sha1_final` builds in two 32-bit words, with
shifts and a carry (lines 227-242), is taken as the number it computes:
`LengthField` is (nblocks * 64 + count) * 8. The shifts and the carry are
therefore not checked. The carry out of lsb needs more than 2^23 blocks, a
message over 512 MiB, which a streaming model cannot reach. TLC's 32-bit
signed integers also cannot hold the words whole.

### Sha1Word, Sha1Transform, Sha1Fips: the compression function

- **Sha1Word** holds the word operations at `Width` bits: `Add`, `Rol`,
  F1..F4, the constants (reduced modulo 2^Width) and the initial chaining
  words.
- **Sha1Fips** is the abstract compression: the FIPS 180-1 formulation,
  with the 80-word schedule `W` computed by recursion, five registers that
  shift on every round, and the add-back.
- **Sha1Transform** is the code. Each `R(...)` line of the unrolled body is
  one step `R`:
  - the 16-word window `x` is updated in place by the `M` macro;
  - the registers are not shifted. Instead, the argument order rotates,
    which `Role(r, j)` expresses.
  - `UpdateChain` is the add-back; `Call` enters the next block.

  The refinement mapping renames the registers through `Role`, so that
  `Sha1Transform` implements `Sha1Fips` (`RefinesFips`).

## 3. The virtual disk

`VirtualDisk` models the image as the program sees it:

- `dir` is `root.files[0..file_count-1]`;
- `map` is the `is_free` flags;
- `present` records whether the image exists.

Each command that writes the image is one action covering its whole handler:

| Action | Code | What it does |
|---|---|---|
| `Create` | `create_virtual_disk` 30-56 | empty Directory, all blocks free |
| `CopyTo(n, size)` | `copy_to_virtual_disk` 58-142 | full-directory early return, first-fit search (`ScanFrom`), no-space early return, marking loop (`Marked`, `SetBlocks`), append, write of the data at `start_block * 512` (`Clobber`) |
| `CopyFrom(n)` | `copy_from_virtual_disk` 144-199 | lookup (`FindFile`); the result goes to the ghost `out` |
| `Delete(n)` | `delete_from_virtual_disk` 221-268 | lookup, freeing loop, shift loop (`Shift`) |
| `DeleteDisk` | `delete_virtual_disk` 270-275 | removes the image |

`list` and `show_usage` only print, so they are not actions. A command on an
image that does not exist exits at its `fopen` and changes nothing. That is a
stuttering step, so no action is needed for it.

**The byte layout is part of the model.** On LP64 a `FileEntry` is 272
bytes:

- the name occupies bytes 0..254;
- `size` is at byte 256;
- `start_block` is at byte 264.

The Directory is therefore 27208 bytes, while the data blocks lie in the
first 8192 bytes of the image. `Clobber` gives the directories the file
data can leave:

- a name whose bytes the data covers becomes `Junk`, which no command line
  matches;
- a `size` or `start_block` it covers holds whatever the data decodes to,
  a nondeterministic choice between the values inside the map (zero bytes
  decode to block 0) and `Far`, a value past it;
- the ghost field `hit` of an entry records which of its two numbers the
  data covered.

A name is taken to be `NameBytes` bytes long, NUL included.

`delete` frees the blocks its stored entry names (`Freed`). For a garbled
entry those may be another file's blocks, which is defined behaviour. Only
indices past the map (a `Far` value, or a range that runs off the end) are
undefined behaviour, which the model records in `ub`.

Two ghosts support the properties:

- `logical` is the list of entries as `copy_to` stored them;
- `out` is the result of the last `copy_from`.

### VirtualDiskProc: commands as processes

`VirtualDiskProc` splits `copy_to` and `delete` into the separate reads and
writes the code makes. Each process has a program counter `pc` and the
handler's locals: `lroot`, `lmap`, the command line `cmd`, and `arg`
(`start_block` or `file_index`). The computations on the image are those of
`VirtualDisk`, used through `D == INSTANCE VirtualDisk`.

| Step | Code | What it does |
|---|---|---|
| `CtReadDir` | 76-85 | `fread` of the Directory into `root`; the full-directory return |
| `CtReadMap` | 87-111 | `fread` of the BlockMap and the free-run search; the no-space return |
| `CtWriteDir` | 123-127 | `fwrite` of the local `root` with the new entry |
| `CtWriteMap` | 113-130 | the marking loop on the local map and its `fwrite` |
| `CtWriteData` | 132-141 | the data at `start_block * 512`, over the image as it is now |
| `DlReadDir` | 228-244 | `fread` of the Directory and the lookup; the not-found return |
| `DlReadMap` | 246-250 | `fread` of the BlockMap |
| `DlWriteDir` | 256-262 | the shift loop and `fwrite` of the local `root` |
| `DlWriteMap` | 252-267 | the freeing loop on the local map and its `fwrite` |

The MC module uses empty source files. `copy_to` then writes no data, so
the Directory is never overwritten, and the runs show what the order of the
reads and writes does on its own. With data, the layout bug of `VirtualDisk`
already breaks `NoSharedBlocks` without any kill or overlap: a delete of a
garbled entry frees another file's block.

`Create`, `DeleteDisk` and `CopyFrom` touch the image once, so they stay
atomic. `Create` and `DeleteDisk` run only while no other command is in
progress: their interaction with a running command would be a truncated or
removed file under an open `FILE*`, which is not modelled.

- **Overlap.** With `Overlap` = TRUE a command may start while another is
  in progress, as two shells can do on one image.
- **Kill.** `SpecWithCrash` adds `Crash(p)`: the process dies between two
  steps, and what it has written stays on the image.

## 3a. The SBI shim

`Sbi` models `sbi.c` against the firmware. The firmware is a set of
extensions, chosen at `Init` from `Firmwares`. It answers an ecall as the
RISC-V SBI specification says (`FwAnswer`):

- a call to an extension it lacks returns `SBI_ERR_NOT_SUPPORTED` and leaves
  `a1` unchanged;
- the Base probe returns error 0, with value 1 if the extension is present
  and 0 if it is not.

The actions:

| Action | Code | What it does |
|---|---|---|
| `SbiInit` | `sbi_init` 129-141 | stores the spec version; probes TIME; picks `sbi_setTimerv02` if `ret.error == 0`, else `sbi_setTimerv01` (`ChooseTimer`) |
| `SbiSetTimer(t)` | `sbi_setTimer` 123-126 | calls the chosen function; the firmware arms its timer only if it implements that call, and clears a pending interrupt |
| `SbiPutchar(c)` | `sbi_putchar` 92-95 | the legacy console call; the firmware prints `c` if it has the legacy console; returns a0 (`ret.error`) |
| `SbiGetchar` | `sbi_getchar` 98-101 | the legacy console call; the firmware hands over the pending character, or -1; returns a0 |
| `Tick`, `Fire`, `TakeIrq`, `Type(c)` | environment | the time counter advances to `MaxTime`; the firmware raises the interrupt at the armed deadline; the kernel takes it; someone types a character |

`sbi_setTimer` before `sbi_init` would call through NULL. No code in this
repository calls either function, so the model takes the order as the
caller's contract: `SbiSetTimer` requires `setTimer # "NULL"`.

## 3b. The flash test client

`FlashTests` models `flashsrv_mfs_tests.c`.

**The wrappers.** Each `mfs_*` wrapper is the set of outcomes its call can
have, as a record: the wrapper's return value, the server's file after the
call, whether the server carried the request out, and the `info` and
`rcvBuff` the test holds afterwards. A call has one of three outcomes:

- the server carries it out;
- with `ServerMayFail`, the server answers with a negative error and does
  nothing;
- with `SendMayFail`, `msgSend` fails. Every wrapper except `mfs_lookup`
  then only logs, and reads `o->err` (and, in `mfs_fileInfo`, `o->info`)
  from a reply that was never filled in. That read of an uninitialised
  value is a nondeterministic choice (`Garbage`, `GarbageInfos`).

`mfs_partitionErase` and `mfs_resizeFile` return 1 whatever happened
(`Returns1`).

**The tests.** The three test functions are sequences of steps
(`ProgAllocate`, `ProgWriteRead`, `ProgResize`). Each step is a wrapper call
or a check (`CheckAllocated`, `Compare`, `CheckResized`).

**The actions.**
- `Start(t)` calls a test, with an uninitialised `rcvBuff`.
- `Wait` is the `while (lookup(...) < 0) usleep(...)` loop.
- `Call` takes one step. If its result is negative, the test returns -1;
  the last step returns 0.
- `Register` is the server registering its partition.

**The server's file.** The server's `file0` persists across test calls, as
on the device: a test can meet the file an earlier test left behind when
its erase failed silently. The server's behaviour is assumed, because its
code is not here:
- it refuses to allocate a name that exists and to look up one that does
  not;
- a write appends a record;
- a read past the last record returns 0 bytes.

## 4. Runs

| Run | Checks | Shows |
|---|---|---|
| `sha1_stream` (pass) | `TypeOK`, `StreamConsistent`, `DigestCorrect`, `HashCorrect` | See below. |
| `sha1_transform_refines_fips` (pass) | `TypeOK`, `RefinesFips` | The unrolled rounds, the in-place schedule window and the rotated register roles implement FIPS 180-1, over two chained calls. |
| `vdisk_commands` (pass) | `TypeOK`, `DirectoryTracksFiles`, `AllocIsFirstFit` | See below. |
| `vdisk_data_overwrites_directory` (violation) | `StoredFileFound` | A 100-byte file copied to block 0 overwrites its own entry's name, so `copy_from` reports it missing. |
| `vdisk_overmark_frees_neighbour` (violation) | `LiveBlocksReserved` | Three empty files take blocks 0, 1 and 2, and the first is deleted. A 512-byte file then takes block 0 and marks blocks 0 and 1. Deleting it, although its entry is intact, frees block 1, which holds the second file. The property leaves aside deletes of garbled entries, so the trace shows the over-mark alone. |
| `vdisk_proc_serial_consistent` (pass) | `TypeOK`, `NoSharedBlocks`, `NoOrphanBlocks` | Commands on empty files run one after another and are never killed. No two entries share a block, and every block the BlockMap marks is one that a delete of some entry frees. This holds across holes and the no-space return. |
| `vdisk_proc_crash_shares_block` (violation) | `NoSharedBlocks` | A `copy_to` killed after its Directory write leaves an entry whose block is still free; the next `copy_to` takes that block. |
| `vdisk_proc_overlap_leaks_block` (violation) | `NoOrphanBlocks` | A `delete` that runs between a `copy_to`'s Directory and BlockMap writes removes the new entry, and its block stays marked with no owner. The same unlocked read-modify-write can let two overlapping `copy_to` both find one block free; no run checks that case on its own. |
| `sbi_timer_fires` (pass) | `ChosenCallImplemented`, `TimerFires` | On v0.1, v0.2-with-TIME and legacy-free firmware, with the console calls interleaved, `sbi_init` picks a call the firmware implements, and every deadline leads to a timer interrupt. |
| `flash_tests_sound` (pass) | `TestSound` | Over a reliable `msgSend`, with a server that may fail any request, a test returns 0 only if the server carried out every request the test exists to check. A failed resize is caught by the later info check. A failed erase is caught when the allocate meets the old file. |
| `flash_send_failure_false_pass` (violation) | `TestSound` | When `msgSend` fails, `mfs_fileInfo` copies an unfilled reply, and `test_flashsrv_mfsAllocate` returns 0 although the server never answered the info request. |
| `sbi_no_time_timer_lost` (violation) | `TimerFires` | On a v0.2 firmware without TIME the probe returns error 0 with value 0. `sbi_init` checks only the error, so it installs the TIME call, whose ecall fails unnoticed, and no deadline ever fires. |

What `sha1_stream` shows:

- for every chunking of messages up to 130 bytes, the compressed blocks
  followed by the buffered bytes are exactly the message (`StreamConsistent`);
- `sha1_final` compresses exactly the padded blocks of FIPS 180-1
  (`DigestCorrect`);
- `sha1_hash` does the same (`HashCorrect`);
- all of this holds across re-initialisation.

What `vdisk_commands` shows, over every sequence of commands:

- the stored directory is the list of files added and not removed, in
  order, apart from the fields that data overwrote (`DirectoryTracksFiles`);
- every file lands at the first fit, whatever holes earlier deletes left
  (`AllocIsFirstFit`).

Every property of a passing run has a mutant in `PROJECT.json`. A mutant is
a plausible slip in the code's definition that the property catches:

| Mutant | Caught by |
|---|---|
| a dropped `count < 64` bound | `TypeOK` |
| a flush without a reset | `StreamConsistent` |
| a padding boundary of 55 | `DigestCorrect` |
| a byte count instead of a bit count | `HashCorrect` |
| an off-by-one schedule window | `RefinesFips` |
| a run counter that is not reset | `AllocIsFirstFit` |
| a shift loop one entry late | `DirectoryTracksFiles` |
| a marking loop without a bound | `TypeOK` |
| a dropped no-space return in `copy_to` | `TypeOK` (VirtualDiskProc) |
| marking one block too few | `NoSharedBlocks` |
| a shift loop one entry late | `NoOrphanBlocks` |
| the probe's value read as an error code | `ChosenCallImplemented`, `TimerFires` |
| `mfs_allocate` returning 1 like `mfs_resizeFile` | `TestSound` |

## 5. Bounds, and why they are enough

### Sha1Stream

- **Message length.** `MaxMsg` = 130 covers two full blocks plus a partial
  one.
- **Chunks.** The chunk lengths {0, 1, 7, 55, 56, 63, 64, 65, 128} cover:
  - the empty write;
  - a write that fills the buffer exactly;
  - a write that crosses a block boundary;
  - writes that bypass the buffer.
- **One-shot lengths.** The `sha1_hash` lengths are the spec's boundary list
  (55, 56, 57, 63, 64, 119, 120, 121) plus 0 and 3.
- **The VIEW.** It ignores `buf` at positions at or beyond `count`. Both
  `sha1_write` and `sha1_final` overwrite those bytes before reading them,
  so two states that differ only there behave alike.

### Sha1Transform

TLC's integers are 32-bit signed, so the unsigned 32-bit words are modelled
at `Width` = 8. The chosen blocks are nine, with distinct word patterns, and
`MaxCalls` = 2 chains two compressions. The property concerns the indexing
of the window and the rotation of the register roles, which do not depend
on the width once the rotation amounts are scaled.

### VirtualDisk

- two names, which may repeat as on a real command line;
- three blocks;
- `MAX_FILES` = 2, so the full-directory branch is taken;
- sizes {0, 100, 1024}:
  - 0 is a file without data, so entries are not garbled and deletes make
    holes;
  - 100 at block 1 garbles the block number of entry 2, so deletes of
    garbled entries happen;
  - 1024 is exactly two blocks and exercises the over-mark.

The over-mark run uses sizes {0, 512}, four blocks and `MAX_FILES` = 3. Its
trace needs three files and a hole at block 0, and the 512-byte file's data
must miss its own entry, which is the third. The layout run uses the passing run's settings. The same
inclusive bound also makes the marking loop write `map.blocks[16]` when a
512-byte multiple ends at the last block. `ub` records that write, but no
run checks it on its own, because it
has the same cause as the over-mark.

### VirtualDiskProc

Two processes, two names, two blocks and empty files. The passing run has
`MAX_FILES` = 3, so a third `copy_to` takes the no-space return; the
violation runs have `MAX_FILES` = 2. Two processes are enough for every race
between two commands, and a kill or a race shows with one block per file.

### Sbi

The four firmwares are the cases of the probe:

- v0.1: no Base extension, so the probe itself fails;
- v0.2 and later with TIME;
- v2.0 and later without the legacy calls;
- for the violation, v0.2 without TIME.

Deadlines {2, 4, 6} with `MaxTime` = 7 include a deadline re-armed before
and after the interrupt fires. Two characters and a console that shows at
most `MaxOut` = 2 interleave the console calls with the timer; no property
concerns them, since each call only returns the firmware's a0.

### FlashTests

`MaxRuns` = 3 test calls, in any order, so that a test meets the file an
earlier one left when its erase failed, and a second call meets the file of
the first. The garbage an unfilled reply may hold is reduced to the values
the checks tell apart: an error or 0, and the two infos the checks accept,
or neither. The program stops after its test calls, so the runs say
`CHECK_DEADLOCK FALSE`.

## 6. Fairness

Only `Sbi` states a liveness property.

`Sbi` states `TimerFires`. It assumes weak
fairness of `Tick` and `Fire` only. These are hardware: the time counter
does not stop, and the firmware raises the timer interrupt once time
reaches the armed deadline. No fairness is assumed of the loader or the
kernel.

`FlashTests` states no liveness property and assumes no fairness. Whether
a test returns depends on the server: the wait loop at line 298 has no
timeout and spins for ever if the partition is never registered, and
`msgSend` blocks until the server answers. The server is not in this
repository, so that it answers would be an assumption, and a termination
property would hold by it.

The other systems are sequential and caller-driven. Every operation runs to completion in one
step, and the caller is free to stop at any point. The runs that may stop
(`sha1_transform_refines_fips` after `MaxCalls`, and the flash runs after `MaxRuns`) say
`CHECK_DEADLOCK FALSE`, with the reason in the cfg.

## 7. Not modelled, and why

- **The `_user` utilities.** They only forward one argument to a kernel call
  that is not in this repository.
- **`nor.h`.** It has no bodies.
- **`list` and `show_usage`.** They only print.
- **The `ecall` register plumbing of `sbi.c`.** `Ecall` is the ecall itself: the loading of a0..a7 and the reading back of a0 and a1.
- **`nblocks` wrapping after 2^32 blocks, and the msb/lsb shifts and
  carry of `sha1_final`.** The stream model keeps the counter unbounded and
  the bit count exact. The carry matters only beyond 2^23 blocks.
- **Reuse of a context after `sha1_final` without `sha1_init`.** Its comment
  says the handle is "prepared for a new cycle", but it is not: h0..h4,
  `nblocks` and `count` are left as they are. `Sha1Stream` can model such a
  caller (`ReuseWithoutInit`), but the checked run keeps to the contract
  that `sha1_hash`, the only caller in the source, follows.
- **The meterfs server.** Its code is not in this repository. Its answers
  are the environment of `FlashTests`.
- **`LOG_ERROR`, `printf` and other output.** They change no state.

## 8. Plan for later work

1. **Composition.** Compose `Sha1Stream` with `Sha1Transform` by letting
   `Transform` run the register-level compression for the whole stream.

## 9. Note on the design text

The design text (section 9 of the spec) says that the source "defers
compression of a just-filled block to the next absorb invocation". In the
code, the fill loop is followed at once by `sha1_write(hd, NULL, 0)`
(line 196), so no full block is ever left in the buffer between calls.
`StreamConsistent` checks `count < 64` after every call.
