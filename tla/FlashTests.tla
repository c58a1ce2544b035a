------------------------------ MODULE FlashTests ------------------------------
(***************************************************************************)
(* The meterfs test client of the GR716 flash server                       *)
(* (flashsrv_mfs_tests.c): three test functions, each a fixed sequence of  *)
(* calls to the mfs_* IPC wrappers and of checks on what they return.      *)
(*                                                                         *)
(* Each wrapper sends one message with msgSend and reads the error, and    *)
(* the info or data, from the reply.  msgSend is synchronous, so a call    *)
(* and its answer are one step.  The server, whose code is not in this     *)
(* repository, is the environment.  It answers every request either by     *)
(* doing it or, when ServerMayFail, with a negative error and no effect.   *)
(* It refuses to allocate a name that exists and to look up one that does  *)
(* not.  When SendMayFail, msgSend itself may fail: the reply is then      *)
(* never filled in, and the wrapper reads whatever the stack held there.   *)
(* That read is a nondeterministic choice: an error or 0, and one of the   *)
(* infos the properties tell apart.                                        *)
(***************************************************************************)
EXTENDS Integers, Sequences

CONSTANTS
    SendMayFail,    \* msgSend may return an error
    ServerMayFail,  \* the server may answer a request with an error
    MaxRuns         \* bound on the number of test runs

VARIABLES
    registered,  \* the server has registered /dev/flash0.mfs1
    file,        \* the server's "file0": NoFile or its record
    test,        \* the test function running
    pc,          \* the index of its next step, 0 when no test runs
    info,        \* the test's struct _info
    rcv,         \* the test's rcvBuff: the record pattern it holds
    served,      \* ghost: per request kind, how many the server carried out
    verdict,     \* the return value of the last test to finish, or 1
    runs         \* the number of tests started

vars == <<registered, file, test, pc, info, rcv, served, verdict, runs>>

NoFile == [none |-> TRUE]
Ops == {"erase", "allocate", "open", "info", "resize", "write", "read", "close"}
Patterns == {"A", "B"}        \* memset(writeBuff, 0xa) and memset(writeBuff, 0xef)
Garbage == {0, -1}            \* an unfilled o->err: not negative or negative

Info(s, fs, rs, rc) == [sectors |-> s, filesz |-> fs, recordsz |-> rs, recordcnt |-> rc]
NoInfo == Info(0, 0, 0, 0)
InfoOf(f) == Info(f.sectors, f.filesz, f.recordsz, Len(f.recs))
\* The infos an unfilled o->info may hold: the ones the checks accept, or not.
GarbageInfos == {Info(2, 2000, 20, 0), Info(2, 1000, 100, 0), NoInfo}

-----------------------------------------------------------------------------
(* The wrappers.  Each is the set of outcomes a call can have:             *)
(* [ret, file, srv, info, rcv], where ret is the wrapper's return value    *)
(* and srv whether the server carried the request out.                     *)

Keep == [ret |-> 0, file |-> file, srv |-> FALSE, info |-> info, rcv |-> rcv]
Done(f) == [Keep EXCEPT !.file = f, !.srv = TRUE]

\* msgSend != 0 is logged, then err = o->err is read from the unfilled reply.
SendFailed == IF SendMayFail THEN {[Keep EXCEPT !.ret = g] : g \in Garbage} ELSE {}
ServerError == IF ServerMayFail THEN {[Keep EXCEPT !.ret = -1]} ELSE {}
Answers(ok) == ok \cup SendFailed \cup ServerError

\* A slip: mfs_allocate returns 1 whatever o->err is, as mfs_resizeFile does.
MfsAllocateReturns1(a) ==
    {[o EXCEPT !.ret = 1] :
        o \in Answers(IF file # NoFile THEN {[Keep EXCEPT !.ret = -1]}
                      ELSE {Done([a EXCEPT !.recs = <<>>])})}

\* mfs_allocate: returns o->err.
MfsAllocate(a) ==
    Answers(IF file # NoFile THEN {[Keep EXCEPT !.ret = -1]}
            ELSE {Done([a EXCEPT !.recs = <<>>])})

\* mfs_partitionErase and mfs_resizeFile: return 1 whatever o->err is.
Returns1(S) == {[o EXCEPT !.ret = 1] : o \in S}
MfsPartitionErase == Returns1(Answers({Done(NoFile)}))
MfsResizeFile(a) ==
    Returns1(Answers(IF file = NoFile THEN {[Keep EXCEPT !.ret = -1]}
                     ELSE {Done([file EXCEPT !.filesz = a.filesz, !.recordsz = a.recordsz])}))

\* mfs_lookup: a failed msgSend or a negative lookup.err is returned.
MfsLookup ==
    (IF file = NoFile THEN {-1} ELSE {0}) \cup (IF SendMayFail \/ ServerMayFail THEN {-1} ELSE {})

\* mfs_open: mfs_lookup, then the mtOpen message; returns msg.o.io.err.
MfsOpen ==
    UNION {IF l < 0 THEN {[Keep EXCEPT !.ret = l]} ELSE Answers({Done(file)}) : l \in MfsLookup}

\* mfs_fileInfo: o->info is copied whatever msgSend returned.
MfsFileInfo ==
    (IF file = NoFile THEN {[Keep EXCEPT !.ret = -1]}
     ELSE {[Done(file) EXCEPT !.info = InfoOf(file)]})
    \cup (IF SendMayFail THEN {[Keep EXCEPT !.ret = g, !.info = i] : g \in Garbage, i \in GarbageInfos}
          ELSE {})
    \cup ServerError

\* mfs_write: one record appended.
MfsWrite(p) ==
    Answers(IF file = NoFile THEN {[Keep EXCEPT !.ret = -1]}
            ELSE {Done([file EXCEPT !.recs = Append(@, p)])})

\* mfs_read at offset k * RECORD_SIZE: the record, or 0 bytes past the end.
MfsRead(k) ==
    Answers(IF file = NoFile THEN {[Keep EXCEPT !.ret = -1]}
            ELSE IF k < Len(file.recs) THEN {[Done(file) EXCEPT !.rcv = file.recs[k + 1]]}
            ELSE {Done(file)})

\* mfs_close.
MfsClose == Answers({Done(file)})

\* The checks on what the wrappers returned: 0 to go on, -1 to fail.
Check(ok) == {[Keep EXCEPT !.ret = IF ok THEN 0 ELSE -1]}
CheckAllocated == Check(info = Info(2, 2000, 20, 0))
CheckResized == Check(info.sectors = 2 /\ info.filesz = 1000 /\ info.recordsz = 100)
\* memcmp of the first BUFF_SIZE bytes and the 0xff loop over the rest.
Compare(p) == Check(rcv = p)

-----------------------------------------------------------------------------
(* The test functions as sequences of steps.                               *)

Alloc == [sectors |-> 2, filesz |-> 2000, recordsz |-> 20, recs |-> <<>>]
S(op, arg) == [op |-> op, arg |-> arg]

ProgAllocate ==
    << S("wait", 0), S("erase", 0), S("allocate", Alloc), S("open", 0),
       S("info", 0), S("checkAllocated", 0), S("close", 0) >>

ProgWriteRead ==
    << S("wait", 0), S("erase", 0), S("allocate", Alloc), S("open", 0),
       S("write", "A"), S("read", 0), S("compare", "A"),
       S("write", "B"), S("read", 1), S("compare", "B"), S("close", 0) >>

ProgResize ==
    << S("wait", 0), S("erase", 0), S("allocate", Alloc), S("open", 0),
       S("resize", [filesz |-> 1000, recordsz |-> 100]),
       S("info", 0), S("checkResized", 0), S("close", 0) >>

Tests == {"Allocate", "WriteRead", "Resize"}
Prog(t) == CASE t = "Allocate" -> ProgAllocate
             [] t = "WriteRead" -> ProgWriteRead
             [] t = "Resize" -> ProgResize

Outcomes(s) ==
    CASE s.op = "erase"          -> MfsPartitionErase
      [] s.op = "allocate"       -> MfsAllocate(s.arg)
      [] s.op = "open"           -> MfsOpen
      [] s.op = "info"           -> MfsFileInfo
      [] s.op = "resize"         -> MfsResizeFile(s.arg)
      [] s.op = "write"          -> MfsWrite(s.arg)
      [] s.op = "read"           -> MfsRead(s.arg)
      [] s.op = "close"          -> MfsClose
      [] s.op = "checkAllocated" -> CheckAllocated
      [] s.op = "checkResized"   -> CheckResized
      [] s.op = "compare"        -> Compare(s.arg)

-----------------------------------------------------------------------------

Init ==
    /\ registered = FALSE
    /\ file = NoFile
    /\ test = "Allocate"
    /\ pc = 0
    /\ info = NoInfo
    /\ rcv = "Junk"
    /\ served = [o \in Ops |-> 0]
    /\ verdict = 1
    /\ runs = 0

\* The flash server registers the partition.
Register ==
    /\ ~registered
    /\ registered' = TRUE
    /\ UNCHANGED <<file, test, pc, info, rcv, served, verdict, runs>>

\* A test function is called; its rcvBuff is uninitialised.
Start(t) ==
    /\ pc = 0 /\ runs < MaxRuns
    /\ test' = t /\ pc' = 1 /\ runs' = runs + 1
    /\ info' = NoInfo
    /\ rcv' \in Patterns \cup {"Junk"}
    /\ served' = [o \in Ops |-> 0]
    /\ UNCHANGED <<registered, file, verdict>>

\* while (lookup(partitionPath, NULL, &poid) < 0) usleep(100000): the loop
\* leaves once the partition is registered.
Wait ==
    /\ pc # 0 /\ Prog(test)[pc].op = "wait"
    /\ registered
    /\ pc' = pc + 1
    /\ UNCHANGED <<registered, file, test, info, rcv, served, verdict, runs>>

\* One step of the test: a wrapper call or a check, then
\* if (... < 0) return -1; the last step returns 0.
Call ==
    /\ pc # 0 /\ Prog(test)[pc].op # "wait"
    /\ LET s == Prog(test)[pc]
       IN \E o \in Outcomes(s) :
            /\ file' = o.file /\ info' = o.info /\ rcv' = o.rcv
            /\ served' = IF o.srv /\ s.op \in Ops THEN [served EXCEPT ![s.op] = @ + 1] ELSE served
            /\ IF o.ret < 0 \/ pc = Len(Prog(test))
               THEN pc' = 0 /\ verdict' = IF o.ret < 0 THEN -1 ELSE 0
               ELSE pc' = pc + 1 /\ verdict' = verdict
    /\ UNCHANGED <<registered, test, runs>>

Next ==
    \/ Register
    \/ \E t \in Tests : Start(t)
    \/ Wait
    \/ Call

Spec == Init /\ [][Next]_vars

-----------------------------------------------------------------------------
(* Properties.                                                             *)

\* The requests each test exists to check: what the server must have
\* carried out for the test to mean anything when it returns 0.
Required(t) ==
    CASE t = "Allocate" -> [allocate |-> 1, info |-> 1]
      [] t = "WriteRead" -> [write |-> 2, read |-> 2]
      [] t = "Resize" -> [resize |-> 1, info |-> 1]

\* A test that returns 0 had every request it tests carried out by the
\* server, although mfs_partitionErase and mfs_resizeFile return 1 whatever
\* the server answered and the partition may hold an earlier test's file.
TestSound ==
    pc = 0 /\ verdict = 0 =>
        \A k \in DOMAIN Required(test) : served[k] >= Required(test)[k]

=============================================================================
