--------------------------------- MODULE Sbi ---------------------------------
(***************************************************************************)
(* The SBI shim of the RISC-V loader (sbi.c): sbi_ecall, sbi_init, which   *)
(* reads the specification version and probes the TIME extension to pick   *)
(* the timer call, and sbi_setTimer, which calls through the pointer it    *)
(* chose; and the legacy console calls sbi_putchar and sbi_getchar, which  *)
(* return the firmware's a0 (ret.error).                                   *)
(*                                                                         *)
(* The firmware is the environment.  It answers an ecall as the RISC-V SBI *)
(* specification says: a function of an extension it implements returns   *)
(* error 0; the Base probe function returns error 0 with value 1 for an    *)
(* implemented extension and value 0 for an absent one; an ecall to an     *)
(* extension it does not implement returns a negative error and leaves a1  *)
(* as the caller set it.  A legacy call returns its result in a0 and also *)
(* leaves a1 alone: console_putchar 0, console_getchar the character or -1.*)
(* Extension IDs are the names of the extensions.                          *)
(***************************************************************************)
EXTENDS Integers, Sequences

CONSTANTS
    Firmwares,  \* the firmwares the loader may run on: sets of extensions
    Times,      \* deadlines a caller passes to sbi_setTimer
    MaxTime,    \* bound on the time counter
    Chars,      \* characters written and typed on the console
    MaxOut      \* bound on the characters the console shows

\* SBI_EXT_BASE, SBI_EXT_TIME and the legacy extensions the shim calls.
Extensions == {"BASE", "TIME", "LEGACY_SETTIMER", "LEGACY_PUTCHAR", "LEGACY_GETCHAR"}
NoChar == -1
ErrNotSupported == -2

ASSUME /\ Firmwares \subseteq SUBSET Extensions /\ Times \subseteq 0..MaxTime
       /\ Chars \subseteq Nat /\ MaxOut \in Nat

VARIABLES
    fw,           \* the extensions of the firmware the loader runs on
    specVersion,  \* sbi_common.specVersion
    setTimer,     \* sbi_common.setTimer: "NULL", "v01" or "v02"
    armed,        \* the firmware: the deadline of the armed timer, or -1
    now,          \* the time counter
    irq,          \* the supervisor timer interrupt is pending
    requested,    \* ghost: the deadline of the last sbi_setTimer whose
                  \* interrupt has not been taken, or -1
    tty,          \* the characters the firmware's console has printed
    inq,          \* the character typed and not yet read, or NoChar
    conRet        \* what the last sbi_putchar or sbi_getchar returned

vars == <<fw, specVersion, setTimer, armed, now, irq, requested, tty, inq, conRet>>
timerVars == <<fw, specVersion, setTimer, armed, now, irq, requested>>

\* The firmware's answer [error, value] to an ecall (ext, fid, arg0, arg1).
FwAnswer(ext, fid, arg0, arg1) ==
    IF ext \notin fw THEN [error |-> ErrNotSupported, value |-> arg1]
    ELSE IF ext = "BASE" /\ fid = "PROBE_EXT"
         THEN [error |-> 0, value |-> IF arg0 \in fw THEN 1 ELSE 0]
    ELSE IF ext = "BASE" /\ fid = "SPEC_VER"
         THEN [error |-> 0, value |-> IF "TIME" \in fw THEN 2 ELSE 1]
    ELSE IF ext = "LEGACY_GETCHAR" THEN [error |-> inq, value |-> arg1]
    ELSE [error |-> 0, value |-> 0]

\* sbi_ecall: a0..a7 loaded, ecall, ret.error = a0, ret.value = a1.
Ecall(ext, fid, arg0) == FwAnswer(ext, fid, arg0, 0)

\* sbi_getSpecVersion and sbi_probeExtension.
GetSpecVersion == Ecall("BASE", "SPEC_VER", 0)
ProbeExtension(extid) == Ecall("BASE", "PROBE_EXT", extid)

\* The firmware's timer after an ecall that sets it: armed only by a
\* timer extension it implements.
TimerAfter(ext, stime) == IF ext \in fw THEN stime ELSE armed

\* sbi_setTimerv01 and sbi_setTimerv02: one ecall each.
SetTimerv01(stime) == TimerAfter("LEGACY_SETTIMER", stime)
SetTimerv02(stime) == TimerAfter("TIME", stime)

\* A slip in sbi_init: the probe's value is taken as an error code.
ChooseTimerByValue(ret) == IF ret.value = 0 THEN "v02" ELSE "v01"

\* sbi_init's choice: the v0.2 call when the probe returned no error.
ChooseTimer(ret) == IF ret.error = 0 THEN "v02" ELSE "v01"

-----------------------------------------------------------------------------

Init ==
    /\ fw \in Firmwares
    /\ specVersion = 0
    /\ setTimer = "NULL"
    /\ armed = -1
    /\ now = 0
    /\ irq = FALSE
    /\ requested = -1
    /\ tty = <<>>
    /\ inq = NoChar
    /\ conRet = 0

\* sbi_init: read the version, probe TIME, store the timer function.
SbiInit ==
    /\ specVersion' = GetSpecVersion.value
    /\ setTimer' = ChooseTimer(ProbeExtension("TIME"))
    /\ UNCHANGED <<fw, armed, now, irq, requested, tty, inq, conRet>>

\* sbi_setTimer(stime): sbi_common.setTimer(stime).  Called before
\* sbi_init it jumps to address 0; the loader calls sbi_init first.  A
\* firmware that implements the call clears the pending interrupt.
SbiSetTimer(stime) ==
    /\ setTimer # "NULL"
    /\ LET a == IF setTimer = "v02" THEN SetTimerv02(stime) ELSE SetTimerv01(stime)
       IN /\ armed' = a
          /\ irq' = (irq /\ a = armed)
    /\ requested' = stime
    /\ UNCHANGED <<fw, specVersion, setTimer, now, tty, inq, conRet>>

\* The environment: the counter advances; the firmware raises the
\* interrupt at the armed deadline; the kernel takes the interrupt.
Tick == now < MaxTime /\ now' = now + 1 /\ UNCHANGED <<fw, specVersion, setTimer, armed, irq, requested, tty, inq, conRet>>
Fire ==
    /\ armed # -1 /\ now >= armed
    /\ irq' = TRUE /\ armed' = -1
    /\ UNCHANGED <<fw, specVersion, setTimer, now, requested, tty, inq, conRet>>
TakeIrq ==
    /\ irq
    /\ irq' = FALSE /\ requested' = -1
    /\ UNCHANGED <<fw, specVersion, setTimer, armed, now, tty, inq, conRet>>

\* Someone types a character; the firmware holds one until it is read.
Type(c) == inq = NoChar /\ inq' = c /\ UNCHANGED <<timerVars, tty, conRet>>

\* The firmware's console after an ecall to the legacy console extensions.
TtyAfter(ch) == IF "LEGACY_PUTCHAR" \in fw THEN Append(tty, ch) ELSE tty
InqAfterGetchar == IF "LEGACY_GETCHAR" \in fw THEN NoChar ELSE inq


\* sbi_putchar(ch): returns sbi_ecall(SBI_LEGACY_PUTCHAR, 0, ch, ...).error.
SbiPutchar(ch) ==
    /\ Len(tty) < MaxOut
    /\ tty' = TtyAfter(ch)
    /\ conRet' = Ecall("LEGACY_PUTCHAR", 0, ch).error
    /\ UNCHANGED <<timerVars, inq>>

\* sbi_getchar(): returns sbi_ecall(SBI_LEGACY_GETCHAR, 0, 0, ...).error.
SbiGetchar ==
    /\ conRet' = Ecall("LEGACY_GETCHAR", 0, 0).error
    /\ inq' = InqAfterGetchar
    /\ UNCHANGED <<timerVars, tty>>

Next ==
    \/ SbiInit
    \/ \E t \in Times : SbiSetTimer(t)
    \/ Tick \/ Fire \/ TakeIrq
    \/ \E c \in Chars : SbiPutchar(c) \/ Type(c)
    \/ SbiGetchar

\* The counter and the firmware's comparator are hardware: they do not
\* stop.  The loader and the kernel need not call anything.
Spec == Init /\ [][Next]_vars /\ WF_vars(Tick) /\ WF_vars(Fire)

-----------------------------------------------------------------------------
(* Properties.                                                             *)

\* After sbi_init, the timer call it chose is one the firmware implements.
ChosenCallImplemented ==
    setTimer # "NULL" => (IF setTimer = "v02" THEN "TIME" ELSE "LEGACY_SETTIMER") \in fw

\* Every deadline passed to sbi_setTimer leads to a timer interrupt, on
\* every firmware the loader supports.
TimerFires == requested # -1 ~> irq

=============================================================================
