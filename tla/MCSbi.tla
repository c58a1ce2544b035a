-------------------------------- MODULE MCSbi --------------------------------
(* Firmwares: SBI v0.1 (legacy calls only, no Base extension); v0.2 and  *)
(* later with TIME and the legacy calls; v2.0 and later without the       *)
(* legacy calls.  And a v0.2 firmware that does not implement TIME.       *)
EXTENDS Sbi

Legacy == {"LEGACY_SETTIMER", "LEGACY_PUTCHAR", "LEGACY_GETCHAR"}
FwLegacy == Legacy
FwTime == {"BASE", "TIME"} \cup Legacy
FwNoLegacy == {"BASE", "TIME"}
FwNoTime == {"BASE"} \cup Legacy

MCFirmwares == {FwLegacy, FwTime, FwNoLegacy}
MCFirmwaresNoTime == {FwNoTime}
MCTimes == {2, 4, 6}
MCChars == {65, 66}
=============================================================================
