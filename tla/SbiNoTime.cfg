\* A v0.2 firmware without the TIME extension: the probe succeeds with
\* value 0, and sbi_init still picks the TIME call.
CONSTANTS
    Firmwares <- MCFirmwaresNoTime
    Times <- MCTimes
    MaxTime = 7
    Chars <- MCChars
    MaxOut = 2
SPECIFICATION Spec
PROPERTY
    TimerFires
