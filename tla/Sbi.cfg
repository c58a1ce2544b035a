\* The firmwares that implement the TIME extension or only the legacy calls.
CONSTANTS
    Firmwares <- MCFirmwares
    Times <- MCTimes
    MaxTime = 7
    Chars <- MCChars
    MaxOut = 2
SPECIFICATION Spec
INVARIANT
    ChosenCallImplemented
PROPERTY
    TimerFires
