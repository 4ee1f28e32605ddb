SPECIFICATION Spec
CONSTANTS
    Starts <- MCStarts
    SettingChoices <- MCSettingChoices
INVARIANTS
    CodecsAllowed
    OutputsCurrent
    MuxerFits
CHECK_DEADLOCK FALSE
