SPECIFICATION Spec
CONSTANTS
    Starts <- AllStarts
    SourceChoices <- Settings
    FilterChoices <- FilterSettings
INVARIANTS
    TypeOK
    AudioAsChosen
    EncodesAsListed
    InputsCurrent
    FiltersAsSet
    FilesKept
