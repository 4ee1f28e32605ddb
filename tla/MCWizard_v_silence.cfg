SPECIFICATION Spec
CONSTANTS
    Starts <- WizardStarts
    SourceChoices <- Settings
    FilterChoices <- FilterSettings
INVARIANT SilenceKept
