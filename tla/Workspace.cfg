SPECIFICATION FairSpec
CONSTANTS
    MaxGeneration = 4
    MaxErrors = 1
    Drafts = {d1, d2}
    NeedsConfirmation = {d1}
    None = None
INVARIANTS
    ShowsLatestSubmission
    OneThingInProgress
    SavedPairMatches
    SavedWasConfirmed
    ReviewMatchesForm
PROPERTY
    PreviewAnswered
CHECK_DEADLOCK FALSE
