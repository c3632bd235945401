\* A new document of three lines, saved, edited in one place and saved again.
SPECIFICATION DocumentSpec
CONSTANTS
    NoText = NoText
    Lines <- Typed
    Required <- RequiredSections
    Placeholders = {"x"}
    MaxLines = 3
    MaxEdits = 1
INVARIANTS
    NormalizeIsIdempotent
    MeaningIsKept
    SectionsAreDistinct
PROPERTIES
    EditIsRecorded
CHECK_DEADLOCK FALSE
