SPECIFICATION Spec
CONSTANTS
    Creators = {c1, c2}
    Sessions = {s1}
    MaxCrashes = 2
INVARIANTS ServesCompleteSchemaOnly ManifestDescribesTheCopy EndedSessionsStayEnded FailuresAreExplained
CHECK_DEADLOCK FALSE
