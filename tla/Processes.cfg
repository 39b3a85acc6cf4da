SPECIFICATION Spec
CONSTANTS
    Versions = {"below", "at", "above"}
    Length <- MCLength
    MaxBytes = 2
    MaxRedirects = 1
    ContentsLimit = 2
    MaxChanges = 2
    Nothing = Nothing
    Child = "child"
    Others = {"other"}
    Databases = {"d1", "d2"}
    Addresses = {"a1", "a2"}
    Migrations <- MCMigrations
    MaxStarts = 2
    Nobody = Nobody
    Foreign = Foreign
INVARIANTS
    FetchedIsWhole
    SchemaWhole
    FailedSpawnLeavesNoChild
PROPERTIES
    FetchEnds
    SpawnEnds
CHECK_DEADLOCK FALSE
