SPECIFICATION Spec
CONSTANTS
    None = None
    Failed = Failed
    Torn = Torn
    Mojibake = Mojibake
    NoFile = NoFile
    Contents = {"text", "bin", "empty"}
    Empty = "empty"
    Binary = {"bin"}
    Entries <- MCEntries
    MaxEntries = 3
    MaxDamage = 1
    MaxReads = 4
    MaxMounts = 3
    MaxBytes = 5
    Second = 3
    Half = 16
    DefaultMaxInlineBytes = 3
    Digits = 2
INVARIANTS
    RootBindsReads
    DiffIsExact
    VerifyIsExact
    ExportersAgree
    ContentShown
    RemoteIsLocal
    SurfacesAgree
    HistoryNewestFirst
CHECK_DEADLOCK FALSE
