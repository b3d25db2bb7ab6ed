SPECIFICATION Spec
CONSTANTS
    None = None
    LenMod = 8
    Utf8 <- MCUtf8
    MaxTags = 2
    MaxDirectives = 2
    LastVersion = 7
    Metas <- MCMetas
    Length <- MCLength
    Instants <- MCInstants
    CacheControl <- MCCacheControl
    Controls = {8}
    PerSecond = 2
    MaxHeld = 2
    Strict = TRUE
    Faulty = TRUE
INVARIANTS TypeOK NotModifiedIsCurrent HeldIsNotSentAgain HeadersSurviveStorage
    NoCacheIsNotServed DirectivesAsSent
