SPECIFICATION FairSpec
CONSTANTS
    People = {a}
    Workers = {w}
    Asked = {"prepare", "send", "archive", "text", "caption", "publish"}
    AutoImages = TRUE
    MaxFaults = 1
    Nobody = Nobody
INVARIANTS SocialInv ArchiveKept
PROPERTIES CoverOutdatedByRender PreparationEnds
CHECK_DEADLOCK FALSE
