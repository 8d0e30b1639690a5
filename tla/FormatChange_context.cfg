SPECIFICATION Spec
CONSTANTS
    Aspects = {wide, narrow, square}
    Resolutions = {hd, sd}
    Unknown = Unknown
    NULL = NULL
    FRAMES = 2
PROPERTIES OldSideIsTrue
