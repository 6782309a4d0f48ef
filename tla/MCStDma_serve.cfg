\* Two targets, a floppy drive, one image each, and two written sectors.  The
\* floppy has no format that is tried: sector 0 of the card is asked.
SPECIFICATION Spec
CONSTANTS
    CardSize = 12
    Place <- MCPlace
    HardFiles = {"h"}
    FloppyFiles = {"f"}
    PerTrack = {3}
    Tracks = {2}
    Multipliers = {1}
    OneSided = 4
    BootSector <- MCBootSector
    NoFile = "none"
    Targets = {0, 1}
    Drives = {0}
    Ops = {"read", "write10", "sense", "ready", "inquiry", "modesense", "other"}
    Luns = {0, 1}
    LunOps = {"read", "sense"}
    Lbas = {1}
    Lens = {0, 2}
    FdcOps = {"read", "write", "readtrack"}
    TrackNumbers = {1}
    SectorNumbers = {0, 1, 2}
    LbaMod = 1024
    MaxDirty = 2
INVARIANTS
    TypeOK
    EnabledAreServed
PROPERTIES
    AnswerRight
    MountedAnswers
