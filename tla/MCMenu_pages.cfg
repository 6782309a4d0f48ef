\* Four machines, one started from a USB disk, and two selections that change something.
SPECIFICATION Spec
CONSTANTS
    Cores <- FourCores
    UsbCores = {"archie"}
    Strings <- OneList
    FirstExt = "PRG"
    Units <- Both
    Partitions = 1
    Names = {"a"}
    Slots = {1}
    InitSaved <- FiveDrives
    MaxEffects = 2
INVARIANTS
    TypeOK
    MenuShown
    HardfilesAsOpened
    ListAsAsked


PROPERTIES
    EscLeaves
