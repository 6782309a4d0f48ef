\* A user who presses keys in the round in which a page is closed.
SPECIFICATION SpecHasty
CONSTANTS
    Cores <- FourCores
    UsbCores = {"archie"}
    Strings <- OneList
    FirstExt = "PRG"
    Units <- Both
    Partitions = 1
    Names = {"a"}
    Slots = {1}
    InitSaved <- FiveDrives
    MaxEffects = 2
INVARIANTS
    MenuShown
