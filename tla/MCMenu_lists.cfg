\* A core with two file entries besides the first, which share a buffer.
SPECIFICATION Spec
CONSTANTS
    Cores = {"8bit"}
    UsbCores = {}
    Strings <- TwoLists
    FirstExt = "PRG"
    Units = {0}
    Partitions = 1
    Names = {"a"}
    Slots = {1}
    InitSaved <- FiveDrives
    MaxEffects = 1
INVARIANT
    ListAsAsked
