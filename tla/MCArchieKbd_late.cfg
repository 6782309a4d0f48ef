\* Two timeouts that come too early, and a reset.
SPECIFICATION Spec
CONSTANTS
    QUEUE_LEN = 8
    MouseMax = 0
    MaxEvents = 2
    MaxResets = 1
    MaxLate = 2
    MaxIds = 0
PROPERTY NoDataInReset
