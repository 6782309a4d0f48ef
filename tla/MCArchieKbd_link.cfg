\* A ring of three entries, three events, a reset, an id request and one
\* timeout that comes too early.
SPECIFICATION FairSpec
CONSTANTS
    QUEUE_LEN = 4
    MouseMax = 1
    MaxEvents = 3
    MaxResets = 1
    MaxLate = 1
    MaxIds = 1
INVARIANTS
    TypeOK
    PairsIntact
PROPERTIES
    ResetCompletes
    EventsDelivered
