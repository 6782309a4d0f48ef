\* Rings of three entries, more bytes either way than transmitter and ring hold.
SPECIFICATION FairSpec
CONSTANTS
    Size = 3
    MaxBytes = 5
INVARIANTS
    TypeOK
PROPERTIES
    RxInOrder
    TxInOrder
    AllSent
\* everything has been sent and received
CHECK_DEADLOCK FALSE
