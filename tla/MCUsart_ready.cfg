\* A ring that is emptied while USART_Write() looks.
SPECIFICATION Spec
CONSTANTS
    Size = 4
    MaxBytes = 4
INVARIANT TransmitterReady
CHECK_DEADLOCK FALSE
