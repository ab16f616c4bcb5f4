SPECIFICATION MCSpec
CONSTANTS
    ADSP_MAX_DATA = 1
    RX_WINDOW = 3
    TX_BUFFER = 3
    ADSP_MAX_RETRIES = 1
    Writers = {1, 2}
    EomChoices = {FALSE, TRUE}
    MessageReaders = {2}
    ReadSizes = {1}
    MaxWritten = 4
    WriteSizes = {1,2}
    MaxCable = 1
    MaxLoss = 1
INVARIANTS
    StreamIntact
    FlushedIsReceived
    ReadsRight
PROPERTIES
    AllArrives
CHECK_DEADLOCK FALSE
