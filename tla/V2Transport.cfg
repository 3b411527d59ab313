\* A miner's frames in pieces, and writes of three tasks, with one fault.
SPECIFICATION FairSpec
CONSTANTS
    Act1Size = 2
    HeaderSize = 1
    MacSize = 1
    MaxChunk = 2
    BufferLimit = 2
    PayloadLength = {0, 1, 3}
    MaxFrames = 2
    MaxPieces = 1
    MaxWrites = 3
    MaxFaults = 1
CHECK_DEADLOCK FALSE
INVARIANTS
    NonceInStep
PROPERTIES
    InboundInOrder
    FrameArrives
