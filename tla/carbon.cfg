CONSTANTS
    Client = {1, 2, 3, 4, 5}
    Delay = 250
    Mul = 2
    DelayMax = 400
    Retries = 1
    Chunks = 2
    Batch <- MCBatch
SPECIFICATION FairSpec
INVARIANTS TypeOK TriesInv ChunksPartition WholeChunkSent
PROPERTIES AllReady
