CONSTANTS
    Client = {1, 2}
    Delay = 250
    Mul = 2
    DelayMax = 2000
    Retries = 1
    Chunks = 2
    Batch <- MCFew
SPECIFICATION Spec
INVARIANTS BatchIsSplit
