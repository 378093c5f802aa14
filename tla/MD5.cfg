SPECIFICATION Spec
CONSTANTS
    ByteShift = 1
    WordBytes = 2
    BlockSize = 8
    BUFFER_SIZE = 5
    Lengths = {0, 5, 13}
    MaxBytes = 131
    MaxMessages = 2
    MaxDigests = 2
INVARIANTS CountExact TailKept DigestRight
CHECK_DEADLOCK FALSE
