\* One split racing three writers: a writer counted only after the split's
\* drain proposes its row behind OP_VALIDATE_AND_ADD_VERSION.
CONSTANTS
    w1 = w1
    w2 = w2
    w3 = w3
    NoWriter = NoWriter
    Writers <- MCWriters
    KeyOf <- MCKeyOf
    SplitKey <- MCSplitKey
    AddVersionTries <- MCAddVersionTries
SPECIFICATION Spec
INVARIANT AckedWritesReadable
CHECK_DEADLOCK FALSE
