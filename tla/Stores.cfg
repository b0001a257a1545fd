\* An LU with two workers and one with one, with a signalfd and with the ack
\* thread and its pipes; two LUs with AIO whose batches share a queue depth of
\* two.
SPECIFICATION MCSpec
CONSTANTS
    NrCmds = 3
    Lus = {"l1", "l2"}
    NrThreads <- Threads
    IoDepth = 2
    None = None
INVARIANTS NothingStranded OnceInOrder CloseLosesNothing AioExact
PROPERTY EveryCommandCompletes
\* The commands of a behaviour are bounded, and an LU with a lost command stays.
CHECK_DEADLOCK FALSE
