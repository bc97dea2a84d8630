SPECIFICATION Spec
CONSTANTS
    Cap = 3
    Chunk = 2
    FileSizes <- MCFileSizes
    MaxHeap = 8
    MinHeap = 2
    Tries = 2
    MaxMapChanges = 2
    AddrSpace = 256
    Page = 8
    SpanMax = 16
    RelaSize = 2
    WordSize = 2
    Elfs <- MCElfs
INVARIANTS FailuresFree HandoverTrue ImageContainedUnlessWrapped
PROPERTIES OnlyMapOrExit BootEnds
\* The boot stage halts, or the kernel takes over.
CHECK_DEADLOCK FALSE
