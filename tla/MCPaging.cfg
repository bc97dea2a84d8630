SPECIFICATION PagingSpec
CONSTANTS
    AddrSpace <- MCAddrSpace
    HeapBase  = 73728
    HeapSize  = 98304
    Sizes     <- MCSizes
    DmaSizes  <- MCDmaSizes
    DmaAligns <- MCDmaAligns
    Fan       = 4
    Low       = 65536
    UserBase  = 786432
    UserTop   = 851968
    Stack     <- MCStack
    BootInfos <- MCBootInfos
    Bars      <- MCBars
    Programs  <- MCPrograms
    MaxKallocs = 3
    MaxDma     = 2
INVARIANTS
    BlocksSafe
    NoWriteExecute
    KernelPrivate
    KernelReaches
    NoStaleTranslation
    UserOkIsAccess
PROPERTIES
    RefusalCostsNoPage
    FlatMap
