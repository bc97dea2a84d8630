SPECIFICATION Spec
CONSTANTS
    PageUnits = 2
    GuardPage = 3
    StackPages = 2
    TableOf <- MCTableOf
    HeapPages = 10
    Programs <- MCPrograms
    WriteLens = {0, 1, 2, 3, 5}
    MaxWrite = 4
    ExitArgs = {0, 256, 1000}
    MaxTicks = 2
    Vectors = {13, 14}
    None = None
INVARIANTS
    UserWriteXorExecute
    GuardUnmapped
    ImageComplete
    OnlyRefusedLeftovers
    NoKernelFault
PROPERTIES
    SleepReturns
    ShellComesBack
