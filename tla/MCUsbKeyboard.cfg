SPECIFICATION Spec
CONSTANTS
    Ports = {1, 2}
    k1 = k1
    k2 = k2
    x = x
    y = y
    None = None
    Kbds = {k1, k2}
    Usages = {x, y}
    RollLimit = 1
    Slots = {1, 2}
    DevSlots = {1, 2}
    KQ = 2
    MaxPlugs = 3
    MaxKeys = 2
    MaxErrors = 1
    MaxTimeouts = 1
SYMMETRY Symmetric
INVARIANTS
    OneTrbPerKeyboard
    OneDevicePerPort
    SlotsOwned
    RepeatHasKeyUnlessAbandoned
    HotplugWorksIfSeen
CHECK_DEADLOCK FALSE
