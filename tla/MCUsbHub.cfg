SPECIFICATION Spec
CONSTANTS
    Ports = {1}
    HubPorts = {1, 2}
    h1 = h1
    k1 = k1
    k2 = k2
    x = x
    None = None
    Root = Root
    Hubs = {h1}
    Kbds = {k1, k2}
    Usages = {x}
    Slots = {1, 2, 3}
    DevSlots = {1, 2, 3, 4}
    MaxPlugs = 2
    MaxKeys = 1
    MaxFaults = 1
INVARIANTS
    ChildrenTracked
    OneDevicePerPlace
PROPERTIES
    OnlyTheGoneAreDropped
    KeysArrive
    GoneForgotten
