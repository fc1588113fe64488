CONSTANTS
    x1 = x1  x2 = x2  x3 = x3
    camera = camera  light = light
    peripheral = peripheral  runtime = runtime
    Kinds = {peripheral, runtime}
    Names = {camera, light}
    General = General
    Conns = {x1, x2, x3}
    KindOf <- ConnKinds
    NameOf <- ConnNames
    Requests <- NameLists
    MaxHandles = 3
SPECIFICATION Spec
INVARIANTS RegisteredIsRunning OneStreamPerName LookupIsAtomic
