CONSTANTS
    main = main  put = put  open = open  map = map  test = test  driver = driver  idle = idle
    o = o  h = h  local = local  k = k  q = q  p = p  r = r  stray = stray
    NoValue = NoValue  NoFn = NoFn
    Fn = {main, put, open, map, test, driver, idle}
    Whitelist = {open}
    Value = {o, h, local, k, q, p, r, stray}
    NotHeap = {local, k}
    Inst <- Program
    Location <- Lines
    FixLocs <- FixLocsOfLine
    PointsTo <- Andersen
    HasNode <- Nodes
    MaxEvents = 2
    Traces <- TraceSet
    Options <- AllOptions
SPECIFICATION Spec
CHECK_DEADLOCK FALSE
INVARIANTS
    TypeOK
    NothingStripped
    CacheFresh
    NotPastPointer
    StoresArePm
