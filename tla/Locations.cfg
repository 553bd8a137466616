CONSTANTS
    main = main  bar1 = bar1  foo = foo  foo1 = foo1  g1 = g1  gx = gx  hx = hx  hx1 = hx1
    memcpy = memcpy  bar = bar  g = g  memcpy_avx = memcpy_avx
    a = a  b = b  c = c  h = h  bSeen = bSeen  libc = libc
    Indirect = Indirect  NoCallee = NoCallee
    MaxDepth = 5
    Fn = {main, bar1, foo, foo1, g1, gx, hx, hx1, memcpy}
    External = {memcpy}
    Memory = {memcpy}
    Name = {main, bar, foo, g, gx, hx, memcpy_avx}
    File = {a, b, c, h, bSeen, libc}
    Inst <- Program
    TraceName <- TraceNames
    Occurs <- Where
    Seen <- FileNames
    SameFile <- Files
    Stacks <- Chains
SPECIFICATION Spec
INVARIANTS
    TypeOK
    RightWithoutCopies
    CallsNext
    AllMapped
    PlainResolves
CHECK_DEADLOCK FALSE
