CONSTANTS
    s1 = s1  s2 = s2  s3 = s3  u = u  w = w  c = c  e = e  d1 = d1  d2 = d2  p = p  a = a  q = q
    t1 = t1  t2 = t2  b = b  g = g  r = r
    leaf = leaf  mid = mid  top = top  main = main  memcpy = memcpy  sort = sort
    Indirect = Indirect  NoCallee = NoCallee  NoSite = NoSite  NoAliases = NoAliases
    Site = {s1, s2, s3, u, w, c, e, d1, d2, p, a, q, t1, t2, b, g, r}
    Fn = {leaf, mid, top, main, memcpy, sort}
    External = {memcpy, sort}
    Replaceable = {memcpy}
    Patchable = {memcpy}
    Immutable = {leaf}
    FnOf <- FnOfSite
    CalleeOf <- Callee
    Options <- AllOptions
    MaxOps = 2
    OpLists <- AllLists
    Scores <- SomeScores
SPECIFICATION Spec
INVARIANTS
    TypeOK
    NoConflict
    FenceHasPlace
    ImmutableRespected
    RepairsDirectly
PROPERTIES
    ImplementsRepair
    RepairEnds
    DemandKept
