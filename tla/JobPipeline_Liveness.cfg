SPECIFICATION FairSpec
CONSTANTS
    p1 = p1  p2 = p2
    w1 = w1  w2 = w2  w3 = w3
    s1 = s1  s2 = s2  a1 = a1
    h1 = h1  h2 = h2  h3 = h3
    NoThread = NoThread  NoPool = NoPool  NoHarq = NoHarq
    Pool = {p1}
    Worker = {w1, w2}
    SyncProducer = {s1, s2}
    AppProducer = {a1}
    Opener = {s1}
    Registrar = {s2}
    FirstPool = p1
    PoolOf <- MCOnePool
    HarqRx = {h1, h2}
    Capacity = 2
    MaxIrregular = 1
    MaxJobs = 2
    Kind = {"irregular", "application"}
PROPERTIES
    ImplementsFirmwareCalls
    EveryJobServed
    ShutdownCompletes
