SPECIFICATION TablesSpec
CONSTANTS
    s1 = s1
    s2 = s2
    s3 = s3
    k1 = k1
    d1 = d1
    c1 = c1
    w1 = w1
    w2 = w2
    e1 = e1
    t1 = t1
    Nodes <- MCNodes
    Permits <- MCPermits
    Dispatchers <- MCDispatchers
    Servers <- MCServers
    Conns <- MCConns
    ServerOf <- MCServerOf
    Workers <- MCWorkers
    KeyOf <- MCKeyOf
    Clients <- MCClients
    ClientOf <- MCClientOf
    Instances <- MCInstances
    PipeEnds <- MCInstances
    Wrapper = e1
    Task = t1
    LastPipe = 3
    LastEvent = 1
    CallLimit = 1
    LastCall = 2
INVARIANTS
    PipesInv
    SearchInv
    NothingOutlivesOwner
    SessionInv
PROPERTIES
    PipesSettle
    WorkersStop
    NoZombieRow
    AllOrNothing
CHECK_DEADLOCK FALSE
