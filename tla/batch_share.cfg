SPECIFICATION Spec
CONSTANTS
    b1 = b1  b2 = b2  o1 = o1  o2 = o2  o3 = o3
    base = base  other = other  rival = rival  pool = pool  manager = manager
    MaxBlock = 7
    MaxProposals = 2
    VotingDelay = 1
    VotingPeriod = 3
    Owners = {o1, o2, o3}
    Base = base
    Holding <- MCHolding
    Modules = {pool, manager, rival}
    Pool = pool
    Manager = manager
    Switchable = {}
    LockDurations = {}
    InitMaxLock = 6
    LockRequests = {}
    InitConfigs <- OneConfig
    ConfigInputs = {}
    Bidders = {b1}
    NoBidder = NoBidder
    MaxInt = 200000
    BidAmounts = {11}
    SupportInputs = {1}
    GasRefunds = {2}
    ProverVersions = {1}
    ProverFunding <- ExactFunding
    MaxBatch = 2
    RivalSupports = {}
PROPERTIES SharePriceNeverFalls
