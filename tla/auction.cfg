SPECIFICATION Spec
CONSTANTS
    b1 = b1  b2 = b2  o1 = o1  o2 = o2  o3 = o3
    base = base  other = other  rival = rival  pool = pool  manager = manager
    MaxBlock = 8
    MaxProposals = 1
    VotingDelay = 1
    VotingPeriod = 4
    Owners = {o1, o2, o3}
    Base = base
    Holding <- MCHolding
    Modules = {pool, manager, rival}
    Pool = pool
    Manager = manager
    Switchable = {pool}
    LockDurations = {3}
    InitMaxLock = 6
    LockRequests = {}
    InitConfigs <- AuctionConfigs
    ConfigInputs <- Reconfigurations
    Bidders = {b1, b2}
    NoBidder = NoBidder
    MaxInt = 80000
    BidAmounts = {4, 5, 6}
    SupportInputs = {0, 1, 3}
    GasRefunds = {2}
    ProverVersions = {1}
    ProverFunding = {}
    MaxBatch = 1
    RivalSupports = {2}
SYMMETRY BidderSymmetry
INVARIANTS TypeOK BidderMadeWhole LockCoversBid VoteMatchesBid CastWindowKept
PROPERTIES NoAtomicBidAndCast FeeNeverRaisedUnderLock AuctionEndNeverEarlier
