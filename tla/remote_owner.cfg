SPECIFICATION FairSpec
CONSTANTS
    v1 = v1  v2 = v2  nobody = nobody  o1 = o1  o2 = o2  o3 = o3
    governor = governor  relayer = relayer  manager = manager  rival = rival
    MaxBlock = 6
    MaxProposals = 1
    VotingDelay = 1
    VotingPeriod = 2
    Modules = {relayer, manager, rival}
    Switchable = {}
    LockDurations = {5}
    InitMaxLock = 5
    LockRequests = {}
    Governor = governor
    Governors = {governor, nobody}
    Relayer = relayer
    Manager = manager
    Members = {o1}
    Voters = {v1}
    Stake <- MCStake
    TotalSupply <- MCTotalSupply
    ProofBatches <- OneAccount
    Syncs <- OwnNumbers
    InitGovConfig <- GovConfig
    InitRelConfig <- RelConfig
    Fees = {0, 1}
    GasCosts = {1}
    InitGovBalance = 2
    Quorums = {5000}
    Tips = {0}
    Calls <- OwnersCalls
    MaxRequests = 2
    RelayGas = {1}
    Withdrawals = {2}
    InitRelBalance = 2
    None = None
    Results = {FALSE}
    Undone = {}
    RivalSupports = {}
INVARIANTS TypeOK OneTipEach
PROPERTIES NotSettledEarly EveryBallotSettles
