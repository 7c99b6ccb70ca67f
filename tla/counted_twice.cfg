SPECIFICATION Spec
CONSTANTS
    v1 = v1  v2 = v2  nobody = nobody  o1 = o1  o2 = o2  o3 = o3
    governor = governor  relayer = relayer  manager = manager  rival = rival
    MaxBlock = 8
    MaxProposals = 1
    VotingDelay = 1
    VotingPeriod = 4
    Modules = {relayer, manager, rival}
    Switchable = {relayer}
    LockDurations = {5}
    InitMaxLock = 5
    LockRequests = {}
    Governor = governor
    Governors = {governor}
    Relayer = relayer
    Manager = manager
    Members = {o1, o2, o3}
    Voters = {v1, v2}
    Stake <- MCStake
    TotalSupply <- MCTotalSupply
    ProofBatches <- AnyAccounts
    Syncs <- OwnNumbers
    InitGovConfig <- GovConfig
    InitRelConfig <- RelConfig
    Fees = {0}
    GasCosts = {0}
    InitGovBalance = 0
    Quorums = {}
    Tips = {}
    Calls = {}
    MaxRequests = 0
    RelayGas = {0}
    Withdrawals = {}
    InitRelBalance = 0
    None = None
    Results = {TRUE, FALSE}
    Undone = {1, 2}
    RivalSupports = {0, 2}
INVARIANTS ReceiptsWithinStake
