SPECIFICATION Spec
CONSTANTS
    base = base  o1 = o1
    Accounts = {base, o1}
    Zero = Zero
    Base = base
    MaxBlock = 4
    MaxNouns = 2
    Signatures <- MCSignatures
INVARIANTS TypeOK PriorVotesAreHoldings UnclaimableIsBasesOwn NobodyIsStuck
