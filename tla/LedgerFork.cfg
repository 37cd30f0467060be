SPECIFICATION Spec
CONSTANTS
    avail = avail
    reserved = reserved
    fees = fees
    Accounts = {avail, reserved, fees}
    Txns = {t1, t2, t3}
    Postings <- MCPostings
    PoolSize = 2
    GenesisHash = GenesisHash
    NoTxn = NoTxn
INVARIANT NoFork
