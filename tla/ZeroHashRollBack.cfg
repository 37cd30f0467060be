SPECIFICATION Spec
CONSTANTS
    pending = pending  settled = settled  approved = approved
    t1 = t1  t2 = t2  NoTransfer = NoTransfer
    Deliveries = {d1, d2}
    Events = {pending, settled}
    StatusOf <- StatusOfEvents
    TransferOf <- TransferOfEvents
    Transfers = {t1, t2}
    PoolSize = 3
PROPERTY NeverRollBack
