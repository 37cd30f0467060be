SPECIFICATION Spec
CONSTANTS
    pending = pending  settled = settled  approved = approved
    t1 = t1  t2 = t2  NoTransfer = NoTransfer
    Deliveries = {d1, d2, d3}
    Events = {pending, approved}
    StatusOf <- StatusOfEvents
    TransferOf <- TransferOfEvents
    Transfers = {t1, t2}
    PoolSize = 3
INVARIANTS AckedProcessed ProcessedDecided PublishedProcessed
PROPERTIES StaleOnlyIfOvertaken DeliveryEnds
