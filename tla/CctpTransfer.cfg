SPECIFICATION Spec
CONSTANTS
    Posts = {p1, p2}
    Patches = {q1, q2}
    Burns = {b1, b2}
    VaultTxs = {v1}
    NoRow = NoRow
    NoHash = NoHash
INVARIANTS MintedByRelay OneRelayPerBurn PendingHasPipeline
PROPERTIES FollowsLifecycle PipelineEnds
CHECK_DEADLOCK FALSE
