SPECIFICATION Spec
CONSTANTS
    Requests = {r1, r2, r3, r4}
    Payloads = {p1, p2}
    NoRow = NoRow
    NoAnswer = NoAnswer
SYMMETRY GateSymmetry
INVARIANTS OnePayload ReplayGenuine ProcessingHasHolder
PROPERTY IsOneOperation
