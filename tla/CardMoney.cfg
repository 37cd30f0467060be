SPECIFICATION Spec
CONSTANTS
    Requests = {r1, r2}
    Instances = {i1, i2}
    ClientKey = ClientKey
    NoAnswer = NoAnswer
    NoRow = NoRow
SYMMETRY CardSymmetry
INVARIANTS ChargedOnce AcceptedRecorded NothingAfterAnswer StatusGenuine
