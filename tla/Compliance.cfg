SPECIFICATION Spec
CONSTANTS
    Checks = {k1, k2}
    Alerts = {a1}
    Calls = {c1}
    Requests = {q1}
INVARIANTS BlockHolds OnlyVerified AnsweredRecorded
PROPERTY VerdictsTakeHold
