SPECIFICATION Spec
CONSTANTS
    c1 = c1  c2 = c2  c3 = c3  k1 = k1  k2 = k2  q1 = q1
    Calls = {c1, c2, c3}
    Keys = {k1, k2}
    Quotes = {q1}
    KeyOf <- KeyOfCalls
    QuoteOf <- SameQuote
    TravelRuled = {q1}
    QuoteRows = {q1}
    NoReservation = NoReservation
    NoOrder = NoOrder
    NoTransfer = NoTransfer
INVARIANTS PayoutReserved AnsweredOrderStands
PROPERTIES FollowsSaga CallEnds
CHECK_DEADLOCK FALSE
