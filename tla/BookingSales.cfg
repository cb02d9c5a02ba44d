CONSTANTS
    ann = ann
    bob = bob
    Users = {ann, bob}
    Nobody = Nobody
    NoReference = NoReference
    Buyers = {b1, b2}
    Cancellers = {c1, c2}
    Updaters = {}
    Deleters = {d1}
    Seats = {1, 2}
    Flights = {f1}
    References = {r1, r2}
    RefPool <- Distinct
    MaxAttempts = 2
    Fares = {1}
    MayFail = {b1, c1, d1}
    stranger = b2
    firstFlight = f1
    lastSeat = 2
    Passenger <- MCPassenger
    FlightOf <- MCFlightOf
    RowKey <- MCRowKey
SPECIFICATION Spec
INVARIANTS
    ConfirmedHoldsSeat
    OrdinarySaleNeverDeadlocks
    CabinGoesWithFlight
PROPERTY SeatSalesImplemented
