CONSTANTS
    ann = ann
    bob = bob
    Users = {ann, bob}
    Nobody = Nobody
    NoReference = NoReference
    Buyers = {b1, b2, b3}
    Cancellers = {}
    Updaters = {}
    Deleters = {}
    Seats = {1, 2}
    Flights = {f1}
    References = {r1, r2, r3}
    RefPool <- Shared
    MaxAttempts = 2
    Fares = {1}
    MayFail = {}
    stranger = b1
    firstFlight = f1
    lastSeat = 2
    Passenger <- MCPassenger
    FlightOf <- MCFlightOf
    RowKey <- MCRowKey
SPECIFICATION Spec
INVARIANT ConfirmedHoldsSeat
