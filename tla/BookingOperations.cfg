CONSTANTS
    ann = ann
    bob = bob
    Users = {ann, bob}
    Nobody = Nobody
    NoReference = NoReference
    Buyers = {b1}
    Cancellers = {}
    Updaters = {u1, u2}
    Deleters = {d1, d2}
    Seats = {1}
    Flights = {f1}
    References = {r1}
    RefPool <- Distinct
    MaxAttempts = 1
    Fares = {1, 2}
    MayFail = {d1, d2}
    stranger = b1
    firstFlight = f1
    lastSeat = 1
    Passenger <- MCPassenger
    FlightOf <- MCFlightOf
    RowKey <- MCRowKey
SPECIFICATION MCOperationsSpec
SYMMETRY Interchangeable
INVARIANTS
    NoLostUpdate
    CabinGoesWithFlight
