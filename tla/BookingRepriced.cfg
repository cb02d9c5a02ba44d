CONSTANTS
    ann = ann
    bob = bob
    Users = {ann, bob}
    Nobody = Nobody
    NoReference = NoReference
    Buyers = {b1}
    Cancellers = {}
    Updaters = {u1}
    Deleters = {}
    Seats = {1}
    Flights = {f1}
    References = {r1}
    RefPool <- Distinct
    MaxAttempts = 1
    Fares = {1, 2}
    MayFail = {}
    stranger = b1
    firstFlight = f1
    lastSeat = 1
    Passenger <- MCPassenger
    FlightOf <- MCFlightOf
    RowKey <- MCRowKey
SPECIFICATION Spec
INVARIANT SoldAtAdvertisedFare
