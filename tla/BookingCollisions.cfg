CONSTANTS
    ann = ann
    bob = bob
    Users = {ann, bob}
    Nobody = Nobody
    NoReference = NoReference
    Buyers = {b1, b2}
    Cancellers = {c1}
    Updaters = {}
    Deleters = {d1}
    Seats = {1, 2}
    Flights = {f1}
    References = {r1, r2}
    RefPool <- Shared
    MaxAttempts = 2
    Fares = {1}
    MayFail = {}
    stranger = c2
    firstFlight = f1
    lastSeat = 2
    Passenger <- MCPassenger
    FlightOf <- MCFlightOf
    RowKey <- MCRowKey
SPECIFICATION FairSpec
INVARIANTS
    TypeOK
    BookedSeatIsSold
    OneSeatPerBooking
    ReferencesUnique
    BookingsKeepFlight
PROPERTY EveryRequestAnswered
