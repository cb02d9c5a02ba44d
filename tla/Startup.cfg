CONSTANTS
    ops = ops
    opsName = opsName
    ann = ann
    annName = annName
    script = script
    promotion = a1
    publisher = p1
    firstFlight = k1
    Nothing = Nothing
    Earlier = Earlier
    Initially <- MCInitially
    Emails = {ops, ann}
    Usernames = {opsName, annName}
    FlightKeys = {k1, k2}
    Columns = 2
    Capacity = 3
    Registrations = {r1}
    Promotions = {a1}
    Publishers = {p1}
    Servers = {server}
    Scripts = {script}
    Demos = 2
    Demo <- MCDemo
    AdminEmail <- MCAdminEmail
    AdminUsername <- MCAdminUsername
    MaxStarts <- MCMaxStarts
    MayFail = {server, p1}
SPECIFICATION MCSpec
INVARIANTS
    TypeOK
    KeysUnique
    SeededWhole
    CabinIsWhole
    RefusedOnlyIfTaken
    AdministratorsComeFromSeeding
    FailsOnlyForCause
PROPERTIES
    EveryRequestAnswered
    StartedServes
