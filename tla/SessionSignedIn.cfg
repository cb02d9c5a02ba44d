CONSTANTS
    Accounts = {ann, bob}
    Logins = {l1, l2}
    Boot = Boot
    Kept = Kept
    NoToken = NoToken
    NoOne = NoOne
    MaxReloads = 1
SPECIFICATION FairSpec
CHECK_DEADLOCK FALSE
INVARIANT ShownIsSignedIn
