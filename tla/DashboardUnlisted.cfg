CONSTANTS
    Sales = {s1, s2}
    Cancels = {c1}
    MaxDialogs = 2
    Boot = Boot
    Nobody = Nobody
SPECIFICATION Spec
INVARIANT BookedIsListed
CHECK_DEADLOCK FALSE
