CONSTANTS
    Sales = {s1, s2}
    Cancels = {c1}
    MaxDialogs = 2
    Boot = Boot
    Nobody = Nobody
SPECIFICATION FairSpec
INVARIANTS
    TypeOK
    ListIsNeverAhead
    OneBookingPerDialog
    GoodNewsIsTrue
    ErrorsStayWithTheirDialog
PROPERTY DialogIsGivenBack
CHECK_DEADLOCK FALSE
