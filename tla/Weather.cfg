CONSTANTS
    Stations = {ath, lhr}
    Requests = {r1, r2, r3}
    TTL = 1
    Patience = 1
    MaxTime = 3
SPECIFICATION FairSpec
INVARIANT TypeOK
PROPERTIES
    AnswersAreRecent
    ReadingsAreServed
    WeatherAlwaysAnswers
CHECK_DEADLOCK FALSE
