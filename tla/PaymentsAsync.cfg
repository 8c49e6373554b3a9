SPECIFICATION FairSpec
CONSTANTS
    Session = {s1}
    MaxEvents = 2
    MaxMishaps = 0
PROPERTY UnpaidIsDecided
CHECK_DEADLOCK FALSE
