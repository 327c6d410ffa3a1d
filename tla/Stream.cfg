\* Two keys, one of them or both failing, three Puts and two collectors.
CONSTANTS
    err = err
    none = none
    Key <- MCKey
    Path <- MCPath
    Absent <- none
    MaxPut = 3
    MaxStore = 2
    MaxFlight = 1
SPECIFICATION Spec
PROPERTIES
    Follows
    ProblemFollows
    NoHotRetry
