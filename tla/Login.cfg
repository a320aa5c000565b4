\* Two logins at once with a right and a wrong PIN on one tablet, three attempts.
SPECIFICATION FairSpec
CONSTANTS
    r1 = r1
    r2 = r2
    Requests = {r1, r2}
    Devices = {"tablet"}
    NoDevice = NoDevice
    Pins = {"1111", "2222"}
    MaxAttempts = 3
    LockFor = 2
    MaxLost = 1
INVARIANTS
    GuessesBounded
    RevokedIsTrue
PROPERTIES
    LockEnds
