SPECIFICATION MCSpec
CONSTANTS
    Calls = {a, b}
    Ops = {"login", "complete", "setup", "confirm", "disable", "refresh", "logout", "change", "admin", "forgot", "reset", "invite"}
    CodesPerUser = 2
    MaxFailures = 2
    MaxTries = 3
    MaxOps = 5
    MaxFaults = 1
INVARIANT CredentialsSound
INVARIANT GuessesBounded
INVARIANT RefreshKeepsSignIn
INVARIANT OnlyRacesSurvive
SYMMETRY Symmetry
CHECK_DEADLOCK FALSE
