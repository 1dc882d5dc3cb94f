SPECIFICATION Spec
CONSTANTS
    Openers = {server, cli}
    CAUsers = {server, tool}
    Server = server
    Binaries = {2, 3}
    Keys = {k1, k2, k3}
    NoKey = NoKey
    MaxRunning = 1
INVARIANTS
    MigrationsAreGapless
    CreatedKeySurvives
    ServingIsReady
    NoStartNeedsRepair
PROPERTIES
    StartupDecides
    ServerStops
