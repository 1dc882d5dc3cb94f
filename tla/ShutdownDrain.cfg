SPECIFICATION Spec
CONSTANTS
    Openers = {server, cli}
    CAUsers = {server, tool}
    Server = server
    Binaries = {1, 2}
    Keys = {k1, k2, k3}
    NoKey = NoKey
    MaxRunning = 1
INVARIANT ShutdownIsGraceful
