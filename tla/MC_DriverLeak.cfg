CONSTANTS
    NPassedFds = 1
    Fds = {1, 2, 3}
    Drivers = {d1, d2}
    SockPaths = {p}
    HostPorts = {h, x}
    BadHosts = {x}
    StashNames = {a}
    MaxOpens = 2
SPECIFICATION Spec
INVARIANT NoResourceLeak
CHECK_DEADLOCK FALSE
