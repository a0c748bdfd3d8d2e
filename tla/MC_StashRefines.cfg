CONSTANTS
    NPassedFds = 2
    Names = {a, b, c}
    Fds = {1, 2, 3}
    Drivers = {d1, d2}
SPECIFICATION Spec
PROPERTY StashRefinement
