\* Three keys compete for two places while the clock moves both ways.
SPECIFICATION Spec
CONSTANTS
    Keys = {k1, k2, k3}
    Revisions = {r1, r2}
    Times <- MCTimes
    Capacity = 2
    None = None
SYMMETRY Symmetry
PROPERTIES
    KeepsContract
