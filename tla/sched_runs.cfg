SPECIFICATION Spec
CONSTANTS
    Tasks = {k1}
    Reqs = {q1}
    Jobs = {j1, j2}
    MaxStops = 1
SYMMETRY Symmetry
INVARIANTS RunCountSound RunRowsTruthful
