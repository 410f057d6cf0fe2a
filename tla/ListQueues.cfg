CONSTANTS
    Nobody = Nobody
    Request = {r1, r2, r3}
    Slots = 2
    Operation <- Listers
SPECIFICATION Spec
SYMMETRY Symmetry
INVARIANTS
    SomeoneRuns
