CONSTANTS
    Nobody = Nobody
    Request = {r1, r2, r3}
    Slots = 2
    Operation <- Calls
SPECIFICATION Spec
SYMMETRY Symmetry
INVARIANTS
    WriterNeverWaits
    SomeoneRuns
    NoStaleWrite
