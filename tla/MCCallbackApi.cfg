CONSTANTS
    Callback = {c1}
    Replica = {r1, r2}
    Request = {q1, q2}
    Slot = {s1}
    Ops = {"fire", "firePending", "hold", "cancel", "clear"}
    Delays = {1}
    Cap = 0
    MaxCrashes = 1
    MaxErrors = 1
    None = None
SYMMETRY Symmetry
SPECIFICATION Spec
INVARIANTS AtMostOnce CancelIsFinal HeldWaits NotFoundIsFinal OneWinner
