SPECIFICATION Spec
CONSTANTS
    Req = {r1, r2}
    MaxSession = 2
    MaxAttempts = 2
    MaxExpiries = 1
INVARIANTS TypeOK OneLogin NoNeedlessLogin RunsOnce
PROPERTIES AccountsStayApart RotatesOnlyRefused
SYMMETRY Symmetry
CHECK_DEADLOCK FALSE
