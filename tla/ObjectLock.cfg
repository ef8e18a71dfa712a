SPECIFICATION Spec
CONSTANTS
    Users = {"u1", "u2", "a1"}
    Admins = {"a1"}
    Callers = {c1, c2}
    Streams <- OneStream
    Ttl = 1
    MaxTtl = 2
    Ttls <- TwoTicks
    MaxClock = 2
    MaxRows = 2
SYMMETRY Handlers
INVARIANTS TypeOK AcquiredIsMine
PROPERTIES TransferToRequester NoTheft
CHECK_DEADLOCK FALSE
