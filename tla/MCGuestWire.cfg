CONSTANTS
    c1 = c1
    c2 = c2
    Callers = {c1, c2}
    MaxDials = 4
    MaxCalls = 4
    Nobody = Nobody
SPECIFICATION WireSpec
SYMMETRY Symmetric
INVARIANT OwnReply
INVARIANT QuietWhenIdle
