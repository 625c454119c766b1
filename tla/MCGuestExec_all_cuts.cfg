CONSTANTS
    c1 = c1
    c2 = c2
    p1 = p1
    p2 = p2
    p3 = p3
    Cmds = {c1, c2}
    Pids = {p1, p2, p3}
    Cuts <- AllCuts
    None = None
SPECIFICATION Spec
SYMMETRY Symmetric
CHECK_DEADLOCK FALSE
INVARIANT RecordsReaped
INVARIANT StaleHasCause
INVARIANT KillsOwn
