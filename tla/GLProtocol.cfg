SPECIFICATION Spec
CONSTANTS
    Threads = {t1, t2}
    NoThread = NoThread
    Slots = 2
    Commands = 3
    Shapes <- GLShapes
SYMMETRY Symmetry
CHECK_DEADLOCK FALSE
INVARIANTS
    ProtocolInv
    PayloadIsOwn
    CopyIsOwn
    LateReadIsOwn
