SPECIFICATION Spec
CONSTANTS
    N = 3
    Item = {a, b}
    None = None
INVARIANT RingInv
PROPERTY ImplementsFifo
