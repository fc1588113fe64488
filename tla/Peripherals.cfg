CONSTANTS
    c1 = c1  c2 = c2  c3 = c3  c4 = c4  h1 = h1  h2 = h2  h3 = h3
    i1 = i1  i2 = i2
    Calls = {c1, c2, c3, c4}
    Ids = {i1, i2}
    Handles = {h1, h2, h3}
    NoHandle = NoHandle
SYMMETRY CallSymmetry
SPECIFICATION Spec
INVARIANTS StoredIsOpen NoLeak OperatesOnOpen
