CONSTANTS
    Comp = {c1, c2}
    Sess = {s1, s2}
    Mid = {"m1", "m2", "m3"}
    Draws <- MCDraws
    Blocks = 2
    MaxDrops = 1
SPECIFICATION Spec
SYMMETRY Symmetric
INVARIANTS
    Accounted
