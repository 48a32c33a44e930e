SPECIFICATION Spec
CONSTANTS
    None = None
    Users = {u1, u2}
    Cells = {c1}
    Capacity = 1
    Chunks = 2
    MaxEdits = 2
    MaxSaves = 2
SYMMETRY Symmetry
PROPERTY EditsGraduate
