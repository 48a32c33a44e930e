SPECIFICATION Spec
CONSTANTS
    None = None
    t1 = t1
    t2 = t2
    Threads = {t1, t2}
    Keys = {"orders", "hub", "notes"}
    Files <- MCFiles
    Submissions <- MCSubmissions
    Frames <- MCFrames
SYMMETRY Symmetry
INVARIANTS
    TypeOK
    CurrentIsRecorded
    FilesFitTheirTable
    JudgedByColumns
PROPERTY ImplementsStore
