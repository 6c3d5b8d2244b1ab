SPECIFICATION Spec
CONSTANTS
    a = a
    b = b
    Dirs = {a, b}
    Under <- Below
    Names = {n1, n2}
    Nested = {n2}
    Uploads = {u1, u2}
    None = None
    MinAge = 2
PROPERTY ReaperSparesCommitted
