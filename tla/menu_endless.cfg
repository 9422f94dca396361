SPECIFICATION Spec
CONSTANTS
    Menus = {m1, m2}
    Codes = {c1, c2}
    Top = Top
    MaxEdits = 1
    MaxPath = 3
    Roles = {o1}
    Requests = {r1}
INVARIANTS IndexPageEnds
