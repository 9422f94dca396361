SPECIFICATION Spec
CONSTANTS
    Menus = {m1, m2, m3}
    Codes = {c1, c2, c3}
    Top = Top
    MaxEdits = 1
    MaxPath = 3
    Roles = {o1}
    Requests = {r1, r2}
INVARIANTS TypeOK SearchFindsSubtree
SYMMETRY Symmetric
PROPERTIES BrokenOnlyByEditsStopsOrOverlap GrantsDangleOnlyByOldPagesOrStops
