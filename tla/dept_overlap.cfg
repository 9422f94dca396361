SPECIFICATION Spec
CONSTANTS
    Depts = {d1, d2, d3}
    Top = Top
    MaxPath = 3
    Requests = {r1, r2}
INVARIANTS TypeOK PathsAreRooted ScopeIsSubtree
SYMMETRY Symmetric
PROPERTIES BrokenOnlyByMovesOrOverlap
