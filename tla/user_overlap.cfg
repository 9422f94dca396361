SPECIFICATION Spec
CONSTANTS
    Users = {admin, u1, u2}
    Admin = admin
    Accounts = {a1, a2}
    AdminAccount = a1
    Passwords = {p1}
    DefaultPassword = p1
    Salts = {s1, s2}
    AdminSalt = s1
    NoDigest = NoDigest
    NotSent = NotSent
    Forms <- MCForms
    Roles = {}
    Requests = {r1, r2}
INVARIANTS TypeOK
SYMMETRY Symmetric
PROPERTIES SaltsPartOnlyByEdit OnlyStatusSentOrOverlapEnables TwiceOnlyByEditReturnOrOverlap
