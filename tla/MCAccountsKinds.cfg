CONSTANTS
    Kinds = {"admin", "user"}
    MaxId = 1
    Emails = {e1}
    Passwords = {p1, p2}
    Requests = {r1, r2}
    None = None
    r1 = r1
    r2 = r2
    e1 = e1
    e2 = e2
    p1 = p1
    p2 = p2
SPECIFICATION Spec
SYMMETRY Symmetry
INVARIANTS LatestPasswordWorks LinksActOnTheirAccount
