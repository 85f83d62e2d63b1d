SPECIFICATION DoorsSpec
CONSTANTS
    adm = adm
    usr = usr
    t1 = t1
    t2 = t2
    t3 = t3
    Users <- MCUsers
    Admins <- MCAdmins
    Service = svc
    Projects = {1, 2}
    Tokens <- MCTokens
    Handlers = {h1}
    MaxChanges = 2
    Own = Own
    Name = Name
    None = None
SYMMETRY Symmetry
INVARIANTS
    InBounds
    LineHeld
    DoorsAgree
