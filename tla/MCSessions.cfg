SPECIFICATION Spec
CONSTANTS
    adm = adm
    usr = usr
    Users <- MCUsers
    Admins <- MCAdmins
    Sessions = {s1, s2}
    Handlers = {h1, h2}
    SessionTTL = 3
    UpdateAge = 2
    ImpersonationTTL = 1
    BanTicks = 1
    MaxEvents = 2
    None = None
SYMMETRY Symmetry
INVARIANTS
    ShutOut
    ActiveStays
