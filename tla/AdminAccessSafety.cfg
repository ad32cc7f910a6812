SPECIFICATION Spec
CONSTANTS
    p1 = p1
    p2 = p2
    p3 = p3
    Passwords = {p1, p2, p3}
    NoPassword = NoPassword
    BootPassword = BootPassword
    MaxToken = 2
    AdminActions = {"rotate"}
SYMMETRY PasswordSymmetry
INVARIANTS
    TypeOK
    NotLockedOut
    StoresWorkingPassword
