SPECIFICATION MigratedFairSpec
CONSTANTS
    Passwords = {"p1", "p2"}
    NoPassword = "none"
    BootPassword = "boot"
    MaxToken = 0
    AdminActions = {}
PROPERTY
    IdentityResultReady
