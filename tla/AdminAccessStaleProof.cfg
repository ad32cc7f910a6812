SPECIFICATION FreshSpec
CONSTANTS
    Passwords = {"p1", "p2", "p3"}
    NoPassword = "none"
    BootPassword = "boot"
    MaxToken = 2
    AdminActions = {"rotate"}
INVARIANT
    DisableIsSafe
