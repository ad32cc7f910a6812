SPECIFICATION FairSpec
CONSTANTS
    Root = "root"
    Specs <- MovedSpecs
    Requirements = {"REQUIRED", "DISABLED"}
    Ids = {1, 2, 3, 4, 5, 6, 7, 8, 9}
    MaxDisturbances = 1
PROPERTY
    Authoritative
