SPECIFICATION FairSpec
CONSTANTS
    Root = "root"
    Specs <- MCSpecs
    Requirements = {"REQUIRED", "DISABLED"}
    Ids = {1, 2, 3, 4, 5, 6, 7, 8, 9}
    MaxDisturbances = 1
INVARIANTS
    TypeOK
    OnePassSuffices
PROPERTIES
    NeverTakenApart
    Converges
    Quiet
